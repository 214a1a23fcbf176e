------------------------ MODULE MCWebViewLifecycle ------------------------
(* WebViewLifecycle with two views, or one, and room for three browsers. *)
EXTENDS WebViewLifecycle

NoGarbage == {0}
=============================================================================
