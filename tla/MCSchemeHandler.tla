-------------------------- MODULE MCSchemeHandler --------------------------
(* SchemeHandler with a page of three bytes, an image of two, one address
   that names both, one that names neither, and two requests at a time. *)
EXTENDS SchemeHandler

Page == [u \in Urls |-> <<"h", "t", "h">>]
Image == <<"p", "q">>
Alphabet == {"h", "t", "p", "q"}
=============================================================================
