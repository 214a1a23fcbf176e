----------------------------- MODULE MCOsrView ------------------------------
(* OsrView at 150 per cent, with two browsers of Open's and one of DevTools.
   One popup that hangs over two edges of the one size of the widget, for the
   painting; for the places of popups two sizes, and popups that fit, that hang
   over, that are larger than the small widget, and one CEF has given no size
   yet. *)
EXTENDS OsrView

OneSize == {[width |-> 9, height |-> 9]}

TwoSizes == OneSize \cup {[width |-> 6, height |-> 4]}

OnePopup == {Rect(5, 5, 2, 2)}

SomePopups == OnePopup \cup {Rect(1, 2, 2, 2), Rect(-1, 1, 5, 1), Rect(2, 2, 0, 0)}

SomePoints == {[x |-> x, y |-> y] : x \in 0..8, y \in 0..8}
=============================================================================
