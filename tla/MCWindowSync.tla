---------------------------- MODULE MCWindowSync ----------------------------
(* WindowSync at 150 per cent, with two browsers of Open's and one of DevTools:
   the empty widget, and a size that does not survive the rounding. *)
EXTENDS WindowSync

SomeSizes == {EmptySize, [width |-> 6, height |-> 4]}
=============================================================================
