---------------------------- MODULE MCMouseInput ----------------------------
(* MouseInput with two browsers that may replace each other, two buttons, two
   neighbouring places in the view, one just outside it that is near only the
   first of them, a popup over the other place or none, a clock of six ticks,
   and clicks that are multiple within one tick: the next tick is too late, and
   the clock passes both zero and its end. *)
EXTENDS MouseInput, TLC

At(px, py) == [x |-> px, y |-> py]

InsidePositions == {At(0, 0), At(1, 0)}
AllPositions == InsidePositions \cup {At(-1, 0)}
Corner == At(0, 0)
Outside == At(-1, 0)

NoPopupAndPopup ==
  {[covers |-> {}, shifted |-> FALSE], [covers |-> {At(1, 0)}, shifted |-> TRUE]}

Symmetry == Permutations(Browsers)
=============================================================================
