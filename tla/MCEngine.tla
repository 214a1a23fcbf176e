------------------------------ MODULE MCEngine ------------------------------
(* Engine with its one web view and room for three browsers.  The garbage
   browser_opened_ may start from stands for any int. *)
EXTENDS Engine

NoGarbage == {0}
SomeGarbage == {0, 5}
=============================================================================
