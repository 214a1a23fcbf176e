---------------------------- MODULE BrowserSlot ----------------------------
(***************************************************************************)
(* What a web view promises to the code around it, whatever CEF's browsers *)
(* and callbacks look like inside: each view is a slot for one browser,    *)
(* which is opened, closed and emptied again before the next one, and the  *)
(* view is called back only while it is attached.  WebViewLifecycle        *)
(* implements this when the program waits for OnAfterCreated and DevTools  *)
(* stays closed.                                                           *)
(***************************************************************************)
CONSTANT Views

VARIABLES
  slot,      \* of each view: "empty", "opening", "open" or "closing"
  attached   \* of each view: whether its callbacks are delivered

slotVars == <<slot, attached>>

SlotTypeOK ==
  /\ slot \in [Views -> {"empty", "opening", "open", "closing"}]
  /\ attached \in [Views -> BOOLEAN]

SlotInit ==
  /\ slot = [v \in Views |-> "empty"]
  /\ attached = [v \in Views |-> FALSE]

(* Only an empty slot is opened, and opening it attaches the view. *)
AskOpen(v) ==
  /\ slot[v] = "empty"
  /\ slot' = [slot EXCEPT ![v] = "opening"]
  /\ attached' = [attached EXCEPT ![v] = TRUE]

Arrive(v) ==
  /\ slot[v] = "opening"
  /\ slot' = [slot EXCEPT ![v] = "open"]
  /\ UNCHANGED attached

(* The view lets go: an open slot starts closing in the same step, and a
   slot that is opening cannot be let go of. *)
LetGo(v) ==
  /\ slot[v] # "opening"
  /\ slot' = [slot EXCEPT ![v] = IF @ = "open" THEN "closing" ELSE @]
  /\ attached' = [attached EXCEPT ![v] = FALSE]

(* The page closes on its own; the view stays attached. *)
PageCloses(v) ==
  /\ slot[v] = "open"
  /\ slot' = [slot EXCEPT ![v] = "closing"]
  /\ UNCHANGED attached

Leave(v) ==
  /\ slot[v] = "closing"
  /\ slot' = [slot EXCEPT ![v] = "empty"]
  /\ UNCHANGED attached

SlotNext ==
  \E v \in Views : AskOpen(v) \/ Arrive(v) \/ LetGo(v) \/ PageCloses(v) \/ Leave(v)

SlotSpec == SlotInit /\ [][SlotNext]_slotVars
=============================================================================
