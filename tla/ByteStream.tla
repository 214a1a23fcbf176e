----------------------------- MODULE ByteStream -----------------------------
(***************************************************************************)
(* What a resource handler promises CEF (cef_resource_handler.h), whatever *)
(* the handler keeps: the bytes of one response arrive in order and in     *)
(* non-empty pieces, and the response completes only when all of it has    *)
(* arrived.  Responses do not disturb each other.                          *)
(***************************************************************************)
EXTENDS SequencesExt

CONSTANT Requests

VARIABLES
  whole,     \* of each request: the response it is to get
  arrived,   \* of each request: the bytes CEF has been handed
  outcome    \* of each request: "open", "complete" or "dropped"

streamVars == <<whole, arrived, outcome>>

StreamInit ==
  /\ whole = [r \in Requests |-> <<>>]
  /\ arrived = [r \in Requests |-> <<>>]
  /\ outcome = [r \in Requests |-> "open"]

(* The response is settled once, before any of it arrives. *)
Settle(r) ==
  /\ whole[r] = <<>>
  /\ whole'[r] # <<>>
  /\ whole' = [whole EXCEPT ![r] = whole'[r]]
  /\ UNCHANGED <<arrived, outcome>>

(* The next piece of it arrives; the last piece may complete it. *)
Deliver(r) ==
  /\ IsStrictPrefix(arrived[r], arrived'[r])
  /\ IsPrefix(arrived'[r], whole[r])
  /\ arrived' = [arrived EXCEPT ![r] = arrived'[r]]
  /\ \/ UNCHANGED outcome
     \/ arrived'[r] = whole[r] /\ outcome' = [outcome EXCEPT ![r] = "complete"]
  /\ UNCHANGED whole

(* Nothing is left to arrive. *)
Complete(r) ==
  /\ whole[r] # <<>> /\ arrived[r] = whole[r]
  /\ outcome' = [outcome EXCEPT ![r] = "complete"]
  /\ UNCHANGED <<whole, arrived>>

Drop(r) ==
  /\ outcome' = [outcome EXCEPT ![r] = "dropped"]
  /\ UNCHANGED <<whole, arrived>>

StreamNext ==
  \E r \in Requests :
    outcome[r] = "open" /\ (Settle(r) \/ Deliver(r) \/ Complete(r) \/ Drop(r))

StreamSpec == StreamInit /\ [][StreamNext]_streamVars
=============================================================================
