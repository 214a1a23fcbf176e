---------------------------- MODULE ProviderWalk ----------------------------
(***************************************************************************)
(* What a resource manager promises the providers and the loads, whatever  *)
(* lists, iterators and threads it works with: a load walks the providers  *)
(* in their order and asks each one that is present when its turn comes;   *)
(* it waits for the one it has asked; only that one, while it is present,  *)
(* can supply the handler.  A provider that is withdrawn is not asked, has *)
(* no say any more, and does not come back.  ResourceManager implements    *)
(* this.                                                                   *)
(***************************************************************************)
CONSTANTS Loads, Providers, NoProvider, Earlier(_, _)

VARIABLES
  present, gone,  \* the providers to be asked, and those withdrawn
  status,         \* of each load, see WalkTypeOK
  turn,           \* of each load on its way, the provider asked last
  asked,          \* of each load, those that had their turn
  handler,        \* of each load, the provider whose handler it gets
  closed          \* whether the manager is deleted

walkVars == <<present, gone, status, turn, asked, handler, closed>>

(* A load is "open" to the answer of the provider it asked; it was "passed" on
   or "answered" by it, or "stopped" from outside; then it is "over" and, once
   its handler is fetched, "served". *)
WalkTypeOK ==
  /\ present \subseteq Providers /\ gone \subseteq Providers
  /\ status \in [Loads -> {"new", "open", "passed", "answered", "stopped", "over", "served"}]
  /\ turn \in [Loads -> Providers \cup {NoProvider}]
  /\ asked \in [Loads -> SUBSET Providers]
  /\ handler \in [Loads -> Providers \cup {NoProvider}]
  /\ closed \in BOOLEAN

WalkInit ==
  /\ present = {} /\ gone = {}
  /\ status = [l \in Loads |-> "new"]
  /\ turn = [l \in Loads |-> NoProvider]
  /\ asked = [l \in Loads |-> {}]
  /\ handler = [l \in Loads |-> NoProvider]
  /\ closed = FALSE

Add(p) ==
  /\ ~closed /\ p \notin present \cup gone
  /\ present' = present \cup {p}
  /\ UNCHANGED <<gone, status, turn, asked, handler, closed>>

(* The loads that wait for a provider in S are told to pass it, or to stop. *)
Withdraw(S, told) ==
  /\ ~closed
  /\ present' = present \ S /\ gone' = gone \cup S
  /\ status' = [l \in Loads |-> IF status[l] = "open" /\ turn[l] \in S THEN told ELSE status[l]]
  /\ UNCHANGED <<turn, asked, handler, closed>>

Delete ==
  /\ ~closed /\ closed' = TRUE
  /\ present' = {} /\ gone' = gone \cup present
  /\ status' = [l \in Loads |-> IF status[l] = "open" THEN "stopped" ELSE status[l]]
  /\ handler' = [l \in Loads |-> NoProvider]
  /\ UNCHANGED <<turn, asked>>

(* The providers whose turn is still to come. *)
Behind(l) == {p \in present : turn[l] = NoProvider \/ Earlier(turn[l], p)}

(* The first of them to take the load, when those before it have declined. *)
Ask(l, p) ==
  /\ status[l] \in {"new", "passed"} /\ p \in Behind(l)
  /\ \E s \in {"open", "passed", "answered"} : status' = [status EXCEPT ![l] = s]
  /\ turn' = [turn EXCEPT ![l] = p]
  /\ asked' = [asked EXCEPT ![l] = @ \cup {q \in Behind(l) : q = p \/ Earlier(q, p)}]
  /\ UNCHANGED <<present, gone, handler, closed>>

End(l) ==
  /\ status' = [status EXCEPT ![l] = "over"]
  /\ turn' = [turn EXCEPT ![l] = NoProvider]

(* All of them have declined. *)
Exhaust(l) ==
  /\ status[l] \in {"new", "passed"} /\ End(l)
  /\ asked' = [asked EXCEPT ![l] = @ \cup Behind(l)]
  /\ UNCHANGED <<present, gone, handler, closed>>

TakeHandler(l) ==
  /\ ~closed /\ status[l] = "answered" /\ End(l)
  /\ handler' = [handler EXCEPT ![l] = turn[l]]
  /\ UNCHANGED <<present, gone, asked, closed>>

(* A load that was stopped, or that nobody is there to serve, gets none. *)
GiveUp(l) ==
  /\ status[l] = "stopped" \/ (closed /\ status[l] \in {"passed", "answered"})
  /\ End(l)
  /\ UNCHANGED <<present, gone, asked, handler, closed>>

(* A provider that is present answers some of the loads that wait for it. *)
Answer(p, S, s) ==
  /\ p \in present /\ S \subseteq {l \in Loads : status[l] = "open" /\ turn[l] = p}
  /\ status' = [l \in Loads |-> IF l \in S THEN s ELSE status[l]]
  /\ UNCHANGED <<present, gone, turn, asked, handler, closed>>

(* CEF fetches the handler; what the load was asked is forgotten. *)
Fetch(l) ==
  /\ ~closed /\ status[l] = "over"
  /\ status' = [status EXCEPT ![l] = "served"]
  /\ asked' = [asked EXCEPT ![l] = {}]
  /\ handler' = [handler EXCEPT ![l] = NoProvider]
  /\ UNCHANGED <<present, gone, turn, closed>>

WalkNext ==
  \/ \E p \in Providers : Add(p)
  \/ \E S \in SUBSET present, told \in {"passed", "stopped"} : Withdraw(S, told)
  \/ Delete
  \/ \E l \in Loads : (\E p \in Providers : Ask(l, p)) \/ Exhaust(l) \/ TakeHandler(l) \/ GiveUp(l) \/ Fetch(l)
  \/ \E p \in Providers, S \in SUBSET Loads, s \in {"passed", "answered"} : Answer(p, S, s)

WalkSpec == WalkInit /\ [][WalkNext]_walkVars
=============================================================================
