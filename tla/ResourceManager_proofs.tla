----------------------- MODULE ResourceManager_proofs -----------------------
(***************************************************************************)
(* Proofs about ResourceManager, for any number of loads and any number of *)
(* providers of any kind, order and identifier.                            *)
(***************************************************************************)
EXTENDS ResourceManager, TLAPS

(* The list is sorted by order and, within an order, by time of addition. *)
ListInv ==
  /\ \A p, q \in Providers : q < p /\ entry[p] # "new" => entry[q] # "new"
  /\ \A p, q \in Providers : <<p, q>> \in before => entry[p] # "new" /\ entry[q] # "new"
  /\ \A p, q \in InList : <<p, q>> \in before <=> CallsBefore(p, q)
  /\ \A p \in Providers : entry[p] = "new" => pending_requests_[p] = {}

(* A load stands at the last provider that was asked; the ones it has still to
   be offered to stand behind it. *)
LoadInv(l) ==
  /\ stage[l] = "new" => /\ current_entry_pos_[l] = NULL
                         /\ visited[l] = {} /\ cancelled[l] = {} /\ offered[l] = {}
  /\ stage[l] # "over" => pending_handlers_[l] = NULL
  /\ \A p \in offered[l] : entry[p] # "new"
  /\ cancelled[l] \subseteq visited[l]
  /\ UnderWay(l) =>
       /\ current_entry_pos_[l] \in visited[l]
       /\ \A p \in visited[l] : p = current_entry_pos_[l] \/ CallsBefore(p, current_entry_pos_[l])
  /\ stage[l] = "held" => current_entry_pos_[l] \notin cancelled[l]
  /\ stage[l] \in {"held", "next"} =>
       \A p \in offered[l] \cap Valid : p \in visited[l] \/ CallsBefore(current_entry_pos_[l], p)
  /\ stage[l] = "stop" /\ manager # "removing" => offered[l] \cap Valid = {}

(* Nothing is left of a manager that was deleted. *)
GoneInv == manager = "deleted" => InList = {} /\ \A l \in Loads : stage[l] # "held"

Inv ==
  /\ TypeOK /\ NoDanglingEntry /\ CancelledIsIgnored /\ NobodySkipped
  /\ ListInv /\ GoneInv
  /\ \A l \in Loads : LoadInv(l)

-----------------------------------------------------------------------------
(* CallsBefore is a strict total order. *)
LEMMA CallsBeforeOrder ==
  /\ \A p \in Providers : ~CallsBefore(p, p)
  /\ \A p, q, r \in Providers : CallsBefore(p, q) /\ CallsBefore(q, r) => CallsBefore(p, r)
  /\ \A p, q \in Providers : p # q => CallsBefore(p, q) \/ CallsBefore(q, p)
BY OrderAssumption, MaxProvidersAssumption DEF CallsBefore, Providers

LEMMA NullIsNoProvider == NULL \notin Providers
BY MaxProvidersAssumption DEF NULL, Providers

(* What moving a load to another entry does to the list: only the entry it
   leaves may go, and only if its deletion was pending. *)
LEMMA DetachKeepsList ==
  ASSUME Inv, NEW l \in Loads, NEW q \in Valid \cup {NULL}, Detach(l, q), before' = before
  PROVE  /\ entry' \in [Providers -> {"new", "listed", "deletion_pending", "deleted"}]
         /\ pending_requests_' \in [Providers -> SUBSET Loads]
         /\ current_entry_pos_' \in [Loads -> Providers \cup {NULL}]
         /\ Valid' = Valid /\ InList' \subseteq InList
         /\ \A p \in Providers : entry'[p] = "new" <=> entry[p] = "new"
         /\ ListInv'
<1>1. entry' \in [Providers -> {"new", "listed", "deletion_pending", "deleted"}]
  BY DEF Inv, TypeOK, Detach
<1>2. /\ pending_requests_' \in [Providers -> SUBSET Loads]
      /\ current_entry_pos_' \in [Loads -> Providers \cup {NULL}]
  BY DEF Inv, TypeOK, Detach, Valid
<1>3. /\ Valid' = Valid /\ InList' \subseteq InList
      /\ \A p \in Providers : entry'[p] = "new" <=> entry[p] = "new"
  BY DEF Inv, TypeOK, Detach, Valid, InList
<1>4. ASSUME NEW p \in Providers, entry'[p] = "new" PROVE pending_requests_'[p] = {}
  <2>1. entry[p] = "new" /\ pending_requests_[p] = {} /\ p # q
    BY <1>3, <1>4, NullIsNoProvider DEF Inv, ListInv, Valid
  <2> QED BY <2>1 DEF Detach
<1>5. ListInv'
  BY <1>3, <1>4 DEF Inv, ListInv, InList, CallsBefore
<1> QED BY <1>1, <1>2, <1>3, <1>5

(* A load that ends, wherever it stood: StopRequest. *)
LEMMA StopRequestInv ==
  ASSUME Inv, manager = "alive", NEW l \in Loads, StopRequest(l),
         UNCHANGED <<manager, before, cancelled>>,
         stage[l] # "new" \/ current_entry_pos_[l] = NULL,
         offered' \in [Loads -> SUBSET Providers],
         visited' \in [Loads -> SUBSET Providers],
         pending_handlers_' \in [Loads -> Providers \cup {NULL}],
         \A k \in Loads \ {l} : /\ offered'[k] = offered[k] /\ visited'[k] = visited[k]
                                /\ pending_handlers_'[k] = pending_handlers_[k],
         \A p \in offered'[l] : entry[p] # "new",
         cancelled[l] \subseteq visited'[l],
         pending_handlers_'[l] \notin cancelled[l],
         pending_handlers_'[l] = NULL => offered'[l] \cap Valid \subseteq visited'[l],
         stage[l] \in {"new"} \cup {"held"} \cup Posted
  PROVE  Inv'
<1> DEFINE old == current_entry_pos_[l]
<1>0. Detach(l, NULL) /\ stage' = [stage EXCEPT ![l] = "over"] /\ UNCHANGED providerVars
  BY DEF StopRequest
<1>1. /\ entry' \in [Providers -> {"new", "listed", "deletion_pending", "deleted"}]
      /\ pending_requests_' \in [Providers -> SUBSET Loads]
      /\ current_entry_pos_' \in [Loads -> Providers \cup {NULL}]
      /\ Valid' = Valid /\ InList' \subseteq InList
      /\ \A p \in Providers : entry'[p] = "new" <=> entry[p] = "new"
      /\ ListInv'
  <2>1. Detach(l, NULL) /\ before' = before
    BY <1>0
  <2> QED BY <2>1, DetachKeepsList
<1>2. TypeOK'
  BY <1>0, <1>1 DEF Inv, TypeOK, providerVars, Stages
<1>3. \A k \in Loads \ {l} : stage'[k] = stage[k] /\ current_entry_pos_'[k] = current_entry_pos_[k]
  BY <1>0 DEF Inv, TypeOK, Detach
<1>4. stage'[l] = "over" /\ current_entry_pos_'[l] = NULL
  BY <1>0 DEF Inv, TypeOK, Detach
<1>5. \A p \in Providers : pending_requests_'[p] = IF p = old THEN pending_requests_[p] \ {l} ELSE pending_requests_[p]
  BY <1>0, NullIsNoProvider DEF Detach
<1>6. \A p \in Providers : entry'[p] = IF p = old /\ entry[p] = "deletion_pending" /\ pending_requests_[p] \subseteq {l}
                                        THEN "deleted" ELSE entry[p]
  BY <1>0 DEF Detach
<1>7. NoDanglingEntry'
  <2>1. \A k \in Loads : UnderWay(k)' <=> k # l /\ UnderWay(k)
    BY <1>3, <1>4 DEF UnderWay, Posted
  <2>2. ASSUME NEW k \in Loads, UnderWay(k)' PROVE current_entry_pos_'[k] \in InList'
    <3>1. k # l /\ UnderWay(k) /\ current_entry_pos_'[k] = current_entry_pos_[k]
      BY <2>1, <2>2, <1>3
    <3>2. current_entry_pos_[k] \in InList /\ k \in pending_requests_[current_entry_pos_[k]]
      BY <3>1 DEF Inv, NoDanglingEntry
    <3> QED BY <3>1, <3>2, <1>6 DEF InList
  <2>3. ASSUME NEW p \in InList'
        PROVE  pending_requests_'[p] = {k \in Loads : UnderWay(k)' /\ current_entry_pos_'[k] = p}
    <3>1. p \in InList /\ p \in Providers
      BY <1>1 DEF InList
    <3>2. pending_requests_[p] = {k \in Loads : UnderWay(k) /\ current_entry_pos_[k] = p}
      BY <3>1 DEF Inv, NoDanglingEntry
    <3>3. p # old => l \notin pending_requests_[p]
      BY <3>2
    <3>4. ASSUME NEW k \in Loads
          PROVE  k \in pending_requests_'[p] <=> UnderWay(k)' /\ current_entry_pos_'[k] = p
      <4>1. UnderWay(k)' <=> k # l /\ UnderWay(k)
        BY <2>1
      <4>2. k \in pending_requests_'[p] <=> k \in pending_requests_[p] /\ k # l
        BY <3>1, <3>3, <1>5
      <4>3. k \in pending_requests_[p] <=> UnderWay(k) /\ current_entry_pos_[k] = p
        BY <3>2
      <4>4. k # l => current_entry_pos_'[k] = current_entry_pos_[k]
        BY <1>3
      <4> QED BY <4>1, <4>2, <4>3, <4>4
    <3>5. pending_requests_'[p] \subseteq Loads
      BY <3>1, <1>1
    <3> QED BY <3>4, <3>5
  <2>4. ASSUME NEW p \in Providers, entry'[p] = "deletion_pending" PROVE pending_requests_'[p] # {}
    <3>1. entry[p] = "deletion_pending" /\ pending_requests_[p] # {}
      BY <2>4, <1>6 DEF Inv, NoDanglingEntry
    <3> QED BY <2>4, <3>1, <1>5, <1>6
  <2> QED BY <2>2, <2>3, <2>4 DEF NoDanglingEntry
<1>8. CancelledIsIgnored'
  BY <1>3, <1>4 DEF Inv, CancelledIsIgnored
<1>9. NobodySkipped'
  BY <1>1, <1>3, <1>4 DEF Inv, NobodySkipped
<1>10. GoneInv'
  BY DEF GoneInv
<1>11. ASSUME NEW k \in Loads PROVE LoadInv(k)'
  <2>1. CASE k = l
    BY <2>1, <1>1, <1>4 DEF Inv, TypeOK, LoadInv, UnderWay, Posted
  <2>2. CASE k # l
    BY <2>2, <1>1, <1>3 DEF Inv, TypeOK, LoadInv, UnderWay, CallsBefore
  <2> QED BY <2>1, <2>2
<1> QED BY <1>1, <1>2, <1>7, <1>8, <1>9, <1>10, <1>11 DEF Inv

(* A load taken by a valid provider behind all that were asked before. *)
LEMMA TakeInv ==
  ASSUME Inv, manager = "alive", NEW l \in Loads, NEW q \in Valid,
         q # current_entry_pos_[l], OnRequest(l, q), Detach(l, q),
         UNCHANGED <<manager, before, pending_handlers_, cancelled>>,
         stage[l] # "new" \/ current_entry_pos_[l] = NULL,
         offered' \in [Loads -> SUBSET Providers],
         visited' \in [Loads -> SUBSET Providers],
         \A k \in Loads \ {l} : offered'[k] = offered[k] /\ visited'[k] = visited[k],
         \A p \in offered'[l] : entry[p] # "new",
         q \in visited'[l], q \notin cancelled[l], cancelled[l] \subseteq visited'[l],
         \A p \in visited'[l] : p = q \/ CallsBefore(p, q),
         \A p \in offered'[l] \cap Valid : p \in visited'[l] \/ CallsBefore(q, p),
         pending_handlers_[l] = NULL
  PROVE  Inv'
<1> DEFINE old == current_entry_pos_[l]
<1>0. q \in Providers /\ q \in InList /\ entry[q] = "listed" /\ q # NULL
  BY NullIsNoProvider DEF Valid, InList
<1>1. /\ entry' \in [Providers -> {"new", "listed", "deletion_pending", "deleted"}]
      /\ pending_requests_' \in [Providers -> SUBSET Loads]
      /\ current_entry_pos_' \in [Loads -> Providers \cup {NULL}]
      /\ Valid' = Valid /\ InList' \subseteq InList
      /\ \A p \in Providers : entry'[p] = "new" <=> entry[p] = "new"
      /\ ListInv'
  <2>1. q \in Valid \cup {NULL} /\ before' = before
    BY <1>0
  <2> QED BY <2>1, DetachKeepsList
<1>2. /\ stage' \in [Loads -> Stages]
      /\ \A k \in Loads \ {l} : stage'[k] = stage[k]
      /\ stage'[l] \in {"held", "next", "handled"}
      /\ opening' \subseteq Loads \X Providers
      /\ archive' \in [Providers -> {"unloaded", "loading", "loaded", "failed"}]
      /\ archive_requests' \in [Providers -> SUBSET Loads]
  <2> USE <1>0 DEF Inv, TypeOK, providerVars, Stages
  <2>1. CASE \E answer \in {"next", "handled"} : stage' = [stage EXCEPT ![l] = answer] /\ UNCHANGED providerVars
    BY <2>1
  <2>2. CASE /\ stage' = [stage EXCEPT ![l] = "held"]
             /\ opening' = opening \cup {<<l, q>>}
             /\ UNCHANGED <<archive, archive_requests>>
    BY <2>2
  <2>3. CASE /\ stage' = [stage EXCEPT ![l] = "held"]
             /\ archive' = [archive EXCEPT ![q] = "loading"]
             /\ archive_requests' = [archive_requests EXCEPT ![q] = @ \cup {l}]
             /\ UNCHANGED opening
    BY <2>3
  <2>4. CASE stage' = [stage EXCEPT ![l] = "handled"] /\ UNCHANGED providerVars
    BY <2>4
  <2> QED BY <2>1, <2>2, <2>3, <2>4 DEF OnRequest
<1>3. TypeOK'
  BY <1>1, <1>2 DEF Inv, TypeOK
<1>4. /\ \A k \in Loads \ {l} : current_entry_pos_'[k] = current_entry_pos_[k]
      /\ current_entry_pos_'[l] = q
  BY DEF Inv, TypeOK, Detach
<1>5. \A p \in Providers : pending_requests_'[p] = IF p = q THEN pending_requests_[p] \cup {l}
                                                   ELSE IF p = old THEN pending_requests_[p] \ {l}
                                                   ELSE pending_requests_[p]
  BY DEF Detach
<1>6. \A p \in Providers : entry'[p] = IF p = old /\ entry[p] = "deletion_pending" /\ pending_requests_[p] \subseteq {l}
                                        THEN "deleted" ELSE entry[p]
  BY DEF Detach
<1>7. NoDanglingEntry'
  <2>1. \A k \in Loads : UnderWay(k)' <=> k = l \/ UnderWay(k)
    BY <1>2 DEF UnderWay, Posted
  <2>2. ASSUME NEW k \in Loads, UnderWay(k)' PROVE current_entry_pos_'[k] \in InList'
    <3>1. CASE k = l
      BY <3>1, <1>0, <1>4, <1>6 DEF InList
    <3>2. CASE k # l
      <4>1. UnderWay(k) /\ current_entry_pos_'[k] = current_entry_pos_[k]
        BY <3>2, <2>1, <2>2, <1>4
      <4>2. current_entry_pos_[k] \in InList /\ k \in pending_requests_[current_entry_pos_[k]]
        BY <4>1 DEF Inv, NoDanglingEntry
      <4> QED BY <3>2, <4>1, <4>2, <1>6 DEF InList
    <3> QED BY <3>1, <3>2
  <2>3. ASSUME NEW p \in InList'
        PROVE  pending_requests_'[p] = {k \in Loads : UnderWay(k)' /\ current_entry_pos_'[k] = p}
    <3>1. p \in InList /\ p \in Providers
      BY <1>1 DEF InList
    <3>2. pending_requests_[p] = {k \in Loads : UnderWay(k) /\ current_entry_pos_[k] = p}
      BY <3>1 DEF Inv, NoDanglingEntry
    <3>3. p # old => l \notin pending_requests_[p]
      BY <3>2
    <3>4. ASSUME NEW k \in Loads
          PROVE  k \in pending_requests_'[p] <=> UnderWay(k)' /\ current_entry_pos_'[k] = p
      <4>1. UnderWay(k)' <=> k = l \/ UnderWay(k)
        BY <2>1
      <4>2. k \in pending_requests_'[p] <=> (k = l /\ p = q) \/ (k # l /\ k \in pending_requests_[p])
        <5>1. CASE p = q
          <6>1. pending_requests_'[p] = pending_requests_[p] \cup {l}
            BY <5>1, <3>1, <1>5
          <6> QED BY <5>1, <6>1
        <5>2. CASE p # q /\ p = old
          BY <5>2, <3>1, <1>5
        <5>3. CASE p # q /\ p # old
          BY <5>3, <3>1, <3>3, <1>5
        <5> QED BY <5>1, <5>2, <5>3
      <4>3. k \in pending_requests_[p] <=> UnderWay(k) /\ current_entry_pos_[k] = p
        BY <3>2
      <4> QED BY <4>1, <4>2, <4>3, <1>4
    <3>5. pending_requests_'[p] \subseteq Loads
      BY <3>1, <1>1
    <3> QED BY <3>4, <3>5
  <2>4. ASSUME NEW p \in Providers, entry'[p] = "deletion_pending" PROVE pending_requests_'[p] # {}
    <3>1. entry[p] = "deletion_pending" /\ pending_requests_[p] # {}
      BY <2>4, <1>6 DEF Inv, NoDanglingEntry
    <3> QED BY <2>4, <3>1, <1>5, <1>6
  <2> QED BY <2>2, <2>3, <2>4 DEF NoDanglingEntry
<1>8. CancelledIsIgnored'
  BY <1>2, <1>4 DEF Inv, CancelledIsIgnored
<1>9. NobodySkipped'
  BY <1>1, <1>2 DEF Inv, NobodySkipped
<1>10. GoneInv'
  BY DEF GoneInv
<1>11. ASSUME NEW k \in Loads PROVE LoadInv(k)'
  <2>1. CASE k = l
    BY <2>1, <1>0, <1>1, <1>2, <1>4 DEF Inv, TypeOK, LoadInv, UnderWay, Posted, CallsBefore
  <2>2. CASE k # l
    BY <2>2, <1>1, <1>2, <1>4 DEF Inv, TypeOK, LoadInv, UnderWay, CallsBefore
  <2> QED BY <2>1, <2>2
<1> QED BY <1>1, <1>3, <1>7, <1>8, <1>9, <1>10, <1>11 DEF Inv

(* SendRequest to `from`, the valid providers behind those asked so far. *)
LEMMA SendRequestInv ==
  ASSUME Inv, manager = "alive", NEW l \in Loads, NEW from \in SUBSET Valid, SendRequest(l, from),
         UNCHANGED <<manager, before, pending_handlers_, cancelled>>,
         stage[l] = "next" \/ stage[l] = "new",
         current_entry_pos_[l] \notin from,
         offered' \in [Loads -> SUBSET Providers],
         \A k \in Loads \ {l} : offered'[k] = offered[k],
         \A p \in offered'[l] : entry[p] # "new",
         \A p \in visited[l], q \in from : CallsBefore(p, q),
         \A p \in offered'[l] \cap Valid : p \in visited[l] \/ p \in from
  PROVE  Inv'
<1>1. /\ stage[l] # "new" \/ current_entry_pos_[l] = NULL
      /\ pending_handlers_[l] = NULL /\ cancelled[l] \subseteq visited[l]
  BY DEF Inv, LoadInv
<1>2. from \subseteq Providers /\ from \subseteq InList
  BY DEF Valid, InList
<1>3. \A p, q \in from : <<p, q>> \in before <=> CallsBefore(p, q)
  BY <1>2 DEF Inv, ListInv
<1>4. visited \in [Loads -> SUBSET Providers] /\ cancelled \in [Loads -> SUBSET Providers]
  BY DEF Inv, TypeOK
<1>5. CASE /\ StopRequest(l)
           /\ visited' = [visited EXCEPT ![l] = @ \cup from]
  <2>1. /\ visited' \in [Loads -> SUBSET Providers]
        /\ visited'[l] = visited[l] \cup from
        /\ \A k \in Loads \ {l} : visited'[k] = visited[k]
    BY <1>5, <1>2, <1>4
  <2>2. pending_handlers_' \in [Loads -> Providers \cup {NULL}]
    BY DEF Inv, TypeOK
  <2>3. pending_handlers_'[l] \notin cancelled[l]
    BY DEF Inv, CancelledIsIgnored
  <2>4. offered'[l] \cap Valid \subseteq visited'[l] /\ cancelled[l] \subseteq visited'[l]
    BY <2>1, <1>1
  <2>5. stage[l] \in {"new"} \cup {"held"} \cup Posted
    BY DEF Posted
  <2>6. \A k \in Loads \ {l} : /\ offered'[k] = offered[k] /\ visited'[k] = visited[k]
                                /\ pending_handlers_'[k] = pending_handlers_[k]
    BY <2>1
  <2> QED BY <1>1, <1>5, <2>1, <2>2, <2>3, <2>4, <2>5, <2>6, StopRequestInv
<1>6. CASE \E q \in from :
             /\ OnRequest(l, q)
             /\ Detach(l, q)
             /\ visited' = [visited EXCEPT ![l] = @ \cup {q} \cup {r \in from : <<r, q>> \in before}]
  <2>1. PICK q \in from :
             /\ OnRequest(l, q)
             /\ Detach(l, q)
             /\ visited' = [visited EXCEPT ![l] = @ \cup {q} \cup {r \in from : <<r, q>> \in before}]
    BY <1>6
  <2>2. q \in Valid /\ q # current_entry_pos_[l]
    BY <2>1
  <2>3. /\ visited' \in [Loads -> SUBSET Providers]
        /\ visited'[l] = visited[l] \cup {q} \cup {r \in from : <<r, q>> \in before}
        /\ \A k \in Loads \ {l} : visited'[k] = visited[k]
    BY <2>1, <1>2, <1>4
  <2>4. q \notin visited[l]
    BY <2>1, <1>2, CallsBeforeOrder
  <2>5. \A p \in visited'[l] : p = q \/ CallsBefore(p, q)
    BY <2>1, <2>3, <1>3
  <2>6. ASSUME NEW p \in offered'[l] \cap Valid PROVE p \in visited'[l] \/ CallsBefore(q, p)
    <3>1. CASE p \in visited[l]
      BY <3>1, <2>3
    <3>2. CASE p \in from
      BY <3>2, <2>1, <2>3, <1>2, <1>3, CallsBeforeOrder
    <3> QED BY <3>1, <3>2
  <2>7. q \in visited'[l] /\ q \notin cancelled[l] /\ cancelled[l] \subseteq visited'[l]
    BY <2>3, <2>4, <1>1
  <2>8. \A k \in Loads \ {l} : offered'[k] = offered[k] /\ visited'[k] = visited[k]
    BY <2>3
  <2> QED BY <1>1, <2>1, <2>2, <2>3, <2>5, <2>6, <2>7, <2>8, TakeInv
<1> QED BY <1>5, <1>6 DEF SendRequest

(* Providers answer requests they hold: only who owns their state changes. *)
LEMMA AnswerInv ==
  ASSUME Inv, UNCHANGED <<manager, entry, before, pending_requests_, current_entry_pos_,
                          pending_handlers_, historyVars>>,
         opening' \subseteq Loads \X Providers,
         archive' \in [Providers -> {"unloaded", "loading", "loaded", "failed"}],
         archive_requests' \in [Providers -> SUBSET Loads],
         stage' \in [Loads -> Stages],
         \A k \in Loads : \/ stage'[k] = stage[k]
                          \/ stage[k] = "held" /\ stage'[k] \in {"next", "handled"}
  PROVE  Inv'
<1>1. TypeOK'
  BY DEF Inv, TypeOK, historyVars
<1>2. InList' = InList /\ Valid' = Valid
  BY DEF InList, Valid
<1>3. \A k \in Loads : UnderWay(k)' <=> UnderWay(k)
  BY DEF UnderWay, Posted
<1>4. NoDanglingEntry'
  <2>1. ASSUME NEW p \in InList'
        PROVE  pending_requests_'[p] = {k \in Loads : UnderWay(k)' /\ current_entry_pos_'[k] = p}
    <3>1. {k \in Loads : UnderWay(k)' /\ current_entry_pos_'[k] = p}
            = {k \in Loads : UnderWay(k) /\ current_entry_pos_[k] = p}
      BY <1>3
    <3>2. pending_requests_[p] = {k \in Loads : UnderWay(k) /\ current_entry_pos_[k] = p} \/ manager = "deleted"
      BY <1>2 DEF Inv, NoDanglingEntry
    <3>3. manager = "deleted" => InList = {}
      BY DEF Inv, GoneInv
    <3> QED BY <3>1, <3>2, <3>3, <1>2
  <2> QED BY <1>2, <1>3, <2>1 DEF Inv, NoDanglingEntry
<1>5. CancelledIsIgnored'
  BY DEF Inv, CancelledIsIgnored, LoadInv, historyVars
<1>6. NobodySkipped'
  BY <1>2 DEF Inv, NobodySkipped, historyVars
<1>7. ListInv'
  BY <1>2 DEF Inv, ListInv, CallsBefore
<1>8. GoneInv'
  BY <1>2 DEF Inv, GoneInv
<1>9. ASSUME NEW k \in Loads PROVE LoadInv(k)'
  BY <1>2, <1>3 DEF Inv, LoadInv, historyVars, CallsBefore
<1> QED BY <1>1, <1>4, <1>5, <1>6, <1>7, <1>8, <1>9 DEF Inv

LEMMA InitInv == Init => Inv
<1> SUFFICES ASSUME Init PROVE Inv
  OBVIOUS
<1>1. TypeOK
  BY DEF Init, TypeOK, Stages
<1>2. InList = {} /\ Valid = {} /\ \A l \in Loads : ~UnderWay(l)
  BY DEF Init, InList, Valid, UnderWay, Posted
<1>3. NoDanglingEntry /\ CancelledIsIgnored /\ NobodySkipped
  BY <1>2 DEF Init, NoDanglingEntry, CancelledIsIgnored, NobodySkipped
<1>4. ListInv /\ GoneInv
  BY <1>2 DEF Init, ListInv, GoneInv
<1>5. \A l \in Loads : LoadInv(l)
  BY <1>2 DEF Init, LoadInv
<1> QED BY <1>1, <1>3, <1>4, <1>5 DEF Inv

(* A new entry stands behind those of its order or a lower one. *)
LEMMA AddProviderInv == ASSUME Inv, NEW n \in Providers, AddProvider(n) PROVE Inv'
<1> DEFINE behind == {q \in InList : \E r \in InList : (r = q \/ <<r, q>> \in before) /\ Order[r] > Order[n]}
<1>0. /\ manager = "alive" /\ entry[n] = "new"
      /\ entry' = [entry EXCEPT ![n] = "listed"]
      /\ before' = before \cup ((InList \ behind) \X {n}) \cup ({n} \X behind)
      /\ UNCHANGED <<manager, pending_requests_, stage, current_entry_pos_, pending_handlers_,
                     providerVars, offered, visited, cancelled>>
  BY DEF AddProvider
<1>1. /\ InList' = InList \cup {n} /\ Valid' = Valid \cup {n} /\ n \notin InList /\ n \notin Valid
      /\ \A p \in Providers \ {n} : entry'[p] = entry[p]
      /\ entry'[n] = "listed"
  BY <1>0 DEF Inv, TypeOK, InList, Valid
<1>2. \A p \in InList : p < n /\ p \in Providers
  <2>1. \A p \in InList : p \in Providers /\ entry[p] # "new"
    BY DEF InList
  <2>2. \A p \in Providers : n < p => entry[p] = "new"
    BY <1>0 DEF Inv, ListInv
  <2> QED BY <1>1, <2>1, <2>2, MaxProvidersAssumption DEF Providers
<1>3. \A q \in InList : q \in behind <=> Order[q] > Order[n]
  <2>1. \A q, r \in InList : <<r, q>> \in before => Order[r] <= Order[q]
    BY <1>2, OrderAssumption DEF Inv, ListInv, CallsBefore
  <2>2. ASSUME NEW q \in InList, q \in behind PROVE Order[q] > Order[n]
    <3>1. PICK r \in InList : (r = q \/ <<r, q>> \in before) /\ Order[r] > Order[n]
      BY <2>2
    <3>2. Order[r] <= Order[q]
      BY <3>1, <2>1, <1>2, OrderAssumption
    <3> QED BY <3>1, <3>2, <1>2, OrderAssumption
  <2> QED BY <2>2
<1>4. \A p \in InList : /\ <<p, n>> \in before' <=> CallsBefore(p, n)
                        /\ <<n, p>> \in before' <=> CallsBefore(n, p)
  <2>1. \A p \in InList : <<p, n>> \notin before /\ <<n, p>> \notin before /\ p # n
    BY <1>0, <1>1, <1>2 DEF Inv, ListInv
  <2>2. \A p \in InList : (<<p, n>> \in before' <=> p \notin behind) /\ (<<n, p>> \in before' <=> p \in behind)
    BY <2>1, <1>0
  <2>3. \A p \in InList : (CallsBefore(p, n) <=> ~(Order[p] > Order[n])) /\ (CallsBefore(n, p) <=> Order[p] > Order[n])
    BY <1>2, OrderAssumption, MaxProvidersAssumption DEF CallsBefore, Providers
  <2> QED BY <2>2, <2>3, <1>3
<1>5. ListInv'
  <2>1. ASSUME NEW p \in Providers, NEW q \in Providers, q < p, entry'[p] # "new" PROVE entry'[q] # "new"
    <3>1. CASE p = n
      <4>1. \A m \in 1 .. n - 1 : entry[m] # "new"
        BY DEF AddProvider
      <4> QED BY <2>1, <3>1, <4>1, <1>1, MaxProvidersAssumption DEF Providers
    <3>2. CASE p # n
      BY <2>1, <3>2, <1>1 DEF Inv, ListInv
    <3> QED BY <3>1, <3>2
  <2>2. ASSUME NEW p \in Providers, NEW q \in Providers, <<p, q>> \in before'
        PROVE  entry'[p] # "new" /\ entry'[q] # "new"
    <3>1. \A m \in InList : entry[m] # "new"
      BY DEF InList
    <3>2. <<p, q>> \in before \/ (p \in InList /\ q = n) \/ (p = n /\ q \in InList)
      BY <2>2, <1>0
    <3> QED BY <3>1, <3>2, <1>1 DEF Inv, ListInv
  <2>3. ASSUME NEW p \in InList', NEW q \in InList' PROVE <<p, q>> \in before' <=> CallsBefore(p, q)
    <3>1. CASE p = n /\ q = n
      <4>1. <<n, n>> \notin before
        BY <1>0 DEF Inv, ListInv
      <4>2. <<n, n>> \notin before'
        BY <4>1, <1>0, <1>1
      <4> QED BY <3>1, <4>2, CallsBeforeOrder
    <3>2. CASE p # n /\ q # n
      <4>1. <<p, q>> \in before' <=> <<p, q>> \in before
        BY <3>2, <1>0
      <4> QED BY <3>2, <4>1, <1>1 DEF Inv, ListInv
    <3> QED BY <3>1, <3>2, <1>1, <1>4
  <2>4. \A p \in Providers : entry'[p] = "new" => pending_requests_'[p] = {}
    BY <1>0, <1>1 DEF Inv, ListInv
  <2> QED BY <2>1, <2>2, <2>3, <2>4 DEF ListInv, CallsBefore
<1>6. TypeOK'
  <2>1. before' \subseteq Providers \X Providers
    BY <1>0, <1>2 DEF Inv, TypeOK
  <2> QED BY <2>1, <1>0 DEF Inv, TypeOK, providerVars
<1>7. NoDanglingEntry'
  <2>1. ASSUME NEW p \in InList'
        PROVE  pending_requests_'[p] = {k \in Loads : UnderWay(k)' /\ current_entry_pos_'[k] = p}
    <3>1. {k \in Loads : UnderWay(k)' /\ current_entry_pos_'[k] = p}
            = {k \in Loads : UnderWay(k) /\ current_entry_pos_[k] = p}
      BY <1>0 DEF UnderWay
    <3>2. CASE p = n
      <4>1. pending_requests_[n] = {}
        BY <1>0 DEF Inv, ListInv
      <4>2. \A k \in Loads : UnderWay(k) => current_entry_pos_[k] # n
        BY <1>0, <1>1 DEF Inv, NoDanglingEntry
      <4> QED BY <3>1, <3>2, <4>1, <4>2, <1>0
    <3>3. CASE p # n
      <4>1. p \in InList
        BY <3>3, <1>1
      <4> QED BY <3>1, <4>1, <1>0 DEF Inv, NoDanglingEntry
    <3> QED BY <3>2, <3>3
  <2>2. \A k \in Loads : UnderWay(k)' => current_entry_pos_'[k] \in InList'
    BY <1>0, <1>1 DEF Inv, NoDanglingEntry, UnderWay
  <2>3. \A p \in Providers : entry'[p] = "deletion_pending" => pending_requests_'[p] # {}
    BY <1>0, <1>1 DEF Inv, NoDanglingEntry
  <2> QED BY <2>1, <2>2, <2>3 DEF NoDanglingEntry
<1>8. CancelledIsIgnored'
  BY <1>0 DEF Inv, CancelledIsIgnored
<1>9. \A l \in Loads : n \notin offered[l]
  BY <1>0 DEF Inv, LoadInv
<1>10. NobodySkipped'
  BY <1>0, <1>1, <1>9 DEF Inv, NobodySkipped
<1>11. GoneInv'
  BY <1>0 DEF GoneInv
<1>12. ASSUME NEW k \in Loads PROVE LoadInv(k)'
  <2>1. \A p \in Providers : entry[p] # "new" => entry'[p] # "new"
    BY <1>1
  <2>2. offered[k] \cap Valid' = offered[k] \cap Valid /\ offered[k] \subseteq Providers
    BY <1>1, <1>9 DEF Inv, TypeOK
  <2> QED BY <1>0, <2>1, <2>2 DEF Inv, LoadInv, UnderWay, CallsBefore
<1> QED BY <1>5, <1>6, <1>7, <1>8, <1>10, <1>11, <1>12 DEF Inv

(* Entries are deleted or left for their requests, which go on. *)
LEMMA DeleteProvidersInv ==
  ASSUME Inv, manager = "alive", NEW S \in SUBSET InList, NEW told \in {"next", "stop"},
         told = "stop" => S = InList, DeleteProviders(S, told)
  PROVE  Inv'
<1> DEFINE R == Reached(S)
           continued == {l \in Loads : \E p \in Reached(S) : l \in pending_requests_[p] /\ HasState(l, p)}
<1>0. /\ entry' = [p \in Providers |->
                     IF p \notin R THEN entry[p]
                     ELSE IF pending_requests_[p] = {} THEN "deleted" ELSE "deletion_pending"]
      /\ stage' = [l \in Loads |-> IF l \in continued THEN told ELSE stage[l]]
      /\ cancelled' = [l \in Loads |->
                         IF l \in continued THEN cancelled[l] \cup {current_entry_pos_[l]} ELSE cancelled[l]]
      /\ manager' = IF NeverEnds(S) THEN "removing" ELSE manager
      /\ UNCHANGED <<before, pending_requests_, current_entry_pos_, pending_handlers_,
                     providerVars, offered, visited>>
  BY DEF DeleteProviders
<1>1. ASSUME NEW p \in R PROVE p \in Providers /\ p \in InList /\ entry[p] = "listed"
  <2>1. p \in S /\ p \in InList /\ p \in Providers
    BY DEF Reached, InList
  <2>2. <<p, p>> \notin before
    BY <2>1, CallsBeforeOrder DEF Inv, ListInv
  <2>3. entry[p] # "deletion_pending"
    BY <2>1, <2>2 DEF Reached
  <2> QED BY <2>1, <2>3 DEF InList
<1>2. /\ Valid' = Valid \ R
      /\ \A p \in InList : p \in InList' \/ pending_requests_[p] = {}
      /\ InList' \subseteq InList
      /\ \A p \in Providers : entry'[p] = "new" <=> entry[p] = "new"
  BY <1>0, <1>1 DEF Valid, InList
<1>3. ASSUME NEW l \in Loads, l \in continued
      PROVE  /\ stage[l] = "held" /\ current_entry_pos_[l] \in R
             /\ UnderWay(l) /\ stage'[l] = told
             /\ cancelled'[l] = cancelled[l] \cup {current_entry_pos_[l]}
  BY <1>0, <1>3 DEF HasState, UnderWay
<1>4. ASSUME NEW l \in Loads, l \notin continued
      PROVE  stage'[l] = stage[l] /\ cancelled'[l] = cancelled[l]
  BY <1>0, <1>4
<1>5. TypeOK'
  <2>1. entry' \in [Providers -> {"new", "listed", "deletion_pending", "deleted"}]
    BY <1>0 DEF Inv, TypeOK
  <2>2. stage' \in [Loads -> Stages]
    BY <1>0 DEF Inv, TypeOK, Stages
  <2>3. cancelled' \in [Loads -> SUBSET Providers]
    <3>1. ASSUME NEW l \in Loads PROVE cancelled'[l] \subseteq Providers
      BY <1>1, <1>3, <1>4 DEF Inv, TypeOK
    <3> QED BY <3>1, <1>0
  <2>4. manager' \in {"alive", "removing", "deleted"}
    BY <1>0
  <2> QED BY <2>1, <2>2, <2>3, <2>4, <1>0 DEF Inv, TypeOK, providerVars
<1>6. \A l \in Loads : UnderWay(l)' <=> UnderWay(l)
  <2>1. told \in Posted
    BY DEF Posted
  <2> QED BY <2>1, <1>3, <1>4 DEF UnderWay
<1>7. NoDanglingEntry'
  <2>1. ASSUME NEW p \in InList'
        PROVE  pending_requests_'[p] = {k \in Loads : UnderWay(k)' /\ current_entry_pos_'[k] = p}
    <3>1. {k \in Loads : UnderWay(k)' /\ current_entry_pos_'[k] = p}
            = {k \in Loads : UnderWay(k) /\ current_entry_pos_[k] = p}
      BY <1>0, <1>6
    <3> QED BY <3>1, <1>0, <1>2 DEF Inv, NoDanglingEntry
  <2>2. ASSUME NEW k \in Loads, UnderWay(k)' PROVE current_entry_pos_'[k] \in InList'
    <3>1. UnderWay(k) /\ current_entry_pos_[k] \in InList /\ current_entry_pos_'[k] = current_entry_pos_[k]
      BY <2>2, <1>0, <1>6 DEF Inv, NoDanglingEntry
    <3>2. k \in pending_requests_[current_entry_pos_[k]]
      BY <3>1 DEF Inv, NoDanglingEntry
    <3> QED BY <3>1, <3>2, <1>2
  <2>3. ASSUME NEW p \in Providers, entry'[p] = "deletion_pending" PROVE pending_requests_'[p] # {}
    BY <2>3, <1>0 DEF Inv, NoDanglingEntry
  <2> QED BY <2>1, <2>2, <2>3 DEF NoDanglingEntry
<1>8. CancelledIsIgnored'
  <2>1. ASSUME NEW l \in Loads PROVE pending_handlers_'[l] \notin cancelled'[l]
    <3>1. CASE l \in continued
      <4>1. pending_handlers_'[l] = NULL
        BY <3>1, <1>0, <1>3 DEF Inv, LoadInv
      <4>2. cancelled'[l] \subseteq Providers
        BY <1>5 DEF TypeOK
      <4> QED BY <4>1, <4>2, NullIsNoProvider
    <3>2. CASE l \notin continued
      BY <3>2, <1>0, <1>4 DEF Inv, CancelledIsIgnored
    <3> QED BY <3>1, <3>2
  <2>2. ASSUME NEW l \in Loads, stage'[l] = "handled" PROVE current_entry_pos_'[l] \notin cancelled'[l]
    BY <2>2, <1>0, <1>3, <1>4 DEF Inv, CancelledIsIgnored
  <2> QED BY <2>1, <2>2 DEF CancelledIsIgnored
<1>9. NobodySkipped'
  BY <1>0, <1>2, <1>3, <1>4 DEF Inv, NobodySkipped
<1>10. ListInv'
  BY <1>0, <1>2 DEF Inv, ListInv, CallsBefore
<1>11. GoneInv'
  BY <1>0 DEF GoneInv
<1>12. ASSUME NEW k \in Loads PROVE LoadInv(k)'
  <2>1. offered'[k] = offered[k] /\ visited'[k] = visited[k] /\ current_entry_pos_'[k] = current_entry_pos_[k]
        /\ pending_handlers_'[k] = pending_handlers_[k]
    BY <1>0
  <2>2. \A p \in offered[k] : p \in Providers
    BY DEF Inv, TypeOK
  <2>3. told = "stop" /\ manager' # "removing" => Valid' = {}
    <3>1. SUFFICES ASSUME told = "stop", ~NeverEnds(S) PROVE Valid \subseteq R
      BY <1>0, <1>2
    <3> QED BY <3>1 DEF NeverEnds, Reached, Valid, InList
  <2>4. CASE k \in continued
    BY <2>1, <2>2, <2>3, <2>4, <1>2, <1>3, <1>6 DEF Inv, LoadInv, CallsBefore
  <2>5. CASE k \notin continued
    BY <2>1, <2>2, <2>5, <1>0, <1>2, <1>4, <1>6 DEF Inv, LoadInv, CallsBefore
  <2> QED BY <2>4, <2>5
<1> QED BY <1>5, <1>7, <1>8, <1>9, <1>10, <1>11, <1>12 DEF Inv

(* The manager is deleted with its entries; requests it leaves are told to stop. *)
LEMMA DestructInv == ASSUME Inv, Destruct PROVE Inv'
<1>1. CASE NeverEnds(InList) /\ DeleteProviders(InList, "stop")
  BY <1>1, DeleteProvidersInv DEF Destruct
<1>2. CASE /\ manager = "alive" /\ manager' = "deleted" /\ ~NeverEnds(InList)
           /\ entry' = [p \in Providers |-> IF p \in InList THEN "deleted" ELSE entry[p]]
           /\ pending_requests_' = [p \in Providers |-> {}]
           /\ pending_handlers_' = [l \in Loads |-> NULL]
           /\ stage' = [l \in Loads |-> IF stage[l] = "held" THEN "stop" ELSE stage[l]]
           /\ cancelled' = [l \in Loads |->
                              IF stage[l] = "held" THEN cancelled[l] \cup {current_entry_pos_[l]} ELSE cancelled[l]]
           /\ before' = {}
           /\ UNCHANGED <<current_entry_pos_, providerVars, offered, visited>>
  <2>1. /\ InList' = {} /\ Valid' = {}
        /\ \A p \in Providers : entry'[p] = "new" <=> entry[p] = "new"
    BY <1>2 DEF Inv, TypeOK, InList, Valid
  <2>2. \A l \in Loads : stage[l] = "held" => current_entry_pos_[l] \in InList /\ UnderWay(l)
    BY <1>2 DEF Inv, NoDanglingEntry, UnderWay
  <2>3. TypeOK'
    <3>1. \A l \in Loads : cancelled'[l] \subseteq Providers
      BY <1>2, <2>2 DEF Inv, TypeOK, InList
    <3>2. stage' \in [Loads -> Stages]
      BY <1>2 DEF Inv, TypeOK, Stages
    <3> QED BY <3>1, <3>2, <1>2 DEF Inv, TypeOK, providerVars
  <2>4. NoDanglingEntry' /\ GoneInv' /\ NobodySkipped'
    BY <1>2, <2>1 DEF NoDanglingEntry, GoneInv, NobodySkipped
  <2>5. CancelledIsIgnored'
    <3>1. \A l \in Loads : NULL \notin cancelled'[l]
      BY <2>3, NullIsNoProvider DEF TypeOK
    <3> QED BY <3>1, <1>2 DEF Inv, CancelledIsIgnored
  <2>6. ListInv'
    BY <1>2, <2>1 DEF Inv, ListInv
  <2>7. ASSUME NEW k \in Loads PROVE LoadInv(k)'
    <3>1. UnderWay(k)' <=> UnderWay(k)
      BY <1>2 DEF UnderWay, Posted
    <3>2. \A p \in offered[k] : p \in Providers
      BY DEF Inv, TypeOK
    <3> QED BY <3>1, <3>2, <1>2, <2>1, <2>2 DEF Inv, LoadInv, CallsBefore
  <2> QED BY <2>3, <2>4, <2>5, <2>6, <2>7 DEF Inv
<1> QED BY <1>1, <1>2 DEF Destruct

(* The four ways a posted task goes on. *)
LEMMA ContinueInv == ASSUME Inv, NEW l \in Loads, Continue(l) PROVE Inv'
<1>1. CASE ContinueWithoutManager(l)
  <2>0. /\ manager = "deleted" /\ stage[l] \in Posted
        /\ stage' = [stage EXCEPT ![l] = "over"]
        /\ UNCHANGED <<manager, entry, before, pending_requests_, current_entry_pos_, pending_handlers_,
                       providerVars, historyVars>>
    BY <1>1 DEF ContinueWithoutManager
  <2>1. InList = {} /\ Valid = {}
    BY <2>0 DEF Inv, GoneInv, InList, Valid
  <2>2. InList' = {} /\ Valid' = {}
    BY <2>0, <2>1 DEF InList, Valid
  <2>3. TypeOK'
    BY <2>0 DEF Inv, TypeOK, providerVars, historyVars, Stages
  <2>4. \A k \in Loads \ {l} : stage'[k] = stage[k]
    BY <2>0 DEF Inv, TypeOK
  <2>5. stage'[l] = "over"
    BY <2>0 DEF Inv, TypeOK
  <2>6. NoDanglingEntry' /\ NobodySkipped' /\ GoneInv'
    BY <2>0, <2>2, <2>4, <2>5 DEF Inv, NoDanglingEntry, NobodySkipped, GoneInv
  <2>7. CancelledIsIgnored'
    BY <2>0, <2>4, <2>5 DEF Inv, CancelledIsIgnored, historyVars
  <2>8. ListInv'
    BY <2>0, <2>2 DEF Inv, ListInv
  <2>9. ASSUME NEW k \in Loads PROVE LoadInv(k)'
    BY <2>0, <2>2, <2>4, <2>5 DEF Inv, LoadInv, historyVars, UnderWay, Posted, CallsBefore
  <2> QED BY <2>3, <2>6, <2>7, <2>8, <2>9 DEF Inv
<1>2. CASE ContinueHandled(l)
  <2>0. /\ manager = "alive" /\ stage[l] = "handled" /\ StopRequest(l)
        /\ pending_handlers_' = [pending_handlers_ EXCEPT ![l] = current_entry_pos_[l]]
        /\ UNCHANGED <<manager, before, historyVars>>
    BY <1>2 DEF ContinueHandled
  <2>1. current_entry_pos_[l] \in Providers /\ current_entry_pos_[l] # NULL
    BY <2>0, NullIsNoProvider DEF Inv, NoDanglingEntry, InList, UnderWay, Posted
  <2>2. /\ pending_handlers_' \in [Loads -> Providers \cup {NULL}]
        /\ pending_handlers_'[l] = current_entry_pos_[l]
        /\ \A k \in Loads \ {l} : pending_handlers_'[k] = pending_handlers_[k]
    BY <2>0, <2>1 DEF Inv, TypeOK
  <2>3. /\ offered' = offered /\ visited' = visited /\ cancelled' = cancelled
        /\ offered' \in [Loads -> SUBSET Providers] /\ visited' \in [Loads -> SUBSET Providers]
    BY <2>0 DEF Inv, TypeOK, historyVars
  <2>4. pending_handlers_'[l] \notin cancelled[l]
    BY <2>0, <2>2 DEF Inv, CancelledIsIgnored
  <2>5. (\A p \in offered'[l] : entry[p] # "new") /\ cancelled[l] \subseteq visited'[l]
    BY <2>3 DEF Inv, LoadInv
  <2>6. stage[l] \in {"new"} \cup {"held"} \cup Posted /\ (stage[l] # "new" \/ current_entry_pos_[l] = NULL)
    BY <2>0 DEF Posted
  <2>7. UNCHANGED <<manager, before, cancelled>>
    BY <2>0, <2>3
  <2>8. \A k \in Loads \ {l} : /\ offered'[k] = offered[k] /\ visited'[k] = visited[k]
                                /\ pending_handlers_'[k] = pending_handlers_[k]
    BY <2>2, <2>3
  <2> QED BY <2>0, <2>1, <2>2, <2>3, <2>4, <2>5, <2>6, <2>7, <2>8, StopRequestInv
<1>3. CASE ContinueNext(l)
  <2> DEFINE from == {p \in Valid : <<current_entry_pos_[l], p>> \in before}
  <2>0. /\ manager = "alive" /\ stage[l] = "next" /\ SendRequest(l, from)
        /\ UNCHANGED <<manager, before, pending_handlers_, offered, cancelled>>
    BY <1>3 DEF ContinueNext
  <2>1. UnderWay(l) /\ current_entry_pos_[l] \in InList /\ from \subseteq InList
    BY <2>0 DEF Inv, NoDanglingEntry, UnderWay, Posted, InList, Valid
  <2>2. \A p \in Valid : p \in from <=> CallsBefore(current_entry_pos_[l], p)
    BY <2>1 DEF Inv, ListInv, InList, Valid
  <2>3. InList \subseteq Providers /\ visited[l] \subseteq Providers
    BY DEF InList, Inv, TypeOK
  <2>4. current_entry_pos_[l] \notin from
    BY <2>1, <2>2, <2>3, CallsBeforeOrder
  <2>5. ASSUME NEW p \in visited[l], NEW q \in from PROVE CallsBefore(p, q)
    <3>1. p = current_entry_pos_[l] \/ CallsBefore(p, current_entry_pos_[l])
      BY <2>1 DEF Inv, LoadInv
    <3>2. CallsBefore(current_entry_pos_[l], q)
      BY <2>2
    <3> QED BY <3>1, <3>2, <2>1, <2>3, CallsBeforeOrder
  <2>6. \A p \in offered[l] \cap Valid : p \in visited[l] \/ p \in from
    BY <2>0, <2>2 DEF Inv, LoadInv
  <2>7. offered' \in [Loads -> SUBSET Providers] /\ \A p \in offered[l] : entry[p] # "new"
    BY <2>0 DEF Inv, TypeOK, LoadInv
  <2>8. from \in SUBSET Valid
    OBVIOUS
  <2> HIDE DEF from
  <2> QED BY <2>0, <2>4, <2>5, <2>6, <2>7, <2>8, SendRequestInv
<1>4. CASE StopOnIOThread(l)
  <2>0. /\ manager = "alive" /\ stage[l] = "stop" /\ StopRequest(l)
        /\ UNCHANGED <<manager, before, pending_handlers_, historyVars>>
    BY <1>4 DEF StopOnIOThread
  <2>1. /\ offered' = offered /\ visited' = visited /\ cancelled' = cancelled /\ pending_handlers_' = pending_handlers_
        /\ offered' \in [Loads -> SUBSET Providers] /\ visited' \in [Loads -> SUBSET Providers]
        /\ pending_handlers_' \in [Loads -> Providers \cup {NULL}]
    BY <2>0 DEF Inv, TypeOK, historyVars
  <2>2. /\ \A p \in offered'[l] : entry[p] # "new"
        /\ cancelled[l] \subseteq visited'[l] /\ offered'[l] \cap Valid \subseteq visited'[l]
    BY <2>0, <2>1 DEF Inv, LoadInv
  <2>3. pending_handlers_'[l] \notin cancelled[l]
    BY <2>1 DEF Inv, CancelledIsIgnored
  <2>4. stage[l] \in {"new"} \cup {"held"} \cup Posted /\ (stage[l] # "new" \/ current_entry_pos_[l] = NULL)
    BY <2>0 DEF Posted
  <2>5. UNCHANGED <<manager, before, cancelled>>
    BY <2>0, <2>1
  <2> QED BY <2>0, <2>1, <2>2, <2>3, <2>4, <2>5, StopRequestInv
<1> QED BY <1>1, <1>2, <1>3, <1>4 DEF Continue

LEMMA OnBeforeResourceLoadInv ==
  ASSUME Inv, NEW l \in Loads, OnBeforeResourceLoad(l) PROVE Inv'
<1>0. /\ manager = "alive" /\ stage[l] = "new" /\ SendRequest(l, Valid)
      /\ offered' = [offered EXCEPT ![l] = Valid]
      /\ UNCHANGED <<manager, before, pending_handlers_, cancelled>>
  BY DEF OnBeforeResourceLoad
<1>1. Valid \subseteq Providers
  BY DEF Valid
<1>2. /\ offered' \in [Loads -> SUBSET Providers] /\ offered'[l] = Valid
      /\ \A k \in Loads \ {l} : offered'[k] = offered[k]
  BY <1>0, <1>1 DEF Inv, TypeOK
<1>3. visited[l] = {} /\ current_entry_pos_[l] = NULL
  BY <1>0 DEF Inv, LoadInv
<1>4. \A p \in offered'[l] : entry[p] # "new"
  BY <1>2 DEF Valid
<1>5. current_entry_pos_[l] \notin Valid
  BY <1>1, <1>3, NullIsNoProvider
<1> QED BY <1>0, <1>2, <1>3, <1>4, <1>5, SendRequestInv

LEMMA GetResourceHandlerInv ==
  ASSUME Inv, NEW l \in Loads, GetResourceHandler(l) PROVE Inv'
<1>0. /\ manager = "alive" /\ stage[l] = "over"
      /\ stage' = [stage EXCEPT ![l] = "served"]
      /\ pending_handlers_' = [pending_handlers_ EXCEPT ![l] = NULL]
      /\ offered' = [offered EXCEPT ![l] = {}]
      /\ visited' = [visited EXCEPT ![l] = {}]
      /\ cancelled' = [cancelled EXCEPT ![l] = {}]
      /\ UNCHANGED <<manager, entry, before, pending_requests_, current_entry_pos_, providerVars>>
  BY DEF GetResourceHandler
<1>1. TypeOK'
  BY <1>0 DEF Inv, TypeOK, Stages, providerVars
<1>2. /\ \A k \in Loads \ {l} : /\ stage'[k] = stage[k] /\ pending_handlers_'[k] = pending_handlers_[k]
                                /\ offered'[k] = offered[k] /\ visited'[k] = visited[k]
                                /\ cancelled'[k] = cancelled[k]
      /\ stage'[l] = "served" /\ pending_handlers_'[l] = NULL
      /\ offered'[l] = {} /\ visited'[l] = {} /\ cancelled'[l] = {}
  BY <1>0 DEF Inv, TypeOK
<1>3. InList' = InList /\ Valid' = Valid
  BY <1>0 DEF InList, Valid
<1>4. \A k \in Loads : UnderWay(k)' <=> UnderWay(k)
  BY <1>0, <1>2 DEF UnderWay, Posted
<1>5. NoDanglingEntry'
  <2>1. ASSUME NEW p \in InList'
        PROVE  pending_requests_'[p] = {k \in Loads : UnderWay(k)' /\ current_entry_pos_'[k] = p}
    <3>1. {k \in Loads : UnderWay(k)' /\ current_entry_pos_'[k] = p}
            = {k \in Loads : UnderWay(k) /\ current_entry_pos_[k] = p}
      BY <1>0, <1>4
    <3> QED BY <3>1, <1>0, <1>3 DEF Inv, NoDanglingEntry
  <2> QED BY <2>1, <1>0, <1>3, <1>4 DEF Inv, NoDanglingEntry
<1>6. CancelledIsIgnored' /\ NobodySkipped'
  BY <1>0, <1>2, <1>3 DEF Inv, CancelledIsIgnored, NobodySkipped
<1>7. ListInv' /\ GoneInv'
  BY <1>0, <1>3 DEF Inv, ListInv, GoneInv, CallsBefore
<1>8. ASSUME NEW k \in Loads PROVE LoadInv(k)'
  <2>1. CASE k = l
    BY <2>1, <1>2 DEF LoadInv, UnderWay, Posted
  <2>2. CASE k # l
    BY <2>2, <1>0, <1>2, <1>3, <1>4 DEF Inv, LoadInv, CallsBefore
  <2> QED BY <2>1, <2>2
<1> QED BY <1>1, <1>5, <1>6, <1>7, <1>8 DEF Inv

LEMMA ProviderAnswersInv == ASSUME Inv, ProviderAnswers PROVE Inv'
<1>1. ASSUME NEW l \in Loads, NEW p \in Providers, NEW found \in BOOLEAN, ContinueOpen(l, p, found) PROVE Inv'
  <2>0. /\ opening' = opening \ {<<l, p>>}
        /\ stage' = IF HasState(l, p) THEN [stage EXCEPT ![l] = IF found THEN "handled" ELSE "next"] ELSE stage
        /\ UNCHANGED <<manager, entry, before, pending_requests_, current_entry_pos_, pending_handlers_,
                       archive, archive_requests, historyVars>>
    BY <1>1 DEF ContinueOpen
  <2>1. /\ stage' \in [Loads -> Stages]
        /\ \A k \in Loads : \/ stage'[k] = stage[k]
                            \/ stage[k] = "held" /\ stage'[k] \in {"next", "handled"}
    BY <2>0 DEF Inv, TypeOK, Stages, HasState
  <2>2. /\ opening' \subseteq Loads \X Providers
        /\ archive' \in [Providers -> {"unloaded", "loading", "loaded", "failed"}]
        /\ archive_requests' \in [Providers -> SUBSET Loads]
    BY <2>0 DEF Inv, TypeOK
  <2> QED BY <2>0, <2>1, <2>2, AnswerInv
<1>2. ASSUME NEW p \in Providers, NEW result \in {"loaded", "failed"}, NEW found \in SUBSET Loads,
             ArchiveLoaded(p, result, found)
      PROVE  Inv'
  <2>0. /\ archive' = [archive EXCEPT ![p] = result]
        /\ archive_requests' = [archive_requests EXCEPT ![p] = {}]
        /\ stage' = [l \in Loads |-> IF l \in found /\ HasState(l, p) THEN "handled" ELSE stage[l]]
        /\ UNCHANGED <<manager, entry, before, pending_requests_, current_entry_pos_, pending_handlers_,
                       opening, historyVars>>
    BY <1>2 DEF ArchiveLoaded
  <2>1. /\ stage' \in [Loads -> Stages]
        /\ \A k \in Loads : \/ stage'[k] = stage[k]
                            \/ stage[k] = "held" /\ stage'[k] \in {"next", "handled"}
    BY <2>0 DEF Inv, TypeOK, Stages, HasState
  <2>2. /\ opening' \subseteq Loads \X Providers
        /\ archive' \in [Providers -> {"unloaded", "loading", "loaded", "failed"}]
        /\ archive_requests' \in [Providers -> SUBSET Loads]
    BY <2>0 DEF Inv, TypeOK
  <2> QED BY <2>0, <2>1, <2>2, AnswerInv
<1> QED BY <1>1, <1>2 DEF ProviderAnswers

LEMMA NextInv == Inv /\ [Next]_vars => Inv'
<1> SUFFICES ASSUME Inv, [Next]_vars PROVE Inv'
  OBVIOUS
<1>1. ASSUME NEW p \in Providers, AddProvider(p) PROVE Inv'
  BY <1>1, AddProviderInv
<1>2. ASSUME NEW i, RemoveProviders(i) PROVE Inv'
  <2>1. manager = "alive" /\ DeleteProviders({p \in InList : Identifier[p] = i}, "next")
    BY <1>2 DEF RemoveProviders
  <2> DEFINE S == {p \in InList : Identifier[p] = i}
  <2>2. S \in SUBSET InList /\ DeleteProviders(S, "next")
    BY <2>1
  <2> HIDE DEF S
  <2> QED BY <2>1, <2>2, DeleteProvidersInv
<1>3. CASE RemoveAllProviders
  BY <1>3, DeleteProvidersInv DEF RemoveAllProviders
<1>4. CASE Destruct
  BY <1>4, DestructInv
<1>5. ASSUME NEW l \in Loads, OnBeforeResourceLoad(l) \/ Continue(l) \/ GetResourceHandler(l) PROVE Inv'
  BY <1>5, OnBeforeResourceLoadInv, ContinueInv, GetResourceHandlerInv
<1>6. CASE ProviderAnswers
  BY <1>6, ProviderAnswersInv
<1>7. CASE UNCHANGED vars
  <2>1. /\ UNCHANGED <<manager, entry, before, pending_requests_, current_entry_pos_, pending_handlers_, historyVars>>
        /\ UNCHANGED <<stage, opening, archive, archive_requests>>
    BY <1>7 DEF vars, programVars, providerVars
  <2>2. /\ opening' \subseteq Loads \X Providers
        /\ archive' \in [Providers -> {"unloaded", "loading", "loaded", "failed"}]
        /\ archive_requests' \in [Providers -> SUBSET Loads]
        /\ stage' \in [Loads -> Stages]
    BY <2>1 DEF Inv, TypeOK
  <2> QED BY <2>1, <2>2, AnswerInv
<1> QED BY <1>1, <1>2, <1>3, <1>4, <1>5, <1>6, <1>7 DEF Next

LEMMA Invariance == Spec => []Inv
<1> QED BY InitInv, NextInv, PTL DEF Spec

-----------------------------------------------------------------------------
(* Every variable keeps its type. *)
THEOREM TypeCorrect == Spec => []TypeOK
<1>1. Inv => TypeOK
  BY DEF Inv
<1> QED BY <1>1, Invariance, PTL

(* No load under way points to a deleted entry, and no entry waits for its
   deletion without a request to wait for, whatever is added, removed or
   deleted while loads are under way. *)
THEOREM EntriesStay == Spec => []NoDanglingEntry
<1>1. Inv => NoDanglingEntry
  BY DEF Inv
<1> QED BY <1>1, Invariance, PTL

(* A provider that was told a request is cancelled has no say in it any more. *)
THEOREM CancelledHasNoSay == Spec => []CancelledIsIgnored
<1>1. Inv => CancelledIsIgnored
  BY DEF Inv
<1> QED BY <1>1, Invariance, PTL

(* A load that ends without a handler was offered to everyone who stayed. *)
THEOREM EveryoneAsked == Spec => []NobodySkipped
<1>1. Inv => NobodySkipped
  BY DEF Inv
<1> QED BY <1>1, Invariance, PTL

-----------------------------------------------------------------------------
(* What one step may do to the providers a load has been offered to. *)
Ordered(l) ==
  \A p \in visited[l] :
    /\ \A q \in visited'[l] \ visited[l] : CallsBefore(p, q)
    /\ current_entry_pos_'[l] \notin {current_entry_pos_[l], NULL} => CallsBefore(p, current_entry_pos_'[l])

LEMMA DetachMovesOne ==
  ASSUME Inv, NEW l \in Loads, NEW q \in Providers \cup {NULL}, Detach(l, q)
  PROVE  /\ current_entry_pos_'[l] = q
         /\ \A k \in Loads \ {l} : current_entry_pos_'[k] = current_entry_pos_[k]
BY DEF Inv, TypeOK, Detach

LEMMA SendRequestOrdered ==
  ASSUME Inv, NEW l \in Loads, NEW from \in SUBSET Valid, SendRequest(l, from),
         \A p \in visited[l], q \in from : CallsBefore(p, q)
  PROVE  \A k \in Loads : Ordered(k)
<1>1. visited \in [Loads -> SUBSET Providers] /\ from \subseteq Providers
  BY DEF Inv, TypeOK, Valid
<1>2. CASE \E p \in from :
             /\ OnRequest(l, p)
             /\ Detach(l, p)
             /\ visited' = [visited EXCEPT ![l] = @ \cup {p} \cup {r \in from : <<r, p>> \in before}]
  <2>1. PICK p \in from :
             /\ Detach(l, p)
             /\ visited' = [visited EXCEPT ![l] = @ \cup {p} \cup {r \in from : <<r, p>> \in before}]
    BY <1>2
  <2>2. /\ current_entry_pos_'[l] = p
        /\ \A k \in Loads \ {l} : current_entry_pos_'[k] = current_entry_pos_[k]
    BY <2>1, <1>1, DetachMovesOne
  <2>3. /\ visited'[l] \subseteq visited[l] \cup from
        /\ \A k \in Loads \ {l} : visited'[k] = visited[k]
    BY <2>1, <1>1
  <2> QED BY <2>1, <2>2, <2>3 DEF Ordered
<1>3. CASE StopRequest(l) /\ visited' = [visited EXCEPT ![l] = @ \cup from]
  <2>1. /\ current_entry_pos_'[l] = NULL
        /\ \A k \in Loads \ {l} : current_entry_pos_'[k] = current_entry_pos_[k]
    BY <1>3, DetachMovesOne DEF StopRequest
  <2>2. /\ visited'[l] = visited[l] \cup from
        /\ \A k \in Loads \ {l} : visited'[k] = visited[k]
    BY <1>3, <1>1
  <2> QED BY <2>1, <2>2 DEF Ordered
<1> QED BY <1>2, <1>3 DEF SendRequest

LEMMA StopRequestOrdered ==
  ASSUME Inv, NEW l \in Loads, StopRequest(l), visited' = visited
  PROVE  \A k \in Loads : Ordered(k)
<1>1. /\ current_entry_pos_'[l] = NULL
      /\ \A k \in Loads \ {l} : current_entry_pos_'[k] = current_entry_pos_[k]
  BY DetachMovesOne DEF StopRequest
<1> QED BY <1>1 DEF Ordered

LEMMA StepOrdered ==
  ASSUME Inv, [Next]_vars
  PROVE  \A l \in Loads : Ordered(l)
<1>1. CASE UNCHANGED <<visited, current_entry_pos_>>
  BY <1>1 DEF Ordered
<1>2. ASSUME NEW l \in Loads, OnBeforeResourceLoad(l) PROVE \A k \in Loads : Ordered(k)
  <2>1. SendRequest(l, Valid) /\ visited[l] = {}
    BY <1>2 DEF OnBeforeResourceLoad, Inv, LoadInv
  <2> QED BY <2>1, SendRequestOrdered
<1>3. ASSUME NEW l \in Loads, Continue(l) PROVE \A k \in Loads : Ordered(k)
  <2>1. CASE ContinueWithoutManager(l)
    BY <2>1, <1>1 DEF ContinueWithoutManager, historyVars
  <2>2. CASE ContinueHandled(l) \/ StopOnIOThread(l)
    BY <2>2, StopRequestOrdered DEF ContinueHandled, StopOnIOThread, historyVars
  <2>3. CASE ContinueNext(l)
    <3> DEFINE from == {p \in Valid : <<current_entry_pos_[l], p>> \in before}
    <3>1. SendRequest(l, from) /\ UnderWay(l) /\ manager = "alive"
      BY <2>3 DEF ContinueNext, UnderWay, Posted
    <3>2. current_entry_pos_[l] \in InList /\ current_entry_pos_[l] \in Providers
      BY <3>1 DEF Inv, NoDanglingEntry, InList
    <3>3. \A q \in from : q \in Providers /\ CallsBefore(current_entry_pos_[l], q)
      BY <3>2 DEF Inv, ListInv, InList, Valid
    <3>4. \A p \in visited[l] : p \in Providers /\ (p = current_entry_pos_[l] \/ CallsBefore(p, current_entry_pos_[l]))
      BY <3>1 DEF Inv, TypeOK, LoadInv
    <3>5. \A p \in visited[l], q \in from : CallsBefore(p, q)
      BY <3>2, <3>3, <3>4, CallsBeforeOrder
    <3>6. from \in SUBSET Valid
      OBVIOUS
    <3> HIDE DEF from
    <3> QED BY <3>1, <3>5, <3>6, SendRequestOrdered
  <2> QED BY <1>3, <2>1, <2>2, <2>3 DEF Continue
<1>4. ASSUME NEW l \in Loads, GetResourceHandler(l) PROVE \A k \in Loads : Ordered(k)
  <2>1. /\ visited'[l] = {} /\ current_entry_pos_' = current_entry_pos_
        /\ \A k \in Loads \ {l} : visited'[k] = visited[k]
    BY <1>4 DEF GetResourceHandler, Inv, TypeOK
  <2> QED BY <2>1 DEF Ordered
<1>5. CASE ProviderAnswers
  BY <1>1, <1>5 DEF ProviderAnswers, ContinueOpen, ArchiveLoaded, historyVars
<1>6. CASE RemoveAllProviders \/ Destruct
  BY <1>1, <1>6 DEF RemoveAllProviders, Destruct, DeleteProviders
<1>7. ASSUME NEW i, RemoveProviders(i) PROVE \A k \in Loads : Ordered(k)
  BY <1>1, <1>7 DEF RemoveProviders, DeleteProviders
<1>8. ASSUME NEW p \in Providers, AddProvider(p) PROVE \A k \in Loads : Ordered(k)
  BY <1>1, <1>8 DEF AddProvider
<1>9. CASE UNCHANGED vars
  BY <1>1, <1>9 DEF vars, programVars, historyVars
<1> QED BY <1>2, <1>3, <1>4, <1>5, <1>6, <1>7, <1>8, <1>9 DEF Next

(* Providers are asked in ascending order, then in the order of their addition,
   and none twice. *)
THEOREM AskedInOrder == Spec => CalledInOrder
<1>1. Inv /\ [Next]_vars =>
        [\A l \in Loads :
           \A p \in visited[l] :
             /\ \A q \in visited'[l] \ visited[l] : CallsBefore(p, q)
             /\ current_entry_pos_'[l] \notin {current_entry_pos_[l], NULL} =>
                  CallsBefore(p, current_entry_pos_'[l])]_vars
  BY StepOrdered DEF Ordered
<1> QED BY <1>1, Invariance, PTL DEF Spec, CalledInOrder

-----------------------------------------------------------------------------
(* A load is held by a provider that is not pending deletion, and either a file
   is being opened for it or that provider has started to read its archive; an
   archive that has been read has nobody waiting for it. *)
OwedInv ==
  /\ \A l \in Loads : stage[l] = "held" =>
       LET p == current_entry_pos_[l]
       IN /\ p \in Valid
          /\ \/ <<l, p>> \in opening
             \/ archive[p] # "unloaded" /\ (archive[p] = "loading" => l \in archive_requests[p])
  /\ \A p \in Providers : archive[p] \in {"loaded", "failed"} => archive_requests[p] = {}

LEMMA OwedInvOwes == Inv /\ OwedInv => LoadsAreOwed
<1> SUFFICES ASSUME Inv, OwedInv, NEW l \in Loads, stage[l] = "held",
                    <<l, current_entry_pos_[l]>> \notin opening
             PROVE  \/ /\ current_entry_pos_[l] \in InList
                       /\ archive[current_entry_pos_[l]] = "loading"
                       /\ l \in archive_requests[current_entry_pos_[l]]
                    \/ Forgotten(l)
  BY DEF LoadsAreOwed
<1> DEFINE p == current_entry_pos_[l]
<1>1. /\ p \in Valid /\ p \in InList /\ p \in Providers
      /\ archive[p] # "unloaded" /\ (archive[p] = "loading" => l \in archive_requests[p])
  BY DEF OwedInv, Valid, InList
<1>2. CASE archive[p] = "loading"
  BY <1>1, <1>2
<1>3. CASE archive[p] \in {"loaded", "failed"}
  BY <1>1, <1>3 DEF OwedInv, Forgotten, HasState
<1> QED BY <1>1, <1>2, <1>3 DEF Inv, TypeOK

(* A step that gives no load to a provider, and under which the loads that stay
   with theirs stay with one that is not pending deletion. *)
LEMMA OwedKept ==
  ASSUME OwedInv, UNCHANGED providerVars,
         \A l \in Loads : stage'[l] = "held" =>
           /\ stage[l] = "held" /\ current_entry_pos_'[l] = current_entry_pos_[l]
           /\ current_entry_pos_[l] \in Valid'
  PROVE  OwedInv'
BY DEF OwedInv, providerVars

LEMMA StopRequestOwed ==
  ASSUME Inv, OwedInv, NEW l \in Loads, StopRequest(l), before' = before PROVE OwedInv'
<1>1. Valid' = Valid
  BY DetachKeepsList DEF StopRequest
<1>2. /\ \A k \in Loads \ {l} : stage'[k] = stage[k] /\ current_entry_pos_'[k] = current_entry_pos_[k]
      /\ stage'[l] = "over" /\ UNCHANGED providerVars
  BY DetachMovesOne DEF StopRequest, Inv, TypeOK
<1> QED BY <1>1, <1>2, OwedKept DEF OwedInv

LEMMA TakeOwed ==
  ASSUME Inv, OwedInv, NEW l \in Loads, NEW q \in Valid, OnRequest(l, q), Detach(l, q), before' = before
  PROVE  OwedInv'
<1>1. Valid' = Valid
  BY DetachKeepsList
<1>2. /\ current_entry_pos_'[l] = q /\ q \in Providers
      /\ \A k \in Loads \ {l} : current_entry_pos_'[k] = current_entry_pos_[k]
  BY DetachMovesOne DEF Valid
<1>3. CASE stage' = [stage EXCEPT ![l] = "handled"] \/ stage' = [stage EXCEPT ![l] = "next"]
  <2>1. CASE UNCHANGED providerVars
    <3>1. \A k \in Loads : stage'[k] = "held" => k # l /\ stage[k] = "held"
      BY <1>3 DEF Inv, TypeOK
    <3> QED BY <2>1, <3>1, <1>1, <1>2, OwedKept DEF OwedInv
  <2>2. UNCHANGED providerVars
    BY <1>3 DEF OnRequest, providerVars, Inv, TypeOK
  <2> QED BY <2>1, <2>2
<1>4. CASE /\ Kind[q] = "directory" /\ stage' = [stage EXCEPT ![l] = "held"]
           /\ opening' = opening \cup {<<l, q>>}
           /\ UNCHANGED <<archive, archive_requests>>
  <2>1. \A k \in Loads \ {l} : stage'[k] = stage[k]
    BY <1>4 DEF Inv, TypeOK
  <2> QED BY <1>1, <1>2, <1>4, <2>1 DEF OwedInv
<1>5. CASE /\ stage' = [stage EXCEPT ![l] = "held"]
           /\ archive' = [archive EXCEPT ![q] = "loading"]
           /\ archive_requests' = [archive_requests EXCEPT ![q] = @ \cup {l}]
           /\ UNCHANGED opening
           /\ archive[q] \in {"unloaded", "loading"}
  <2>1. \A k \in Loads \ {l} : stage'[k] = stage[k]
    BY <1>5 DEF Inv, TypeOK
  <2>2. /\ archive'[q] = "loading" /\ archive_requests'[q] = archive_requests[q] \cup {l}
        /\ \A p \in Providers \ {q} : archive'[p] = archive[p] /\ archive_requests'[p] = archive_requests[p]
    BY <1>2, <1>5 DEF Inv, TypeOK
  <2>3. ASSUME NEW k \in Loads, stage'[k] = "held"
        PROVE  LET p == current_entry_pos_'[k]
               IN /\ p \in Valid'
                  /\ \/ <<k, p>> \in opening'
                     \/ archive'[p] # "unloaded" /\ (archive'[p] = "loading" => k \in archive_requests'[p])
    <3>1. CASE k = l
      BY <3>1, <1>1, <1>2, <2>2
    <3>2. CASE k # l
      <4> DEFINE p == current_entry_pos_[k]
      <4>1. /\ p \in Valid /\ p \in Providers /\ current_entry_pos_'[k] = p
            /\ \/ <<k, p>> \in opening
               \/ archive[p] # "unloaded" /\ (archive[p] = "loading" => k \in archive_requests[p])
        BY <2>1, <2>3, <3>2, <1>2 DEF OwedInv, Valid
      <4>2. CASE p = q
        BY <4>1, <4>2, <1>1, <1>5, <2>2
      <4>3. CASE p # q
        BY <4>1, <4>3, <1>1, <1>5, <2>2
      <4> QED BY <4>2, <4>3
    <3> QED BY <3>1, <3>2
  <2>4. \A p \in Providers : archive'[p] \in {"loaded", "failed"} => archive_requests'[p] = {}
    BY <2>2 DEF OwedInv
  <2> QED BY <2>3, <2>4 DEF OwedInv
<1> QED BY <1>3, <1>4, <1>5 DEF OnRequest

LEMMA SendRequestOwed ==
  ASSUME Inv, OwedInv, NEW l \in Loads, NEW from \in SUBSET Valid, SendRequest(l, from), before' = before
  PROVE  OwedInv'
BY StopRequestOwed, TakeOwed DEF SendRequest

(* Removing providers continues the loads they held. *)
LEMMA DeleteProvidersOwed ==
  ASSUME Inv, OwedInv, NEW S \in SUBSET InList, NEW told \in {"next", "stop"},
         manager = "alive", DeleteProviders(S, told)
  PROVE  OwedInv'
<1>1. ASSUME NEW l \in Loads, stage'[l] = "held"
      PROVE  /\ stage[l] = "held" /\ current_entry_pos_'[l] = current_entry_pos_[l]
             /\ current_entry_pos_[l] \in Valid'
  <2> DEFINE p == current_entry_pos_[l]
  <2>1. stage[l] = "held" /\ current_entry_pos_'[l] = p
    BY <1>1 DEF DeleteProviders
  <2>2. p \in Valid /\ p \in InList
    BY <2>1 DEF OwedInv, Valid, InList
  <2>3. l \in pending_requests_[p] /\ HasState(l, p)
    BY <2>1, <2>2 DEF Inv, NoDanglingEntry, UnderWay, HasState
  <2>4. p \notin Reached(S)
    <3>1. ASSUME p \in Reached(S) PROVE stage'[l] = told
      BY <3>1, <2>3 DEF DeleteProviders
    <3> QED BY <3>1, <1>1
  <2>5. p \in Providers /\ entry[p] = "listed" /\ entry'[p] = entry[p]
    BY <2>2, <2>4 DEF DeleteProviders, Valid
  <2> QED BY <2>1, <2>5 DEF Valid
<1>2. UNCHANGED providerVars
  BY DEF DeleteProviders
<1> QED BY <1>1, <1>2, OwedKept

LEMMA ProviderAnswersOwed == ASSUME Inv, OwedInv, ProviderAnswers PROVE OwedInv'
<1>1. ASSUME NEW l \in Loads, NEW p \in Providers, NEW found \in BOOLEAN, ContinueOpen(l, p, found) PROVE OwedInv'
  <2>0. /\ opening' = opening \ {<<l, p>>}
        /\ stage' = IF HasState(l, p) THEN [stage EXCEPT ![l] = IF found THEN "handled" ELSE "next"] ELSE stage
        /\ UNCHANGED <<entry, current_entry_pos_, archive, archive_requests>>
    BY <1>1 DEF ContinueOpen
  <2>1. Valid' = Valid
    BY <2>0 DEF Valid
  <2>2. \A k \in Loads : stage'[k] = "held" => stage[k] = "held" /\ <<k, current_entry_pos_[k]>> # <<l, p>>
    BY <2>0 DEF Inv, TypeOK, HasState
  <2> QED BY <2>0, <2>1, <2>2 DEF OwedInv
<1>2. ASSUME NEW p \in Providers, NEW result \in {"loaded", "failed"}, NEW found \in SUBSET Loads,
             ArchiveLoaded(p, result, found)
      PROVE  OwedInv'
  <2>0. /\ archive' = [archive EXCEPT ![p] = result]
        /\ archive_requests' = [archive_requests EXCEPT ![p] = {}]
        /\ stage' = [l \in Loads |-> IF l \in found /\ HasState(l, p) THEN "handled" ELSE stage[l]]
        /\ UNCHANGED <<entry, current_entry_pos_, opening>>
    BY <1>2 DEF ArchiveLoaded
  <2>1. Valid' = Valid /\ Valid \subseteq Providers
    BY <2>0 DEF Valid
  <2>2. \A k \in Loads : stage'[k] = "held" => stage[k] = "held"
    BY <2>0
  <2>3. /\ archive'[p] = result /\ archive_requests'[p] = {}
        /\ \A q \in Providers \ {p} : archive'[q] = archive[q] /\ archive_requests'[q] = archive_requests[q]
    BY <2>0 DEF Inv, TypeOK
  <2>4. ASSUME NEW k \in Loads, stage'[k] = "held"
        PROVE  LET q == current_entry_pos_'[k]
               IN /\ q \in Valid'
                  /\ \/ <<k, q>> \in opening'
                     \/ archive'[q] # "unloaded" /\ (archive'[q] = "loading" => k \in archive_requests'[q])
    <3> DEFINE q == current_entry_pos_[k]
    <3>1. /\ q \in Valid /\ q \in Providers /\ current_entry_pos_'[k] = q /\ q \in Valid'
          /\ \/ <<k, q>> \in opening
             \/ archive[q] # "unloaded" /\ (archive[q] = "loading" => k \in archive_requests[q])
      BY <2>0, <2>1, <2>2, <2>4 DEF OwedInv
    <3>2. CASE q = p
      BY <3>1, <3>2, <2>3
    <3>3. CASE q # p
      BY <3>1, <3>3, <2>0, <2>3
    <3> QED BY <3>2, <3>3
  <2>5. \A q \in Providers : archive'[q] \in {"loaded", "failed"} => archive_requests'[q] = {}
    BY <2>3 DEF OwedInv
  <2> QED BY <2>4, <2>5 DEF OwedInv
<1> QED BY <1>1, <1>2 DEF ProviderAnswers

LEMMA NextOwed == ASSUME Inv, OwedInv, [Next]_vars PROVE OwedInv'
<1>1. ASSUME NEW p \in Providers, AddProvider(p) PROVE OwedInv'
  <2>1. Valid \subseteq Valid' /\ UNCHANGED <<providerVars, stage, current_entry_pos_>>
    BY <1>1 DEF AddProvider, Valid, Inv, TypeOK
  <2> QED BY <2>1, OwedKept DEF OwedInv
<1>2. ASSUME NEW i, RemoveProviders(i) PROVE OwedInv'
  <2>1. manager = "alive" /\ DeleteProviders({p \in InList : Identifier[p] = i}, "next")
    BY <1>2 DEF RemoveProviders
  <2> DEFINE S == {p \in InList : Identifier[p] = i}
  <2>2. S \in SUBSET InList /\ DeleteProviders(S, "next")
    BY <2>1
  <2> HIDE DEF S
  <2> QED BY <2>1, <2>2, DeleteProvidersOwed
<1>3. CASE RemoveAllProviders
  BY <1>3, DeleteProvidersOwed DEF RemoveAllProviders
<1>4. CASE Destruct
  <2>1. CASE DeleteProviders(InList, "stop")
    BY <2>1, <1>4, DeleteProvidersOwed DEF Destruct
  <2>2. CASE stage' = [l \in Loads |-> IF stage[l] = "held" THEN "stop" ELSE stage[l]] /\ UNCHANGED providerVars
    BY <2>2, OwedKept
  <2> QED BY <1>4, <2>1, <2>2 DEF Destruct
<1>5. ASSUME NEW l \in Loads, OnBeforeResourceLoad(l) PROVE OwedInv'
  BY <1>5, SendRequestOwed DEF OnBeforeResourceLoad
<1>6. ASSUME NEW l \in Loads, Continue(l) PROVE OwedInv'
  <2>1. CASE ContinueWithoutManager(l)
    <3>1. UNCHANGED <<providerVars, entry, current_entry_pos_>> /\ stage' = [stage EXCEPT ![l] = "over"]
      BY <2>1 DEF ContinueWithoutManager
    <3>2. \A k \in Loads : stage'[k] = "held" => stage[k] = "held"
      BY <3>1 DEF Inv, TypeOK
    <3> QED BY <3>1, <3>2, OwedKept DEF OwedInv, Valid
  <2>2. CASE ContinueHandled(l) \/ StopOnIOThread(l)
    BY <2>2, StopRequestOwed DEF ContinueHandled, StopOnIOThread
  <2>3. CASE ContinueNext(l)
    <3> DEFINE from == {p \in Valid : <<current_entry_pos_[l], p>> \in before}
    <3>1. SendRequest(l, from) /\ before' = before /\ from \in SUBSET Valid
      BY <2>3 DEF ContinueNext
    <3> HIDE DEF from
    <3> QED BY <3>1, SendRequestOwed
  <2> QED BY <1>6, <2>1, <2>2, <2>3 DEF Continue
<1>7. ASSUME NEW l \in Loads, GetResourceHandler(l) PROVE OwedInv'
  <2>1. UNCHANGED <<providerVars, entry, current_entry_pos_>> /\ stage' = [stage EXCEPT ![l] = "served"]
    BY <1>7 DEF GetResourceHandler
  <2>2. \A k \in Loads : stage'[k] = "held" => stage[k] = "held"
    BY <2>1 DEF Inv, TypeOK
  <2> QED BY <2>1, <2>2, OwedKept DEF OwedInv, Valid
<1>8. CASE ProviderAnswers
  BY <1>8, ProviderAnswersOwed
<1>9. CASE UNCHANGED vars
  BY <1>9, OwedKept DEF vars, programVars, OwedInv, Valid
<1> QED BY <1>1, <1>2, <1>3, <1>4, <1>5, <1>6, <1>7, <1>8, <1>9 DEF Next

LEMMA OwedInvariance == Spec => []OwedInv
<1>1. Init => OwedInv
  BY DEF Init, OwedInv
<1>2. Inv /\ OwedInv /\ [Next]_vars => OwedInv'
  BY NextOwed
<1> QED BY <1>1, <1>2, Invariance, PTL DEF Spec

(* A load that a provider holds is answered by a task of the FILE thread that is
   still to come, unless the archive forgot it: the safety half of LoadsGoOn. *)
THEOREM HeldLoadsAreOwed == Spec => []LoadsAreOwed
<1> QED BY OwedInvOwes, Invariance, OwedInvariance, PTL

-----------------------------------------------------------------------------
(* The refinement of ProviderWalk. *)

LEMMA StatusFacts ==
  /\ Status("new") = "new" /\ Status("held") = "open" /\ Status("next") = "passed"
  /\ Status("handled") = "answered" /\ Status("stop") = "stopped"
  /\ Status("over") = "over" /\ Status("served") = "served"
BY DEF Status

(* One load changes hands. *)
LEMMA OneMoves ==
  ASSUME Inv, NEW l \in Loads, NEW s \in Stages, stage' = [stage EXCEPT ![l] = s],
         \A k \in Loads \ {l} : current_entry_pos_'[k] = current_entry_pos_[k]
  PROVE  /\ WalkStatus' = [WalkStatus EXCEPT ![l] = Status(s)]
         /\ WalkTurn' = [WalkTurn EXCEPT ![l] = IF s \in {"held"} \cup Posted THEN current_entry_pos_'[l] ELSE NULL]
<1>1. stage'[l] = s /\ \A k \in Loads \ {l} : stage'[k] = stage[k]
  BY DEF Inv, TypeOK
<1>2. WalkStatus' = [WalkStatus EXCEPT ![l] = Status(s)]
  <2>1. WalkStatus' = [k \in Loads |-> Status(stage'[k])]
    BY DEF WalkStatus, Status
  <2>2. [WalkStatus EXCEPT ![l] = Status(s)] = [k \in Loads |-> IF k = l THEN Status(s) ELSE Status(stage[k])]
    BY DEF WalkStatus
  <2> QED BY <1>1, <2>1, <2>2
<1>3. WalkTurn' = [WalkTurn EXCEPT ![l] = IF s \in {"held"} \cup Posted THEN current_entry_pos_'[l] ELSE NULL]
  BY <1>1 DEF WalkTurn, UnderWay
<1> QED BY <1>2, <1>3

(* Loads change stage in place and stay with the provider they are with. *)
LEMMA StaysWithTurn ==
  ASSUME \A k \in Loads : UnderWay(k)' <=> UnderWay(k), current_entry_pos_' = current_entry_pos_
  PROVE  WalkTurn' = WalkTurn
BY DEF WalkTurn

LEMMA DetachKeepsPresent ==
  ASSUME Inv, NEW l \in Loads, NEW q \in Valid \cup {NULL}, Detach(l, q), before' = before
  PROVE  Valid' = Valid /\ Gone' = Gone
<1>1. Valid' = Valid
  BY DetachKeepsList
<1>2. \A p \in Providers : entry'[p] = entry[p] \/ (entry[p] = "deletion_pending" /\ entry'[p] = "deleted")
  BY DEF Detach
<1> QED BY <1>1, <1>2 DEF Gone

(* The providers whose turn is still to come, as the list has them. *)
LEMMA BehindIs ==
  ASSUME Inv, NEW l \in Loads
  PROVE  /\ stage[l] = "new" => Walk!Behind(l) = Valid
         /\ stage[l] = "next" /\ manager = "alive" =>
              Walk!Behind(l) = {p \in Valid : <<current_entry_pos_[l], p>> \in before}
<1>1. Walk!Behind(l) = {p \in Valid : WalkTurn[l] = NULL \/ CallsBefore(WalkTurn[l], p)}
  BY DEF Walk!Behind
<1>2. ASSUME stage[l] = "new" PROVE WalkTurn[l] = NULL
  BY <1>2 DEF WalkTurn, UnderWay, Posted
<1>3. ASSUME stage[l] = "next", manager = "alive"
      PROVE  /\ WalkTurn[l] = current_entry_pos_[l] /\ current_entry_pos_[l] # NULL
             /\ \A p \in Valid : <<current_entry_pos_[l], p>> \in before <=> CallsBefore(current_entry_pos_[l], p)
  <2>1. UnderWay(l)
    BY <1>3 DEF UnderWay, Posted
  <2>2. current_entry_pos_[l] \in InList
    BY <1>3, <2>1 DEF Inv, NoDanglingEntry
  <2> QED BY <2>1, <2>2, NullIsNoProvider DEF WalkTurn, Inv, ListInv, InList, Valid
<1> QED BY <1>1, <1>2, <1>3

(* SendRequest asks one of those behind, or ends the load when there is none left. *)
LEMMA SendRequestWalks ==
  ASSUME Inv, NEW l \in Loads, stage[l] \in {"new", "next"},
         SendRequest(l, Walk!Behind(l)), Walk!Behind(l) \subseteq Valid,
         UNCHANGED <<manager, before, pending_handlers_>>
  PROVE  Walk!WalkNext
<1> DEFINE from == Walk!Behind(l)
<1>0. from \subseteq Providers /\ from \subseteq InList
  BY DEF Valid, InList
<1>1. \A p, q \in from : <<p, q>> \in before <=> CallsBefore(p, q)
  BY <1>0 DEF Inv, ListInv
<1>2. WalkStatus[l] \in {"new", "passed"}
  BY StatusFacts DEF WalkStatus
<1>3. CASE \E p \in from :
             /\ OnRequest(l, p)
             /\ Detach(l, p)
             /\ visited' = [visited EXCEPT ![l] = @ \cup {p} \cup {r \in from : <<r, p>> \in before}]
  <2>1. PICK p \in from :
             /\ OnRequest(l, p)
             /\ Detach(l, p)
             /\ visited' = [visited EXCEPT ![l] = @ \cup {p} \cup {r \in from : <<r, p>> \in before}]
    BY <1>3
  <2>2. p \in Providers /\ p \in Valid
    BY <1>0
  <2>3. PICK s \in {"held", "next", "handled"} : stage' = [stage EXCEPT ![l] = s]
    BY <2>1 DEF OnRequest
  <2>4. Valid' = Valid /\ Gone' = Gone
    BY <2>1, <2>2, DetachKeepsPresent
  <2>5. /\ current_entry_pos_'[l] = p
        /\ \A k \in Loads \ {l} : current_entry_pos_'[k] = current_entry_pos_[k]
    BY <2>1, <2>2, DetachMovesOne
  <2>6. s \in Stages /\ s \in {"held"} \cup Posted
    BY DEF Stages, Posted
  <2>7. WalkStatus' = [WalkStatus EXCEPT ![l] = Status(s)] /\ WalkTurn' = [WalkTurn EXCEPT ![l] = p]
    BY <2>3, <2>5, <2>6, OneMoves
  <2>8. Status(s) \in {"open", "passed", "answered"}
    BY StatusFacts
  <2>9. visited' = [visited EXCEPT ![l] = @ \cup {q \in from : q = p \/ CallsBefore(q, p)}]
    <3>1. visited[l] \cup {p} \cup {r \in from : <<r, p>> \in before} = visited[l] \cup {q \in from : q = p \/ CallsBefore(q, p)}
      BY <1>1
    <3> QED BY <2>1, <3>1
  <2>10. Walk!Ask(l, p)
    BY <1>2, <2>4, <2>7, <2>8, <2>9 DEF Walk!Ask
  <2> QED BY <2>2, <2>10 DEF Walk!WalkNext
<1>4. CASE StopRequest(l) /\ visited' = [visited EXCEPT ![l] = @ \cup from]
  <2>1. Valid' = Valid /\ Gone' = Gone
    BY <1>4, DetachKeepsPresent DEF StopRequest
  <2>2. WalkStatus' = [WalkStatus EXCEPT ![l] = "over"] /\ WalkTurn' = [WalkTurn EXCEPT ![l] = NULL]
    <3>1. \A k \in Loads \ {l} : current_entry_pos_'[k] = current_entry_pos_[k]
      BY <1>4, DetachMovesOne DEF StopRequest
    <3> QED BY <1>4, <3>1, OneMoves, StatusFacts DEF StopRequest, Stages, Posted
  <2>3. Walk!Exhaust(l)
    BY <1>2, <1>4, <2>1, <2>2 DEF Walk!Exhaust, Walk!End
  <2> QED BY <2>3 DEF Walk!WalkNext
<1> QED BY <1>3, <1>4 DEF SendRequest

LEMMA ContinueWalks == ASSUME Inv, NEW l \in Loads, Continue(l) PROVE Walk!WalkNext
<1>1. CASE ContinueNext(l)
  <2>1. Walk!Behind(l) = {p \in Valid : <<current_entry_pos_[l], p>> \in before}
    BY <1>1, BehindIs DEF ContinueNext
  <2>2. SendRequest(l, Walk!Behind(l)) /\ Walk!Behind(l) \subseteq Valid /\ stage[l] \in {"new", "next"}
    BY <1>1, <2>1 DEF ContinueNext
  <2> QED BY <1>1, <2>2, SendRequestWalks DEF ContinueNext
<1>2. ASSUME StopRequest(l), before' = before, stage[l] \in Posted
      PROVE  /\ Valid' = Valid /\ Gone' = Gone
             /\ WalkStatus' = [WalkStatus EXCEPT ![l] = "over"]
             /\ WalkTurn' = [WalkTurn EXCEPT ![l] = NULL]
             /\ WalkTurn[l] = current_entry_pos_[l]
  <2>1. Valid' = Valid /\ Gone' = Gone
    BY <1>2, DetachKeepsPresent DEF StopRequest
  <2>2. \A k \in Loads \ {l} : current_entry_pos_'[k] = current_entry_pos_[k]
    BY <1>2, DetachMovesOne DEF StopRequest
  <2>3. WalkStatus' = [WalkStatus EXCEPT ![l] = "over"] /\ WalkTurn' = [WalkTurn EXCEPT ![l] = NULL]
    BY <1>2, <2>2, OneMoves, StatusFacts DEF StopRequest, Stages, Posted
  <2>4. WalkTurn[l] = current_entry_pos_[l]
    BY <1>2 DEF WalkTurn, UnderWay
  <2> QED BY <2>1, <2>3, <2>4
<1>3. CASE ContinueHandled(l)
  <2>1. /\ manager = "alive" /\ manager' = "alive" /\ stage[l] = "handled" /\ StopRequest(l)
        /\ pending_handlers_' = [pending_handlers_ EXCEPT ![l] = current_entry_pos_[l]]
        /\ before' = before /\ visited' = visited
    BY <1>3 DEF ContinueHandled, historyVars
  <2>2. WalkStatus[l] = "answered" /\ stage[l] \in Posted
    BY <2>1, StatusFacts DEF WalkStatus, Posted
  <2>3. Walk!TakeHandler(l)
    BY <1>2, <2>1, <2>2 DEF Walk!TakeHandler, Walk!End
  <2> QED BY <2>3 DEF Walk!WalkNext
<1>4. CASE StopOnIOThread(l)
  <2>1. /\ stage[l] = "stop" /\ StopRequest(l)
        /\ UNCHANGED <<manager, before, pending_handlers_, visited>>
    BY <1>4 DEF StopOnIOThread, historyVars
  <2>2. WalkStatus[l] = "stopped" /\ stage[l] \in Posted
    BY <2>1, StatusFacts DEF WalkStatus, Posted
  <2>3. Walk!GiveUp(l)
    BY <1>2, <2>1, <2>2 DEF Walk!GiveUp, Walk!End
  <2> QED BY <2>3 DEF Walk!WalkNext
<1>5. CASE ContinueWithoutManager(l)
  <2>1. /\ manager = "deleted" /\ stage[l] \in Posted /\ stage' = [stage EXCEPT ![l] = "over"]
        /\ UNCHANGED <<manager, entry, current_entry_pos_, pending_handlers_, visited>>
    BY <1>5 DEF ContinueWithoutManager, historyVars
  <2>2. WalkStatus' = [WalkStatus EXCEPT ![l] = "over"] /\ WalkTurn' = [WalkTurn EXCEPT ![l] = NULL]
    BY <2>1, OneMoves, StatusFacts DEF Stages, Posted
  <2>3. WalkStatus[l] \in {"stopped", "passed", "answered"}
    BY <2>1, StatusFacts DEF WalkStatus, Posted
  <2>4. Walk!GiveUp(l)
    BY <2>1, <2>2, <2>3 DEF Walk!GiveUp, Walk!End, Valid, Gone
  <2> QED BY <2>4 DEF Walk!WalkNext
<1> QED BY <1>1, <1>3, <1>4, <1>5 DEF Continue

(* DeleteProviders withdraws the providers it reaches, none of which is pending
   deletion, and tells the loads that they held. *)
LEMMA DeleteProvidersWalks ==
  ASSUME Inv, OwedInv, NEW S \in SUBSET InList, NEW told \in {"next", "stop"},
         manager = "alive", DeleteProviders(S, told)
  PROVE  Walk!WalkNext
<1> DEFINE W == Reached(S)
<1>1. W \subseteq Valid /\ W \subseteq Providers
  <2>1. ASSUME NEW p \in W PROVE p \in Valid /\ p \in Providers
    <3>1. p \in S /\ p \in InList /\ p \in Providers
      BY DEF Reached, InList
    <3>2. entry[p] = "deletion_pending" => <<p, p>> \in before
      BY <3>1 DEF Reached
    <3>3. <<p, p>> \notin before
      BY <3>1, CallsBeforeOrder DEF Inv, ListInv
    <3> QED BY <3>1, <3>2, <3>3 DEF InList, Valid
  <2> QED BY <2>1
<1>2. \A p \in Providers : /\ p \in W => entry'[p] \in {"deleted", "deletion_pending"}
                           /\ p \notin W => entry'[p] = entry[p]
  BY DEF DeleteProviders
<1>3. Valid' = Valid \ W /\ Gone' = Gone \cup W
  BY <1>1, <1>2 DEF Valid, Gone
<1>4. ASSUME NEW l \in Loads
      PROVE  stage'[l] = IF stage[l] = "held" /\ current_entry_pos_[l] \in W THEN told ELSE stage[l]
  <2>1. ASSUME NEW p \in W PROVE l \in pending_requests_[p] /\ HasState(l, p) <=> stage[l] = "held" /\ current_entry_pos_[l] = p
    <3>1. p \in InList
      BY <1>1 DEF InList, Valid
    <3> QED BY <3>1 DEF Inv, NoDanglingEntry, UnderWay, HasState
  <2>2. (\E p \in W : l \in pending_requests_[p] /\ HasState(l, p)) <=> stage[l] = "held" /\ current_entry_pos_[l] \in W
    BY <2>1
  <2> QED BY <2>2 DEF DeleteProviders
<1>5. \A l \in Loads : stage[l] = "held" => WalkTurn[l] = current_entry_pos_[l]
  BY DEF WalkTurn, UnderWay
<1>6. \A l \in Loads : WalkStatus[l] = "open" <=> stage[l] = "held"
  BY StatusFacts DEF WalkStatus, Inv, TypeOK, Stages
<1>7. WalkStatus' = [l \in Loads |-> IF WalkStatus[l] = "open" /\ WalkTurn[l] \in W THEN Status(told) ELSE WalkStatus[l]]
  <2>1. WalkStatus' = [l \in Loads |-> Status(stage'[l])]
    BY DEF WalkStatus, Status
  <2>2. ASSUME NEW l \in Loads
        PROVE  Status(stage'[l]) = IF WalkStatus[l] = "open" /\ WalkTurn[l] \in W THEN Status(told) ELSE WalkStatus[l]
    <3>1. WalkStatus[l] = Status(stage[l])
      BY DEF WalkStatus
    <3>2. WalkStatus[l] = "open" /\ WalkTurn[l] \in W <=> stage[l] = "held" /\ current_entry_pos_[l] \in W
      BY <1>5, <1>6
    <3> QED BY <1>4, <3>1, <3>2
  <2> QED BY <2>1, <2>2
<1>8. WalkTurn' = WalkTurn
  <2>1. current_entry_pos_' = current_entry_pos_
    BY DEF DeleteProviders
  <2>2. \A l \in Loads : UnderWay(l)' <=> UnderWay(l)
    BY <1>4 DEF UnderWay, Posted
  <2> QED BY <2>1, <2>2, StaysWithTurn
<1>9. manager' # "deleted" /\ UNCHANGED <<pending_handlers_, visited>>
  BY DEF DeleteProviders
<1>10. Walk!Withdraw(W, Status(told))
  BY <1>3, <1>7, <1>8, <1>9 DEF Walk!Withdraw
<1>11. Status(told) \in {"passed", "stopped"} /\ W \in SUBSET Valid
  BY <1>1, StatusFacts
<1> HIDE DEF W
<1> QED BY <1>10, <1>11 DEF Walk!WalkNext

LEMMA DestructWalks == ASSUME Inv, OwedInv, Destruct PROVE Walk!WalkNext
<1>1. CASE DeleteProviders(InList, "stop")
  BY <1>1, DeleteProvidersWalks DEF Destruct
<1>2. CASE /\ manager' = "deleted"
           /\ entry' = [p \in Providers |-> IF p \in InList THEN "deleted" ELSE entry[p]]
           /\ pending_handlers_' = [l \in Loads |-> NULL]
           /\ stage' = [l \in Loads |-> IF stage[l] = "held" THEN "stop" ELSE stage[l]]
           /\ UNCHANGED <<current_entry_pos_, visited>>
  <2>1. Valid' = {} /\ Gone' = Gone \cup Valid
    BY <1>2 DEF Valid, Gone, InList
  <2>2. WalkStatus' = [l \in Loads |-> IF WalkStatus[l] = "open" THEN "stopped" ELSE WalkStatus[l]]
    <3>1. WalkStatus' = [l \in Loads |-> Status(stage'[l])]
      BY DEF WalkStatus, Status
    <3>2. ASSUME NEW l \in Loads
          PROVE  Status(stage'[l]) = IF WalkStatus[l] = "open" THEN "stopped" ELSE WalkStatus[l]
      <4>1. WalkStatus[l] = Status(stage[l]) /\ (WalkStatus[l] = "open" <=> stage[l] = "held")
        BY StatusFacts DEF WalkStatus, Inv, TypeOK, Stages
      <4> QED BY <1>2, <4>1, StatusFacts
    <3> QED BY <3>1, <3>2
  <2>3. \A l \in Loads : UnderWay(l)' <=> UnderWay(l)
    BY <1>2 DEF UnderWay, Posted
  <2>4. WalkTurn' = WalkTurn
    BY <1>2, <2>3, StaysWithTurn
  <2>5. manager # "deleted"
    BY DEF Destruct
  <2>6. Walk!Delete
    BY <1>2, <2>1, <2>2, <2>4, <2>5 DEF Walk!Delete
  <2> QED BY <2>6 DEF Walk!WalkNext
<1> QED BY <1>1, <1>2 DEF Destruct

(* An answer that comes too late is a stutter of the walk. *)
LEMMA ProviderAnswersWalks == ASSUME Inv, OwedInv, ProviderAnswers PROVE Walk!WalkNext \/ UNCHANGED Walk!walkVars
<1>1. ASSUME NEW p \in Providers, NEW S \in SUBSET Loads, NEW s \in {"next", "handled"},
             \A l \in S : HasState(l, p), S # {},
             stage' = [l \in Loads |-> IF l \in S THEN s ELSE stage[l]],
             UNCHANGED <<manager, entry, current_entry_pos_, pending_handlers_, visited>>
      PROVE  Walk!WalkNext
  <2>1. p \in Valid
    <3>1. PICK l \in S : HasState(l, p)
      BY <1>1
    <3>2. l \in Loads /\ stage[l] = "held" /\ current_entry_pos_[l] = p
      BY <3>1 DEF HasState
    <3> QED BY <3>2 DEF OwedInv
  <2>2. Valid' = Valid /\ Gone' = Gone
    BY <1>1 DEF Valid, Gone
  <2>3. \A l \in S : WalkStatus[l] = "open" /\ WalkTurn[l] = p
    BY <1>1, StatusFacts DEF HasState, WalkStatus, WalkTurn, UnderWay
  <2>4. WalkStatus' = [l \in Loads |-> IF l \in S THEN Status(s) ELSE WalkStatus[l]]
    <3>1. WalkStatus' = [l \in Loads |-> Status(stage'[l])]
      BY DEF WalkStatus, Status
    <3>2. ASSUME NEW l \in Loads PROVE Status(stage'[l]) = IF l \in S THEN Status(s) ELSE WalkStatus[l]
      <4>1. WalkStatus[l] = Status(stage[l])
        BY DEF WalkStatus
      <4> QED BY <1>1, <4>1
    <3> QED BY <3>1, <3>2
  <2>5. \A l \in Loads : UnderWay(l)' <=> UnderWay(l)
    BY <1>1 DEF UnderWay, Posted, HasState
  <2>6. WalkTurn' = WalkTurn
    BY <1>1, <2>5, StaysWithTurn
  <2>7. Walk!Answer(p, S, Status(s))
    BY <1>1, <2>1, <2>2, <2>3, <2>4, <2>6 DEF Walk!Answer
  <2>8. Status(s) \in {"passed", "answered"}
    BY StatusFacts
  <2> QED BY <2>7, <2>8 DEF Walk!WalkNext
<1>2. ASSUME UNCHANGED <<manager, entry, stage, current_entry_pos_, pending_handlers_, visited>>
      PROVE  UNCHANGED Walk!walkVars
  BY <1>2 DEF Walk!walkVars, Valid, Gone, WalkStatus, WalkTurn, UnderWay, Posted, Status
<1>3. ASSUME NEW l \in Loads, NEW p \in Providers, NEW found \in BOOLEAN, ContinueOpen(l, p, found)
      PROVE  Walk!WalkNext \/ UNCHANGED Walk!walkVars
  <2>0. /\ stage' = IF HasState(l, p) THEN [stage EXCEPT ![l] = IF found THEN "handled" ELSE "next"] ELSE stage
        /\ UNCHANGED <<manager, entry, current_entry_pos_, pending_handlers_, visited>>
    BY <1>3 DEF ContinueOpen, historyVars
  <2>1. CASE HasState(l, p)
    <3> DEFINE s == IF found THEN "handled" ELSE "next"
    <3>1. stage' = [k \in Loads |-> IF k \in {l} THEN s ELSE stage[k]]
      BY <2>0, <2>1 DEF Inv, TypeOK
    <3>2. s \in {"next", "handled"} /\ {l} \in SUBSET Loads /\ {l} # {} /\ \A k \in {l} : HasState(k, p)
      BY <2>1
    <3> HIDE DEF s
    <3> QED BY <1>1, <2>0, <3>1, <3>2
  <2>2. CASE ~HasState(l, p)
    BY <1>2, <2>0, <2>2
  <2> QED BY <2>1, <2>2
<1>4. ASSUME NEW p \in Providers, NEW result \in {"loaded", "failed"}, NEW found \in SUBSET Loads,
             ArchiveLoaded(p, result, found)
      PROVE  Walk!WalkNext \/ UNCHANGED Walk!walkVars
  <2> DEFINE S == {l \in found : HasState(l, p)}
  <2>0. /\ stage' = [l \in Loads |-> IF l \in S THEN "handled" ELSE stage[l]]
        /\ UNCHANGED <<manager, entry, current_entry_pos_, pending_handlers_, visited>>
    BY <1>4 DEF ArchiveLoaded, historyVars
  <2>1. S \in SUBSET Loads /\ \A l \in S : HasState(l, p)
    OBVIOUS
  <2>2. CASE S = {}
    <3>1. stage' = stage
      BY <2>0, <2>2 DEF Inv, TypeOK
    <3> QED BY <1>2, <2>0, <3>1
  <2>3. CASE S # {}
    <3> HIDE DEF S
    <3> QED BY <1>1, <2>0, <2>1, <2>3
  <2> QED BY <2>2, <2>3
<1> QED BY <1>3, <1>4 DEF ProviderAnswers

LEMMA NextWalks == ASSUME Inv, OwedInv, [Next]_vars PROVE [Walk!WalkNext]_(Walk!walkVars)
<1>1. ASSUME NEW p \in Providers, AddProvider(p) PROVE Walk!WalkNext
  <2>1. /\ manager = "alive" /\ manager' = "alive" /\ entry[p] = "new" /\ entry' = [entry EXCEPT ![p] = "listed"]
        /\ UNCHANGED <<stage, current_entry_pos_, pending_handlers_, visited>>
    BY <1>1 DEF AddProvider
  <2>2. Valid' = Valid \cup {p} /\ Gone' = Gone /\ p \notin Valid \cup Gone
    BY <2>1 DEF Valid, Gone, Inv, TypeOK
  <2>3. WalkStatus' = WalkStatus /\ WalkTurn' = WalkTurn
    BY <2>1 DEF WalkStatus, WalkTurn, UnderWay, Status
  <2>4. Walk!Add(p)
    BY <2>1, <2>2, <2>3 DEF Walk!Add
  <2> QED BY <2>4 DEF Walk!WalkNext
<1>2. ASSUME NEW i, RemoveProviders(i) PROVE Walk!WalkNext
  <2>1. manager = "alive" /\ DeleteProviders({p \in InList : Identifier[p] = i}, "next")
    BY <1>2 DEF RemoveProviders
  <2> DEFINE S == {p \in InList : Identifier[p] = i}
  <2>2. S \in SUBSET InList /\ DeleteProviders(S, "next")
    BY <2>1
  <2> HIDE DEF S
  <2> QED BY <2>1, <2>2, DeleteProvidersWalks
<1>3. CASE RemoveAllProviders
  BY <1>3, DeleteProvidersWalks DEF RemoveAllProviders
<1>4. CASE Destruct
  BY <1>4, DestructWalks
<1>5. ASSUME NEW l \in Loads, OnBeforeResourceLoad(l) PROVE Walk!WalkNext
  <2>1. Walk!Behind(l) = Valid
    BY <1>5, BehindIs DEF OnBeforeResourceLoad
  <2>2. SendRequest(l, Walk!Behind(l)) /\ Walk!Behind(l) \subseteq Valid /\ stage[l] \in {"new", "next"}
    BY <1>5, <2>1 DEF OnBeforeResourceLoad
  <2> QED BY <1>5, <2>2, SendRequestWalks DEF OnBeforeResourceLoad
<1>6. ASSUME NEW l \in Loads, Continue(l) PROVE Walk!WalkNext
  BY <1>6, ContinueWalks
<1>7. ASSUME NEW l \in Loads, GetResourceHandler(l) PROVE Walk!WalkNext
  <2>1. /\ manager = "alive" /\ manager' = "alive" /\ stage[l] = "over"
        /\ stage' = [stage EXCEPT ![l] = "served"]
        /\ pending_handlers_' = [pending_handlers_ EXCEPT ![l] = NULL]
        /\ visited' = [visited EXCEPT ![l] = {}]
        /\ UNCHANGED <<entry, current_entry_pos_>>
    BY <1>7 DEF GetResourceHandler
  <2>2. WalkStatus' = [WalkStatus EXCEPT ![l] = "served"] /\ WalkTurn' = [WalkTurn EXCEPT ![l] = NULL]
    BY <2>1, OneMoves, StatusFacts DEF Stages, Posted
  <2>3. WalkStatus[l] = "over" /\ WalkTurn[l] = NULL
    BY <2>1, StatusFacts DEF WalkStatus, WalkTurn, UnderWay, Posted
  <2>4. [WalkTurn EXCEPT ![l] = NULL] = WalkTurn
    BY <2>3 DEF WalkTurn
  <2>5. Walk!Fetch(l)
    BY <2>1, <2>2, <2>3, <2>4 DEF Walk!Fetch, Valid, Gone
  <2> QED BY <2>5 DEF Walk!WalkNext
<1>8. CASE ProviderAnswers
  BY <1>8, ProviderAnswersWalks
<1>9. CASE UNCHANGED vars
  BY <1>9 DEF vars, programVars, historyVars, Walk!walkVars, Valid, Gone, WalkStatus, WalkTurn, UnderWay, Status
<1> QED BY <1>1, <1>2, <1>3, <1>4, <1>5, <1>6, <1>7, <1>8, <1>9 DEF Next

(* The manager implements the walk: for any loads and any providers, every step
   is one of ProviderWalk or changes nothing of it. *)
THEOREM RefinesWalk == Spec => ImplementsWalk
<1>1. Init => Walk!WalkInit
  <2> SUFFICES ASSUME Init PROVE Walk!WalkInit
    OBVIOUS
  <2>1. Valid = {} /\ Gone = {}
    BY DEF Init, Valid, Gone
  <2>2. WalkStatus = [l \in Loads |-> "new"] /\ WalkTurn = [l \in Loads |-> NULL]
    BY StatusFacts DEF Init, WalkStatus, WalkTurn, UnderWay, Posted
  <2> QED BY <2>1, <2>2 DEF Init, Walk!WalkInit
<1>2. Inv /\ OwedInv /\ [Next]_vars => [Walk!WalkNext]_(Walk!walkVars)
  BY NextWalks
<1> QED BY <1>1, <1>2, Invariance, OwedInvariance, PTL DEF Spec, ImplementsWalk, Walk!WalkSpec
-----------------------------------------------------------------------------
(* Why the loads go on: what every task of theirs uses up.                  *)

(* A load ends, or is given to a provider behind the one it was with. *)
GoesOn(l) ==
  \/ stage'[l] = "over"
  \/ UnderWay(l)' /\ CallsBefore(current_entry_pos_[l], current_entry_pos_'[l])

(* Otherwise it stays where it is, or the provider that holds it lets go. *)
Stays(l) ==
  /\ current_entry_pos_'[l] = current_entry_pos_[l]
  /\ stage'[l] = stage[l] \/ (stage[l] = "held" /\ stage'[l] \in Posted)

LoadsAdvance ==
  [][\A l \in Loads : UnderWay(l) => (Continue(l) => GoesOn(l)) /\ (GoesOn(l) \/ Stays(l))]_vars

LEMMA ContinueAdvances ==
  ASSUME Inv, NEW l \in Loads, Continue(l)
  PROVE  GoesOn(l) /\ \A k \in Loads \ {l} : Stays(k)
<1> DEFINE Others == \A k \in Loads \ {l} : current_entry_pos_'[k] = current_entry_pos_[k] /\ stage'[k] = stage[k]
<1>0. stage \in [Loads -> Stages]
  BY DEF Inv, TypeOK
<1>1. CASE ContinueWithoutManager(l)
  BY <1>0, <1>1 DEF ContinueWithoutManager, GoesOn, Stays
<1>2. ASSUME StopRequest(l) PROVE stage'[l] = "over" /\ Others
  BY <1>0, <1>2, DetachMovesOne DEF StopRequest
<1>3. CASE ContinueHandled(l) \/ StopOnIOThread(l)
  BY <1>2, <1>3 DEF ContinueHandled, StopOnIOThread, GoesOn, Stays
<1>4. CASE ContinueNext(l)
  <2> DEFINE from == {p \in Valid : <<current_entry_pos_[l], p>> \in before}
  <2>1. SendRequest(l, from) /\ UnderWay(l) /\ manager = "alive"
    BY <1>4 DEF ContinueNext, UnderWay, Posted
  <2>2. current_entry_pos_[l] \in InList
    BY <2>1 DEF Inv, NoDanglingEntry
  <2>3. \A q \in from : q \in Providers /\ CallsBefore(current_entry_pos_[l], q)
    BY <2>2 DEF Inv, ListInv, InList, Valid
  <2> HIDE DEF from
  <2>4. ASSUME NEW p \in from, OnRequest(l, p), Detach(l, p) PROVE GoesOn(l) /\ Others
    <3>1. PICK s \in {"held", "next", "handled"} : stage' = [stage EXCEPT ![l] = s]
      BY <2>4 DEF OnRequest
    <3>2. current_entry_pos_'[l] = p /\ \A k \in Loads \ {l} : current_entry_pos_'[k] = current_entry_pos_[k]
      BY <2>3, <2>4, DetachMovesOne
    <3>3. UnderWay(l)'
      BY <1>0, <3>1 DEF UnderWay, Posted
    <3> QED BY <1>0, <2>3, <3>1, <3>2, <3>3 DEF GoesOn
  <2>5. GoesOn(l) /\ Others
    BY <1>2, <2>1, <2>4 DEF SendRequest, GoesOn
  <2> QED BY <2>5 DEF Stays
<1> QED BY <1>1, <1>3, <1>4 DEF Continue

(* A load under way is moved by no other's tasks, by no removal and by no
   provider but the one that holds it. *)
LEMMA OtherStepsStay ==
  ASSUME Inv, [Next]_vars, ~\E l \in Loads : Continue(l), NEW l \in Loads, UnderWay(l)
  PROVE  Stays(l)
<1>0. stage \in [Loads -> Stages]
  BY DEF Inv, TypeOK
<1>1. ASSUME NEW k \in Loads, OnBeforeResourceLoad(k) PROVE Stays(l)
  <2>1. k # l /\ SendRequest(k, Valid)
    BY <1>1 DEF OnBeforeResourceLoad, UnderWay, Posted
  <2>2. stage'[l] = stage[l]
    BY <1>0, <2>1 DEF SendRequest, OnRequest, StopRequest
  <2>3. \E q \in Providers \cup {NULL} : Detach(k, q)
    BY <2>1 DEF SendRequest, StopRequest, Valid
  <2> QED BY <2>1, <2>2, <2>3, DetachMovesOne DEF Stays
<1>2. ASSUME NEW k \in Loads, GetResourceHandler(k) PROVE Stays(l)
  BY <1>0, <1>2 DEF GetResourceHandler, UnderWay, Posted, Stays
<1>3. CASE ProviderAnswers
  BY <1>0, <1>3 DEF ProviderAnswers, ContinueOpen, ArchiveLoaded, HasState, Posted, Stays
<1>4. ASSUME NEW S, NEW told \in {"next", "stop"}, DeleteProviders(S, told) PROVE Stays(l)
  BY <1>4 DEF DeleteProviders, HasState, Posted, Stays
<1>5. CASE RemoveAllProviders \/ \E i \in {Identifier[p] : p \in Providers} : RemoveProviders(i)
  BY <1>4, <1>5 DEF RemoveAllProviders, RemoveProviders
<1>6. CASE Destruct
  BY <1>4, <1>6 DEF Destruct, Posted, Stays
<1>7. ASSUME NEW p \in Providers, AddProvider(p) PROVE Stays(l)
  BY <1>7 DEF AddProvider, Stays
<1>8. CASE UNCHANGED vars
  BY <1>8 DEF vars, programVars, Stays
<1> QED BY <1>1, <1>2, <1>3, <1>5, <1>6, <1>7, <1>8 DEF Next

(* Every task of a load ends it or takes it to a provider further behind, and
   nothing else does more than bring the answer it waits for: a load cannot go
   round, whatever is added and removed, and there are only so many providers
   to go to.  This is what LoadsGoOn rests on, beside the fairness of the tasks. *)
THEOREM LoadsRunOut == Spec => LoadsAdvance
<1>1. ASSUME Inv, [Next]_vars, NEW l \in Loads, UnderWay(l)
      PROVE  (Continue(l) => GoesOn(l)) /\ (GoesOn(l) \/ Stays(l))
  <2>1. ASSUME NEW k \in Loads, Continue(k) PROVE GoesOn(l) \/ Stays(l)
    BY <1>1, <2>1, ContinueAdvances
  <2> QED BY <1>1, <2>1, ContinueAdvances, OtherStepsStay
<1>2. Inv /\ [Next]_vars =>
        [\A l \in Loads : UnderWay(l) => (Continue(l) => GoesOn(l)) /\ (GoesOn(l) \/ Stays(l))]_vars
  BY <1>1
<1> QED
  BY <1>2, Invariance, PTL DEF Spec, LoadsAdvance
=============================================================================
