-------------------------- MODULE ResourceManager --------------------------
(***************************************************************************)
(* CefResourceManager (cef_resource_manager.cc), which every               *)
(* SWebViewHandler creates and hands its resource loads to.  A load is      *)
(* offered to the providers in order; a provider lets it pass, or takes it  *)
(* and says later, from a task of its own, whether it has a resource.       *)
(* Meanwhile providers are added and removed and the manager itself may be  *)
(* deleted.  Everything here runs as tasks on CEF's IO thread.  Tasks run   *)
(* in the order they were posted; the model lets any posted one run next.   *)
(***************************************************************************)
EXTENDS Integers, FiniteSets

CONSTANTS
  Loads,        \* the resource loads of one behaviour (a bound), by GetIdentifier()
  MaxProviders, \* how many providers are added (a bound)
  Kind,         \* of a provider: "immediate", "directory" or "archive"
  Order,        \* ProviderEntry::order_
  Identifier    \* ProviderEntry::identifier_

(* A provider is known by its number: it is the n-th to be added. *)
Providers == 1 .. MaxProviders
NULL == 0

ASSUME MaxProvidersAssumption == MaxProviders \in Nat
ASSUME LoadsFinite == IsFiniteSet(Loads)
ASSUME KindAssumption == Kind \in [Providers -> {"immediate", "directory", "archive"}]
ASSUME OrderAssumption == Order \in [Providers -> Int]

VARIABLES
  manager,             \* "alive", "removing" (for ever, in Remove*) or "deleted"
  entry,               \* ProviderEntry: in no list, listed, deletion_pending_, deleted
  before,              \* the positions in the list providers_
  pending_requests_,   \* ProviderEntry::pending_requests_, by load
  stage,               \* who owns a load's RequestState, see Stages
  current_entry_pos_,  \* RequestState::current_entry_pos_
  pending_handlers_,   \* by load, the provider that made the handler, or NULL
  opening,             \* Requests DirectoryProvider has posted to the FILE thread
  archive,             \* ArchiveProvider: archive_load_started_, _ended_, archive_
  archive_requests,    \* ArchiveProvider::pending_requests_
  offered,             \* history: the providers there were when a load began
  visited,             \* history: the providers a load was offered to
  cancelled            \* history: the providers told OnRequestCanceled about a load

programVars == <<entry, before, pending_requests_, stage, current_entry_pos_, pending_handlers_>>
providerVars == <<opening, archive, archive_requests>>
historyVars == <<offered, visited, cancelled>>
vars == <<manager, programVars, providerVars, historyVars>>

(* "held": by a Request given to a provider; "next", "handled" and "stop": by
   a posted task, Continue(NULL), Continue(handler) and Stop(); "over": deleted,
   its callback run; "served": CEF has asked for the handler, too. *)
Stages == {"new", "held", "next", "handled", "stop", "over", "served"}
Posted == {"next", "handled", "stop"}

UnderWay(l) == stage[l] \in {"held"} \cup Posted

(* The providers_ list, and the part of it not pending deletion. *)
InList == {p \in Providers : entry[p] \in {"listed", "deletion_pending"}}
Valid == {p \in Providers : entry[p] = "listed"}

(* Request::HasState, of the Request given to p for load l: each Request is
   used for one call of one provider. *)
HasState(l, p) == stage[l] = "held" /\ current_entry_pos_[l] = p

TypeOK ==
  /\ manager \in {"alive", "removing", "deleted"}
  /\ entry \in [Providers -> {"new", "listed", "deletion_pending", "deleted"}]
  /\ before \subseteq Providers \X Providers
  /\ pending_requests_ \in [Providers -> SUBSET Loads]
  /\ stage \in [Loads -> Stages]
  /\ current_entry_pos_ \in [Loads -> Providers \cup {NULL}]
  /\ pending_handlers_ \in [Loads -> Providers \cup {NULL}]
  /\ opening \subseteq Loads \X Providers
  /\ archive \in [Providers -> {"unloaded", "loading", "loaded", "failed"}]
  /\ archive_requests \in [Providers -> SUBSET Loads]
  /\ offered \in [Loads -> SUBSET Providers]
  /\ visited \in [Loads -> SUBSET Providers]
  /\ cancelled \in [Loads -> SUBSET Providers]

Init ==
  /\ manager = "alive"
  /\ entry = [p \in Providers |-> "new"]
  /\ before = {}
  /\ pending_requests_ = [p \in Providers |-> {}]
  /\ stage = [l \in Loads |-> "new"]
  /\ current_entry_pos_ = [l \in Loads |-> NULL]
  /\ pending_handlers_ = [l \in Loads |-> NULL]
  /\ opening = {}
  /\ archive = [p \in Providers |-> "unloaded"]
  /\ archive_requests = [p \in Providers |-> {}]
  /\ offered = [l \in Loads |-> {}]
  /\ visited = [l \in Loads |-> {}]
  /\ cancelled = [l \in Loads |-> {}]

-----------------------------------------------------------------------------
(* The list of providers. *)

AddProvider_BeforeEqual(p) ==
  LET behind == {q \in InList : \E r \in InList :
                   (r = q \/ <<r, q>> \in before) /\ Order[r] >= Order[p]}
  IN /\ manager = "alive" /\ entry[p] = "new" /\ \A q \in 1 .. p - 1 : entry[q] # "new"
     /\ entry' = [entry EXCEPT ![p] = "listed"]
     /\ before' = before \cup ((InList \ behind) \X {p}) \cup ({p} \X behind)
     /\ UNCHANGED <<manager, pending_requests_, stage, current_entry_pos_, pending_handlers_,
                    providerVars, offered, visited, cancelled>>

(* AddProvider: before the first entry with a higher order. *)
AddProvider(p) ==
  LET behind == {q \in InList : \E r \in InList :
                   (r = q \/ <<r, q>> \in before) /\ Order[r] > Order[p]}
  IN /\ manager = "alive" /\ entry[p] = "new" /\ \A q \in 1 .. p - 1 : entry[q] # "new"
     /\ entry' = [entry EXCEPT ![p] = "listed"]
     /\ before' = before \cup ((InList \ behind) \X {p}) \cup ({p} \X behind)
     /\ UNCHANGED <<manager, pending_requests_, stage, current_entry_pos_, pending_handlers_,
                    providerVars, offered, visited, cancelled>>

(* DeleteProvider of the entries in S, called in the order of the list.  It
   returns at once, without going on to the next entry, when deletion is
   pending already, and the loop around it never ends: only what stands
   before such an entry is reached. *)
Reached(S) == {p \in S : \A q \in S : entry[q] = "deletion_pending" => <<p, q>> \in before}
NeverEnds(S) == \E q \in S : entry[q] = "deletion_pending"

DeleteProviders(S, told) ==
  LET continued == {l \in Loads : \E p \in Reached(S) : l \in pending_requests_[p] /\ HasState(l, p)}
  IN /\ entry' = [p \in Providers |->
                    IF p \notin Reached(S) THEN entry[p]
                    ELSE IF pending_requests_[p] = {} THEN "deleted" ELSE "deletion_pending"]
     /\ stage' = [l \in Loads |-> IF l \in continued THEN told ELSE stage[l]]
     /\ cancelled' = [l \in Loads |->
                        IF l \in continued THEN cancelled[l] \cup {current_entry_pos_[l]} ELSE cancelled[l]]
     /\ manager' = IF NeverEnds(S) THEN "removing" ELSE manager
     /\ UNCHANGED <<before, pending_requests_, current_entry_pos_, pending_handlers_,
                    providerVars, offered, visited>>

RemoveProviders(i) ==
  /\ manager = "alive"
  /\ DeleteProviders({p \in InList : Identifier[p] = i}, "next")

RemoveAllProviders ==
  /\ manager = "alive"
  /\ DeleteProviders(InList, "stop")

(* ~CefResourceManager: RemoveAllProviders, which may not return, and then the
   entries are deleted with requests pending. *)
Destruct ==
  /\ manager = "alive"
  /\ \/ NeverEnds(InList) /\ DeleteProviders(InList, "stop")
     \/ /\ ~NeverEnds(InList)
        /\ manager' = "deleted"
        /\ entry' = [p \in Providers |-> IF p \in InList THEN "deleted" ELSE entry[p]]
        /\ pending_requests_' = [p \in Providers |-> {}]
        /\ pending_handlers_' = [l \in Loads |-> NULL]
        /\ stage' = [l \in Loads |-> IF stage[l] = "held" THEN "stop" ELSE stage[l]]
        /\ cancelled' = [l \in Loads |->
                           IF stage[l] = "held" THEN cancelled[l] \cup {current_entry_pos_[l]} ELSE cancelled[l]]
        /\ before' = {}
        /\ UNCHANGED <<current_entry_pos_, providerVars, offered, visited>>

-----------------------------------------------------------------------------
(* One load on its way from provider to provider. *)

Detach_KeepsEntry(l, q) ==
  LET old == current_entry_pos_[l]
  IN /\ current_entry_pos_' = [current_entry_pos_ EXCEPT ![l] = q]
     /\ pending_requests_' = [p \in Providers |->
                                IF p = q THEN pending_requests_[p] \cup {l}
                                ELSE IF p = old THEN pending_requests_[p] \ {l}
                                ELSE pending_requests_[p]]
     /\ UNCHANGED entry

Detach_DropsEntryAtOnce(l, q) ==
  LET old == current_entry_pos_[l]
  IN /\ current_entry_pos_' = [current_entry_pos_ EXCEPT ![l] = q]
     /\ pending_requests_' = [p \in Providers |->
                                IF p = q THEN pending_requests_[p] \cup {l}
                                ELSE IF p = old THEN pending_requests_[p] \ {l}
                                ELSE pending_requests_[p]]
     /\ entry' = [p \in Providers |->
                    IF p = old /\ entry[p] = "deletion_pending" THEN "deleted" ELSE entry[p]]

(* DetachRequestFromProvider, which deletes an entry that waited for its last
   request, and the constructor of the Request for the next one, q. *)
Detach(l, q) ==
  LET old == current_entry_pos_[l]
  IN /\ current_entry_pos_' = [current_entry_pos_ EXCEPT ![l] = q]
     /\ pending_requests_' = [p \in Providers |->
                                IF p = q THEN pending_requests_[p] \cup {l}
                                ELSE IF p = old THEN pending_requests_[p] \ {l}
                                ELSE pending_requests_[p]]
     /\ entry' = [p \in Providers |->
                    IF p = old /\ entry[p] = "deletion_pending" /\ pending_requests_[p] \subseteq {l}
                    THEN "deleted" ELSE entry[p]]

(* StopRequest: the state is deleted, and its destructor runs the callback. *)
StopRequest(l) ==
  /\ Detach(l, NULL)
  /\ stage' = [stage EXCEPT ![l] = "over"]
  /\ UNCHANGED providerVars

(* Provider::OnRequest when it takes the request.  ContentProvider and the
   program's BinaryResourceProvider and RequestDumpResourceProvider answer
   inside the call; only the second may have nothing to answer with. *)
OnRequest(l, p) ==
  \/ /\ Kind[p] = "immediate"
     /\ \E answer \in {"next", "handled"} : stage' = [stage EXCEPT ![l] = answer]
     /\ UNCHANGED providerVars
  \/ /\ Kind[p] = "directory"
     /\ stage' = [stage EXCEPT ![l] = "held"]
     /\ opening' = opening \cup {<<l, p>>}
     /\ UNCHANGED <<archive, archive_requests>>
  \/ /\ Kind[p] = "archive" /\ archive[p] \in {"unloaded", "loading"}
     /\ stage' = [stage EXCEPT ![l] = "held"]
     /\ archive' = [archive EXCEPT ![p] = "loading"]
     /\ archive_requests' = [archive_requests EXCEPT ![p] = @ \cup {l}]
     /\ UNCHANGED opening
  \/ /\ Kind[p] = "archive" /\ archive[p] = "loaded"
     /\ stage' = [stage EXCEPT ![l] = "handled"]
     /\ UNCHANGED providerVars

(* SendRequest: the providers of `from` in turn until one takes the load.  One
   that does not is passed: the address is not its own, or its archive is
   loaded and does not have the file. *)
SendRequest(l, from) ==
  \/ \E p \in from :
       /\ OnRequest(l, p)
       /\ Detach(l, p)
       /\ visited' = [visited EXCEPT ![l] = @ \cup {p} \cup {r \in from : <<r, p>> \in before}]
  \/ /\ StopRequest(l)
     /\ visited' = [visited EXCEPT ![l] = @ \cup from]

(* OnBeforeResourceLoad: the first valid provider, if any, is asked inside the call. *)
OnBeforeResourceLoad(l) ==
  /\ manager = "alive" /\ stage[l] = "new"
  /\ SendRequest(l, Valid)
  /\ offered' = [offered EXCEPT ![l] = Valid]
  /\ UNCHANGED <<manager, before, pending_handlers_, cancelled>>

(* The task of Request::Continue or Stop whose manager has gone: the state is
   deleted with the task. *)
ContinueWithoutManager(l) ==
  /\ manager = "deleted" /\ stage[l] \in Posted
  /\ stage' = [stage EXCEPT ![l] = "over"]
  /\ UNCHANGED <<manager, entry, before, pending_requests_, current_entry_pos_, pending_handlers_,
                 providerVars, historyVars>>

ContinueHandled(l) ==
  /\ manager = "alive" /\ stage[l] = "handled"
  /\ pending_handlers_' = [pending_handlers_ EXCEPT ![l] = current_entry_pos_[l]]
  /\ StopRequest(l)
  /\ UNCHANGED <<manager, before, historyVars>>

ContinueNext_StopsWhenRemoved(l) ==
  /\ manager = "alive" /\ stage[l] = "next"
  /\ IF entry[current_entry_pos_[l]] = "deletion_pending" THEN StopRequest(l) /\ UNCHANGED visited
     ELSE SendRequest(l, {p \in Valid : <<current_entry_pos_[l], p>> \in before})
  /\ UNCHANGED <<manager, before, pending_handlers_, offered, cancelled>>

(* ContinueRequest without a handler, with IncrementProvider: the next valid
   entry behind the current one, which may be pending deletion itself. *)
ContinueNext(l) ==
  /\ manager = "alive" /\ stage[l] = "next"
  /\ SendRequest(l, {p \in Valid : <<current_entry_pos_[l], p>> \in before})
  /\ UNCHANGED <<manager, before, pending_handlers_, offered, cancelled>>

StopOnIOThread(l) ==
  /\ manager = "alive" /\ stage[l] = "stop"
  /\ StopRequest(l)
  /\ UNCHANGED <<manager, before, pending_handlers_, historyVars>>

(* GetResourceHandler, which CEF calls once the load has gone on.  The
   history of a load is kept until then. *)
GetResourceHandler(l) ==
  /\ manager = "alive" /\ stage[l] = "over"
  /\ stage' = [stage EXCEPT ![l] = "served"]
  /\ pending_handlers_' = [pending_handlers_ EXCEPT ![l] = NULL]
  /\ offered' = [offered EXCEPT ![l] = {}]
  /\ visited' = [visited EXCEPT ![l] = {}]
  /\ cancelled' = [cancelled EXCEPT ![l] = {}]
  /\ UNCHANGED <<manager, entry, before, pending_requests_, current_entry_pos_, providerVars>>

-----------------------------------------------------------------------------
(* What providers say later. *)

ContinueOpen_Unchecked(l, p, found) ==
  /\ manager # "removing" /\ <<l, p>> \in opening
  /\ opening' = opening \ {<<l, p>>}
  /\ stage' = IF UnderWay(l) THEN [stage EXCEPT ![l] = IF found THEN "handled" ELSE "next"] ELSE stage
  /\ UNCHANGED <<manager, entry, before, pending_requests_, current_entry_pos_, pending_handlers_,
                 archive, archive_requests, historyVars>>

ContinueOpen_OnlyFound(l, p, found) ==
  /\ manager # "removing" /\ <<l, p>> \in opening
  /\ opening' = opening \ {<<l, p>>}
  /\ stage' = IF HasState(l, p) /\ found THEN [stage EXCEPT ![l] = "handled"] ELSE stage
  /\ UNCHANGED <<manager, entry, before, pending_requests_, current_entry_pos_, pending_handlers_,
                 archive, archive_requests, historyVars>>

(* DirectoryProvider: the FILE thread has opened the file or not, and the IO
   thread continues, which a Request without state ignores. *)
ContinueOpen(l, p, found) ==
  /\ manager # "removing" /\ <<l, p>> \in opening
  /\ opening' = opening \ {<<l, p>>}
  /\ stage' = IF HasState(l, p) THEN [stage EXCEPT ![l] = IF found THEN "handled" ELSE "next"] ELSE stage
  /\ UNCHANGED <<manager, entry, before, pending_requests_, current_entry_pos_, pending_handlers_,
                 archive, archive_requests, historyVars>>

(* ArchiveProvider::ContinueOnIOThread, if the provider is still there: only
   requests whose file was found are continued, the others are forgotten. *)
ArchiveLoaded(p, result, found) ==
  /\ manager # "removing" /\ p \in InList /\ archive[p] = "loading"
  /\ found \subseteq archive_requests[p]
  /\ result = "failed" => found = {}
  /\ archive' = [archive EXCEPT ![p] = result]
  /\ archive_requests' = [archive_requests EXCEPT ![p] = {}]
  /\ stage' = [l \in Loads |-> IF l \in found /\ HasState(l, p) THEN "handled" ELSE stage[l]]
  /\ UNCHANGED <<manager, entry, before, pending_requests_, current_entry_pos_, pending_handlers_,
                 opening, historyVars>>

-----------------------------------------------------------------------------
Continue(l) ==
  \/ ContinueWithoutManager(l) \/ ContinueHandled(l) \/ ContinueNext(l) \/ StopOnIOThread(l)

ProviderAnswers ==
  \/ \E l \in Loads, p \in Providers, found \in BOOLEAN : ContinueOpen(l, p, found)
  \/ \E p \in Providers, result \in {"loaded", "failed"}, found \in SUBSET Loads :
       ArchiveLoaded(p, result, found)

Next ==
  \/ \E p \in Providers : AddProvider(p)
  \/ \E i \in {Identifier[p] : p \in Providers} : RemoveProviders(i)
  \/ RemoveAllProviders
  \/ Destruct
  \/ \E l \in Loads : OnBeforeResourceLoad(l) \/ Continue(l) \/ GetResourceHandler(l)
  \/ ProviderAnswers

Spec == Init /\ [][Next]_vars

(* Each thread goes on running the tasks posted to it; nobody has to add,
   remove or load. *)
Fairness == WF_vars(\E l \in Loads : Continue(l)) /\ WF_vars(ProviderAnswers)

FairSpec == Spec /\ Fairness

-----------------------------------------------------------------------------
(* Properties. *)

(* The iterators kept in RequestState across tasks (cef_resource_manager.h:332-338)
   stay good while entries are deleted around them: a load under way points to
   an entry of the list that has it among its pending requests, an entry has no
   other requests, and one whose deletion is pending has some to wait for. *)
NoDanglingEntry ==
  manager # "deleted" =>
    /\ \A l \in Loads : UnderWay(l) => current_entry_pos_[l] \in InList
    /\ \A p \in InList : pending_requests_[p] = {l \in Loads : UnderWay(l) /\ current_entry_pos_[l] = p}
    /\ \A p \in Providers : entry[p] = "deletion_pending" => pending_requests_[p] # {}

(* What a provider says about a load after OnRequestCanceled is ignored
   (cef_resource_manager.h:200-204): no handler of its is ever used. *)
CancelledIsIgnored ==
  \A l \in Loads :
    /\ pending_handlers_[l] \notin cancelled[l]
    /\ stage[l] = "handled" => current_entry_pos_[l] \notin cancelled[l]

(* A load that goes on without a handler was offered to every provider that
   was there from its beginning to its end, however the list changed meanwhile. *)
NobodySkipped ==
  \A l \in Loads :
    stage[l] = "over" /\ pending_handlers_[l] = NULL => offered[l] \cap Valid \subseteq visited[l]

(* Providers are asked in ascending order, those of the same order in the order
   they were added, and none twice (cef_resource_manager.h:249-254). *)
CallsBefore(p, q) == Order[p] < Order[q] \/ (Order[p] = Order[q] /\ p < q)

CalledInOrder ==
  [][\A l \in Loads :
       \A p \in visited[l] :
         /\ \A q \in visited'[l] \ visited[l] : CallsBefore(p, q)
         /\ current_entry_pos_'[l] \notin {current_entry_pos_[l], NULL} =>
              CallsBefore(p, current_entry_pos_'[l])]_vars

(* A load taken while its archive was being loaded, whose file the archive does
   not have: ContinueOnIOThread ignores the result of ContinueRequest. *)
Forgotten(l) ==
  \E p \in Providers :
    HasState(l, p) /\ archive[p] \in {"loaded", "failed"} /\ l \notin archive_requests[p]

(* No load waits for nothing: one that a provider holds will be answered by the
   thread that opens its file or by the one that reads its archive, unless that
   archive forgot it.  A provider removed or an archive read meanwhile takes
   none of this away. *)
LoadsAreOwed ==
  \A l \in Loads :
    LET p == current_entry_pos_[l]
    IN stage[l] = "held" =>
         \/ <<l, p>> \in opening
         \/ p \in InList /\ archive[p] = "loading" /\ l \in archive_requests[p]
         \/ Forgotten(l)

(* A provider that takes a load is to "call Request::Continue or Request::Stop
   either in this method or asynchronously" (cef_resource_manager.h:192-196), and
   ArchiveProvider means to "Continue all pending requests."
   (cef_resource_manager.cc:257): every load it takes goes on, as long as no
   removal keeps the thread for ever.  Refuted: a load whose file is not in the
   archive waits for ever if it came while the archive was being read. *)
EveryLoadGoesOn ==
  \A l \in Loads : UnderWay(l) ~> (~UnderWay(l) \/ manager = "removing")

(* All other loads go on, whatever is removed or deleted while they are under
   way: no other provider keeps a load for ever, and the archive keeps none but
   those, so nothing else refutes EveryLoadGoesOn.  A removal that never ends is
   excepted again. *)
LoadsGoOn ==
  \A l \in Loads : UnderWay(l) ~> (~UnderWay(l) \/ Forgotten(l) \/ manager = "removing")

(* An entry whose deletion is pending is deleted in the end, and with it the
   provider, or a removal never ends. *)
RemovedEntriesGo ==
  \A p \in Providers :
    entry[p] = "deletion_pending" ~> (entry[p] = "deleted" \/ manager = "removing")

-----------------------------------------------------------------------------
(* The manager as its users see it: what a load waits for, whose turn it is and
   who is there to be asked, without the list and the entries that are kept
   only for the iterators (cef_resource_manager.h:249-272). *)
Gone == {p \in Providers : entry[p] \in {"deletion_pending", "deleted"}}
Status(s) == CASE s = "held" -> "open"
               [] s = "next" -> "passed"
               [] s = "handled" -> "answered"
               [] s = "stop" -> "stopped"
               [] OTHER -> s

WalkStatus == [l \in Loads |-> Status(stage[l])]
WalkTurn == [l \in Loads |-> IF UnderWay(l) THEN current_entry_pos_[l] ELSE NULL]

Walk == INSTANCE ProviderWalk WITH
  Providers <- Providers, NoProvider <- NULL, Earlier <- CallsBefore,
  present <- Valid,
  gone <- Gone,
  status <- WalkStatus,
  turn <- WalkTurn,
  asked <- visited,
  handler <- pending_handlers_,
  closed <- manager = "deleted"

(* However the list changes and whichever thread is late, a load walks the
   providers as the header tells their authors (cef_resource_manager.h:91-98,
   192-204, 249-254), and what is done to one load disturbs no other. *)
ImplementsWalk == Walk!WalkSpec
=============================================================================
