---------------------------- MODULE Engine_proofs ----------------------------
(***************************************************************************)
(* Theorems about Engine, for any number of browsers and addresses, on top *)
(* of the lifecycle's invariant: every step of the engine is a step of the *)
(* lifecycle or leaves it alone.                                           *)
(***************************************************************************)
EXTENDS Engine, WebViewLifecycle_proofs

(* The context object lives until Release, and the browsers do not outlive it. *)
ContextInv ==
  /\ engine \in EngineStates
  /\ initialized_ \in BOOLEAN /\ shutdown_ \in BOOLEAN /\ g_main_context \in BOOLEAN
  /\ g_main_context <=> engine # "released"
  /\ engine = "released" => Existing = {}

EngineInv == Inv /\ ContextInv

LEMMA EngineStepIsLifecycleStep == [EngineNext]_allVars => [Next]_vars
<1> SUFFICES ASSUME [EngineNext]_allVars PROVE [Next]_vars
  OBVIOUS
<1>1. CASE \/ \E succeeds \in BOOLEAN : Initialize(succeeds)
           \/ Run \/ LoopEnds \/ Shutdown \/ Release
  BY <1>1 DEF Initialize, Run, LoopEnds, Shutdown, Release
<1>2. ASSUME NEW v \in Views, WindowUp(v) PROVE [Next]_vars
  BY <1>2 DEF WindowUp, Next, ProgramStep
<1>3. ASSUME NEW v \in Views, OnClose(v) \/ FinalMessage(v) PROVE [Next]_vars
  BY <1>3 DEF OnClose, FinalMessage, Next, ProgramStep
<1>4. ASSUME NEW b \in Browsers, DoMessageLoopWork(b) \/ CefShutdown(b) PROVE [Next]_vars
  BY <1>4 DEF DoMessageLoopWork, CefShutdown, Next, CefStep
<1>5. CASE UNCHANGED allVars
  BY <1>5 DEF allVars
<1> QED
  BY <1>1, <1>2, <1>3, <1>4, <1>5 DEF EngineNext

(* No browser moves once the engine is released, nor does the engine. *)
LEMMA ReleasedIsQuiet ==
  ASSUME ContextInv, [EngineNext]_allVars
  PROVE  (\E b \in Browsers : phase'[b] # phase[b]) => g_main_context
<1> SUFFICES ASSUME ~g_main_context PROVE phase' = phase
  OBVIOUS
<1>1. engine = "released"
  BY DEF ContextInv
<1>2. ASSUME NEW v \in Views, WindowUp(v) \/ OnClose(v) \/ FinalMessage(v) PROVE FALSE
  BY <1>1, <1>2 DEF WindowUp, OnClose, FinalMessage
<1>3. ASSUME NEW b \in Browsers, DoMessageLoopWork(b) \/ CefShutdown(b) PROVE FALSE
  BY <1>1, <1>3 DEF DoMessageLoopWork, CefShutdown
<1> QED
  BY <1>1, <1>2, <1>3
  DEF EngineNext, Initialize, Run, LoopEnds, Shutdown, Release, allVars, vars

LEMMA EngineInitInv == EngineInit => EngineInv
  BY InitInv DEF EngineInit, EngineInv, ContextInv, EngineStates

LEMMA EngineStepInv == EngineInv /\ [EngineNext]_allVars => EngineInv'
<1> SUFFICES ASSUME EngineInv, [EngineNext]_allVars PROVE EngineInv'
  OBVIOUS
<1>1. Inv'
  BY EngineStepIsLifecycleStep, StepInv DEF EngineInv
<1>2. ASSUME NEW succeeds \in BOOLEAN, Initialize(succeeds) PROVE ContextInv'
  BY <1>2 DEF EngineInv, ContextInv, Initialize, InitializeContext, EngineStates
<1>3. ASSUME Run \/ LoopEnds \/ Shutdown PROVE ContextInv'
  BY <1>3 DEF EngineInv, ContextInv, Run, LoopEnds, Shutdown, EngineStates
<1>4. ASSUME Release PROVE ContextInv'
  BY <1>4 DEF EngineInv, ContextInv, Release, EngineStates, Existing, Exists, vars
<1>5. ASSUME NEW v \in Views, WindowUp(v) \/ OnClose(v) \/ FinalMessage(v) PROVE ContextInv'
  BY <1>5 DEF EngineInv, ContextInv, WindowUp, OnClose, FinalMessage, engineVars, EngineStates
<1>6. ASSUME NEW b \in Browsers, DoMessageLoopWork(b) \/ CefShutdown(b) PROVE ContextInv'
  BY <1>6 DEF EngineInv, ContextInv, DoMessageLoopWork, CefShutdown, engineVars
<1>7. ASSUME UNCHANGED allVars PROVE ContextInv'
  BY <1>7 DEF EngineInv, ContextInv, allVars, vars, Existing, Exists
<1>8. ContextInv'
  BY <1>2, <1>3, <1>4, <1>5, <1>6, <1>7 DEF EngineNext
<1> QED
  BY <1>1, <1>8 DEF EngineInv

(* The inductive invariant holds of the engine: the lifecycle's, and a context as long
   as a browser may need one. *)
THEOREM EngineInvariance == EngineSpec => []EngineInv
<1> QED
  BY EngineInitInv, EngineStepInv, PTL DEF EngineSpec

(* Every variable of the engine and of the view in it keeps its type, whether
   CefInitialize succeeded or not (RunEngineImpl::Initialize). *)
THEOREM EngineTypeCorrect == EngineSpec => []EngineTypeOK
<1>1. EngineInv => EngineTypeOK
  BY DEF EngineInv, ContextInv, Inv, EngineTypeOK
<1> QED
  BY <1>1, EngineInvariance, PTL

(* OnAfterCreated and OnBeforeClose always find a context to count in, those
   called from inside CefShutdown included (MainContext::Get). *)
THEOREM ContextIsThere == EngineSpec => ContextOutlivesCallbacks
<1>1. EngineInv /\ [EngineNext]_allVars
        => [\A b \in Browsers : phase'[b] # phase[b] => g_main_context]_allVars
  BY ReleasedIsQuiet DEF EngineInv
<1> QED
  BY <1>1, EngineInvariance, PTL DEF EngineSpec, ContextOutlivesCallbacks

(* The lifecycle's properties hold of the view inside the engine, too. *)
THEOREM EngineRunsLifecycle == EngineSpec => Spec
<1>1. EngineInit => Init
  BY DEF EngineInit
<1> QED
  BY <1>1, EngineStepIsLifecycleStep, PTL DEF EngineSpec, Spec
-----------------------------------------------------------------------------
(* The way out: from OnClose to Release.                                    *)

Exiting == {"closing", "stopped", "shutting_down", "released", "aborted"}

(* What the end of the loop leaves of the widgets.  It is inductive: nothing
   creates a widget once the window is closed. *)
WidgetsAtExit ==
  engine \in Exiting =>
    \A v \in Views : widget[v] \in IF engine = "closing" THEN {"destroyed", "freed"} ELSE {"freed"}

(* CEF's callbacks leave the widgets where they are. *)
LEMMA CefLeavesWidgets ==
  ASSUME NEW b \in Browsers, CefStep(b)
  PROVE  widget' = widget
  BY DEF CefStep, OnAfterCreated, OnBeforeClose, DoClose, OnAddressChange, OnLoadEnd,
         OnPreKeyEvent, widgetVars

(* Closing the window destroys the only view there is; that there is no other
   is what the layout of the main window says. *)
LEMMA StepExits ==
  ASSUME EngineInv, WidgetsAtExit, [EngineNext]_allVars
  PROVE  WidgetsAtExit'
<1>1. ASSUME NEW v \in Views, OnClose(v) PROVE WidgetsAtExit'
  <2>1. Views = {v}
    BY OneViewAssumption
  <2>2. widget'[v] = "destroyed" /\ engine' = "closing"
    BY <1>1 DEF OnClose, OnDestroy, EngineInv, Inv, TypeOK
  <2> QED BY <2>1, <2>2 DEF WidgetsAtExit
<1>2. ASSUME NEW v \in Views, FinalMessage(v) PROVE WidgetsAtExit'
  BY <1>2 DEF FinalMessage, Destruct, WidgetsAtExit, Exiting, engineVars, EngineInv, Inv, TypeOK
<1>3. ASSUME NEW v \in Views, WindowUp(v) PROVE WidgetsAtExit'
  BY <1>3 DEF WindowUp, WidgetsAtExit, Exiting, engineVars
<1>4. ASSUME NEW b \in Browsers, DoMessageLoopWork(b) \/ CefShutdown(b) PROVE WidgetsAtExit'
  <2>1. CefStep(b) /\ UNCHANGED engineVars
    BY <1>4 DEF DoMessageLoopWork, CefShutdown, CefStep
  <2> QED BY <2>1, CefLeavesWidgets DEF WidgetsAtExit, engineVars
<1>5. ASSUME NEW succeeds \in BOOLEAN, Initialize(succeeds) PROVE WidgetsAtExit'
  BY <1>5 DEF Initialize, WidgetsAtExit, Exiting
<1>6. ASSUME Run PROVE WidgetsAtExit'
  BY <1>6 DEF Run, WidgetsAtExit, Exiting
<1>7. ASSUME LoopEnds PROVE WidgetsAtExit'
  BY <1>7 DEF LoopEnds, WidgetsAtExit, vars
<1>8. ASSUME Shutdown \/ Release PROVE WidgetsAtExit'
  BY <1>8 DEF Shutdown, Release, WidgetsAtExit, Exiting, vars
<1>9. CASE UNCHANGED allVars
  BY <1>9 DEF allVars, vars, WidgetsAtExit
<1> QED
  BY <1>1, <1>2, <1>3, <1>4, <1>5, <1>6, <1>7, <1>8, <1>9 DEF EngineNext

(* Every widget is destroyed when the window is closed, and freed by the time
   Run returns (SMainWnd::OnClose, OnFinalMessage). *)
THEOREM WidgetsGoFirst == EngineSpec => []WidgetsAtExit
<1>1. EngineInit => WidgetsAtExit
  BY DEF EngineInit, WidgetsAtExit, Exiting
<1> QED
  BY <1>1, StepExits, EngineInvariance, PTL DEF EngineSpec

(* CefShutdown is called with a browser left that nobody told to close only
   when the program opened or closed its view while a creation was under way,
   or opened DevTools: a program that is careful keeps what the life span
   handler's documentation asks for, as far as closing goes. *)
THEOREM ExitIsClean == Careful => (EngineSpec => NoLiveBrowserAtShutdown)
<1> SUFFICES ASSUME Careful PROVE EngineSpec => NoLiveBrowserAtShutdown
  OBVIOUS
<1>1. EngineSpec => []AbandonedIsClosing
  BY EngineRunsLifecycle, NoBrowserIsAbandoned, PTL
<1>2. ASSUME EngineInv, WidgetsAtExit, AbandonedIsClosing, engine = "stopped", NEW b \in Browsers
      PROVE  phase[b] # "live"
  <2> SUFFICES ASSUME phase[b] = "live" PROVE FALSE
    OBVIOUS
  <2>1. client[b] \in Views /\ b \in Active(client[b])
    BY <1>2 DEF EngineInv, Inv, ClientsAreViews, Active
  <2>2. widget[client[b]] = "freed"
    BY <1>2, <2>1 DEF WidgetsAtExit, Exiting
  <2> QED BY <1>2, <2>1, <2>2 DEF AbandonedIsClosing
<1>3. EngineInv /\ WidgetsAtExit /\ AbandonedIsClosing
        => [engine = "stopped" /\ engine' = "shutting_down"
              => \A b \in Browsers : phase[b] # "live"]_allVars
  BY <1>2
<1> QED
  BY <1>1, <1>3, EngineInvariance, WidgetsGoFirst, PTL DEF NoLiveBrowserAtShutdown

(* To a careful program the view inside the engine is one browser slot: the
   abstract specification of the view holds of the engine, whether CEF could
   be initialised or not. *)
THEOREM EngineHasSlot == Careful => (EngineSpec => ImplementsSlot)
<1> QED
  BY EngineRunsLifecycle, RefinesSlot, PTL
=============================================================================
