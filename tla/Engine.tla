------------------------------- MODULE Engine -------------------------------
(***************************************************************************)
(* RunEngineImpl (core.cc), MainContextImpl (main_context_impl.cc) and the *)
(* main window (main_window.cc) around the web view of WebViewLifecycle:   *)
(* wWinMain (main.cc) calls Initialize, Run and Release in turn; Run       *)
(* returns when the main window is gone and the message loop has ended.    *)
(* CEF makes progress only while that loop is idle (SMsgLoopCef::OnIdle)   *)
(* and, for the last time, inside CefShutdown.                             *)
(***************************************************************************)
EXTENDS WebViewLifecycle

(* The layout of the main window, main_window.xml, has one web view. *)
ASSUME OneViewAssumption == \E v \in Views : Views = {v}

VARIABLES
  engine,         \* how far wWinMain has come, see EngineStates
  initialized_,   \* MainContextImpl::initialized_
  shutdown_,      \* MainContextImpl::shutdown_
  g_main_context  \* whether MainContext::Get() has a context to return

engineVars == <<engine, initialized_, shutdown_, g_main_context>>
allVars == <<vars, engine, initialized_, shutdown_, g_main_context>>

(* "running": the window is up; "closing": it is destroyed, the loop has not
   yet seen WM_QUIT; "stopped": Run has returned; "shutting_down": inside
   CefShutdown; "released": the context object is deleted; "aborted": a DCHECK
   has stopped the program. *)
EngineStates ==
  {"constructed", "initialized", "running", "closing", "stopped", "shutting_down", "released",
   "aborted"}

EngineTypeOK ==
  /\ TypeOK
  /\ engine \in EngineStates
  /\ initialized_ \in BOOLEAN /\ shutdown_ \in BOOLEAN /\ g_main_context \in BOOLEAN

EngineInit ==
  /\ Init
  /\ engine = "constructed"
  /\ initialized_ = FALSE
  /\ shutdown_ = FALSE
  /\ g_main_context = TRUE

(* MainContextImpl::Initialize records whether CefInitialize succeeded ... *)
InitializeContext(succeeds) ==
  /\ ~initialized_ /\ ~shutdown_
  /\ initialized_' = succeeds
  /\ UNCHANGED <<shutdown_, g_main_context>>

(* ... and RunEngineImpl::Initialize goes on whatever it answers. *)
Initialize(succeeds) ==
  /\ engine = "constructed"
  /\ engine' = "initialized"
  /\ InitializeContext(succeeds)
  /\ UNCHANGED vars

(* RunEngineImpl::Run creates the main window and enters the loop. *)
Run ==
  /\ engine = "initialized"
  /\ engine' = "running"
  /\ UNCHANGED <<vars, initialized_, shutdown_, g_main_context>>

(* The layout is inflated and the program uses its view.  CEF refuses every
   browser when it is not initialised. *)
WindowUp(v) ==
  /\ engine = "running"
  /\ \/ \E u \in Urls : LoadAttrUrl(v, u) \/ SetAttrUrl(v, u) \/ UserLoadURL(v, u) \/ Navigate(v, u)
     \/ OnCreate(v) \/ UserOpen(v) \/ UserClose(v)
  /\ ~initialized_ => phase' = phase
  /\ UNCHANGED engineVars

(* SMsgLoopCef::OnIdle: the loop is idle and CEF runs one of its tasks. *)
DoMessageLoopWork(b) ==
  /\ engine \in {"running", "closing"}
  /\ CefStep(b)
  /\ UNCHANGED engineVars

(* SMainWnd::OnClose destroys the window, and the view with it. *)
OnClose(v) ==
  /\ engine = "running"
  /\ OnDestroy(v)
  /\ engine' = "closing"
  /\ UNCHANGED <<initialized_, shutdown_, g_main_context>>

(* The window's last message frees the widgets and posts WM_QUIT ... *)
FinalMessage(v) ==
  /\ engine = "closing"
  /\ Destruct(v)
  /\ UNCHANGED engineVars

LoopEnds_WaitsForBrowsers ==
  /\ engine = "closing"
  /\ \A v \in Views : widget[v] = "freed"
  /\ browser_opened_ = 0
  /\ engine' = "stopped"
  /\ UNCHANGED <<vars, initialized_, shutdown_, g_main_context>>

(* ... which ends the loop, after as much of CEF's work as the loop got to. *)
LoopEnds ==
  /\ engine = "closing"
  /\ \A v \in Views : widget[v] = "freed"
  /\ engine' = "stopped"
  /\ UNCHANGED <<vars, initialized_, shutdown_, g_main_context>>

Shutdown_ResetsContextFirst ==
  /\ engine = "stopped"
  /\ engine' = "shutting_down"
  /\ g_main_context' = FALSE
  /\ UNCHANGED <<vars, initialized_, shutdown_>>

(* RunEngineImpl::Release enters MainContextImpl::Shutdown, which asserts
   DCHECK(initialized_) and enters CefShutdown.  After a failed start a debug
   build stops at the assertion, and a release build, which has none, goes on. *)
Shutdown ==
  /\ engine = "stopped"
  /\ engine' \in IF initialized_ THEN {"shutting_down"} ELSE {"shutting_down", "aborted"}
  /\ UNCHANGED <<vars, initialized_, shutdown_, g_main_context>>

(* CefShutdown gets rid of the browsers that are left, and still calls their
   handlers. *)
CefShutdown(b) ==
  /\ engine = "shutting_down"
  /\ DoClose(b) \/ OnBeforeClose(b)
  /\ UNCHANGED engineVars

(* CefShutdown returns, shutdown_ is set and cef_ctx_ is reset. *)
Release ==
  /\ engine = "shutting_down"
  /\ Existing = {}
  /\ engine' = "released"
  /\ shutdown_' = TRUE
  /\ g_main_context' = FALSE
  /\ UNCHANGED <<vars, initialized_>>

EngineNext ==
  \/ \E succeeds \in BOOLEAN : Initialize(succeeds)
  \/ Run
  \/ \E v \in Views : WindowUp(v) \/ OnClose(v) \/ FinalMessage(v)
  \/ \E b \in Browsers : DoMessageLoopWork(b) \/ CefShutdown(b)
  \/ LoopEnds \/ Shutdown \/ Release

EngineSpec == EngineInit /\ [][EngineNext]_allVars

(* wWinMain runs through Initialize, Run and Release without waiting for
   anybody but the user closing the window; the destroyed window's final
   message and WM_QUIT are processed; CefShutdown works its way through the
   browsers that are left. *)
EngineFairness ==
  /\ WF_allVars(\E v \in Views : FinalMessage(v))
  /\ WF_allVars(LoopEnds)
  /\ WF_allVars(Shutdown)
  /\ WF_allVars(\E b \in Browsers : CefShutdown(b))
  /\ WF_allVars(Release)

FairEngineSpec == EngineSpec /\ EngineFairness

-----------------------------------------------------------------------------

(* OnAfterCreated and OnBeforeClose go through MainContext::Get() to the
   counter: no browser of any handler arrives or leaves when the context
   object has been deleted, although CefShutdown still calls handlers. *)
ContextOutlivesCallbacks ==
  [][\A b \in Browsers : phase'[b] # phase[b] => g_main_context]_allVars

(* When CefShutdown is called, every browser CEF has handed out was at least
   told to close (the life span handler's documentation asks for more: that
   it has had its OnBeforeClose). *)
NoLiveBrowserAtShutdown ==
  [][engine = "stopped" /\ engine' = "shutting_down"
       => \A b \in Browsers : phase[b] # "live"]_allVars

(* Once the user has closed the window the engine is released, provided CEF
   could be initialised: no state of the browsers, DevTools included, keeps
   Release from finishing.  After a failed start, which RunEngineImpl
   ignores, Release may instead stop the program at an assertion of its own
   (DCHECK(initialized_) in MainContextImpl::Shutdown). *)
CloseLeadsToRelease ==
  engine = "closing" ~> engine \in IF initialized_ THEN {"released"} ELSE {"released", "aborted"}
=============================================================================
