-------------------------- MODULE WebViewLifecycle --------------------------
(***************************************************************************)
(* The life of the browsers behind the web view widgets of the engine:     *)
(* SWebView (webview.cc) asks its SWebViewHandler (webview_handler.cc) to  *)
(* open and close a windowless CEF browser, the handler is the CefClient   *)
(* that CEF calls back, and MainContextImpl (main_context_impl.cc) counts  *)
(* the browsers that exist.                                                *)
(*                                                                         *)
(* CEF itself is external and is described by what its callbacks may do:   *)
(* CreateBrowser and CloseBrowser only ask, OnAfterCreated and             *)
(* OnBeforeClose come later, in any order between browsers, and pages      *)
(* navigate and close on their own.                                        *)
(*                                                                         *)
(* Everything here runs on one thread (the CEF UI thread is the thread of  *)
(* the window message loop, since multi_threaded_message_loop is off), so  *)
(* a handler is one atomic action; what interleaves is the messages the    *)
(* thread takes from its queue.                                            *)
(***************************************************************************)
EXTENDS Integers, FiniteSets

CONSTANTS
  Views,         \* the SWebView widgets, each with the handler it allocates
  Browsers,      \* the browsers CEF can create in one behaviour (a bound)
  Urls,          \* the addresses a page can have
  NULL,          \* the null pointer
  EmptyUrl,      \* the empty string
  InitialCounts, \* what browser_opened_ can hold before anybody writes it
  AwaitCreated,  \* TRUE: the program opens, closes and destroys a view only
                 \*       when no creation it asked for is still under way
  DevToolsUsed   \* TRUE: the user may press Shift+F12

ASSUME BrowsersAssumption == IsFiniteSet(Browsers) /\ NULL \notin Browsers
ASSUME ViewsAssumption == NULL \notin Views
ASSUME UrlsAssumption == EmptyUrl \notin Urls
ASSUME InitialCountsAssumption == InitialCounts \subseteq Int
ASSUME FlagsAssumption == AwaitCreated \in BOOLEAN /\ DevToolsUsed \in BOOLEAN

VARIABLES
  widget,          \* where each SWebView is between construction and ~SWebView
  m_strUrl,        \* SWebView::m_strUrl
  m_refBrowser,    \* SWebViewHandler::m_refBrowser of the view's handler
  m_posr,          \* SWebViewHandler::m_posr, the widget to call back
  m_pMsgHandler,   \* SWebViewHandler::m_pMsgHandler
  m_bPageLoaded,   \* SWebViewHandler::m_bPageLoaded
  browser_opened_, \* MainContextImpl::browser_opened_
  initial_count,   \* what browser_opened_ held at the start (never assigned)
  phase,           \* CEF: the state of each browser
  client,          \* CEF: the view whose handler is the browser's CefClient
  inspects,        \* CEF: the browser a DevTools browser was opened for
  main_url         \* CEF: what the main frame shows or was last told to load

widgetVars  == <<widget, m_strUrl>>
handlerVars == <<m_refBrowser, m_posr, m_pMsgHandler, m_bPageLoaded>>
countVars   == <<browser_opened_, initial_count>>
cefVars     == <<phase, client, inspects, main_url>>
vars == <<widget, m_strUrl, m_refBrowser, m_posr, m_pMsgHandler, m_bPageLoaded,
          browser_opened_, initial_count, phase, client, inspects, main_url>>

WidgetStates == {"loaded", "created", "destroyed", "freed"}
Phases == {"unused", "pending", "live", "closing", "gone"}

(* A browser exists, for the program, from OnAfterCreated to OnBeforeClose. *)
Exists(b) == phase[b] \in {"live", "closing"}

Existing == {b \in Browsers : Exists(b)}

(* A creation asked for by v's handler that OnAfterCreated has not answered. *)
CreationPending(v) == \E b \in Browsers : phase[b] = "pending" /\ client[b] = v

(* The program holds back while a creation is under way, if it is careful.  *)
MayDisturb(v) == AwaitCreated => ~CreationPending(v)

TypeOK ==
  /\ widget \in [Views -> WidgetStates]
  /\ m_strUrl \in [Views -> Urls \cup {EmptyUrl}]
  /\ m_refBrowser \in [Views -> Browsers \cup {NULL}]
  /\ m_posr \in [Views -> Views \cup {NULL}]
  /\ m_pMsgHandler \in [Views -> Views \cup {NULL}]
  /\ m_bPageLoaded \in [Views -> BOOLEAN]
  /\ browser_opened_ \in Int
  /\ initial_count \in InitialCounts
  /\ phase \in [Browsers -> Phases]
  /\ client \in [Browsers -> Views \cup {NULL}]
  /\ inspects \in [Browsers -> Browsers \cup {NULL}]
  /\ main_url \in [Browsers -> Urls \cup {EmptyUrl}]

(* The constructors of SWebView, SWebViewHandler and MainContextImpl; the
   last one leaves browser_opened_ uninitialised. *)
Init ==
  /\ widget = [v \in Views |-> "loaded"]
  /\ m_strUrl = [v \in Views |-> EmptyUrl]
  /\ m_refBrowser = [v \in Views |-> NULL]
  /\ m_posr = [v \in Views |-> NULL]
  /\ m_pMsgHandler = [v \in Views |-> NULL]
  /\ m_bPageLoaded = [v \in Views |-> FALSE]
  /\ browser_opened_ \in InitialCounts
  /\ initial_count = browser_opened_
  /\ phase = [b \in Browsers |-> "unused"]
  /\ client = [b \in Browsers |-> NULL]
  /\ inspects = [b \in Browsers |-> NULL]
  /\ main_url = [b \in Browsers |-> EmptyUrl]

-----------------------------------------------------------------------------
(* What CEF does when it is called.                                         *)

(* A browser is asked for with v's handler as its client: as the view's own
   windowless browser (inspected = NULL) or as DevTools of `inspected`. *)
RequestBrowser(b, v, inspected) ==
  /\ phase[b] = "unused"
  /\ phase' = [phase EXCEPT ![b] = "pending"]
  /\ client' = [client EXCEPT ![b] = v]
  /\ inspects' = [inspects EXCEPT ![b] = inspected]

(* CloseBrowser(true): OnBeforeClose follows, for a windowless browser at
   the earliest inside the call.  It changes nothing the caller goes on to
   read or write, so it is always the later action OnBeforeClose. *)
CloseBrowser(b) ==
  phase' = [phase EXCEPT ![b] = IF @ = "live" THEN "closing" ELSE @]

-----------------------------------------------------------------------------
(* SWebViewHandler and SWebView, the parts several entry points share.      *)

(* SWebView::LoadURL: without a browser nothing is loaded and nothing is
   remembered, and the caller is told TRUE. *)
LoadURL(v, u) ==
  IF m_refBrowser[v] = NULL
  THEN UNCHANGED <<m_strUrl, main_url>>
  ELSE /\ m_strUrl' = [m_strUrl EXCEPT ![v] = u]
       /\ main_url' = [main_url EXCEPT ![m_refBrowser[v]] = u]

(* Definitions named X_Y, here and in the other modules, are X with a mistake
   Y that the properties are there to catch; no specification uses them. *)
Open_Unguarded(v) ==
  \/ /\ \E b \in Browsers : RequestBrowser(b, v, NULL)
     /\ m_posr' = [m_posr EXCEPT ![v] = v]
     /\ m_pMsgHandler' = [m_pMsgHandler EXCEPT ![v] = v]
  \/ UNCHANGED <<phase, client, inspects, m_posr, m_pMsgHandler>>

(* SWebView::Open.  With a browser in hand it returns at once, without
   attaching the widget; otherwise CEF refuses or starts a creation. *)
Open(v) ==
  \/ /\ m_refBrowser[v] = NULL
     /\ \E b \in Browsers : RequestBrowser(b, v, NULL)
     /\ m_posr' = [m_posr EXCEPT ![v] = v]
     /\ m_pMsgHandler' = [m_pMsgHandler EXCEPT ![v] = v]
  \/ UNCHANGED <<phase, client, inspects, m_posr, m_pMsgHandler>>

(* The handler closes the browser it knows, which need not be all. *)
CloseAllBrowsers(v) ==
  IF m_refBrowser[v] # NULL THEN CloseBrowser(m_refBrowser[v]) ELSE UNCHANGED phase

Close_OnlyWithBrowser(v) ==
  IF m_refBrowser[v] = NULL
  THEN UNCHANGED <<phase, m_posr, m_pMsgHandler>>
  ELSE /\ CloseBrowser(m_refBrowser[v])
       /\ m_posr' = [m_posr EXCEPT ![v] = NULL]
       /\ m_pMsgHandler' = [m_pMsgHandler EXCEPT ![v] = NULL]

Close_KeepsBrowser(v) ==
  /\ m_posr' = [m_posr EXCEPT ![v] = NULL]
  /\ m_pMsgHandler' = [m_pMsgHandler EXCEPT ![v] = NULL]
  /\ UNCHANGED phase

(* SWebView::Close: no more callbacks. *)
Close(v) ==
  /\ CloseAllBrowsers(v)
  /\ m_posr' = [m_posr EXCEPT ![v] = NULL]
  /\ m_pMsgHandler' = [m_pMsgHandler EXCEPT ![v] = NULL]

-----------------------------------------------------------------------------
(* What the program does to a view.                                         *)

(* The url attribute of the layout, read before the widget is created. *)
LoadAttrUrl(v, u) ==
  /\ widget[v] = "loaded"
  /\ m_strUrl' = [m_strUrl EXCEPT ![v] = u]
  /\ UNCHANGED <<widget, handlerVars, countVars, cefVars>>

(* The url attribute set at run time (OnAttrUrl with bLoading = FALSE). *)
SetAttrUrl(v, u) ==
  /\ widget[v] = "created"
  /\ m_strUrl' = [m_strUrl EXCEPT ![v] = u]
  /\ main_url' = IF m_refBrowser[v] = NULL THEN main_url
                 ELSE [main_url EXCEPT ![m_refBrowser[v]] = u]
  /\ UNCHANGED <<widget, handlerVars, countVars, phase, client, inspects>>

(* OnCreate: Open, then LoadURL of the address in the layout. *)
OnCreate(v) ==
  /\ widget[v] = "loaded"
  /\ widget' = [widget EXCEPT ![v] = "created"]
  /\ Open(v)
  /\ IF m_strUrl[v] = EmptyUrl THEN UNCHANGED <<m_strUrl, main_url>>
                               ELSE LoadURL(v, m_strUrl[v])
  /\ UNCHANGED <<m_refBrowser, m_bPageLoaded, countVars>>

UserLoadURL(v, u) ==
  /\ widget[v] = "created"
  /\ LoadURL(v, u)
  /\ UNCHANGED <<widget, handlerVars, countVars, phase, client, inspects>>

(* GoBack, GoForward, Reload, StopLoad and ExecJavaScript are passed to the
   browser the handler knows, whose main frame may go elsewhere.  Without a
   browser they do nothing. *)
Navigate(v, u) ==
  /\ widget[v] = "created" /\ m_refBrowser[v] # NULL
  /\ main_url' = [main_url EXCEPT ![m_refBrowser[v]] = u]
  /\ UNCHANGED <<widgetVars, handlerVars, countVars, phase, client, inspects>>

UserOpen(v) ==
  /\ widget[v] = "created"
  /\ MayDisturb(v)
  /\ Open(v)
  /\ UNCHANGED <<widgetVars, m_refBrowser, m_bPageLoaded, countVars, main_url>>

UserClose(v) ==
  /\ widget[v] = "created"
  /\ MayDisturb(v)
  /\ Close(v)
  /\ UNCHANGED <<widgetVars, m_refBrowser, m_bPageLoaded, countVars,
                 client, inspects, main_url>>

OnDestroy_WithoutClose(v) ==
  /\ widget[v] = "created"
  /\ MayDisturb(v)
  /\ widget' = [widget EXCEPT ![v] = "destroyed"]
  /\ UNCHANGED <<m_strUrl, handlerVars, countVars, cefVars>>

(* The widget's window is destroyed: OnDestroy calls Close. *)
OnDestroy(v) ==
  /\ widget[v] = "created"
  /\ MayDisturb(v)
  /\ widget' = [widget EXCEPT ![v] = "destroyed"]
  /\ Close(v)
  /\ UNCHANGED <<m_strUrl, m_refBrowser, m_bPageLoaded, countVars,
                 client, inspects, main_url>>

(* ~SWebView: the widget's memory goes; its handler lives on as long as a
   browser still holds it as its client. *)
Destruct(v) ==
  /\ widget[v] = "destroyed"
  /\ widget' = [widget EXCEPT ![v] = "freed"]
  /\ UNCHANGED <<m_strUrl, handlerVars, countVars, cefVars>>

-----------------------------------------------------------------------------
(* What CEF calls back.                                                     *)

OnAfterCreated_LoadsFirst(b) ==
  LET v == client[b]
      w == m_posr[v]
  IN /\ phase[b] = "pending"
     /\ phase' = [phase EXCEPT ![b] = "live"]
     /\ main_url' = IF w = NULL \/ m_refBrowser[v] = NULL THEN main_url
                    ELSE [main_url EXCEPT ![m_refBrowser[v]] = m_strUrl[w]]
     /\ m_refBrowser' = [m_refBrowser EXCEPT ![v] = b]
     /\ browser_opened_' = browser_opened_ + 1
     /\ UNCHANGED <<widgetVars, m_posr, m_pMsgHandler, m_bPageLoaded,
                    initial_count, client, inspects>>

(* SWebViewHandler::OnAfterCreated, then SWebView::OnAfterCreated when a
   widget is attached: it loads the remembered address through LoadURL,
   which by now finds the new browser in m_refBrowser. *)
OnAfterCreated(b) ==
  LET v == client[b]
      w == m_posr[v]
  IN /\ phase[b] = "pending"
     /\ phase' = [phase EXCEPT ![b] = "live"]
     /\ m_refBrowser' = [m_refBrowser EXCEPT ![v] = b]
     /\ browser_opened_' = browser_opened_ + 1
     /\ main_url' = IF w = NULL THEN main_url
                    ELSE IF m_strUrl[w] = EmptyUrl THEN main_url
                    ELSE [main_url EXCEPT ![m_refBrowser'[w]] = m_strUrl[w]]
     /\ UNCHANGED <<widgetVars, m_posr, m_pMsgHandler, m_bPageLoaded,
                    initial_count, client, inspects>>

OnBeforeClose_KeepsReference(b) ==
  /\ phase[b] = "closing"
  /\ phase' = [phase EXCEPT ![b] = "gone"]
  /\ browser_opened_' = browser_opened_ - 1
  /\ UNCHANGED <<widgetVars, handlerVars, initial_count, client, inspects, main_url>>

OnBeforeClose_CountsMainOnly(b) ==
  LET v == client[b]
  IN /\ phase[b] = "closing"
     /\ phase' = [phase EXCEPT ![b] = "gone"]
     /\ m_refBrowser' = [m_refBrowser EXCEPT ![v] = IF @ = b THEN NULL ELSE @]
     /\ browser_opened_' = browser_opened_ - (IF m_refBrowser[v] = b THEN 1 ELSE 0)
     /\ UNCHANGED <<widgetVars, m_posr, m_pMsgHandler, m_bPageLoaded,
                    initial_count, client, inspects, main_url>>

OnBeforeClose_NotCounted(b) ==
  LET v == client[b]
  IN /\ phase[b] = "closing"
     /\ phase' = [phase EXCEPT ![b] = "gone"]
     /\ m_refBrowser' = [m_refBrowser EXCEPT ![v] = IF @ = b THEN NULL ELSE @]
     /\ UNCHANGED <<widgetVars, m_posr, m_pMsgHandler, m_bPageLoaded,
                    countVars, client, inspects, main_url>>

(* SWebViewHandler::OnBeforeClose: the last callback of a browser.  The
   widget is not told. *)
OnBeforeClose(b) ==
  LET v == client[b]
  IN /\ phase[b] = "closing"
     /\ phase' = [phase EXCEPT ![b] = "gone"]
     /\ m_refBrowser' = [m_refBrowser EXCEPT ![v] = IF @ = b THEN NULL ELSE @]
     /\ browser_opened_' = browser_opened_ - 1
     /\ UNCHANGED <<widgetVars, m_posr, m_pMsgHandler, m_bPageLoaded,
                    initial_count, client, inspects, main_url>>

(* A page calls window.close(), or the user closes the DevTools window:
   DoClose answers false and the browser goes. *)
DoClose(b) ==
  /\ phase[b] = "live"
  /\ CloseBrowser(b)
  /\ UNCHANGED <<widgetVars, handlerVars, countVars, client, inspects, main_url>>

(* A frame of b commits an address; the attached widget takes over the
   address of any frame, of any browser of its handler. *)
OnAddressChange(b, is_main, u) ==
  LET w == m_posr[client[b]]
  IN /\ Exists(b)
     /\ main_url' = IF is_main THEN [main_url EXCEPT ![b] = u] ELSE main_url
     /\ m_strUrl' = IF w = NULL THEN m_strUrl ELSE [m_strUrl EXCEPT ![w] = u]
     /\ UNCHANGED <<widget, handlerVars, countVars, phase, client, inspects>>

OnLoadEnd(b) ==
  /\ Exists(b)
  /\ m_bPageLoaded' = [m_bPageLoaded EXCEPT ![client[b]] = TRUE]
  /\ UNCHANGED <<widgetVars, m_refBrowser, m_posr, m_pMsgHandler, countVars, cefVars>>

(* DevTools of b is open or on its way: ShowDevTools would only focus it. *)
HasDevTools(b) ==
  \E d \in Browsers : inspects[d] = b /\ phase[d] \in {"pending", "live", "closing"}

(* The DevTools browser gets the same handler as its client. *)
OpenDevTools(v) ==
  /\ m_refBrowser[v] # NULL
  /\ ~HasDevTools(m_refBrowser[v])
  /\ \E d \in Browsers : RequestBrowser(d, v, m_refBrowser[v])

(* A key in any browser of the handler: Shift+F12 opens DevTools once a page was
   loaded; other keys, and all before that, leave this state alone. *)
OnPreKeyEvent(b) ==
  /\ Exists(b)
  /\ \/ DevToolsUsed /\ m_bPageLoaded[client[b]] /\ OpenDevTools(client[b])
     \/ UNCHANGED <<phase, client, inspects>>
  /\ UNCHANGED <<widgetVars, handlerVars, countVars, main_url>>

-----------------------------------------------------------------------------

ProgramStep(v) ==
  \/ \E u \in Urls : LoadAttrUrl(v, u)
  \/ \E u \in Urls : SetAttrUrl(v, u)
  \/ \E u \in Urls : UserLoadURL(v, u)
  \/ \E u \in Urls : Navigate(v, u)
  \/ OnCreate(v)
  \/ UserOpen(v)
  \/ UserClose(v)
  \/ OnDestroy(v)
  \/ Destruct(v)

CefStep(b) ==
  \/ OnAfterCreated(b)
  \/ OnBeforeClose(b)
  \/ DoClose(b)
  \/ \E is_main \in BOOLEAN, u \in Urls : OnAddressChange(b, is_main, u)
  \/ OnLoadEnd(b)
  \/ OnPreKeyEvent(b)

Next ==
  \/ \E v \in Views : ProgramStep(v)
  \/ \E b \in Browsers : CefStep(b)

Spec == Init /\ [][Next]_vars

(* CEF answers every creation and every close it was asked for, as
   cef_browser.h promises, because the message loop keeps running and its
   idle handler keeps pumping CEF.  Nothing obliges the program, the user or
   a page to do anything. *)
Fairness ==
  \A b \in Browsers : WF_vars(OnAfterCreated(b)) /\ WF_vars(OnBeforeClose(b))

FairSpec == Spec /\ Fairness

-----------------------------------------------------------------------------
(* Safety.                                                                  *)

(* Whatever browser_opened_ held at the start, it has moved by exactly the
   number of browsers between OnAfterCreated and OnBeforeClose, DevTools
   browsers included (AddOpenedBrowserCount, DelOpenedBrowserCount). *)
CountTracksBrowsers ==
  browser_opened_ = initial_count + Cardinality(Existing)

(* m_refBrowser is never a browser CEF has already destroyed or never
   announced, nor another handler's: OnBeforeClose drops the reference in
   time, whatever order the browsers of one handler go in. *)
RefIsOwnExistingBrowser ==
  \A v \in Views :
    m_refBrowser[v] # NULL =>
      Exists(m_refBrowser[v]) /\ client[m_refBrowser[v]] = v

(* The raw pointers a handler keeps never outlive the widget: a browser that
   is still around after OnDestroy finds no widget to call back. *)
NoDanglingDelegate ==
  \A v, w \in Views :
    m_posr[v] = w \/ m_pMsgHandler[v] = w => widget[w] = "created"

(* With a careful program and without DevTools a handler never has two
   browsers under way, and the one that is live is the one m_refBrowser
   names, so that Close can reach it. *)
Active(v) == {b \in Browsers : client[b] = v /\ phase[b] \in {"pending", "live", "closing"}}

OneBrowserPerView ==
  AwaitCreated /\ ~DevToolsUsed =>
    \A v \in Views :
      /\ \A b, c \in Active(v) : b = c
      /\ \A b \in Active(v) : Exists(b) => m_refBrowser[v] = b

(* Every browser the widget opens starts on the address the widget
   remembers at the moment the browser arrives: LoadURL called from inside
   OnAfterCreated reaches the new browser, not the one before it. *)
NewBrowserLoadsRememberedUrl ==
  [][\A b \in Browsers :
       LET w == m_posr[client[b]]
       IN phase[b] = "pending" /\ phase'[b] = "live" /\ w # NULL
            => (m_strUrl[w] # EmptyUrl => main_url'[b] = m_strUrl[w])]_vars

(* When the widget lets go of its handler (Close), the browser it opened is
   told to close: "Request that the main browser close." *)
CloseRequestsMainBrowser ==
  [][\A b \in Browsers, v \in Views :
       m_posr[v] # NULL /\ m_posr'[v] = NULL /\ client[b] = v /\ inspects[b] = NULL
         => phase'[b] # "live"]_vars

-----------------------------------------------------------------------------
(* Liveness, for a careful program without DevTools.                        *)

(* A destroyed view's browsers all go away. *)
DestroyedViewLosesBrowsers ==
  \A v \in Views : widget[v] \in {"destroyed", "freed"} ~> (Active(v) = {})

(* Once every view is destroyed the counter falls back to where it began,
   which is what the handler would need to leave the message loop. *)
CountFallsBack ==
  (\A v \in Views : widget[v] \in {"destroyed", "freed"}) ~> (browser_opened_ = initial_count)

-----------------------------------------------------------------------------
(* The view as a slot for one browser (BrowserSlot).                        *)

SlotOf(v) ==
  LET is(p) == \E b \in Active(v) : phase[b] = p
  IN IF is("pending") THEN "opening"
     ELSE IF is("live") THEN "open"
     ELSE IF is("closing") THEN "closing"
     ELSE "empty"

Slot == INSTANCE BrowserSlot WITH
          slot <- [v \in Views |-> SlotOf(v)],
          attached <- [v \in Views |-> m_posr[v] # NULL]

(* A careful program without DevTools sees one browser slot per view: no
   browser is opened over another, and none is left open when the view lets
   go (Open, Close, OnAfterCreated, OnBeforeClose). *)
ImplementsSlot == Slot!SlotSpec
=============================================================================
