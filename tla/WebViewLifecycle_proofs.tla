---------------------- MODULE WebViewLifecycle_proofs ----------------------
(***************************************************************************)
(* Theorems about WebViewLifecycle, for any sets of views, browsers and    *)
(* addresses and any initial counter.                                      *)
(***************************************************************************)
EXTENDS WebViewLifecycle, FiniteSetTheorems, TLAPS

(* Every browser that was ever asked for has a view's handler as client. *)
ClientsAreViews == \A b \in Browsers : phase[b] # "unused" => client[b] \in Views

(* A handler calls back no widget but the one that owns it; without this a
   view's OnDestroy could leave another handler pointing at it. *)
DelegatesAreOwn ==
  \A v \in Views : m_posr[v] \in {v, NULL} /\ m_pMsgHandler[v] \in {v, NULL}

(* The inductive invariant.  RefIsOwnExistingBrowser is what makes the
   reset in OnBeforeClose reach the handler that holds the reference. *)
Inv ==
  /\ TypeOK
  /\ ClientsAreViews
  /\ DelegatesAreOwn
  /\ RefIsOwnExistingBrowser
  /\ NoDanglingDelegate
  /\ CountTracksBrowsers

LEMMA ExistingFinite == IsFiniteSet(Existing)
  BY BrowsersAssumption, FS_Subset DEF Existing

(* One browser more exists after OnAfterCreated ... *)
LEMMA ExistingGrows ==
  ASSUME NEW b \in Browsers, TypeOK, ~Exists(b),
         phase' = [phase EXCEPT ![b] = "live"]
  PROVE  Cardinality(Existing') = Cardinality(Existing) + 1
<1>1. Existing' = Existing \cup {b}
  BY DEF Existing, Exists, TypeOK
<1>2. b \notin Existing
  BY DEF Existing
<1> QED
  BY <1>1, <1>2, ExistingFinite, FS_AddElement

(* ... one fewer after OnBeforeClose. *)
LEMMA ExistingShrinks ==
  ASSUME NEW b \in Browsers, TypeOK, Exists(b),
         phase' = [phase EXCEPT ![b] = "gone"]
  PROVE  Cardinality(Existing') = Cardinality(Existing) - 1
<1>1. Existing' = Existing \ {b}
  BY DEF Existing, Exists, TypeOK
<1>2. b \in Existing
  BY DEF Existing
<1> QED
  BY <1>1, <1>2, ExistingFinite, FS_RemoveElement

LEMMA InitInv == Init => Inv
<1> SUFFICES ASSUME Init PROVE Inv
  OBVIOUS
<1>1. TypeOK /\ ClientsAreViews /\ DelegatesAreOwn /\ RefIsOwnExistingBrowser /\ NoDanglingDelegate
  BY ViewsAssumption, InitialCountsAssumption
  DEF Init, TypeOK, ClientsAreViews, RefIsOwnExistingBrowser, DelegatesAreOwn, NoDanglingDelegate,
      WidgetStates, Phases
<1>2. CountTracksBrowsers
  <2>1. Existing = {}
    BY DEF Init, Existing, Exists
  <2> QED
    BY <2>1, FS_EmptySet, InitialCountsAssumption DEF Init, CountTracksBrowsers
<1> QED
  BY <1>1, <1>2 DEF Inv

-----------------------------------------------------------------------------
(* Types and the ownership facts, action by action.                         *)

Owned == TypeOK /\ ClientsAreViews /\ DelegatesAreOwn /\ RefIsOwnExistingBrowser /\ NoDanglingDelegate

LEMMA ProgramStepOwned ==
  ASSUME Owned, NEW v \in Views, ProgramStep(v)
  PROVE  Owned'
<1> USE ViewsAssumption, BrowsersAssumption
<1>1. ASSUME NEW u \in Urls, LoadAttrUrl(v, u) \/ SetAttrUrl(v, u) \/ UserLoadURL(v, u) \/ Navigate(v, u)
      PROVE  Owned'
  BY <1>1 DEF Owned, LoadAttrUrl, SetAttrUrl, UserLoadURL, Navigate, LoadURL, TypeOK, ClientsAreViews,
     RefIsOwnExistingBrowser, DelegatesAreOwn, NoDanglingDelegate, Exists, widgetVars, handlerVars, countVars, cefVars
<1>2. CASE Destruct(v)
  <2>1. TypeOK' /\ ClientsAreViews' /\ RefIsOwnExistingBrowser'
    BY <1>2 DEF Owned, Destruct, TypeOK, ClientsAreViews, RefIsOwnExistingBrowser, Exists,
       WidgetStates, handlerVars, countVars, cefVars
  <2>2. NoDanglingDelegate' /\ DelegatesAreOwn'
    BY <1>2 DEF Owned, Destruct, TypeOK, DelegatesAreOwn, NoDanglingDelegate, handlerVars
  <2> QED
    BY <2>1, <2>2 DEF Owned
<1>3. CASE OnCreate(v) \/ UserOpen(v)
  <2>1. TypeOK' /\ ClientsAreViews'
    BY <1>3 DEF Owned, OnCreate, UserOpen, Open, LoadURL, RequestBrowser, TypeOK, ClientsAreViews,
       WidgetStates, Phases, widgetVars, countVars
  <2>2. RefIsOwnExistingBrowser'
    BY <1>3 DEF Owned, OnCreate, UserOpen, Open, RequestBrowser, TypeOK,
       RefIsOwnExistingBrowser, Exists
  <2>3. NoDanglingDelegate' /\ DelegatesAreOwn'
    BY <1>3 DEF Owned, OnCreate, UserOpen, Open, TypeOK, DelegatesAreOwn, NoDanglingDelegate, widgetVars
  <2> QED
    BY <2>1, <2>2, <2>3 DEF Owned
<1>4. CASE UserClose(v) \/ OnDestroy(v)
  <2>1. TypeOK' /\ ClientsAreViews'
    BY <1>4 DEF Owned, UserClose, OnDestroy, Close, CloseAllBrowsers, CloseBrowser, TypeOK, ClientsAreViews,
       WidgetStates, Phases, widgetVars, countVars
  <2>2. RefIsOwnExistingBrowser'
    BY <1>4 DEF Owned, UserClose, OnDestroy, Close, CloseAllBrowsers, CloseBrowser, TypeOK,
       RefIsOwnExistingBrowser, Exists
  <2>3. NoDanglingDelegate' /\ DelegatesAreOwn'
    BY <1>4 DEF Owned, UserClose, OnDestroy, Close, CloseAllBrowsers, TypeOK, DelegatesAreOwn, NoDanglingDelegate, widgetVars
  <2> QED
    BY <2>1, <2>2, <2>3 DEF Owned
<1>5. \/ \E u \in Urls : LoadAttrUrl(v, u) \/ SetAttrUrl(v, u) \/ UserLoadURL(v, u) \/ Navigate(v, u)
      \/ Destruct(v)
      \/ OnCreate(v) \/ UserOpen(v)
      \/ UserClose(v) \/ OnDestroy(v)
  BY DEF ProgramStep
<1> QED
  BY <1>1, <1>2, <1>3, <1>4, <1>5

LEMMA CefStepOwned ==
  ASSUME Owned, NEW b \in Browsers, CefStep(b)
  PROVE  Owned'
<1> USE ViewsAssumption, BrowsersAssumption
<1>1. CASE OnAfterCreated(b)
  <2>1. client[b] \in Views
    BY <1>1 DEF Owned, OnAfterCreated, ClientsAreViews
  <2>2. TypeOK' /\ ClientsAreViews'
    <3>1. main_url' \in [Browsers -> Urls \cup {EmptyUrl}]
      <4> DEFINE w == m_posr[client[b]]
      <4>1. CASE main_url' = main_url
        BY <4>1 DEF Owned, TypeOK
      <4>2. CASE w \in Views /\ main_url' = [main_url EXCEPT ![m_refBrowser'[w]] = m_strUrl[w]]
        BY <4>2 DEF Owned, TypeOK
      <4> QED
        BY <1>1, <2>1, <4>1, <4>2 DEF OnAfterCreated, Owned, TypeOK
    <3>2. m_refBrowser' \in [Views -> Browsers \cup {NULL}]
      BY <1>1, <2>1 DEF Owned, OnAfterCreated, TypeOK
    <3> QED
      BY <1>1, <2>1, <3>1, <3>2 DEF Owned, OnAfterCreated, TypeOK, ClientsAreViews, Phases, widgetVars
  <2>3. RefIsOwnExistingBrowser'
    BY <1>1, <2>1 DEF Owned, OnAfterCreated, TypeOK, RefIsOwnExistingBrowser, Exists
  <2>4. NoDanglingDelegate' /\ DelegatesAreOwn'
    BY <1>1 DEF Owned, OnAfterCreated, DelegatesAreOwn, NoDanglingDelegate, widgetVars
  <2> QED
    BY <2>2, <2>3, <2>4 DEF Owned
<1>2. CASE OnBeforeClose(b)
  <2>1. client[b] \in Views
    BY <1>2 DEF Owned, OnBeforeClose, ClientsAreViews
  <2>2. TypeOK' /\ ClientsAreViews'
    BY <1>2, <2>1 DEF Owned, OnBeforeClose, TypeOK, ClientsAreViews, Phases, widgetVars
  <2>3. RefIsOwnExistingBrowser'
    BY <1>2, <2>1 DEF Owned, OnBeforeClose, TypeOK, RefIsOwnExistingBrowser, Exists
  <2>4. NoDanglingDelegate' /\ DelegatesAreOwn'
    BY <1>2 DEF Owned, OnBeforeClose, DelegatesAreOwn, NoDanglingDelegate, widgetVars
  <2> QED
    BY <2>2, <2>3, <2>4 DEF Owned
<1>3. CASE DoClose(b)
  BY <1>3 DEF Owned, DoClose, CloseBrowser, TypeOK, ClientsAreViews, RefIsOwnExistingBrowser,
     DelegatesAreOwn, NoDanglingDelegate, Exists, Phases, widgetVars, handlerVars, countVars
<1>4. ASSUME NEW is_main \in BOOLEAN, NEW u \in Urls, OnAddressChange(b, is_main, u)
      PROVE  Owned'
  BY <1>4 DEF Owned, OnAddressChange, TypeOK, ClientsAreViews, RefIsOwnExistingBrowser,
     DelegatesAreOwn, NoDanglingDelegate, Exists, handlerVars, countVars
<1>5. CASE OnLoadEnd(b)
  BY <1>5 DEF Owned, OnLoadEnd, TypeOK, ClientsAreViews, RefIsOwnExistingBrowser,
     DelegatesAreOwn, NoDanglingDelegate, Exists, widgetVars, countVars, cefVars
<1>6. CASE OnPreKeyEvent(b)
  <2>1. client[b] \in Views
    BY <1>6 DEF Owned, OnPreKeyEvent, OpenDevTools, ClientsAreViews, Exists
  <2>2. TypeOK' /\ ClientsAreViews'
    BY <1>6, <2>1 DEF Owned, OnPreKeyEvent, OpenDevTools, RequestBrowser, TypeOK, ClientsAreViews, Phases,
       widgetVars, handlerVars, countVars
  <2>3. RefIsOwnExistingBrowser'
    BY <1>6 DEF Owned, OnPreKeyEvent, OpenDevTools, RequestBrowser, TypeOK, RefIsOwnExistingBrowser, Exists,
       handlerVars
  <2>4. NoDanglingDelegate' /\ DelegatesAreOwn'
    BY <1>6 DEF Owned, OnPreKeyEvent, OpenDevTools, DelegatesAreOwn, NoDanglingDelegate, widgetVars, handlerVars
  <2> QED
    BY <2>2, <2>3, <2>4 DEF Owned
<1> QED
  BY <1>1, <1>2, <1>3, <1>4, <1>5, <1>6 DEF CefStep

-----------------------------------------------------------------------------
(* The counter.                                                             *)

LEMMA StepCounts ==
  ASSUME Owned, CountTracksBrowsers, [Next]_vars
  PROVE  CountTracksBrowsers'
<1>1. ASSUME NEW b \in Browsers, OnAfterCreated(b)
      PROVE  CountTracksBrowsers'
  <2>1. Cardinality(Existing') = Cardinality(Existing) + 1
    BY <1>1, ExistingGrows DEF OnAfterCreated, Owned, Exists
  <2> QED
    BY <1>1, <2>1, ExistingFinite, FS_CardinalityType, InitialCountsAssumption
    DEF OnAfterCreated, CountTracksBrowsers, Owned, TypeOK
<1>2. ASSUME NEW b \in Browsers, OnBeforeClose(b)
      PROVE  CountTracksBrowsers'
  <2>1. Cardinality(Existing') = Cardinality(Existing) - 1
    BY <1>2, ExistingShrinks DEF OnBeforeClose, Owned, Exists
  <2> QED
    BY <1>2, <2>1, ExistingFinite, FS_CardinalityType, InitialCountsAssumption
    DEF OnBeforeClose, CountTracksBrowsers, Owned, TypeOK
<1>3. ASSUME UNCHANGED countVars, Existing' = Existing
      PROVE  CountTracksBrowsers'
  BY <1>3 DEF CountTracksBrowsers, countVars
<1>4. ASSUME NEW v \in Views, ProgramStep(v)
      PROVE  UNCHANGED countVars /\ Existing' = Existing
  <2>1. UNCHANGED countVars
    BY <1>4 DEF ProgramStep, LoadAttrUrl, SetAttrUrl, OnCreate, UserLoadURL, Navigate, UserOpen, UserClose,
       OnDestroy, Destruct, countVars
  <2>2. \A c \in Browsers : Exists(c)' <=> Exists(c)
    BY <1>4, ViewsAssumption DEF Owned, TypeOK, Phases, ProgramStep, LoadAttrUrl, SetAttrUrl, OnCreate, UserLoadURL, Navigate,
       UserOpen, UserClose, OnDestroy, Destruct, Open, Close, CloseAllBrowsers, CloseBrowser, RequestBrowser,
       Exists, cefVars
  <2> QED
    BY <2>1, <2>2 DEF Existing
<1>5. ASSUME NEW b \in Browsers, CefStep(b), ~OnAfterCreated(b), ~OnBeforeClose(b)
      PROVE  UNCHANGED countVars /\ Existing' = Existing
  <2>1. UNCHANGED countVars
    BY <1>5 DEF CefStep, DoClose, OnAddressChange, OnLoadEnd, OnPreKeyEvent, OpenDevTools, countVars
  <2>2. \A c \in Browsers : Exists(c)' <=> Exists(c)
    BY <1>5 DEF Owned, TypeOK, CefStep, DoClose, OnAddressChange, OnLoadEnd, OnPreKeyEvent, OpenDevTools,
       CloseBrowser, RequestBrowser, Exists, cefVars
  <2> QED
    BY <2>1, <2>2 DEF Existing
<1>6. CASE UNCHANGED vars
  BY <1>6, <1>3 DEF vars, countVars, Existing, Exists
<1> QED
  BY <1>1, <1>2, <1>3, <1>4, <1>5, <1>6 DEF Next

LEMMA StepInv == Inv /\ [Next]_vars => Inv'
<1> SUFFICES ASSUME Inv, [Next]_vars PROVE Inv'
  OBVIOUS
<1>1. Owned
  BY DEF Inv, Owned
<1>2. CASE UNCHANGED vars
  BY <1>1, <1>2 DEF Inv, Owned, vars, TypeOK, ClientsAreViews, RefIsOwnExistingBrowser,
     DelegatesAreOwn, NoDanglingDelegate, CountTracksBrowsers, Existing, Exists
<1>3. CASE Next
  <2>1. Owned'
    BY <1>1, <1>3, ProgramStepOwned, CefStepOwned DEF Next
  <2>2. CountTracksBrowsers'
    BY <1>1, StepCounts DEF Inv
  <2> QED
    BY <2>1, <2>2 DEF Owned, Inv
<1> QED
  BY <1>2, <1>3

(* The invariant holds in every reachable state. *)
THEOREM Invariance == Spec => []Inv
<1> QED
  BY InitInv, StepInv, PTL DEF Spec

(* Every variable keeps its type, for any sets of views and browsers. *)
THEOREM TypeCorrect == Spec => []TypeOK
<1>1. Inv => TypeOK
  BY DEF Inv
<1> QED
  BY <1>1, Invariance, PTL

(* browser_opened_ moves exactly with the browsers that exist, whatever it
   held at the start: AddOpenedBrowserCount and DelOpenedBrowserCount are
   paired across views, DevTools browsers and late creations. *)
THEOREM CounterExact == Spec => []CountTracksBrowsers
<1>1. Inv => CountTracksBrowsers
  BY DEF Inv
<1> QED
  BY <1>1, Invariance, PTL

(* No handler ever holds a browser CEF has destroyed. *)
THEOREM ReferencesValid == Spec => []RefIsOwnExistingBrowser
<1>1. Inv => RefIsOwnExistingBrowser
  BY DEF Inv
<1> QED
  BY <1>1, Invariance, PTL

(* No handler ever calls back a widget that was destroyed. *)
THEOREM DelegatesValid == Spec => []NoDanglingDelegate
<1>1. Inv => NoDanglingDelegate
  BY DEF Inv
<1> QED
  BY <1>1, Invariance, PTL

-----------------------------------------------------------------------------
(* An action property.                                                      *)

(* Only OnAfterCreated brings a browser to life. *)
LEMMA OnlyOnAfterCreatedRevives ==
  ASSUME Inv, [Next]_vars, NEW b \in Browsers, phase[b] = "pending", phase'[b] = "live"
  PROVE  OnAfterCreated(b)
<1>1. ASSUME NEW v \in Views, ProgramStep(v)
      PROVE  FALSE
  BY <1>1 DEF ProgramStep, LoadAttrUrl, SetAttrUrl, OnCreate, UserLoadURL, Navigate, UserOpen, UserClose,
     OnDestroy, Destruct, Open, Close, CloseAllBrowsers, CloseBrowser, RequestBrowser, cefVars, Inv, TypeOK
<1>2. ASSUME NEW c \in Browsers, CefStep(c)
      PROVE  c = b /\ OnAfterCreated(b)
  <2>1. CASE OnAfterCreated(c)
    <3>1. c = b
      BY <2>1 DEF OnAfterCreated, Inv, TypeOK
    <3> QED
      BY <2>1, <3>1
  <2>2. CASE OnBeforeClose(c) \/ DoClose(c) \/ OnPreKeyEvent(c)
    BY <2>2 DEF OnBeforeClose, DoClose, OnPreKeyEvent, OpenDevTools, CloseBrowser, RequestBrowser, Inv, TypeOK
  <2>3. CASE OnLoadEnd(c) \/ \E is_main \in BOOLEAN, u \in Urls : OnAddressChange(c, is_main, u)
    BY <2>3 DEF OnLoadEnd, OnAddressChange, cefVars
  <2> QED
    BY <1>2, <2>1, <2>2, <2>3 DEF CefStep
<1>3. ~UNCHANGED vars
  BY DEF vars
<1> QED
  BY <1>1, <1>2, <1>3 DEF Next

(* Every browser starts on the address its widget remembers when it
   arrives: SWebView::OnAfterCreated runs after m_refBrowser is set. *)
THEOREM NewBrowserIsLoaded == Spec => NewBrowserLoadsRememberedUrl
<1>1. ASSUME Inv, [Next]_vars, NEW b \in Browsers,
             phase[b] = "pending", phase'[b] = "live",
             m_posr[client[b]] # NULL, m_strUrl[m_posr[client[b]]] # EmptyUrl
      PROVE  main_url'[b] = m_strUrl[m_posr[client[b]]]
  <2>1. OnAfterCreated(b)
    BY <1>1, OnlyOnAfterCreatedRevives
  <2>2. client[b] \in Views /\ m_posr[client[b]] = client[b]
    BY <1>1 DEF Inv, ClientsAreViews, DelegatesAreOwn
  <2>3. m_refBrowser'[client[b]] = b
    BY <1>1, <2>1, <2>2 DEF OnAfterCreated, Inv, TypeOK
  <2> QED
    BY <1>1, <2>1, <2>2, <2>3 DEF OnAfterCreated, Inv, TypeOK
<1>2. Inv /\ [Next]_vars =>
        [\A b \in Browsers :
           LET w == m_posr[client[b]]
           IN phase[b] = "pending" /\ phase'[b] = "live" /\ w # NULL
                => (m_strUrl[w] # EmptyUrl => main_url'[b] = m_strUrl[w])]_vars
  BY <1>1
<1> QED
  BY <1>2, Invariance, PTL DEF Spec, NewBrowserLoadsRememberedUrl

-----------------------------------------------------------------------------
(* With a program that waits for OnAfterCreated, and without DevTools,      *)
(* WebViewLifecycle implements BrowserSlot: one browser per view, reached   *)
(* by m_refBrowser, told to close when the view lets go.                    *)

Careful == AwaitCreated /\ ~DevToolsUsed

IsActive(b) == phase[b] \in {"pending", "live", "closing"}

(* No two active browsers share a client. *)
Single == \A b, c \in Browsers : IsActive(b) /\ IsActive(c) /\ client[b] = client[c] => b = c

(* A browser that exists is the one its client refers to. *)
Referenced == \A b \in Browsers : Exists(b) => m_refBrowser[client[b]] = b

(* No browser is asked for before OnCreate. *)
NotBeforeOnCreate == \A b \in Browsers : IsActive(b) => widget[client[b]] # "loaded"

CarefulInv == Careful => Single /\ Referenced /\ NotBeforeOnCreate

-----------------------------------------------------------------------------
(* The strengthening is inductive.                                          *)

(* Where Open finds no reference and no creation is pending, the view has no
   active browser at all. *)
LEMMA NothingActive ==
  ASSUME Inv, Referenced, NEW v \in Views, m_refBrowser[v] = NULL, ~CreationPending(v)
  PROVE  \A b \in Browsers : IsActive(b) => client[b] # v
  BY BrowsersAssumption DEF Referenced, CreationPending, IsActive, Exists

LEMMA OpenKeepsSingle ==
  ASSUME Inv, Single, Referenced, NEW v \in Views,
         m_refBrowser[v] = NULL => \A b \in Browsers : IsActive(b) => client[b] # v,
         Open(v), UNCHANGED m_refBrowser
  PROVE  Single' /\ Referenced'
<1>1. CASE UNCHANGED <<phase, client>>
  BY <1>1 DEF Single, Referenced, IsActive, Exists
<1>2. ASSUME m_refBrowser[v] = NULL, NEW b \in Browsers, RequestBrowser(b, v, NULL)
      PROVE  Single' /\ Referenced'
  <2>1. \A c \in Browsers : IsActive(c)' <=> (IsActive(c) \/ c = b)
    BY <1>2 DEF RequestBrowser, IsActive, Inv, TypeOK
  <2>2. \A c \in Browsers : client'[c] = IF c = b THEN v ELSE client[c]
    BY <1>2 DEF RequestBrowser, Inv, TypeOK
  <2>3. Single'
    BY <1>2, <2>1, <2>2 DEF Single
  <2>4. \A c \in Browsers : Exists(c)' => Exists(c) /\ c # b
    BY <1>2 DEF RequestBrowser, Exists, Inv, TypeOK
  <2>5. Referenced'
    BY <2>2, <2>4 DEF Referenced
  <2> QED
    BY <2>3, <2>5
<1> QED
  BY <1>1, <1>2 DEF Open

(* Nothing else the program does makes a browser active. *)
LEMMA CloseKeepsSingle ==
  ASSUME Inv, Single, Referenced, NEW b \in Browsers,
         UNCHANGED phase \/ CloseBrowser(b),
         UNCHANGED <<client, m_refBrowser>>
  PROVE  /\ Single' /\ Referenced'
         /\ \A c \in Browsers : IsActive(c)' <=> IsActive(c)
<1>1. \A c \in Browsers : (IsActive(c)' <=> IsActive(c)) /\ (Exists(c)' <=> Exists(c))
  BY DEF CloseBrowser, IsActive, Exists, Inv, TypeOK
<1>2. Single'
  BY <1>1 DEF Single
<1>3. Referenced'
  BY <1>1 DEF Referenced
<1> QED
  BY <1>1, <1>2, <1>3

LEMMA ProgramStepCareful ==
  ASSUME Inv, Careful, Single, Referenced, NotBeforeOnCreate, NEW v \in Views, ProgramStep(v)
  PROVE  Single' /\ Referenced' /\ NotBeforeOnCreate'
<1>1. CASE UNCHANGED <<phase, client, m_refBrowser>> /\ widget'[v] # "loaded"
  <2>1. \A w \in Views : widget'[w] = "loaded" => widget[w] = "loaded"
    BY <1>1 DEF ProgramStep, LoadAttrUrl, SetAttrUrl, OnCreate, UserLoadURL, Navigate, UserOpen, UserClose,
       OnDestroy, Destruct, widgetVars, Inv, TypeOK
  <2> QED
    BY <1>1, <2>1 DEF Single, Referenced, NotBeforeOnCreate, IsActive, Exists, Inv, ClientsAreViews
<1>2. ASSUME NEW u \in Urls, LoadAttrUrl(v, u)
      PROVE  Single' /\ Referenced' /\ NotBeforeOnCreate'
  BY <1>2 DEF LoadAttrUrl, Single, Referenced, NotBeforeOnCreate, IsActive, Exists, handlerVars, cefVars
<1>3. CASE OnCreate(v)
  <2>1. \A b \in Browsers : IsActive(b) => client[b] # v
    BY <1>3 DEF OnCreate, NotBeforeOnCreate
  <2>2. Single' /\ Referenced'
    BY <1>3, <2>1, OpenKeepsSingle DEF OnCreate
  <2>3. \A w \in Views : widget'[w] = "loaded" => widget[w] = "loaded" /\ w # v
    BY <1>3 DEF OnCreate, Inv, TypeOK
  <2>4. \A c \in Browsers : IsActive(c)' => (IsActive(c) /\ client'[c] = client[c]) \/ client'[c] = v
    BY <1>3 DEF OnCreate, Open, RequestBrowser, IsActive, Inv, TypeOK
  <2>5. NotBeforeOnCreate'
    BY <2>3, <2>4 DEF NotBeforeOnCreate, Inv, ClientsAreViews, IsActive
  <2> QED
    BY <2>2, <2>5
<1>4. CASE UserOpen(v)
  <2>1. m_refBrowser[v] = NULL => \A b \in Browsers : IsActive(b) => client[b] # v
    BY <1>4, NothingActive DEF UserOpen, MayDisturb, Careful
  <2>2. Single' /\ Referenced'
    BY <1>4, <2>1, OpenKeepsSingle DEF UserOpen
  <2>3. \A c \in Browsers : IsActive(c)' => (IsActive(c) /\ client'[c] = client[c]) \/ client'[c] = v
    BY <1>4 DEF UserOpen, Open, RequestBrowser, IsActive, Inv, TypeOK
  <2>4. NotBeforeOnCreate'
    BY <1>4, <2>3 DEF UserOpen, NotBeforeOnCreate, widgetVars
  <2> QED
    BY <2>2, <2>4
<1>5. CASE UserClose(v) \/ OnDestroy(v)
  <2>1. /\ UNCHANGED <<client, m_refBrowser>>
        /\ UNCHANGED phase \/ \E b \in Browsers : CloseBrowser(b)
    BY <1>5 DEF UserClose, OnDestroy, Close, CloseAllBrowsers, Inv, TypeOK
  <2>2. /\ Single' /\ Referenced'
        /\ \A c \in Browsers : IsActive(c)' <=> IsActive(c)
    <3>1. CASE UNCHANGED phase
      BY <2>1, <3>1 DEF Single, Referenced, IsActive, Exists
    <3>2. ASSUME NEW b \in Browsers, CloseBrowser(b)
          PROVE  /\ Single' /\ Referenced'
                 /\ \A c \in Browsers : IsActive(c)' <=> IsActive(c)
      BY <2>1, <3>2, CloseKeepsSingle
    <3> QED
      BY <2>1, <3>1, <3>2
  <2>3. \A w \in Views : widget'[w] = "loaded" => widget[w] = "loaded"
    BY <1>5 DEF UserClose, OnDestroy, widgetVars, Inv, TypeOK
  <2>4. NotBeforeOnCreate'
    BY <2>1, <2>2, <2>3 DEF NotBeforeOnCreate, Inv, ClientsAreViews, IsActive
  <2> QED
    BY <2>2, <2>4
<1>6. ASSUME NEW u \in Urls, SetAttrUrl(v, u) \/ UserLoadURL(v, u) \/ Navigate(v, u)
      PROVE  UNCHANGED <<phase, client, m_refBrowser>> /\ widget'[v] # "loaded"
  BY <1>6 DEF SetAttrUrl, UserLoadURL, Navigate, widgetVars, handlerVars
<1>7. CASE Destruct(v)
  <2>1. UNCHANGED <<phase, client, m_refBrowser>> /\ widget'[v] # "loaded"
    BY <1>7 DEF Destruct, handlerVars, cefVars, Inv, TypeOK
  <2> QED
    BY <1>1, <2>1
<1> QED
  BY <1>1, <1>2, <1>3, <1>4, <1>5, <1>6, <1>7 DEF ProgramStep

LEMMA CefStepCareful ==
  ASSUME Inv, Careful, Single, Referenced, NotBeforeOnCreate, NEW b \in Browsers, CefStep(b)
  PROVE  Single' /\ Referenced' /\ NotBeforeOnCreate'
<1>1. CASE OnAfterCreated(b) \/ OnBeforeClose(b)
  <2>1. IsActive(b) /\ client[b] \in Views
    BY <1>1 DEF OnAfterCreated, OnBeforeClose, IsActive, Inv, ClientsAreViews
  <2>2. UNCHANGED <<client, widget>>
    BY <1>1 DEF OnAfterCreated, OnBeforeClose, widgetVars
  <2>3. \A c \in Browsers : IsActive(c)' => IsActive(c)
    BY <1>1 DEF OnAfterCreated, OnBeforeClose, IsActive, Inv, TypeOK
  <2>4. Single' /\ NotBeforeOnCreate'
    BY <2>2, <2>3 DEF Single, NotBeforeOnCreate
  <2>5. ASSUME NEW c \in Browsers, Exists(c)'
        PROVE  m_refBrowser'[client'[c]] = c
    <3>1. CASE c = b
      BY <1>1, <2>1, <2>2, <2>5, <3>1 DEF OnAfterCreated, OnBeforeClose, Exists, Inv, TypeOK
    <3>2. CASE c # b
      <4>1. Exists(c) /\ IsActive(c)
        BY <1>1, <2>5, <3>2 DEF OnAfterCreated, OnBeforeClose, Exists, IsActive, Inv, TypeOK
      <4>2. client[c] # client[b] /\ client[c] \in Views
        BY <2>1, <3>2, <4>1 DEF Single, Inv, ClientsAreViews, IsActive
      <4>3. m_refBrowser'[client[c]] = m_refBrowser[client[c]]
        BY <1>1, <2>1, <4>2 DEF OnAfterCreated, OnBeforeClose, Inv, TypeOK
      <4> QED
        BY <2>2, <4>1, <4>3 DEF Referenced
    <3> QED
      BY <3>1, <3>2
  <2> QED
    BY <2>4, <2>5 DEF Referenced
<1>2. CASE DoClose(b)
  BY <1>2, CloseKeepsSingle DEF DoClose, NotBeforeOnCreate, widgetVars, handlerVars
<1>3. CASE OnLoadEnd(b) \/ \E is_main \in BOOLEAN, u \in Urls : OnAddressChange(b, is_main, u)
  BY <1>3 DEF OnLoadEnd, OnAddressChange, Single, Referenced, NotBeforeOnCreate, IsActive, Exists,
     widgetVars, handlerVars, cefVars
<1>4. CASE OnPreKeyEvent(b)
  BY <1>4 DEF OnPreKeyEvent, Careful, Single, Referenced, NotBeforeOnCreate, IsActive, Exists,
     widgetVars, handlerVars
<1> QED
  BY <1>1, <1>2, <1>3, <1>4 DEF CefStep

LEMMA CarefulStep == Inv /\ CarefulInv /\ [Next]_vars => CarefulInv'
<1> SUFFICES ASSUME Inv, CarefulInv, [Next]_vars, Careful
             PROVE  Single' /\ Referenced' /\ NotBeforeOnCreate'
  BY DEF CarefulInv, Careful
<1>1. CASE UNCHANGED vars
  BY <1>1 DEF vars, CarefulInv, Single, Referenced, NotBeforeOnCreate, IsActive, Exists
<1> QED
  BY <1>1, ProgramStepCareful, CefStepCareful DEF Next, CarefulInv

LEMMA CarefulInit == Init => CarefulInv
  BY DEF Init, CarefulInv, Single, Referenced, NotBeforeOnCreate, IsActive, Exists

(* The inductive invariant of a careful program holds: one active browser to a view,
   the one its handler refers to. *)
THEOREM CarefulInvariance == Spec => []CarefulInv
<1> QED
  BY CarefulInit, CarefulStep, Invariance, PTL DEF Spec

(* A careful program never has two browsers under way for one view, and
   m_refBrowser names the one that exists. *)
THEOREM OneBrowser == Spec => []OneBrowserPerView
<1>1. Inv /\ CarefulInv => OneBrowserPerView
  BY DEF CarefulInv, Careful, OneBrowserPerView, Active, Single, Referenced, IsActive, Exists
<1> QED
  BY <1>1, Invariance, CarefulInvariance, PTL

-----------------------------------------------------------------------------
(* A view that is gone has no browser that nobody told to close.            *)

AbandonedIsClosing ==
  \A v \in Views :
    widget[v] \in {"destroyed", "freed"} => \A b \in Active(v) : phase[b] = "closing"

(* OnDestroy finds no creation pending and closes the one browser there is. *)
LEMMA DestroyAbandons ==
  ASSUME Inv, Careful, CarefulInv, AbandonedIsClosing, NEW v \in Views, OnDestroy(v)
  PROVE  AbandonedIsClosing'
<1>1. /\ ~CreationPending(v) /\ Close(v) /\ UNCHANGED <<m_refBrowser, client>>
      /\ widget' = [widget EXCEPT ![v] = "destroyed"]
  BY DEF OnDestroy, MayDisturb, Careful
<1>2. ASSUME NEW w \in Views, widget'[w] \in {"destroyed", "freed"}, NEW b \in Active(w)' PROVE phase'[b] = "closing"
  <2>1. b \in Browsers /\ client[b] = w /\ IsActive(b)
    BY <1>1, <1>2 DEF Active, IsActive, Close, CloseAllBrowsers, CloseBrowser, Inv, TypeOK
  <2>2. CASE w = v
    <3>1. phase[b] # "pending" /\ Exists(b)
      BY <1>1, <2>1, <2>2 DEF CreationPending, IsActive, Exists
    <3>2. m_refBrowser[v] = b
      BY <2>1, <2>2, <3>1 DEF CarefulInv, Referenced
    <3>3. CloseBrowser(b)
      BY <1>1, <2>1, <3>2, BrowsersAssumption DEF Close, CloseAllBrowsers
    <3> QED BY <2>1, <3>1, <3>3 DEF CloseBrowser, Exists, Inv, TypeOK
  <2>3. CASE w # v
    <3>1. widget[w] \in {"destroyed", "freed"}
      BY <1>1, <1>2, <2>3 DEF Inv, TypeOK
    <3>2. phase[b] = "closing"
      BY <2>1, <3>1 DEF AbandonedIsClosing, Active, IsActive
    <3> QED BY <1>1, <2>1, <3>2 DEF Close, CloseAllBrowsers, CloseBrowser, Inv, TypeOK
  <2> QED BY <2>2, <2>3
<1> QED BY <1>2 DEF AbandonedIsClosing

(* A step that leaves the widgets that are gone, and the browsers with them,
   as they are, or takes a browser further on its way out. *)
LEMMA AbandonedKept ==
  ASSUME Inv, AbandonedIsClosing,
         \A v \in Views : widget'[v] \in {"destroyed", "freed"} => widget[v] \in {"destroyed", "freed"},
         \A b \in Browsers : \/ phase'[b] = phase[b] /\ client'[b] = client[b]
                             \/ phase'[b] \in {"closing", "gone"}
                             \/ widget'[client'[b]] \notin {"destroyed", "freed"}
  PROVE  AbandonedIsClosing'
<1> SUFFICES ASSUME NEW v \in Views, widget'[v] \in {"destroyed", "freed"}, NEW b \in Active(v)'
             PROVE  phase'[b] = "closing"
  BY DEF AbandonedIsClosing
<1>1. b \in Browsers /\ client'[b] = v /\ phase'[b] \in {"pending", "live", "closing"}
  BY DEF Active
<1>2. CASE phase'[b] = phase[b] /\ client'[b] = client[b]
  BY <1>1, <1>2 DEF AbandonedIsClosing, Active
<1> QED BY <1>1, <1>2

LEMMA StepAbandons ==
  ASSUME Inv, CarefulInv, Careful, AbandonedIsClosing, [Next]_vars
  PROVE  AbandonedIsClosing'
<1>1. CASE UNCHANGED <<widget, phase, client>>
  BY <1>1 DEF AbandonedIsClosing, Active
<1>2. ASSUME NEW v \in Views, OnDestroy(v) PROVE AbandonedIsClosing'
  BY <1>2, DestroyAbandons
<1>3. ASSUME NEW v \in Views, Destruct(v) PROVE AbandonedIsClosing'
  BY <1>3 DEF Destruct, cefVars, AbandonedIsClosing, Active, Inv, TypeOK
<1>4. ASSUME NEW v \in Views, OnCreate(v) \/ UserOpen(v) PROVE AbandonedIsClosing'
  <2>1. /\ widget'[v] = "created" /\ \A w \in Views \ {v} : widget'[w] = widget[w]
        /\ widget[v] \notin {"destroyed", "freed"}
    BY <1>4 DEF OnCreate, UserOpen, widgetVars, Inv, TypeOK
  <2>2. \A b \in Browsers : \/ phase'[b] = phase[b] /\ client'[b] = client[b]
                            \/ client'[b] = v
    BY <1>4 DEF OnCreate, UserOpen, Open, RequestBrowser, Inv, TypeOK
  <2> QED BY <2>1, <2>2, AbandonedKept
<1>5. ASSUME NEW v \in Views, UserClose(v) PROVE AbandonedIsClosing'
  <2>1. widget' = widget /\ client' = client
    BY <1>5 DEF UserClose, widgetVars
  <2>2. \A b \in Browsers : phase'[b] = phase[b] \/ phase'[b] = "closing"
    BY <1>5 DEF UserClose, Close, CloseAllBrowsers, CloseBrowser, Inv, TypeOK
  <2> QED BY <2>1, <2>2, AbandonedKept
<1>6. ASSUME NEW b \in Browsers, OnAfterCreated(b) PROVE AbandonedIsClosing'
  <2>1. /\ widget' = widget /\ client' = client /\ phase[b] = "pending"
        /\ \A c \in Browsers \ {b} : phase'[c] = phase[c]
    BY <1>6 DEF OnAfterCreated, widgetVars, Inv, TypeOK
  <2>2. widget[client[b]] \notin {"destroyed", "freed"}
    BY <2>1 DEF AbandonedIsClosing, Active, Inv, ClientsAreViews
  <2> QED BY <2>1, <2>2, AbandonedKept
<1>7. ASSUME NEW b \in Browsers, OnBeforeClose(b) \/ DoClose(b) PROVE AbandonedIsClosing'
  <2>1. widget' = widget /\ client' = client
    BY <1>7 DEF OnBeforeClose, DoClose, widgetVars
  <2>2. \A c \in Browsers : phase'[c] = phase[c] \/ phase'[c] \in {"closing", "gone"}
    BY <1>7 DEF OnBeforeClose, DoClose, CloseBrowser, Inv, TypeOK
  <2> QED BY <2>1, <2>2, AbandonedKept
<1>8. ASSUME NEW b \in Browsers, OnPreKeyEvent(b) PROVE UNCHANGED <<widget, phase, client>>
  BY <1>8 DEF OnPreKeyEvent, Careful, widgetVars
<1>9. ASSUME NEW v \in Views, NEW u \in Urls,
             LoadAttrUrl(v, u) \/ SetAttrUrl(v, u) \/ UserLoadURL(v, u) \/ Navigate(v, u)
      PROVE  UNCHANGED <<widget, phase, client>>
  BY <1>9 DEF LoadAttrUrl, SetAttrUrl, UserLoadURL, Navigate, widgetVars, cefVars
<1>10. ASSUME NEW b \in Browsers,
              OnLoadEnd(b) \/ \E is_main \in BOOLEAN, u \in Urls : OnAddressChange(b, is_main, u)
      PROVE  UNCHANGED <<widget, phase, client>>
  BY <1>10 DEF OnLoadEnd, OnAddressChange, widgetVars, cefVars
<1>11. CASE UNCHANGED vars
  BY <1>1, <1>11 DEF vars
<1> QED
  BY <1>1, <1>2, <1>3, <1>4, <1>5, <1>6, <1>7, <1>8, <1>9, <1>10, <1>11 DEF Next, ProgramStep, CefStep

(* With a careful program no view is destroyed before its browser was told to
   close, and none comes to life afterwards: the safety half of
   DestroyedViewLosesBrowsers, for any number of views and browsers. *)
THEOREM NoBrowserIsAbandoned == Careful => (Spec => []AbandonedIsClosing)
<1> SUFFICES ASSUME Careful PROVE Spec => []AbandonedIsClosing
  OBVIOUS
<1>1. Init => AbandonedIsClosing
  BY DEF Init, AbandonedIsClosing
<1>2. Inv /\ CarefulInv /\ AbandonedIsClosing /\ [Next]_vars => AbandonedIsClosing'
  BY StepAbandons
<1> QED BY <1>1, <1>2, Invariance, CarefulInvariance, PTL DEF Spec

-----------------------------------------------------------------------------
(* Letting go of a browser.                                                 *)

(* Only Close detaches a widget from its handler. *)
LEMMA OnlyCloseDetaches ==
  ASSUME Inv, [Next]_vars, NEW v \in Views, m_posr[v] # NULL, m_posr'[v] = NULL
  PROVE  Close(v) /\ (UserClose(v) \/ OnDestroy(v))
<1>1. ASSUME NEW b \in Browsers, CefStep(b)
      PROVE  FALSE
  BY <1>1 DEF CefStep, OnAfterCreated, OnBeforeClose, DoClose, OnAddressChange, OnLoadEnd,
     OnPreKeyEvent, OpenDevTools, handlerVars
<1>2. ASSUME NEW w \in Views, ProgramStep(w)
      PROVE  Close(v) /\ (UserClose(v) \/ OnDestroy(v))
  <2>1. CASE UserClose(w) \/ OnDestroy(w)
    <3>1. w = v
      BY <2>1 DEF UserClose, OnDestroy, Close, CloseAllBrowsers, Inv, TypeOK
    <3> QED
      BY <2>1, <3>1 DEF UserClose, OnDestroy
  <2>2. CASE OnCreate(w) \/ UserOpen(w)
    BY <2>2, ViewsAssumption DEF OnCreate, UserOpen, Open, Inv, TypeOK
  <2>3. ASSUME \/ \E u \in Urls : LoadAttrUrl(w, u) \/ SetAttrUrl(w, u) \/ UserLoadURL(w, u) \/ Navigate(w, u)
               \/ Destruct(w)
        PROVE  FALSE
    BY <2>3 DEF LoadAttrUrl, SetAttrUrl, UserLoadURL, Navigate, Destruct, handlerVars
  <2> QED
    BY <1>2, <2>1, <2>2, <2>3 DEF ProgramStep
<1>3. ~UNCHANGED vars
  BY DEF vars
<1> QED
  BY <1>1, <1>2, <1>3 DEF Next

(* In a careful program the browser the widget opened is told to close when
   the widget lets go of it. *)
THEOREM CloseReachesBrowser == Careful => (Spec => CloseRequestsMainBrowser)
<1> SUFFICES ASSUME Careful PROVE Spec => CloseRequestsMainBrowser
  OBVIOUS
<1>1. ASSUME Inv, CarefulInv, [Next]_vars, NEW b \in Browsers, NEW v \in Views,
             m_posr[v] # NULL, m_posr'[v] = NULL, client[b] = v, phase'[b] = "live"
      PROVE  FALSE
  <2>1. Close(v) /\ (UserClose(v) \/ OnDestroy(v))
    BY <1>1, OnlyCloseDetaches
  <2>2. phase[b] = "live"
    BY <1>1, <2>1 DEF Close, CloseAllBrowsers, CloseBrowser, Inv, TypeOK
  <2>3. m_refBrowser[v] = b
    BY <1>1, <2>2 DEF CarefulInv, Referenced, Exists
  <2>4. phase'[b] = "closing"
    BY <1>1, <2>1, <2>2, <2>3, BrowsersAssumption DEF Close, CloseAllBrowsers, CloseBrowser, Inv, TypeOK
  <2> QED
    BY <1>1, <2>4
<1>2. Inv /\ CarefulInv /\ [Next]_vars =>
        [\A b \in Browsers, v \in Views :
           m_posr[v] # NULL /\ m_posr'[v] = NULL /\ client[b] = v /\ inspects[b] = NULL
             => phase'[b] # "live"]_vars
  BY <1>1
<1> QED
  BY <1>2, Invariance, CarefulInvariance, PTL DEF Spec, CloseRequestsMainBrowser

-----------------------------------------------------------------------------
(* The refinement.                                                          *)

(* SlotOf as a function of the two variables it reads, so that facts about
   it can be used before and after a step. *)
ActiveIn(ph, cl, v) == {b \in Browsers : cl[b] = v /\ ph[b] \in {"pending", "live", "closing"}}

SlotIn(ph, cl, v) ==
  LET is(p) == \E b \in ActiveIn(ph, cl, v) : ph[b] = p
  IN IF is("pending") THEN "opening"
     ELSE IF is("live") THEN "open"
     ELSE IF is("closing") THEN "closing"
     ELSE "empty"

LEMMA SlotOfIsSlotIn ==
  ASSUME NEW v \in Views
  PROVE  SlotOf(v) = SlotIn(phase, client, v) /\ SlotOf(v)' = SlotIn(phase', client', v)
  BY DEF SlotOf, SlotIn, Active, ActiveIn

(* A view with a single active browser is in the state of that browser. *)
LEMMA SlotInOfOne ==
  ASSUME NEW ph, NEW cl, NEW v, NEW b \in Browsers,
         ActiveIn(ph, cl, v) = {b}
  PROVE  /\ ph[b] = "pending" => SlotIn(ph, cl, v) = "opening"
         /\ ph[b] = "live" => SlotIn(ph, cl, v) = "open"
         /\ ph[b] = "closing" => SlotIn(ph, cl, v) = "closing"
  BY DEF SlotIn

LEMMA SlotInOfNone ==
  ASSUME NEW ph, NEW cl, NEW v, ActiveIn(ph, cl, v) = {}
  PROVE  SlotIn(ph, cl, v) = "empty"
  BY DEF SlotIn

(* A step that concerns only the browsers and the pointers of v's handler. *)
OnlyConcerns(v) ==
  /\ \A b \in Browsers : client'[b] # v => phase'[b] = phase[b] /\ client'[b] = client[b]
  /\ \A b \in Browsers : client[b] # v /\ client'[b] = v => ~IsActive(b)
  /\ \A w \in Views \ {v} : m_posr'[w] = m_posr[w]

(* Such a step updates the slot of v only. *)
LEMMA SlotUpdate ==
  ASSUME NEW v \in Views, OnlyConcerns(v)
  PROVE  /\ [w \in Views |-> SlotOf(w)]' = [[w \in Views |-> SlotOf(w)] EXCEPT ![v] = SlotOf(v)']
         /\ [w \in Views |-> m_posr[w] # NULL]'
              = [[w \in Views |-> m_posr[w] # NULL] EXCEPT ![v] = (m_posr'[v] # NULL)]
<1>1. ASSUME NEW w \in Views, w # v
      PROVE  SlotOf(w)' = SlotOf(w)
  <2>1. ActiveIn(phase', client', w) = ActiveIn(phase, client, w)
    BY <1>1 DEF OnlyConcerns, ActiveIn, IsActive
  <2>2. \A b \in ActiveIn(phase, client, w) : phase'[b] = phase[b]
    BY <1>1, <2>1 DEF OnlyConcerns, ActiveIn
  <2>3. SlotIn(phase', client', w) = SlotIn(phase, client, w)
    BY <2>1, <2>2 DEF SlotIn
  <2> QED
    BY <2>3, SlotOfIsSlotIn
<1> QED
  BY <1>1 DEF OnlyConcerns

(* No change to browsers and pointers is no change to the slots. *)
LEMMA SlotStutter ==
  ASSUME UNCHANGED <<phase, client, m_posr>>
  PROVE  UNCHANGED Slot!slotVars
<1>1. \A w \in Views : SlotOf(w)' = SlotOf(w)
  BY SlotOfIsSlotIn
<1> QED
  BY <1>1 DEF Slot!slotVars

(* The active browsers of a view, under Single. *)
LEMMA OneActive ==
  ASSUME Single, NEW b \in Browsers, IsActive(b)
  PROVE  ActiveIn(phase, client, client[b]) = {b}
  BY DEF Single, IsActive, ActiveIn

LEMMA OneActivePrime ==
  ASSUME Single', NEW b \in Browsers, IsActive(b)'
  PROVE  ActiveIn(phase', client', client'[b]) = {b}
  BY DEF Single, IsActive, ActiveIn

LEMMA OpenRefines ==
  ASSUME Inv, Single, Single', NEW v \in Views,
         m_refBrowser[v] = NULL => \A b \in Browsers : IsActive(b) => client[b] # v,
         Open(v)
  PROVE  [Slot!SlotNext]_(Slot!slotVars)
<1>1. ASSUME m_refBrowser[v] = NULL, NEW b \in Browsers, RequestBrowser(b, v, NULL),
             m_posr' = [m_posr EXCEPT ![v] = v]
      PROVE  Slot!SlotNext
  <2>1. OnlyConcerns(v)
    BY <1>1 DEF RequestBrowser, OnlyConcerns, IsActive, Inv, TypeOK
  <2>2. SlotOf(v) = "empty"
    <3>1. ActiveIn(phase, client, v) = {}
      BY <1>1 DEF ActiveIn, IsActive
    <3> QED
      BY <3>1, SlotInOfNone, SlotOfIsSlotIn
  <2>3. SlotOf(v)' = "opening"
    <3>1. phase'[b] = "pending" /\ client'[b] = v
      BY <1>1 DEF RequestBrowser, Inv, TypeOK
    <3>2. ActiveIn(phase', client', v) = {b}
      BY <3>1, OneActivePrime DEF IsActive
    <3> QED
      BY <3>1, <3>2, SlotInOfOne, SlotOfIsSlotIn
  <2>4. m_posr'[v] # NULL
    BY <1>1, ViewsAssumption DEF Inv, TypeOK
  <2>5. Slot!AskOpen(v)
    BY <2>1, <2>2, <2>3, <2>4, SlotUpdate DEF Slot!AskOpen
  <2> QED
    BY <2>5 DEF Slot!SlotNext
<1> QED
  BY <1>1, SlotStutter DEF Open

LEMMA CloseRefines ==
  ASSUME Inv, Single, Single', Referenced, NEW v \in Views, ~CreationPending(v),
         Close(v), UNCHANGED client
  PROVE  Slot!SlotNext
<1>1. OnlyConcerns(v)
  BY DEF Close, CloseAllBrowsers, CloseBrowser, OnlyConcerns, Inv, TypeOK, RefIsOwnExistingBrowser
<1>2. m_posr'[v] = NULL
  BY DEF Close, CloseAllBrowsers, Inv, TypeOK
<1>3. SlotOf(v) # "opening" /\ SlotOf(v)' = IF SlotOf(v) = "open" THEN "closing" ELSE SlotOf(v)
  <2>1. CASE m_refBrowser[v] = NULL
    <3>1. ActiveIn(phase, client, v) = {} /\ ActiveIn(phase', client', v) = {}
      BY <2>1, NothingActive DEF ActiveIn, IsActive, Close, CloseAllBrowsers
    <3> QED
      BY <3>1, SlotInOfNone, SlotOfIsSlotIn
  <2>2. ASSUME NEW b \in Browsers, m_refBrowser[v] = b
        PROVE  SlotOf(v) # "opening" /\ SlotOf(v)' = IF SlotOf(v) = "open" THEN "closing" ELSE SlotOf(v)
    <3>1. client[b] = v /\ client'[b] = v /\ phase[b] \in {"live", "closing"} /\ phase'[b] = "closing"
      BY <2>2, BrowsersAssumption DEF Inv, TypeOK, RefIsOwnExistingBrowser, Exists, Close, CloseAllBrowsers, CloseBrowser
    <3>2. ActiveIn(phase, client, v) = {b}
      BY <3>1, OneActive DEF IsActive
    <3>3. ActiveIn(phase', client', v) = {b}
      BY <3>1, OneActivePrime DEF IsActive
    <3> QED
      BY <3>1, <3>2, <3>3, SlotInOfOne, SlotOfIsSlotIn
  <2> QED
    BY <2>1, <2>2 DEF Inv, TypeOK
<1>4. Slot!LetGo(v)
  BY <1>1, <1>2, <1>3, SlotUpdate DEF Slot!LetGo
<1> QED
  BY <1>4 DEF Slot!SlotNext

LEMMA ProgramStepRefines ==
  ASSUME Inv, Careful, Single, Single', Referenced, NotBeforeOnCreate,
         NEW v \in Views, ProgramStep(v)
  PROVE  [Slot!SlotNext]_(Slot!slotVars)
<1>1. CASE OnCreate(v)
  <2>1. \A b \in Browsers : IsActive(b) => client[b] # v
    BY <1>1 DEF OnCreate, NotBeforeOnCreate
  <2> QED
    BY <1>1, <2>1, OpenRefines DEF OnCreate
<1>2. CASE UserOpen(v)
  <2>1. m_refBrowser[v] = NULL => \A b \in Browsers : IsActive(b) => client[b] # v
    BY <1>2, NothingActive DEF UserOpen, MayDisturb, Careful
  <2> QED
    BY <1>2, <2>1, OpenRefines DEF UserOpen
<1>3. CASE UserClose(v) \/ OnDestroy(v)
  BY <1>3, CloseRefines DEF UserClose, OnDestroy, MayDisturb, Careful
<1>4. ASSUME \/ \E u \in Urls : LoadAttrUrl(v, u) \/ SetAttrUrl(v, u) \/ UserLoadURL(v, u) \/ Navigate(v, u)
             \/ Destruct(v)
      PROVE  [Slot!SlotNext]_(Slot!slotVars)
  BY <1>4, SlotStutter DEF LoadAttrUrl, SetAttrUrl, UserLoadURL, Navigate, Destruct, handlerVars, cefVars
<1> QED
  BY <1>1, <1>2, <1>3, <1>4 DEF ProgramStep

LEMMA CefStepRefines ==
  ASSUME Inv, Careful, Single, Single', Referenced,
         NEW b \in Browsers, CefStep(b), NEW v \in Views, client[b] = v
  PROVE  [Slot!SlotNext]_(Slot!slotVars)
<1>1. ASSUME IsActive(b), UNCHANGED <<client, m_posr>>,
             NEW p \in Phases, phase' = [phase EXCEPT ![b] = p]
      PROVE  /\ ActiveIn(phase, client, v) = {b}
             /\ p \in {"live", "closing"} => ActiveIn(phase', client', v) = {b}
             /\ p = "gone" => ActiveIn(phase', client', v) = {}
             /\ phase'[b] = p
             /\ OnlyConcerns(v)
  <2>1. ActiveIn(phase, client, v) = {b}
    BY <1>1, OneActive
  <2>2. phase'[b] = p
    BY <1>1 DEF Inv, TypeOK
  <2>3. p \in {"live", "closing"} => ActiveIn(phase', client', v) = {b}
    BY <1>1, <2>2, OneActivePrime DEF IsActive
  <2>4. p = "gone" => ActiveIn(phase', client', v) = {}
    BY <1>1, <2>1, <2>2 DEF ActiveIn, Inv, TypeOK
  <2>5. OnlyConcerns(v)
    BY <1>1 DEF OnlyConcerns, Inv, TypeOK
  <2> QED
    BY <2>1, <2>2, <2>3, <2>4, <2>5
<1>2. CASE OnAfterCreated(b)
  <2>1. /\ ActiveIn(phase, client, v) = {b} /\ ActiveIn(phase', client', v) = {b}
        /\ phase'[b] = "live" /\ OnlyConcerns(v)
    BY <1>1, <1>2 DEF OnAfterCreated, IsActive, Phases
  <2>2. SlotOf(v) = "opening" /\ SlotOf(v)' = "open"
    <3>1. SlotIn(phase, client, v) = "opening"
      BY <1>2, <2>1, SlotInOfOne DEF OnAfterCreated
    <3>2. SlotIn(phase', client', v) = "open"
      BY <2>1, SlotInOfOne
    <3> QED
      BY <3>1, <3>2, SlotOfIsSlotIn
  <2>3. Slot!Arrive(v)
    BY <1>2, <2>1, <2>2, SlotUpdate DEF Slot!Arrive, OnAfterCreated
  <2> QED
    BY <2>1, <2>3 DEF Slot!SlotNext
<1>3. CASE OnBeforeClose(b)
  <2>1. /\ ActiveIn(phase, client, v) = {b} /\ ActiveIn(phase', client', v) = {}
        /\ OnlyConcerns(v)
    BY <1>1, <1>3 DEF OnBeforeClose, IsActive, Phases
  <2>2. SlotOf(v) = "closing" /\ SlotOf(v)' = "empty"
    <3>1. SlotIn(phase, client, v) = "closing"
      BY <1>3, <2>1, SlotInOfOne DEF OnBeforeClose
    <3>2. SlotIn(phase', client', v) = "empty"
      BY <2>1, SlotInOfNone
    <3> QED
      BY <3>1, <3>2, SlotOfIsSlotIn
  <2>3. Slot!Leave(v)
    BY <1>3, <2>1, <2>2, SlotUpdate DEF Slot!Leave, OnBeforeClose
  <2> QED
    BY <2>1, <2>3 DEF Slot!SlotNext
<1>4. CASE DoClose(b)
  <2>1. /\ phase[b] = "live" /\ UNCHANGED <<client, m_posr>>
        /\ phase' = [phase EXCEPT ![b] = "closing"]
    BY <1>4 DEF DoClose, CloseBrowser, handlerVars
  <2>2. /\ ActiveIn(phase, client, v) = {b} /\ ActiveIn(phase', client', v) = {b}
        /\ phase'[b] = "closing" /\ OnlyConcerns(v)
    BY <1>1, <2>1 DEF IsActive, Phases
  <2>3. SlotOf(v) = "open" /\ SlotOf(v)' = "closing"
    <3>1. SlotIn(phase, client, v) = "open"
      BY <2>1, <2>2, SlotInOfOne
    <3>2. SlotIn(phase', client', v) = "closing"
      BY <2>2, SlotInOfOne
    <3> QED
      BY <3>1, <3>2, SlotOfIsSlotIn
  <2>4. Slot!PageCloses(v)
    BY <2>1, <2>2, <2>3, SlotUpdate DEF Slot!PageCloses
  <2> QED
    BY <2>1, <2>4 DEF Slot!SlotNext
<1>5. CASE OnLoadEnd(b) \/ \E is_main \in BOOLEAN, u \in Urls : OnAddressChange(b, is_main, u)
  BY <1>5, SlotStutter DEF OnLoadEnd, OnAddressChange, handlerVars, cefVars
<1>6. CASE OnPreKeyEvent(b)
  BY <1>6, SlotStutter DEF OnPreKeyEvent, Careful, handlerVars
<1> QED
  BY <1>2, <1>3, <1>4, <1>5, <1>6 DEF CefStep

(* A careful program sees one slot per view: the handlers of SWebView and
   SWebViewHandler implement BrowserSlot. *)
THEOREM RefinesSlot == Careful => (Spec => ImplementsSlot)
<1> SUFFICES ASSUME Careful PROVE Spec => ImplementsSlot
  OBVIOUS
<1>1. Init => Slot!SlotInit
  <2> SUFFICES ASSUME Init PROVE Slot!SlotInit
    OBVIOUS
  <2>1. ASSUME NEW w \in Views PROVE SlotOf(w) = "empty"
    <3>1. ActiveIn(phase, client, w) = {}
      BY DEF Init, ActiveIn
    <3> QED
      BY <3>1, SlotInOfNone, SlotOfIsSlotIn
  <2> QED
    BY <2>1 DEF Init, Slot!SlotInit
<1>2. Inv /\ CarefulInv /\ CarefulInv' /\ [Next]_vars => [Slot!SlotNext]_(Slot!slotVars)
  <2> SUFFICES ASSUME Inv, Single, Single', Referenced, NotBeforeOnCreate, [Next]_vars
               PROVE  [Slot!SlotNext]_(Slot!slotVars)
    BY DEF CarefulInv
  <2>1. CASE UNCHANGED vars
    BY <2>1, SlotStutter DEF vars
  <2>2. ASSUME NEW b \in Browsers, CefStep(b)
        PROVE  [Slot!SlotNext]_(Slot!slotVars)
    <3>1. client[b] \in Views
      BY <2>2 DEF CefStep, OnAfterCreated, OnBeforeClose, DoClose, OnAddressChange, OnLoadEnd,
         OnPreKeyEvent, OpenDevTools, Exists, Inv, ClientsAreViews
    <3> QED
      BY <2>2, <3>1, CefStepRefines
  <2> QED
    BY <2>1, <2>2, ProgramStepRefines DEF Next
<1> QED
  BY <1>1, <1>2, Invariance, CarefulInvariance, PTL DEF Spec, ImplementsSlot, Slot!SlotSpec
=============================================================================
