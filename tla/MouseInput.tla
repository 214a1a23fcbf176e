----------------------------- MODULE MouseInput -----------------------------
(***************************************************************************)
(* How SWebView (webview.cc, SendMouseEvent) turns the mouse messages of   *)
(* its window into CEF's mouse events: it takes and gives back the mouse   *)
(* capture, counts multiple clicks, keeps a press with Shift for a         *)
(* rotation that is never drawn, and drops some releases.                  *)
(*                                                                         *)
(* What is sent carries coordinates that OsrView is about; here only which *)
(* buttons CEF is told of matters.  The shape of the cursor                *)
(* (m_bSkipCursor) and the wheel, which changes no state, are left out.    *)
(*                                                                         *)
(* The view speaks to the browser its handler has stored, m_refBrowser.    *)
(* Every browser that arrives is stored over the one before, DevTools and  *)
(* a second Open's browser included, so the one told of a press may not be *)
(* the one that is there at its release.                                   *)
(***************************************************************************)
EXTENDS Integers

CONSTANTS
  Browsers,         \* the browsers that arrive at the view's handler, DevTools included
  NULL,             \* no browser
  Buttons,          \* the mouse buttons
  MBT_LEFT,         \* what last_click_button_ starts from
  Positions,        \* where the mouse can be, relative to the client area
  InView,           \* the positions inside the client area
  Origin,           \* the position of zeroed coordinates
  LeavePosition,    \* what the coordinates of a WM_MOUSELEAVE amount to
  Reach,            \* half of SM_CXDOUBLECLK and of SM_CYDOUBLECLK
  DoubleClickTime,  \* GetDoubleClickTime()
  HalfRange,        \* message times are -HalfRange .. HalfRange - 1 (2^31 in Windows)
  PopupStates,      \* where the popup is drawn, and whether CEF has it elsewhere
  MaxClicks         \* the longest multiple click (a bound)

ASSUME BrowsersAssumption == NULL \notin Browsers
ASSUME ButtonsAssumption == MBT_LEFT \in Buttons
ASSUME PositionsAssumption ==
  /\ \A p \in Positions : p.x \in Int /\ p.y \in Int
  /\ InView \subseteq Positions /\ {Origin, LeavePosition} \subseteq Positions
ASSUME ClicksAssumption ==
  /\ Reach \in Nat /\ DoubleClickTime \in Nat /\ MaxClicks \in Nat
  /\ HalfRange \in Nat /\ DoubleClickTime < HalfRange
ASSUME PopupAssumption == \A s \in PopupStates : s.shifted \in BOOLEAN

VARIABLES
  live,                      \* CEF: the browsers that have arrived and not gone
  m_refBrowser,              \* SWebViewHandler::m_refBrowser
  popup,                     \* popup_rc, as the positions it covers, and its offset
  now,                       \* Windows: the time of the current message
  held,                      \* the user: buttons pressed here and not yet released
  captured,                  \* Windows: the mouse is captured for the view
  mouse_rotation_,           \* SWebView::mouse_rotation_
  mouse_tracking_,           \* SWebView::mouse_tracking_
  last_click_at,             \* SWebView::last_click_x_ and last_click_y_
  last_click_button_,        \* SWebView::last_click_button_
  last_click_count_,         \* SWebView::last_click_count_
  last_click_time_,          \* SWebView::last_click_time_
  last_mouse_down_on_view_,  \* SWebView::last_mouse_down_on_view_
  cef_down,                  \* CEF: per browser, buttons it was told are down, not yet up
  undisturbed,               \* history: see Undisturbed below
  chain                      \* history: the multiple click the user is making

clickVars == <<last_click_at, last_click_button_, last_click_count_, last_click_time_>>
browserVars == <<live, m_refBrowser>>
worldVars == <<browserVars, popup, now>>
buttonVars == <<held, captured, mouse_rotation_, last_mouse_down_on_view_, cef_down, undisturbed>>
vars == <<live, m_refBrowser, popup, now, held, captured, mouse_rotation_, mouse_tracking_,
          last_click_at, last_click_button_, last_click_count_, last_click_time_,
          last_mouse_down_on_view_, cef_down, undisturbed, chain>>

Times == -HalfRange .. HalfRange - 1

(* The presses the user has made of one button close together: the first one's
   position, how many they are, whether a later move has ended them.  It is
   "plain" as long as no message time it involves was near zero or has wrapped
   around; nothing is known of a chain that is not.  elapsed says how long ago
   the last press was (at most LongAgo), wrapped whether the message time has
   wrapped around since. *)
LongAgo == DoubleClickTime + 1

Chains == [plain : BOOLEAN, button : Buttons, at : Positions, length : Nat, broken : BOOLEAN,
           elapsed : 0..LongAgo, wrapped : BOOLEAN]

UnknownChain(elapsed, wrapped) ==
  [plain |-> FALSE, button |-> MBT_LEFT, at |-> Origin, length |-> 0, broken |-> TRUE,
   elapsed |-> elapsed, wrapped |-> wrapped]

TypeOK ==
  /\ live \subseteq Browsers /\ m_refBrowser \in live \cup {NULL}
  /\ popup \in PopupStates /\ now \in Times
  /\ held \subseteq Buttons /\ cef_down \in [Browsers -> SUBSET Buttons]
  /\ captured \in BOOLEAN /\ mouse_rotation_ \in BOOLEAN /\ mouse_tracking_ \in BOOLEAN
  /\ last_click_at \in Positions /\ last_click_button_ \in Buttons
  /\ last_click_count_ \in Nat /\ last_click_time_ \in Times
  /\ last_mouse_down_on_view_ \in BOOLEAN
  /\ undisturbed \in BOOLEAN
  /\ chain \in Chains

Init ==
  /\ live = {} /\ m_refBrowser = NULL
  /\ popup \in PopupStates /\ now \in Times
  /\ held = {} /\ cef_down = [b \in Browsers |-> {}]
  /\ captured = FALSE /\ mouse_rotation_ = FALSE /\ mouse_tracking_ = FALSE
  /\ last_click_at = Origin /\ last_click_button_ = MBT_LEFT
  /\ last_click_count_ = 0 /\ last_click_time_ = 0
  /\ last_mouse_down_on_view_ = FALSE
  /\ undisturbed = TRUE
  /\ chain = UnknownChain(LongAgo, FALSE)

-----------------------------------------------------------------------------

Apart(m, n) == m - n > Reach \/ n - m > Reach

Distant(p, q) == Apart(p.x, q.x) \/ Apart(p.y, q.y)

(* CHECK_CEF_BROWSER_HOST lets calls through. *)
HasHost == m_refBrowser # NULL

(* A message reaches the view where the mouse is in it or captured for it. *)
Delivered(p) == p \in InView \/ captured

CancelPreviousClick_IgnoresDistance(p) == now - last_click_time_ > DoubleClickTime

CancelPreviousClick(p) ==
  Distant(last_click_at, p) \/ now - last_click_time_ > DoubleClickTime

(* The first lines of SendMouseEvent, for a move or a leave: a click that is
   too far away or too long ago is forgotten. *)
ForgetClick(p) ==
  IF CancelPreviousClick(p)
  THEN /\ last_click_at' = Origin
       /\ last_click_count_' = 0
       /\ last_click_time_' = 0
       /\ UNCHANGED last_click_button_
  ELSE UNCHANGED clickVars

(* The same, for what the user did: is the multiple click over? *)
Over(p) == chain.broken \/ Distant(chain.at, p) \/ chain.elapsed = LongAgo

ChainAfterMove(p) == chain' = [chain EXCEPT !.broken = Over(p)]

ChainAfterPress(button, p) ==
  LET goes_on == ~Over(p) /\ chain.button = button
      plain == /\ now > DoubleClickTime /\ ~chain.wrapped
               /\ chain.plain \/ chain.elapsed = LongAgo
  IN chain' = IF ~plain THEN UnknownChain(0, FALSE)
              ELSE [plain |-> TRUE, button |-> button,
                    at |-> IF goes_on THEN chain.at ELSE p,
                    length |-> IF goes_on THEN chain.length + 1 ELSE 1,
                    broken |-> FALSE, elapsed |-> 0, wrapped |-> FALSE]

(* The count a press is sent with. *)
CountClick(button, p) ==
  /\ IF ~CancelPreviousClick(p) /\ button = last_click_button_
     THEN /\ last_click_count_' = last_click_count_ + 1
          /\ UNCHANGED last_click_at
     ELSE /\ last_click_count_' = 1
          /\ last_click_at' = p
  /\ last_click_time_' = now
  /\ last_click_button_' = button

-----------------------------------------------------------------------------
(* The mouse messages.  Without a browser they change nothing.              *)

OnButtonDown_WithoutCapture(button, p, shift) ==
  /\ button \notin held /\ Delivered(p)
  /\ last_click_count_ < MaxClicks
  /\ held' = held \cup {button}
  /\ undisturbed' = (undisturbed /\ held = {})
  /\ IF HasHost
     THEN IF shift
          THEN /\ mouse_rotation_' = TRUE
               /\ UNCHANGED <<clickVars, last_mouse_down_on_view_, cef_down, chain>>
          ELSE /\ CountClick(button, p) /\ ChainAfterPress(button, p)
               /\ last_mouse_down_on_view_' = (p \notin popup.covers)
               /\ cef_down' = [cef_down EXCEPT ![m_refBrowser] = @ \cup {button}]
               /\ UNCHANGED mouse_rotation_
     ELSE UNCHANGED <<clickVars, mouse_rotation_, last_mouse_down_on_view_, cef_down, chain>>
  /\ UNCHANGED <<worldVars, captured, mouse_tracking_>>

(* A press takes the capture and, without Shift, is counted and sent. *)
OnButtonDown(button, p, shift) ==
  /\ button \notin held /\ Delivered(p)
  /\ last_click_count_ < MaxClicks
  /\ held' = held \cup {button}
  /\ undisturbed' = (undisturbed /\ held = {})
  /\ IF HasHost
     THEN /\ captured' = TRUE
          /\ IF shift
             THEN /\ mouse_rotation_' = TRUE
                  /\ UNCHANGED <<clickVars, last_mouse_down_on_view_, cef_down, chain>>
             ELSE /\ CountClick(button, p) /\ ChainAfterPress(button, p)
                  /\ last_mouse_down_on_view_' = (p \notin popup.covers)
                  /\ cef_down' = [cef_down EXCEPT ![m_refBrowser] = @ \cup {button}]
                  /\ UNCHANGED mouse_rotation_
     ELSE UNCHANGED <<captured, clickVars, mouse_rotation_, last_mouse_down_on_view_, cef_down, chain>>
  /\ UNCHANGED <<worldVars, mouse_tracking_>>

(* A release that began in the view and ends over a popup CEF has elsewhere. *)
LandsOnShiftedPopup(p) == last_mouse_down_on_view_ /\ p \in popup.covers /\ popup.shifted

(* A release of any button gives the capture back; it ends a rotation or is
   sent.  (The WM_CAPTURECHANGED that follows tells CEF and changes nothing.) *)
OnButtonUp(button, p) ==
  /\ button \in held
  /\ held' = held \ {button}
  /\ IF HasHost /\ Delivered(p)
     THEN /\ captured' = FALSE
          /\ mouse_rotation_' = FALSE
          /\ cef_down' = IF mouse_rotation_ \/ LandsOnShiftedPopup(p) THEN cef_down
                         ELSE [cef_down EXCEPT ![m_refBrowser] = @ \ {button}]
          /\ undisturbed' = (undisturbed /\ ~LandsOnShiftedPopup(p))
     ELSE UNCHANGED <<captured, mouse_rotation_, cef_down, undisturbed>>
  /\ UNCHANGED <<worldVars, mouse_tracking_, clickVars, last_mouse_down_on_view_, chain>>

OnMouseMove(p) ==
  /\ HasHost /\ Delivered(p)
  /\ ForgetClick(p) /\ ChainAfterMove(p)
  /\ mouse_tracking_' = (mouse_tracking_ \/ ~mouse_rotation_)
  /\ UNCHANGED <<worldVars, buttonVars>>

OnMouseLeave ==
  /\ HasHost
  /\ ForgetClick(LeavePosition) /\ ChainAfterMove(LeavePosition)
  /\ mouse_tracking_' = FALSE
  /\ UNCHANGED <<worldVars, buttonVars>>

-----------------------------------------------------------------------------
(* What happens around the view.                                            *)

(* Another window takes the capture away; CEF is told, except in a rotation. *)
OnCaptureChanged ==
  /\ captured
  /\ captured' = FALSE
  /\ undisturbed' = FALSE
  /\ UNCHANGED <<worldVars, held, mouse_rotation_, last_mouse_down_on_view_, cef_down,
                 mouse_tracking_, clickVars, chain>>

(* A press on its way loses the browser that was told of it, if one was. *)
LosesItsBrowser == HasHost /\ held # {}

(* Any browser is stored as it arrives, over one that is there already. *)
OnAfterCreated(b) ==
  /\ b \notin live
  /\ live' = live \cup {b}
  /\ m_refBrowser' = b
  /\ undisturbed' = (undisturbed /\ ~LosesItsBrowser)
  /\ UNCHANGED <<popup, now, held, captured, mouse_rotation_, last_mouse_down_on_view_, cef_down,
                 mouse_tracking_, clickVars, chain>>

(* A browser goes with what it knew of the buttons; the stored one is cleared
   only if it is the one that goes. *)
OnBeforeClose(b) ==
  /\ b \in live
  /\ live' = live \ {b}
  /\ cef_down' = [cef_down EXCEPT ![b] = {}]
  /\ IF m_refBrowser = b
     THEN /\ m_refBrowser' = NULL
          /\ undisturbed' = (undisturbed /\ ~LosesItsBrowser)
     ELSE UNCHANGED <<m_refBrowser, undisturbed>>
  /\ UNCHANGED <<popup, now, held, captured, mouse_rotation_, last_mouse_down_on_view_,
                 mouse_tracking_, clickVars, chain>>

PopupChanges(state) ==
  /\ popup' = state
  /\ UNCHANGED <<browserVars, now, buttonVars, mouse_tracking_, clickVars, chain>>

(* GetMessageTime() is a signed number of milliseconds that wraps around. *)
Tick ==
  /\ now' = IF now = HalfRange - 1 THEN -HalfRange ELSE now + 1
  /\ LET elapsed == IF chain.elapsed = LongAgo THEN LongAgo ELSE chain.elapsed + 1
     IN chain' = IF now = HalfRange - 1 THEN UnknownChain(elapsed, TRUE)
                 ELSE [chain EXCEPT !.elapsed = elapsed]
  /\ UNCHANGED <<browserVars, popup, buttonVars, mouse_tracking_, clickVars>>

Next ==
  \/ \E button \in Buttons, p \in Positions, shift \in BOOLEAN : OnButtonDown(button, p, shift)
  \/ \E button \in Buttons, p \in Positions : OnButtonUp(button, p)
  \/ \E p \in Positions : OnMouseMove(p)
  \/ OnMouseLeave \/ OnCaptureChanged
  \/ \E b \in Browsers : OnAfterCreated(b) \/ OnBeforeClose(b)
  \/ \E state \in PopupStates : PopupChanges(state)
  \/ Tick

Spec == Init /\ [][Next]_vars

-----------------------------------------------------------------------------

(* With no button held the view is quiet: the capture is given back, no
   rotation goes on, and no browser believes in a button that is up.  The code
   does not ensure this by itself.  It holds until a press on its way to its
   release is disturbed, and these are the disturbances: a second button,
   another window taking the capture, the stored browser going away or giving
   its place to another (DevTools too), and a popup drawn elsewhere than CEF
   has it under the release.  A browser that arrives or goes between two
   presses, that arrives where there was none, or that goes without being the
   stored one disturbs nothing. *)
QuietWithoutButtons ==
  undisturbed /\ held = {} =>
    ~captured /\ ~mouse_rotation_ /\ \A b \in Browsers : cef_down[b] = {}

(* The count of a click is how many presses the user made of one button, each
   within the double-click time of the one before, near the first one, and not
   cut by a move; a move that ends them resets it.  Forgetting a click by
   zeroing its time and place does not confuse it, as long as the message time
   is not near zero and does not wrap around during those presses. *)
ClickCountIsChain ==
  chain.plain => last_click_count_ = IF chain.broken THEN 0 ELSE chain.length
=============================================================================
