------------------------------ MODULE OsrView -------------------------------
(***************************************************************************)
(* How SWebView (webview.cc) puts the pixels of a windowless browser on    *)
(* the screen: one bitmap holds whatever CEF painted last, the view or its *)
(* popup (a drop-down list), a copy of the window's background is taken to *)
(* draw it on, and mouse positions over the popup are shifted to where CEF *)
(* believes the popup to be.                                               *)
(*                                                                         *)
(* Invalidate asks CEF for an OnPaint that cef_browser.h calls             *)
(* asynchronous; CEF's software renderer also makes it inside the call.    *)
(* Both are possible here: the nested call within the handler's action, or *)
(* an OnPaint of its own later.  A browser that was told WasHidden(true)   *)
(* paints nothing until it is told otherwise.                              *)
(*                                                                         *)
(* What the view asks of CEF it asks of the browser the handler has stored,*)
(* m_refBrowser, and every browser that arrives is stored over the one     *)
(* before: that of a second Open, which paints into the same bitmap, and   *)
(* that of DevTools, which has a window of its own and paints there.       *)
(***************************************************************************)
EXTENDS Geometry

CONSTANTS
  PopupRects,  \* what OnPopupSize may be given, in logical pixels
  ViewSizes,   \* the client sizes of the widget, in device pixels
  MousePoints, \* device coordinates at which the mouse is tried
  Browsers,    \* the browsers that may be created for the handler
  Windowless,  \* those of Open, which paint into the widget; the others are DevTools'
  NULL         \* no browser

ASSUME SizesAssumption == \A s \in ViewSizes : s.width \in Nat /\ s.height \in Nat
ASSUME RectsAssumption ==
  \A r \in PopupRects :
    r.x \in Int /\ r.y \in Int /\ r.width \in Int /\ r.height \in Int
ASSUME BrowsersAssumption == Windowless \subseteq Browsers /\ NULL \notin Browsers

VARIABLES
  m_posr,               \* the widget is attached to its handler
  m_refBrowser,         \* SWebViewHandler::m_refBrowser
  pending,              \* CEF: browsers asked for that have not arrived
  live,                 \* CEF: browsers that have arrived and not gone
  first_show_,          \* the widget was never visible
  visible,              \* SOUI: the widget and its parents are visible
  hidden,               \* CEF: windowless browsers that last heard WasHidden(true)
  client_size,          \* SWindow: the size of GetClientRect()
  m_bBkgndDirty,        \* the copy of the background is missing or out of date
  repaint_pending,      \* SOUI: the window has still to repaint the widget
  view_invalid,         \* CEF: browsers an OnPaint of the view was asked of
  m_pBitmapBuff,        \* what the bitmap holds: "none", "view" or "popup"
  draw_popup_,          \* how the code remembers what the bitmap holds
  resize_popup_,        \* the popup has a place and must be painted again
  popup_rc,             \* where the widget draws the popup, device pixels
  original_popup_rect_, \* where CEF wants the popup, device pixels
  popup_shown,          \* CEF: browsers whose popup came up and, as far as CEF
                        \* said, is up still
  screen                \* what is visible of the browsers inside the widget

browserVars == <<m_posr, m_refBrowser, pending, live>>
showVars == <<first_show_, visible, hidden>>
bkgndVars == <<client_size, m_bBkgndDirty>>
popupVars == <<resize_popup_, popup_rc, original_popup_rect_, popup_shown>>
paintVars == <<m_pBitmapBuff, draw_popup_, screen, view_invalid>>
vars == <<m_posr, m_refBrowser, pending, live, first_show_, visible, hidden, client_size,
          m_bBkgndDirty, repaint_pending, view_invalid, m_pBitmapBuff, draw_popup_,
          resize_popup_, popup_rc, original_popup_rect_, popup_shown, screen>>

NoSize == [width |-> -1, height |-> -1]

IntRects == [x : Int, y : Int, width : Int, height : Int]

(* The view's pixels are on the screen or not; the popup's pixels can be in
   the corner of popup_rc and in the corner of the view. *)
Screens == [view : BOOLEAN, popup : SUBSET {"at_popup_rc", "at_view_corner"}]

BlankScreen == [view |-> FALSE, popup |-> {}]

TypeOK ==
  /\ m_posr \in BOOLEAN /\ first_show_ \in BOOLEAN /\ visible \in BOOLEAN
  /\ live \subseteq Browsers /\ pending \subseteq Browsers \ live
  /\ m_refBrowser \in live \cup {NULL}
  /\ client_size \in ViewSizes \cup {NoSize}
  /\ m_bBkgndDirty \in BOOLEAN /\ repaint_pending \in BOOLEAN
  /\ view_invalid \subseteq Windowless /\ hidden \subseteq live \cap Windowless
  /\ m_pBitmapBuff \in {"none", "view", "popup"}
  /\ draw_popup_ \in BOOLEAN /\ resize_popup_ \in BOOLEAN /\ popup_shown \subseteq Windowless
  /\ popup_rc \in IntRects /\ original_popup_rect_ \in IntRects
  /\ screen \in Screens

Init ==
  /\ m_posr = FALSE /\ m_refBrowser = NULL /\ pending = {} /\ live = {}
  /\ first_show_ = TRUE /\ visible = FALSE /\ hidden = {}
  /\ client_size = NoSize /\ m_bBkgndDirty = TRUE
  /\ repaint_pending = FALSE /\ view_invalid = {}
  /\ m_pBitmapBuff = "none" /\ draw_popup_ = FALSE /\ resize_popup_ = FALSE
  /\ popup_rc = EmptyRect /\ original_popup_rect_ = EmptyRect /\ popup_shown = {}
  /\ screen = BlankScreen

-----------------------------------------------------------------------------
(* Painting, on the record p of what painting changes.                      *)

Current ==
  [buff |-> m_pBitmapBuff, draw_popup |-> draw_popup_, screen |-> screen, invalid |-> view_invalid]

BecomesCurrent(p) ==
  /\ m_pBitmapBuff' = p.buff
  /\ draw_popup_' = p.draw_popup
  /\ screen' = p.screen
  /\ view_invalid' = p.invalid

Copied_FlagKept(p, b, type) ==
  [p EXCEPT !.buff = type, !.draw_popup = @ \/ type = "popup",
            !.invalid = IF type = "view" THEN @ \ {b} ELSE @]

(* The first half of OnPaint: AdjustPixmap, the copy, and draw_popup_. *)
Copied(p, b, type) ==
  [p EXCEPT !.buff = type, !.draw_popup = (type = "popup"),
            !.invalid = IF type = "view" THEN @ \ {b} ELSE @]

(* SWebView::Draw: nothing while the window is painting itself, nor without
   an up-to-date background. *)
Drawn(p, internal, dirty) ==
  IF internal \/ dirty THEN p
  ELSE IF p.draw_popup
       THEN [p EXCEPT !.screen.popup = @ \cup {"at_popup_rc"}]
       ELSE [p EXCEPT !.screen = [view |-> TRUE, popup |-> {}]]

(* OnPaint as CEF calls it.  Painting the view asks its browser for the popup
   again; if CEF answers inside the call, painting_popup_ makes the inner
   OnPaint stop after the copy, and it is the popup that is drawn. *)
OnPaintResults(p, b, type, resize, internal, dirty) ==
  LET own == Copied(p, b, type)
  IN {Drawn(own, internal, dirty)} \cup
     (IF type = "view" /\ resize /\ b \in popup_shown
      THEN {Drawn(Copied(own, b, "popup"), internal, dirty)} ELSE {})

(* SWebViewHandler passes a callback of CEF's on while a widget is attached. *)
PassedOn == m_posr

(* CHECK_CEF_BROWSER_HOST lets the call through. *)
HasHost == ~first_show_ /\ m_refBrowser # NULL

(* The browser that hears such a call, if it is one that paints here. *)
Hears == IF HasHost THEN {m_refBrowser} \cap Windowless ELSE {}

(* host->Invalidate(PET_VIEW): CEF answers later, or inside the call. *)
InvalidateResults(p, resize, internal, dirty) ==
  {[p EXCEPT !.invalid = @ \cup Hears]} \cup
  UNION {OnPaintResults(p, b, "view", resize, internal, dirty) :
           b \in IF PassedOn THEN Hears \ hidden ELSE {}}

-----------------------------------------------------------------------------
(* The widget and its window.                                               *)

OnShowWindow_OnlyHides(bShow, visible_now) ==
  /\ visible_now => bShow
  /\ visible' = visible_now
  /\ first_show_' = (first_show_ /\ ~visible_now)
  /\ UNCHANGED browserVars
  /\ hidden' = IF bShow THEN hidden ELSE hidden \cup Hears'
  /\ repaint_pending' = (repaint_pending \/ (visible_now /\ ~visible))
  /\ screen' = IF visible_now THEN screen ELSE BlankScreen
  /\ UNCHANGED <<bkgndVars, popupVars, m_pBitmapBuff, draw_popup_, view_invalid>>

(* The widget or one of its parents is shown or hidden, and CEF is told
   (WasHidden).  The window repaints what has come into sight. *)
OnShowWindow(bShow, visible_now) ==
  /\ visible_now => bShow
  /\ visible' = visible_now
  /\ first_show_' = (first_show_ /\ ~visible_now)
  /\ UNCHANGED browserVars
  /\ hidden' = IF bShow THEN hidden \ Hears' ELSE hidden \cup Hears'
  /\ repaint_pending' = (repaint_pending \/ (visible_now /\ ~visible))
  /\ screen' = IF visible_now THEN screen ELSE BlankScreen
  /\ UNCHANGED <<bkgndVars, popupVars, m_pBitmapBuff, draw_popup_, view_invalid>>

(* OnSize and UpdateBkgndRenderTarget; the window repaints what it resized.
   CEF hears of the new size unless the bitmap already has it. *)
OnSize(size) ==
  /\ client_size' = size
  /\ m_bBkgndDirty' = TRUE
  /\ repaint_pending' = TRUE
  /\ \E fits \in {FALSE, m_pBitmapBuff # "none"} :
       view_invalid' = view_invalid \cup (IF fits THEN {} ELSE Hears)
  /\ UNCHANGED <<browserVars, showVars, popupVars, m_pBitmapBuff, draw_popup_, screen>>

(* OnPaint(IRenderTarget): the window repaints the widget from scratch, takes
   the background when it is out of date, asks CEF for the view and draws
   whatever the bitmap holds in the corner of the widget.  Once the widget was
   shown, nothing is drawn without a browser. *)
OnPaintWindow ==
  LET blank == [Current EXCEPT !.screen = BlankScreen]
  IN /\ client_size # NoSize
     /\ m_bBkgndDirty' = FALSE
     /\ repaint_pending' = FALSE
     /\ \E p \in InvalidateResults(blank, resize_popup_, TRUE, FALSE) :
          BecomesCurrent(
            IF p.buff = "none" \/ (~first_show_ /\ ~HasHost) THEN p
            ELSE IF p.buff = "view" THEN [p EXCEPT !.screen.view = TRUE]
            ELSE [p EXCEPT !.screen.popup = {"at_view_corner"}])
     /\ UNCHANGED <<browserVars, showVars, client_size, popupVars>>

(* Open asks for a browser unless one is stored, and attaches the widget. *)
Open(b) ==
  /\ client_size # NoSize
  /\ m_refBrowser = NULL
  /\ b \in Windowless \ (pending \cup live)
  /\ m_posr' = TRUE /\ pending' = pending \cup {b}
  /\ UNCHANGED <<m_refBrowser, live, showVars, bkgndVars, repaint_pending, popupVars, paintVars>>

OpenDevTools(b) ==
  /\ m_refBrowser # NULL
  /\ b \in Browsers \ (Windowless \cup pending \cup live)
  /\ pending' = pending \cup {b}
  /\ UNCHANGED <<m_posr, m_refBrowser, live, showVars, bkgndVars, repaint_pending, popupVars,
                 paintVars>>

(* SWebView::Close: no more callbacks, and the bitmap goes. *)
Close ==
  /\ m_posr' = FALSE
  /\ m_bBkgndDirty' = TRUE
  /\ m_pBitmapBuff' = "none"
  /\ UNCHANGED <<m_refBrowser, pending, live, showVars, client_size, repaint_pending, popupVars,
                 draw_popup_, screen, view_invalid>>

-----------------------------------------------------------------------------
(* CEF.                                                                     *)

(* A new browser is stored, whichever was, and paints if it is windowless.
   What was left up of the popups of browsers that are gone is for it to paint
   over. *)
OnAfterCreated(b) ==
  /\ b \in pending
  /\ pending' = pending \ {b} /\ live' = live \cup {b}
  /\ m_refBrowser' = b
  /\ view_invalid' = view_invalid \cup ({b} \cap Windowless)
  /\ popup_shown' = popup_shown \cap live
  /\ UNCHANGED <<m_posr, showVars, bkgndVars, repaint_pending, resize_popup_, popup_rc,
                 original_popup_rect_, m_pBitmapBuff, draw_popup_, screen>>

(* The stored browser is cleared only if it is the one that goes.  CEF does not
   say that its popup is gone with it. *)
OnBeforeClose(b) ==
  /\ b \in live
  /\ live' = live \ {b}
  /\ m_refBrowser' = IF m_refBrowser = b THEN NULL ELSE m_refBrowser
  /\ hidden' = hidden \ {b}
  /\ view_invalid' = view_invalid \ {b}
  /\ UNCHANGED <<m_posr, pending, first_show_, visible, bkgndVars, repaint_pending, popupVars,
                 m_pBitmapBuff, draw_popup_, screen>>

OnPaint_AfterClose(b, type) ==
  /\ b \in (live \cap Windowless) \ hidden
  /\ type = "popup" => b \in popup_shown
  /\ \E p \in OnPaintResults(Current, b, type, resize_popup_, FALSE, m_bBkgndDirty) :
       BecomesCurrent(p)
  /\ UNCHANGED <<browserVars, showVars, bkgndVars, repaint_pending, popupVars>>

(* A browser paints, unless it is hidden. *)
OnPaint(b, type) ==
  /\ b \in (live \cap Windowless) \ hidden
  /\ type = "popup" => b \in popup_shown
  /\ IF PassedOn
     THEN \E p \in OnPaintResults(Current, b, type, resize_popup_, FALSE, m_bBkgndDirty) :
            BecomesCurrent(p)
     ELSE /\ view_invalid' = IF type = "view" THEN view_invalid \ {b} ELSE view_invalid
          /\ UNCHANGED <<m_pBitmapBuff, draw_popup_, screen>>
  /\ UNCHANGED <<browserVars, showVars, bkgndVars, repaint_pending, popupVars>>

(* CEF opens a drop-down in answer to a click or a key, which reach it only
   after the widget was shown. *)
PopupTurns(b, show) ==
  /\ b \in live \cap Windowless /\ ~first_show_
  /\ show = (b \notin popup_shown)
  /\ popup_shown' = IF show THEN popup_shown \cup {b} ELSE popup_shown \ {b}

OnPopupShow_NoRepaint(b, show) ==
  /\ PopupTurns(b, show)
  /\ IF PassedOn /\ ~show
     THEN original_popup_rect_' = EmptyRect /\ resize_popup_' = FALSE
     ELSE UNCHANGED <<original_popup_rect_, resize_popup_>>
  /\ UNCHANGED <<browserVars, showVars, bkgndVars, repaint_pending, popup_rc, paintVars>>

(* Whichever browser's popup went, it is the stored one that is asked to paint. *)
OnPopupShow(b, show) ==
  /\ PopupTurns(b, show)
  /\ IF PassedOn /\ ~show
     THEN /\ original_popup_rect_' = EmptyRect
          /\ resize_popup_' = FALSE
          /\ \E p \in InvalidateResults(Current, FALSE, FALSE, m_bBkgndDirty) : BecomesCurrent(p)
     ELSE UNCHANGED <<original_popup_rect_, resize_popup_, paintVars>>
  /\ UNCHANGED <<browserVars, showVars, bkgndVars, repaint_pending, popup_rc>>

AtLeastZero(n) == IF n <= 0 THEN 0 ELSE n
AtMost(n, limit) == IF n > limit THEN limit ELSE n

ClampedToView_LeftTopOnly(r) ==
  [r EXCEPT !.x = AtLeastZero(r.x), !.y = AtLeastZero(r.y)]

(* The popup moved into the view; whatever its y, it first goes to the top. *)
ClampedToView(r) ==
  [r EXCEPT !.x = AtLeastZero(AtMost(AtLeastZero(r.x), client_size.width - r.width)),
            !.y = AtLeastZero(AtMost(0, client_size.height - r.height))]

OnPopupSize_OriginalNotScaled(b, rect) ==
  LET rc == LogicalToDeviceRect(rect)
  IN /\ b \in live \cap popup_shown /\ PassedOn
     /\ original_popup_rect_' = rect
     /\ IF rc.width <= 0 \/ rc.height <= 0
        THEN UNCHANGED <<popup_rc, resize_popup_>>
        ELSE popup_rc' = ClampedToView(rc) /\ resize_popup_' = TRUE
     /\ UNCHANGED <<browserVars, showVars, bkgndVars, repaint_pending, paintVars, popup_shown>>

OnPopupSize(b, rect) ==
  LET rc == LogicalToDeviceRect(rect)
  IN /\ b \in live \cap popup_shown /\ PassedOn
     /\ original_popup_rect_' = rc
     /\ IF rc.width <= 0 \/ rc.height <= 0
        THEN UNCHANGED <<popup_rc, resize_popup_>>
        ELSE popup_rc' = ClampedToView(rc) /\ resize_popup_' = TRUE
     /\ UNCHANGED <<browserVars, showVars, bkgndVars, repaint_pending, paintVars, popup_shown>>

Next ==
  \/ \E bShow, visible_now \in BOOLEAN : OnShowWindow(bShow, visible_now)
  \/ \E size \in ViewSizes : OnSize(size)
  \/ OnPaintWindow
  \/ Close
  \/ \E b \in Browsers :
       \/ Open(b) \/ OpenDevTools(b)
       \/ OnAfterCreated(b) \/ OnBeforeClose(b)
       \/ \E type \in {"view", "popup"} : OnPaint(b, type)
       \/ \E show \in BOOLEAN : OnPopupShow(b, show)
       \/ \E rect \in PopupRects : OnPopupSize(b, rect)

Spec == Init /\ [][Next]_vars

(* CEF paints what it was asked to paint unless it is hidden, and the window
   repaints what it invalidated while it is visible. *)
Fairness ==
  /\ \A b \in Windowless : WF_vars(b \in view_invalid /\ OnPaint(b, "view"))
  /\ WF_vars(repaint_pending /\ visible /\ OnPaintWindow)

FairSpec == Spec /\ Fairness

-----------------------------------------------------------------------------

(* A mouse position over the popup, as ApplyPopupOffset hands it to CEF. *)
PopupOffset == [x |-> original_popup_rect_.x - popup_rc.x, y |-> original_popup_rect_.y - popup_rc.y]

ApplyPopupOffset(pt) ==
  IF IsInside(pt.x, pt.y, popup_rc)
  THEN [x |-> pt.x + PopupOffset.x, y |-> pt.y + PopupOffset.y]
  ELSE pt

(* The one flag draw_popup_ tells apart what the one bitmap holds, through
   nested paints, a popup that goes away and a view that is closed with its
   popup up: Draw never takes the view for the popup. *)
FlagMatchesBitmap == m_pBitmapBuff # "none" => (draw_popup_ <=> m_pBitmapBuff = "popup")

(* A browser that paints after Close finds no widget: the bitmap Close
   dropped does not come back until the view is opened again. *)
NoBitmapWhenDetached == ~m_posr => m_pBitmapBuff = "none"

(* While the popup has a place, every point of the screen where it is drawn
   is, for CEF, a point of the popup: the clamped rectangle and the one CEF
   asked for keep the same size over every hide, resize and refused size. *)
PopupPointsStayInPopup ==
  resize_popup_ /\ original_popup_rect_.width > 0 /\ original_popup_rect_.height > 0 =>
    \A pt \in MousePoints :
      IsInside(pt.x, pt.y, popup_rc) =>
        IsInside(ApplyPopupOffset(pt).x, ApplyPopupOffset(pt).y, original_popup_rect_)

InView(r) ==
  /\ 0 <= r.x /\ r.x + r.width <= client_size.width
  /\ 0 <= r.y /\ r.y + r.height <= client_size.height

(* A popup no larger than the view is placed inside it: "Keep popups inside
   the view rectangle." *)
PopupPlacedInView ==
  [][popup_rc' # popup_rc /\ popup_rc'.width <= client_size.width
       /\ popup_rc'.height <= client_size.height => InView(popup_rc')]_vars

(* A popup CEF already wants inside the view is placed where CEF wants it:
   OnPopupSize is given "the new location and size in view coordinates". *)
PopupPlacedWhereAsked ==
  [][original_popup_rect_' # original_popup_rect_ /\ resize_popup_' /\ InView(original_popup_rect_')
       /\ original_popup_rect_'.width > 0 /\ original_popup_rect_'.height > 0
       => popup_rc' = original_popup_rect_']_vars

(* The pixels of a popup that is gone leave the screen of a visible view:
   OnPopupShow(false) gets the stored browser to paint again, whichever
   browser's popup it was, and a paint that met an out-of-date background is
   made up for by the window's own repaint.  (Close leaves the background out
   of date and asks for no repaint, so after Close and Open nothing is drawn
   until the window repaints for another reason.  A browser that lost its place
   to another and goes with its popup up leaves it on the screen, with nobody
   told.) *)
HiddenPopupDisappears ==
  \A b \in Windowless :
    (/\ m_posr /\ visible /\ m_refBrowser = b /\ popup_shown = {} /\ screen.popup # {}
     /\ m_bBkgndDirty => repaint_pending)
      ~> (screen.popup = {} \/ popup_shown # {} \/ ~m_posr \/ ~visible \/ m_refBrowser # b)

(* A visible view that is open and has no popup up comes to the screen, the
   first time and whenever it is shown again: a paint of CEF's that Draw
   dropped, because the background was out of date or the bitmap held a popup,
   or that CEF put off while the view was hidden, is followed by one that is
   drawn.  The exceptions are the state Close leaves behind, a background out of
   date and no repaint of the window to come, and a stored browser that is
   DevTools' or replaced. *)
ViewReachesScreen ==
  \A b \in Windowless :
    (/\ m_posr /\ visible /\ m_refBrowser = b /\ popup_shown = {}
     /\ m_bBkgndDirty => repaint_pending)
      ~> (screen.view \/ popup_shown # {} \/ ~m_posr \/ ~visible \/ m_refBrowser # b)
=============================================================================
