----------------------------- MODULE WindowSync -----------------------------
(***************************************************************************)
(* What CEF knows of the widget it paints for: its size, whether it is     *)
(* visible and whether it has the focus.  SWebView (webview.cc) passes     *)
(* these on as the window's messages come in, and only while it has a      *)
(* browser and has been visible once (CHECK_CEF_BROWSER_HOST); nothing is  *)
(* repeated later, except that CEF asks for the size itself.               *)
(*                                                                         *)
(* Sizes are rounded on their way to CEF (GetViewRect) and on their way    *)
(* back (the size CEF paints), and OnSize keeps quiet when the bitmap      *)
(* already has the new size.                                               *)
(*                                                                         *)
(* All of it goes to the browser the handler has stored, m_refBrowser, and *)
(* every browser that arrives is stored over the one before: the one of a  *)
(* second Open, which is let through while the first is on its way, and    *)
(* that of DevTools, which has a window of its own and neither asks for a  *)
(* size nor paints.                                                        *)
(***************************************************************************)
EXTENDS Geometry

CONSTANTS
  Sizes,       \* the client sizes of the widget, in device pixels
  Browsers,    \* the browsers that may be created for the handler
  Windowless,  \* those of Open, which paint into the widget; the others are DevTools'
  NULL         \* no browser

EmptySize == [width |-> 0, height |-> 0]

ASSUME SizesAssumption ==
  EmptySize \in Sizes /\ Sizes \subseteq [width : Nat, height : Nat]
ASSUME BrowsersAssumption == Windowless \subseteq Browsers /\ NULL \notin Browsers

NoBitmap == [width |-> -1, height |-> -1]

VARIABLES
  m_posr,         \* the widget is attached to its handler
  m_refBrowser,   \* SWebViewHandler::m_refBrowser
  pending,        \* CEF: browsers asked for that have not arrived
  live,           \* CEF: browsers that have arrived and not gone
  first_show_,    \* the widget was never visible
  visible,        \* SOUI: the widget and its parents are visible
  focused,        \* SOUI: the widget has the focus
  client_size,    \* SOUI: the size of GetClientRect()
  m_pBitmapBuff,  \* the size of the bitmap, or NoBitmap
  view_size,      \* CEF: per browser, the size it lays out for, in logical pixels
  resize_asked,   \* CEF: browsers that have still to ask for the new size
  paint_due,      \* CEF: browsers that have still to paint the view
  hidden,         \* CEF: browsers that last heard WasHidden(true)
  focus,          \* CEF: m_refBrowser last heard SendFocusEvent(true)
  refused,        \* history: m_refBrowser was told of a focus SOUI refused and
                  \* has not granted since
  painter,        \* history: the browser that painted the bitmap, or NULL
  overtaken       \* history: the widget was resized while OnSize kept quiet and
                  \* m_refBrowser lays out for another size

widgetVars == <<visible, focused, first_show_>>
browserVars == <<m_posr, m_refBrowser, pending, live>>
toldVars == <<hidden, focus, refused>>
sizeVars == <<client_size, m_pBitmapBuff, view_size, resize_asked, paint_due, painter, overtaken>>
vars == <<m_posr, m_refBrowser, pending, live, first_show_, visible, focused, client_size,
          m_pBitmapBuff, view_size, resize_asked, paint_due, hidden, focus, refused, painter,
          overtaken>>

ToLogical(size) ==
  [width |-> DeviceToLogical(size.width), height |-> DeviceToLogical(size.height)]

ToDevice(size) ==
  [width |-> LogicalToDevice(size.width), height |-> LogicalToDevice(size.height)]

LogicalSizes == {ToLogical(s) : s \in Sizes}

TypeOK ==
  /\ m_posr \in BOOLEAN /\ first_show_ \in BOOLEAN
  /\ live \subseteq Browsers /\ pending \subseteq Browsers \ live
  /\ m_refBrowser \in live \cup {NULL} /\ painter \in Windowless \cup {NULL}
  /\ visible \in BOOLEAN /\ focused \in BOOLEAN
  /\ client_size \in Sizes
  /\ m_pBitmapBuff \in {ToDevice(s) : s \in LogicalSizes} \cup {NoBitmap}
  /\ view_size \in [Windowless -> LogicalSizes]
  /\ resize_asked \subseteq live \cap Windowless /\ paint_due \subseteq live \cap Windowless
  /\ hidden \subseteq live /\ focus \in BOOLEAN
  /\ refused \in BOOLEAN /\ overtaken \in BOOLEAN

Init ==
  /\ m_posr = FALSE /\ m_refBrowser = NULL /\ pending = {} /\ live = {} /\ first_show_ = TRUE
  /\ visible = FALSE /\ focused = FALSE
  /\ client_size = EmptySize /\ m_pBitmapBuff = NoBitmap
  /\ view_size = [b \in Windowless |-> ToLogical(EmptySize)]
  /\ resize_asked = {} /\ paint_due = {}
  /\ hidden = {} /\ focus = FALSE /\ refused = FALSE
  /\ painter = NULL /\ overtaken = FALSE

(* CHECK_CEF_BROWSER_HOST lets the call through. *)
HasHost == ~first_show_ /\ m_refBrowser # NULL

-----------------------------------------------------------------------------
(* The window.                                                              *)

OnShowWindow_OnlyHides(bShow, visible_now) ==
  /\ visible_now => bShow
  /\ visible' = visible_now
  /\ first_show_' = (first_show_ /\ ~visible_now)
  /\ UNCHANGED browserVars
  /\ IF HasHost'
     THEN hidden' = IF bShow THEN hidden ELSE hidden \cup {m_refBrowser}
     ELSE UNCHANGED hidden
  /\ IF HasHost' /\ bShow
     THEN /\ focused' \in {focused, TRUE}
          /\ focus' = TRUE
          /\ refused' = ~focused'
     ELSE UNCHANGED <<focused, focus, refused>>
  /\ UNCHANGED sizeVars

(* The widget or one of its parents is shown or hidden.  SOUI may refuse the
   widget the focus (it is disabled, or its parent is hidden); CEF is told of
   the focus either way. *)
OnShowWindow(bShow, visible_now) ==
  /\ visible_now => bShow
  /\ visible' = visible_now
  /\ first_show_' = (first_show_ /\ ~visible_now)
  /\ UNCHANGED browserVars
  /\ IF HasHost'
     THEN hidden' = IF bShow THEN hidden \ {m_refBrowser} ELSE hidden \cup {m_refBrowser}
     ELSE UNCHANGED hidden
  /\ IF HasHost' /\ bShow
     THEN /\ focused' \in {focused, TRUE}
          /\ focus' = TRUE
          /\ refused' = ~focused'
     ELSE UNCHANGED <<focused, focus, refused>>
  /\ UNCHANGED sizeVars

OnSetFocus ==
  /\ visible /\ ~focused
  /\ focused' = TRUE
  /\ focus' = (focus \/ HasHost)
  /\ refused' = FALSE
  /\ UNCHANGED <<browserVars, first_show_, visible, hidden, sizeVars>>

OnKillFocus_WhileVisible ==
  /\ focused
  /\ focused' = FALSE
  /\ focus' = (focus /\ ~(HasHost /\ visible))
  /\ UNCHANGED <<browserVars, first_show_, visible, hidden, refused, sizeVars>>

OnKillFocus ==
  /\ focused
  /\ focused' = FALSE
  /\ focus' = (focus /\ ~HasHost)
  /\ UNCHANGED <<browserVars, first_show_, visible, hidden, refused, sizeVars>>

(* OnSize finds the bitmap at the new size, or no browser to tell, while CEF
   lays out for a size that does not paint the new one. *)
LeftBehind(size) ==
  /\ m_pBitmapBuff = size \/ ~HasHost
  /\ m_refBrowser \in Windowless \ resize_asked
  /\ ToDevice(view_size[m_refBrowser]) # size

(* A resize that CEF is told of (WasResized) or not. *)
Resize(size, told) ==
  /\ client_size' = size
  /\ resize_asked' = resize_asked \cup (IF told THEN {m_refBrowser} \cap Windowless ELSE {})
  /\ overtaken' = (~told /\ (overtaken \/ LeftBehind(size)))
  /\ UNCHANGED <<browserVars, widgetVars, toldVars, m_pBitmapBuff, view_size, paint_due, painter>>

OnSize_OnlyGrows(size) ==
  Resize(size, HasHost /\ (m_pBitmapBuff.width < size.width \/ m_pBitmapBuff.height < size.height))

OnSize_OnlyWithBitmap(size) == Resize(size, HasHost /\ m_pBitmapBuff \notin {size, NoBitmap})

(* CEF is told, unless the bitmap already has the size. *)
OnSize(size) == Resize(size, HasHost /\ m_pBitmapBuff # size)

(* The window repaints the widget and asks CEF for the view. *)
OnPaintWindow ==
  /\ HasHost
  /\ paint_due' = paint_due \cup ({m_refBrowser} \cap Windowless)
  /\ UNCHANGED <<browserVars, widgetVars, toldVars, client_size, m_pBitmapBuff, view_size,
                 resize_asked, painter, overtaken>>

(* Open asks for a browser unless one is stored, and attaches the widget. *)
Open(b) ==
  /\ m_refBrowser = NULL
  /\ b \in Windowless \ (pending \cup live)
  /\ m_posr' = TRUE /\ pending' = pending \cup {b}
  /\ UNCHANGED <<m_refBrowser, live, widgetVars, toldVars, sizeVars>>

OpenDevTools(b) ==
  /\ m_refBrowser # NULL
  /\ b \in Browsers \ (Windowless \cup pending \cup live)
  /\ pending' = pending \cup {b}
  /\ UNCHANGED <<m_posr, m_refBrowser, live, widgetVars, toldVars, sizeVars>>

Close ==
  /\ m_posr' = FALSE
  /\ m_pBitmapBuff' = NoBitmap /\ painter' = NULL
  /\ UNCHANGED <<m_refBrowser, pending, live, widgetVars, toldVars, client_size, view_size,
                 resize_asked, paint_due, overtaken>>

-----------------------------------------------------------------------------
(* CEF.                                                                     *)

(* SWebViewHandler passes a callback of CEF's on while a widget is attached. *)
PassedOn == m_posr

(* A new browser is stored, whichever was.  It is visible, has no focus and,
   if it is windowless, asks for its size. *)
OnAfterCreated(b) ==
  /\ b \in pending
  /\ pending' = pending \ {b} /\ live' = live \cup {b}
  /\ m_refBrowser' = b
  /\ IF b \in Windowless
     THEN /\ view_size' = [view_size EXCEPT ![b] =
                             ToLogical(IF PassedOn THEN client_size ELSE EmptySize)]
          /\ paint_due' = paint_due \cup {b}
     ELSE UNCHANGED <<view_size, paint_due>>
  /\ focus' = FALSE /\ refused' = FALSE /\ overtaken' = FALSE
  /\ UNCHANGED <<m_posr, widgetVars, hidden, client_size, m_pBitmapBuff, resize_asked,
                 painter>>

(* The stored browser is cleared only if it is the one that goes. *)
OnBeforeClose(b) ==
  /\ b \in live
  /\ live' = live \ {b}
  /\ hidden' = hidden \ {b}
  /\ resize_asked' = resize_asked \ {b} /\ paint_due' = paint_due \ {b}
  /\ IF m_refBrowser = b
     THEN m_refBrowser' = NULL /\ focus' = FALSE /\ refused' = FALSE /\ overtaken' = FALSE
     ELSE UNCHANGED <<m_refBrowser, focus, refused, overtaken>>
  /\ view_size' = [w \in Windowless |-> IF w = b THEN ToLogical(EmptySize) ELSE view_size[w]]
  /\ UNCHANGED <<m_posr, pending, widgetVars, client_size, m_pBitmapBuff, painter>>

(* CEF asks for the size when it was told to, or on its own. *)
GetViewRect(b) ==
  /\ b \in live \cap Windowless
  /\ resize_asked' = resize_asked \ {b}
  /\ paint_due' = paint_due \cup {b}
  /\ IF PassedOn
     THEN /\ view_size' = [view_size EXCEPT ![b] = ToLogical(client_size)]
          /\ overtaken' = (overtaken /\ m_refBrowser # b)
     ELSE UNCHANGED <<view_size, overtaken>>
  /\ UNCHANGED <<browserVars, widgetVars, toldVars, client_size, m_pBitmapBuff, painter>>

(* A browser paints, unless it is hidden, and the bitmap takes the size of what
   was painted (AdjustPixmap). *)
OnPaint(b) ==
  /\ b \in paint_due \ hidden
  /\ paint_due' = paint_due \ {b}
  /\ IF PassedOn
     THEN m_pBitmapBuff' = ToDevice(view_size[b]) /\ painter' = b
     ELSE UNCHANGED <<m_pBitmapBuff, painter>>
  /\ UNCHANGED <<browserVars, widgetVars, toldVars, client_size, view_size, resize_asked, overtaken>>

Next ==
  \/ \E bShow, visible_now \in BOOLEAN : OnShowWindow(bShow, visible_now)
  \/ OnSetFocus \/ OnKillFocus
  \/ \E size \in Sizes : OnSize(size)
  \/ OnPaintWindow
  \/ Close
  \/ \E b \in Browsers :
       \/ Open(b) \/ OpenDevTools(b)
       \/ OnAfterCreated(b) \/ OnBeforeClose(b)
       \/ GetViewRect(b) \/ OnPaint(b)

Spec == Init /\ [][Next]_vars

(* CEF asks for the size and paints as cef_browser.h says of WasResized. *)
Fairness ==
  \A b \in Windowless : WF_vars(b \in resize_asked /\ GetViewRect(b)) /\ WF_vars(OnPaint(b))

FairSpec == Spec /\ Fairness

-----------------------------------------------------------------------------

(* In a visible view the browser the view speaks to is never left hidden in
   CEF, where "OnPaint notification will stop": every WasHidden(true) it was
   sent is followed by WasHidden(false) when the view or its parents are shown
   again.  A browser that lost its place to another while the view was hidden
   (DevTools opened by a program, or a second Open) stays hidden for ever; it
   is not spoken to any more and nothing is said of it here. *)
VisibleIsNotHidden == visible => m_refBrowser \notin hidden

(* The browser the view speaks to believes in the focus only while the widget
   has it, but for the focus OnShowWindow told it of and SOUI refused: whatever
   is shown, hidden or replaced between, OnKillFocus takes back each focus that
   was granted. *)
FocusIsReal == focus => focused \/ refused

(* The bitmap covers the widget to within one logical pixel and does not
   hang over its edge. *)
Fills(bitmap, size) ==
  \A d \in {"width", "height"} :
    bitmap[d] <= size[d] /\ 96 * (size[d] - bitmap[d]) < Dpi + 96

(* When the stored browser painted the bitmap and owes neither a question nor
   a paint, the bitmap fits the widget, whatever the rounding and whichever
   OnSize was kept from CEF, but for a resize that finds the bitmap at the new
   size already while CEF lays out for another one (or that comes before the
   first show), which CEF is never told of. *)
SizeSettles ==
  m_posr /\ m_refBrowser \in Windowless \ (resize_asked \cup paint_due)
  /\ painter = m_refBrowser /\ ~overtaken
    => Fills(m_pBitmapBuff, client_size)

(* Another browser painted over what the stored one, b, has no reason to paint
   again. *)
PaintedOver(b) == painter \notin {b, NULL} /\ b \notin resize_asked \cup paint_due

(* After a resize the bitmap comes to fit the new size, unless the widget is
   resized again or detached, its browser replaced, gone or hidden, or the
   bitmap painted over by another browser or overtaken as above. *)
FitsEventually ==
  \A size \in Sizes, b \in Windowless :
    (m_posr /\ HasHost /\ m_refBrowser = b /\ client_size = size)
      ~> \/ Fills(m_pBitmapBuff, size)
         \/ client_size # size \/ ~m_posr \/ m_refBrowser # b
         \/ b \in hidden \/ PaintedOver(b) \/ overtaken
=============================================================================
