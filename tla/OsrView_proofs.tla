--------------------------- MODULE OsrView_proofs ---------------------------
(***************************************************************************)
(* Theorems about OsrView, for every scale, every set of sizes and every   *)
(* popup rectangle CEF may come up with.                                   *)
(***************************************************************************)
EXTENDS OsrView, TLAPS

USE DEF PassedOn

(* What painting works on, with the flag and the bitmap in step. *)
PaintRecords ==
  [buff : {"none", "view", "popup"}, draw_popup : BOOLEAN, screen : Screens, invalid : SUBSET Windowless]

InStep(p) ==
  /\ p \in PaintRecords
  /\ p.buff # "none" => (p.draw_popup <=> p.buff = "popup")

(* The clamped rectangle keeps the size CEF asked for. *)
SameSize ==
  resize_popup_ /\ original_popup_rect_.width > 0 /\ original_popup_rect_.height > 0 =>
    /\ popup_rc.width = original_popup_rect_.width
    /\ popup_rc.height = original_popup_rect_.height

Inv ==
  /\ TypeOK
  /\ FlagMatchesBitmap
  /\ NoBitmapWhenDetached
  /\ SameSize

-----------------------------------------------------------------------------
(* What painting does to its record.                                        *)

LEMMA CopiedInStep ==
  ASSUME NEW p, p \in PaintRecords, NEW b, NEW type \in {"view", "popup"}
  PROVE  InStep(Copied(p, b, type))
  BY DEF InStep, Copied, PaintRecords

LEMMA DrawnInStep ==
  ASSUME NEW p, InStep(p), NEW internal, NEW dirty
  PROVE  InStep(Drawn(p, internal, dirty))
  BY DEF InStep, Drawn, PaintRecords, Screens

LEMMA OnPaintInStep ==
  ASSUME NEW p, InStep(p), NEW b, NEW type \in {"view", "popup"}, NEW resize, NEW internal, NEW dirty,
         NEW q \in OnPaintResults(p, b, type, resize, internal, dirty)
  PROVE  InStep(q)
<1>1. InStep(Copied(p, b, type)) /\ InStep(Copied(Copied(p, b, type), b, "popup"))
  BY CopiedInStep DEF InStep
<1> QED
  BY <1>1, DrawnInStep DEF OnPaintResults

(* What Invalidate may lead to: nothing yet, or a paint inside the call. *)
LEMMA InvalidateCases ==
  ASSUME NEW p, NEW resize, NEW internal, NEW dirty,
         NEW q \in InvalidateResults(p, resize, internal, dirty)
  PROVE  \/ q = [p EXCEPT !.invalid = @ \cup Hears]
         \/ m_posr /\ \E b \in Hears : q \in OnPaintResults(p, b, "view", resize, internal, dirty)
  BY DEF InvalidateResults

LEMMA InvalidateInStep ==
  ASSUME NEW p, InStep(p), NEW resize, NEW internal, NEW dirty,
         NEW q \in InvalidateResults(p, resize, internal, dirty)
  PROVE  InStep(q) /\ (~m_posr => q.buff = p.buff)
<1>1. CASE q = [p EXCEPT !.invalid = @ \cup Hears]
  BY <1>1 DEF InStep, PaintRecords, Hears
<1>2. ASSUME m_posr, NEW b \in Hears, q \in OnPaintResults(p, b, "view", resize, internal, dirty)
      PROVE  InStep(q)
  BY <1>2, OnPaintInStep
<1> QED
  BY <1>1, <1>2, InvalidateCases

(* The same, for the call the window's own painting makes. *)
LEMMA NestedInStep ==
  ASSUME NEW p, InStep(p), NEW q \in InvalidateResults(p, resize_popup_, TRUE, FALSE)
  PROVE  InStep(q) /\ (~m_posr => q.buff = p.buff)
<1>1. CASE q = [p EXCEPT !.invalid = @ \cup Hears]
  BY <1>1 DEF InStep, PaintRecords, Hears
<1>2. ASSUME m_posr, NEW b \in Hears, q \in OnPaintResults(p, b, "view", resize_popup_, TRUE, FALSE)
      PROVE  InStep(q)
  BY <1>2, OnPaintInStep
<1> QED
  BY <1>1, <1>2 DEF InvalidateResults

LEMMA CurrentInStep == Inv => InStep(Current)
  BY DEF Inv, TypeOK, FlagMatchesBitmap, InStep, Current, PaintRecords

(* A record in step, made current, keeps the paint variables right. *)
LEMMA BecomesInStep ==
  ASSUME NEW p, InStep(p), BecomesCurrent(p)
  PROVE  /\ m_pBitmapBuff' \in {"none", "view", "popup"}
         /\ draw_popup_' \in BOOLEAN
         /\ screen' \in Screens
         /\ view_invalid' \subseteq Windowless
         /\ FlagMatchesBitmap'
         /\ m_pBitmapBuff' = p.buff
  BY DEF InStep, BecomesCurrent, PaintRecords, FlagMatchesBitmap

-----------------------------------------------------------------------------
(* Rectangles.                                                              *)

LEMMA DeviceRectType ==
  ASSUME NEW rect \in PopupRects
  PROVE  LogicalToDeviceRect(rect) \in IntRects
<1>1. /\ rect.x \in Int /\ rect.y \in Int /\ rect.width \in Int /\ rect.height \in Int
      /\ Dpi \in Int
  BY RectsAssumption, DpiAssumption
<1>2. \A n \in Int : LogicalToDevice(n) \in Int
  BY <1>1 DEF LogicalToDevice
<1> QED
  BY <1>1, <1>2 DEF LogicalToDeviceRect, Rect, IntRects

LEMMA ClampedType ==
  ASSUME TypeOK, NEW r \in IntRects
  PROVE  /\ ClampedToView(r) \in IntRects
         /\ ClampedToView(r).width = r.width
         /\ ClampedToView(r).height = r.height
<1>1. client_size.width \in Int /\ client_size.height \in Int
  BY SizesAssumption DEF TypeOK, NoSize
<1> DEFINE x == AtLeastZero(AtMost(AtLeastZero(r.x), client_size.width - r.width))
           y == AtLeastZero(AtMost(0, client_size.height - r.height))
<1>2. x \in Int /\ y \in Int
  BY <1>1 DEF AtLeastZero, AtMost, IntRects
<1>3. ClampedToView(r) = [r EXCEPT !.x = x, !.y = y]
  BY DEF ClampedToView
<1> HIDE DEF x, y
<1> QED
  BY <1>2, <1>3 DEF IntRects

-----------------------------------------------------------------------------

LEMMA InitInv == Init => Inv
<1>1. EmptyRect \in IntRects /\ EmptyRect.width = 0
  BY DEF EmptyRect, Rect, IntRects
<1>2. BlankScreen \in Screens
  BY DEF BlankScreen, Screens
<1> QED
  BY <1>1, <1>2 DEF Init, Inv, TypeOK, FlagMatchesBitmap, NoBitmapWhenDetached, SameSize

LEMMA StepInv == Inv /\ [Next]_vars => Inv'
<1> SUFFICES ASSUME Inv, [Next]_vars PROVE Inv'
  OBVIOUS
<1> USE DEF Inv, TypeOK, FlagMatchesBitmap, NoBitmapWhenDetached, SameSize, browserVars, showVars,
            bkgndVars, popupVars, paintVars
<1>1. ASSUME NEW bShow \in BOOLEAN, NEW visible_now \in BOOLEAN, OnShowWindow(bShow, visible_now)
      PROVE  Inv'
  <2>1. Hears' \subseteq live \cap Windowless
    BY <1>1, BrowsersAssumption DEF OnShowWindow, Hears, HasHost
  <2>2. screen' \in Screens
    BY <1>1 DEF OnShowWindow, BlankScreen, Screens
  <2>3. /\ visible' = visible_now /\ first_show_' = (first_show_ /\ ~visible_now)
        /\ hidden' = IF bShow THEN hidden \ Hears' ELSE hidden \cup Hears'
        /\ repaint_pending' = (repaint_pending \/ (visible_now /\ ~visible))
        /\ UNCHANGED <<browserVars, bkgndVars, popupVars, m_pBitmapBuff, draw_popup_, view_invalid>>
    BY <1>1 DEF OnShowWindow
  <2>4. hidden' \subseteq live \cap Windowless
    BY <2>1, <2>3
  <2>5. first_show_' \in BOOLEAN /\ visible' \in BOOLEAN /\ repaint_pending' \in BOOLEAN
    BY <2>3
  <2>6. UNCHANGED <<browserVars, bkgndVars, popupVars, m_pBitmapBuff, draw_popup_, view_invalid>>
    BY <2>3
  <2>7. TypeOK'
    BY <2>2, <2>4, <2>5, <2>6
  <2>8. FlagMatchesBitmap' /\ NoBitmapWhenDetached' /\ SameSize'
    BY <2>6
  <2> QED
    BY <2>7, <2>8
<1>2. ASSUME NEW b \in Browsers, Open(b) \/ OpenDevTools(b) PROVE Inv'
  <2>1. pending' \subseteq Browsers \ live /\ m_posr' \in BOOLEAN /\ (m_posr => m_posr')
    BY <1>2, BrowsersAssumption DEF Open, OpenDevTools
  <2>2. UNCHANGED <<m_refBrowser, live, showVars, bkgndVars, repaint_pending, popupVars, paintVars>>
    BY <1>2 DEF Open, OpenDevTools
  <2> QED
    BY <2>1, <2>2
<1>3. CASE Close
  BY <1>3 DEF Close
<1>4. ASSUME NEW b \in Browsers, OnAfterCreated(b) PROVE Inv'
  BY <1>4 DEF OnAfterCreated
<1>5. ASSUME NEW b \in Browsers, OnBeforeClose(b) PROVE Inv'
  BY <1>5 DEF OnBeforeClose
<1>6. ASSUME NEW size \in ViewSizes, OnSize(size)
      PROVE  Inv'
  BY <1>6 DEF OnSize, Hears
<1>7. CASE OnPaintWindow
  <2> DEFINE blank == [Current EXCEPT !.screen = BlankScreen]
  <2>1. PICK p \in InvalidateResults(blank, resize_popup_, TRUE, FALSE) :
          BecomesCurrent(
            IF p.buff = "none" \/ (~first_show_ /\ ~HasHost) THEN p
            ELSE IF p.buff = "view" THEN [p EXCEPT !.screen.view = TRUE]
            ELSE [p EXCEPT !.screen.popup = {"at_view_corner"}])
    BY <1>7 DEF OnPaintWindow
  <2>2. InStep(blank) /\ blank.buff = m_pBitmapBuff
    BY CurrentInStep DEF InStep, Current, PaintRecords, BlankScreen, Screens
  <2> HIDE DEF blank
  <2>3. InStep(p) /\ (~m_posr => p.buff = m_pBitmapBuff)
    <3>1. p \in InvalidateResults(blank, resize_popup_, TRUE, FALSE)
      BY <2>1
    <3> QED
      BY <2>2, <3>1, NestedInStep
  <2> DEFINE q == IF p.buff = "none" \/ (~first_show_ /\ ~HasHost) THEN p
                  ELSE IF p.buff = "view" THEN [p EXCEPT !.screen.view = TRUE]
                  ELSE [p EXCEPT !.screen.popup = {"at_view_corner"}]
  <2>4. InStep(q) /\ q.buff = p.buff
    BY <2>3 DEF InStep, PaintRecords, Screens
  <2>5. BecomesCurrent(q)
    BY <2>1
  <2> HIDE DEF q
  <2>6. /\ m_pBitmapBuff' \in {"none", "view", "popup"} /\ draw_popup_' \in BOOLEAN
        /\ screen' \in Screens /\ view_invalid' \subseteq Windowless
        /\ FlagMatchesBitmap' /\ m_pBitmapBuff' = p.buff
    BY <2>4, <2>5, BecomesInStep
  <2> QED
    BY <1>7, <2>3, <2>6 DEF OnPaintWindow
<1>8. ASSUME NEW b \in Browsers, NEW type \in {"view", "popup"}, OnPaint(b, type)
      PROVE  Inv'
  <2>1. CASE m_posr
    <3>1. PICK q \in OnPaintResults(Current, b, type, resize_popup_, FALSE, m_bBkgndDirty) :
            BecomesCurrent(q)
      BY <1>8, <2>1 DEF OnPaint
    <3>2. InStep(q)
      BY <3>1, CurrentInStep, OnPaintInStep
    <3> QED
      BY <1>8, <2>1, <3>1, <3>2, BecomesInStep DEF OnPaint
  <2>2. CASE ~m_posr
    BY <1>8, <2>2 DEF OnPaint
  <2> QED
    BY <2>1, <2>2
<1>9. ASSUME NEW b \in Browsers, NEW show \in BOOLEAN, OnPopupShow(b, show)
      PROVE  Inv'
  <2>0. popup_shown' \subseteq Windowless
    BY <1>9 DEF OnPopupShow, PopupTurns
  <2>1. CASE m_posr /\ ~show
    <3>1. PICK p \in InvalidateResults(Current, FALSE, FALSE, m_bBkgndDirty) : BecomesCurrent(p)
      BY <1>9, <2>1 DEF OnPopupShow
    <3>2. InStep(p)
      BY CurrentInStep, InvalidateInStep
    <3>3. original_popup_rect_' \in IntRects
      BY <1>9, <2>1 DEF OnPopupShow, EmptyRect, Rect, IntRects
    <3> QED
      BY <1>9, <2>0, <2>1, <3>1, <3>2, <3>3, BecomesInStep DEF OnPopupShow
  <2>2. CASE ~(m_posr /\ ~show)
    BY <1>9, <2>0, <2>2 DEF OnPopupShow
  <2> QED
    BY <2>1, <2>2
<1>10. ASSUME NEW b \in Browsers, NEW rect \in PopupRects, OnPopupSize(b, rect)
      PROVE  Inv'
  <2> DEFINE rc == LogicalToDeviceRect(rect)
  <2>1. /\ rc \in IntRects /\ ClampedToView(rc) \in IntRects
        /\ ClampedToView(rc).width = rc.width /\ ClampedToView(rc).height = rc.height
    BY DeviceRectType, ClampedType
  <2>2. /\ original_popup_rect_' = rc
        /\ \/ (rc.width <= 0 \/ rc.height <= 0) /\ UNCHANGED <<popup_rc, resize_popup_>>
           \/ popup_rc' = ClampedToView(rc) /\ resize_popup_' = TRUE
        /\ UNCHANGED <<browserVars, showVars, bkgndVars, repaint_pending, paintVars, popup_shown>>
    BY <1>10 DEF OnPopupSize
  <2> HIDE DEF rc
  <2>3. SameSize' /\ popup_rc' \in IntRects /\ resize_popup_' \in BOOLEAN
    <3>1. CASE rc.width <= 0 \/ rc.height <= 0
      <4>1. rc.width \in Int /\ rc.height \in Int
        BY <2>1 DEF IntRects
      <4>2. UNCHANGED <<popup_rc, resize_popup_>> /\ ~(rc.width > 0 /\ rc.height > 0)
        BY <3>1, <4>1, <1>10 DEF OnPopupSize, rc
      <4> QED
        BY <4>2, <2>2
    <3>2. CASE ~(rc.width <= 0 \/ rc.height <= 0)
      BY <3>2, <2>1, <2>2
    <3> QED
      BY <3>1, <3>2
  <2> QED
    BY <2>1, <2>2, <2>3
<1>11. CASE UNCHANGED vars
  BY <1>11 DEF vars
<1> QED
  BY <1>1, <1>2, <1>3, <1>4, <1>5, <1>6, <1>7, <1>8, <1>9, <1>10, <1>11 DEF Next

(* The inductive invariant holds: the flag, the bitmap and the pop-up's two rectangles
   are in step after every call, nested paints included. *)
THEOREM OsrInvariance == Spec => []Inv
<1> QED
  BY InitInv, StepInv, PTL DEF Spec

(* Every variable keeps its type through nested paints: the bitmap holds a whole
   picture, and the rectangles of the pop-up stay rectangles of whole pixels
   after scaling and clamping (OnPopupSize). *)
THEOREM TypeCorrect == Spec => []TypeOK
<1>1. Inv => TypeOK
  BY DEF Inv
<1> QED
  BY <1>1, OsrInvariance, PTL

(* draw_popup_ and the bitmap agree, however paints nest. *)
THEOREM FlagIsRight == Spec => []FlagMatchesBitmap
<1>1. Inv => FlagMatchesBitmap
  BY DEF Inv
<1> QED
  BY <1>1, OsrInvariance, PTL

(* After Close no late paint brings the bitmap back. *)
THEOREM NoLateBitmap == Spec => []NoBitmapWhenDetached
<1>1. Inv => NoBitmapWhenDetached
  BY DEF Inv
<1> QED
  BY <1>1, OsrInvariance, PTL

(* Mouse positions over the popup stay inside what CEF takes for the popup,
   for every rectangle, scale and size of the view. *)
THEOREM PopupPointsCorrect ==
  ASSUME \A pt \in MousePoints : pt.x \in Int /\ pt.y \in Int
  PROVE  Spec => []PopupPointsStayInPopup
<1>1. ASSUME Inv, resize_popup_, original_popup_rect_.width > 0, original_popup_rect_.height > 0,
             NEW pt \in MousePoints, IsInside(pt.x, pt.y, popup_rc)
      PROVE  IsInside(ApplyPopupOffset(pt).x, ApplyPopupOffset(pt).y, original_popup_rect_)
  <2>1. popup_rc \in IntRects /\ original_popup_rect_ \in IntRects /\ pt.x \in Int /\ pt.y \in Int
    BY <1>1 DEF Inv, TypeOK
  <2>2. /\ popup_rc.width = original_popup_rect_.width
        /\ popup_rc.height = original_popup_rect_.height
    BY <1>1 DEF Inv, SameSize
  <2>3. /\ ApplyPopupOffset(pt).x = pt.x + (original_popup_rect_.x - popup_rc.x)
        /\ ApplyPopupOffset(pt).y = pt.y + (original_popup_rect_.y - popup_rc.y)
    BY <1>1 DEF ApplyPopupOffset, PopupOffset
  <2> QED
    BY <1>1, <2>1, <2>2, <2>3 DEF IsInside, IntRects
<1>2. Inv => PopupPointsStayInPopup
  BY <1>1 DEF PopupPointsStayInPopup
<1> QED
  BY <1>2, OsrInvariance, PTL

LEMMA ClampedInView ==
  ASSUME TypeOK, NEW r \in IntRects, r.width <= client_size.width, r.height <= client_size.height
  PROVE  InView(ClampedToView(r))
<1>1. client_size.width \in Int /\ client_size.height \in Int
  BY SizesAssumption DEF TypeOK, NoSize
<1> DEFINE x == AtLeastZero(AtMost(AtLeastZero(r.x), client_size.width - r.width))
           y == AtLeastZero(AtMost(0, client_size.height - r.height))
<1>2. /\ 0 <= x /\ x <= client_size.width - r.width /\ x \in Int
      /\ 0 <= y /\ y <= client_size.height - r.height /\ y \in Int
  BY <1>1 DEF AtLeastZero, AtMost, IntRects
<1>3. ClampedToView(r) = [r EXCEPT !.x = x, !.y = y]
  BY DEF ClampedToView
<1> HIDE DEF x, y
<1>4. /\ ClampedToView(r).x = x /\ ClampedToView(r).y = y
      /\ ClampedToView(r).width = r.width /\ ClampedToView(r).height = r.height
  BY <1>3 DEF IntRects
<1>5. x + r.width <= client_size.width /\ y + r.height <= client_size.height
  BY <1>1, <1>2 DEF IntRects
<1> QED
  BY <1>2, <1>4, <1>5 DEF InView

(* The six comparisons of OnPopupSize keep any pop-up no larger than the view
   inside it, for any scale, view and rectangle CEF asks for. *)
THEOREM PopupIsInView == Spec => PopupPlacedInView
<1> DEFINE A == popup_rc' # popup_rc /\ popup_rc'.width <= client_size.width
                  /\ popup_rc'.height <= client_size.height => InView(popup_rc')
<1>1. ASSUME Inv, [Next]_vars PROVE A \/ UNCHANGED vars
  <2>1. CASE popup_rc' = popup_rc
    BY <2>1
  <2>2. ASSUME NEW b \in Browsers, NEW rect \in PopupRects, OnPopupSize(b, rect) PROVE A
    <3> DEFINE rc == LogicalToDeviceRect(rect)
    <3>1. rc \in IntRects
      BY DeviceRectType
    <3>2. popup_rc' = popup_rc \/ popup_rc' = ClampedToView(rc)
      BY <2>2 DEF OnPopupSize
    <3> HIDE DEF rc
    <3> QED
      BY <1>1, <3>1, <3>2, ClampedType, ClampedInView DEF Inv
  <2>3. ASSUME Next, ~\E b \in Browsers, rect \in PopupRects : OnPopupSize(b, rect) PROVE popup_rc' = popup_rc
    BY <2>3 DEF Next, OnShowWindow, OnSize, OnPaintWindow, Open, OpenDevTools, Close,
       OnAfterCreated, OnBeforeClose, OnPaint, OnPopupShow, popupVars
  <2> QED
    BY <1>1, <2>1, <2>2, <2>3
<1>2. Inv /\ [Next]_vars => [A]_vars
  BY <1>1
<1> QED
  BY <1>2, OsrInvariance, PTL DEF Spec, PopupPlacedInView

-----------------------------------------------------------------------------
(* Nothing is lost on the way to the screen.                                *)

(* A visible attached view that has stored a browser which paints into it, with
   no pop-up up, whose window will repaint when its background is out of date. *)
Waiting ==
  /\ m_posr /\ visible /\ m_refBrowser \in Windowless /\ popup_shown = {}
  /\ m_bBkgndDirty => repaint_pending

(* While what such a view shows is not the page, or the remains of a pop-up, a
   paint of the stored browser's or a repaint of the window is to come. *)
RepaintIsOwed ==
  Waiting /\ (~screen.view \/ screen.popup # {}) => m_refBrowser \in view_invalid \/ repaint_pending

(* Before the first show the view is not visible; and a bitmap without a picture
   has one to come. *)
OwedInv ==
  /\ RepaintIsOwed
  /\ visible => ~first_show_
  /\ m_posr /\ m_refBrowser \in Windowless /\ m_pBitmapBuff = "none" => m_refBrowser \in view_invalid

(* A paint always leaves a picture. *)
LEMMA OnPaintLeaves ==
  ASSUME NEW p, p \in PaintRecords, NEW b, NEW type \in {"view", "popup"}, NEW resize, NEW internal, NEW dirty,
         NEW q \in OnPaintResults(p, b, type, resize, internal, dirty)
  PROVE  q \in PaintRecords /\ q.buff # "none"
<1>1. ASSUME NEW r, r \in PaintRecords
      PROVE  Drawn(r, internal, dirty) \in PaintRecords /\ Drawn(r, internal, dirty).buff = r.buff
  BY <1>1 DEF Drawn, PaintRecords, Screens
<1>2. ASSUME NEW r, r \in PaintRecords, NEW t \in {"view", "popup"}
      PROVE  Copied(r, b, t) \in PaintRecords /\ Copied(r, b, t).buff = t
  BY <1>2 DEF Copied, PaintRecords
<1>3. \/ q = Drawn(Copied(p, b, type), internal, dirty)
      \/ q = Drawn(Copied(Copied(p, b, type), b, "popup"), internal, dirty)
  BY DEF OnPaintResults
<1> QED BY <1>1, <1>2, <1>3

(* The view's pixels, when no pop-up follows them, are drawn unless Draw drops
   them, and are in the bitmap in any case. *)
LEMMA ViewPainted ==
  ASSUME NEW p, p \in PaintRecords, NEW b
  PROVE  /\ Drawn(Copied(p, b, "view"), FALSE, FALSE).screen = [view |-> TRUE, popup |-> {}]
         /\ Drawn(Copied(p, b, "view"), FALSE, TRUE).screen = p.screen
         /\ Drawn(Copied(p, b, "view"), TRUE, FALSE).screen = p.screen
         /\ \A internal, dirty \in BOOLEAN : Drawn(Copied(p, b, "view"), internal, dirty).buff = "view"
<1> DEFINE r == Copied(p, b, "view")
<1>1. r \in PaintRecords /\ r.buff = "view" /\ r.draw_popup = FALSE /\ r.screen = p.screen
  BY DEF Copied, PaintRecords
<1> HIDE DEF r
<1>2. Drawn(r, FALSE, TRUE) = r /\ Drawn(r, TRUE, FALSE) = r
  BY DEF Drawn
<1>3. Drawn(r, FALSE, FALSE) = [r EXCEPT !.screen = [view |-> TRUE, popup |-> {}]]
  BY <1>1 DEF Drawn
<1>4. Drawn(r, FALSE, FALSE).screen = [view |-> TRUE, popup |-> {}]
  BY <1>1, <1>3 DEF PaintRecords
<1>5. ASSUME NEW internal \in BOOLEAN, NEW dirty \in BOOLEAN PROVE Drawn(r, internal, dirty).buff = "view"
  BY <1>1 DEF Drawn, PaintRecords
<1> QED BY <1>1, <1>2, <1>4, <1>5 DEF r

LEMMA CurrentIsRecord ==
  ASSUME TypeOK
  PROVE  /\ Current \in PaintRecords
         /\ Current.buff = m_pBitmapBuff /\ Current.screen = screen /\ Current.invalid = view_invalid
  BY DEF TypeOK, Current, PaintRecords

(* Drawing the view on a screen just cleared shows the view and nothing else. *)
LEMMA ViewDrawn ==
  ASSUME NEW p, p \in PaintRecords, p.screen = BlankScreen, BecomesCurrent([p EXCEPT !.screen.view = TRUE])
  PROVE  screen'.view /\ screen'.popup = {} /\ m_pBitmapBuff' = p.buff
<1>1. screen' = [BlankScreen EXCEPT !.view = TRUE] /\ m_pBitmapBuff' = p.buff
  BY DEF BecomesCurrent, PaintRecords
<1>2. [BlankScreen EXCEPT !.view = TRUE].view = TRUE /\ [BlankScreen EXCEPT !.view = TRUE].popup = {}
  BY DEF BlankScreen
<1> QED BY <1>1, <1>2

(* The window paints from scratch: the page is drawn inside the call, or will
   be asked for. *)
LEMMA WindowOwed == ASSUME TypeOK, OwedInv, OnPaintWindow PROVE OwedInv'
<1> DEFINE blank == [Current EXCEPT !.screen = BlankScreen]
           shown(p) == IF p.buff = "none" \/ (~first_show_ /\ ~HasHost) THEN p
                       ELSE IF p.buff = "view" THEN [p EXCEPT !.screen.view = TRUE]
                       ELSE [p EXCEPT !.screen.popup = {"at_view_corner"}]
<1>1. PICK p \in InvalidateResults(blank, resize_popup_, TRUE, FALSE) : BecomesCurrent(shown(p))
  BY DEF OnPaintWindow
<1>2. /\ blank \in PaintRecords /\ blank.buff = m_pBitmapBuff
      /\ blank.screen = BlankScreen /\ blank.invalid = view_invalid
  BY CurrentIsRecord DEF PaintRecords, BlankScreen, Screens
<1>3. /\ m_bBkgndDirty' = FALSE /\ repaint_pending' = FALSE
      /\ UNCHANGED <<m_posr, m_refBrowser, first_show_, visible, popup_shown>>
  BY DEF OnPaintWindow, browserVars, showVars, popupVars
<1>4. ASSUME p \in PaintRecords
      PROVE  m_pBitmapBuff' = p.buff /\ view_invalid' = p.invalid
  BY <1>1, <1>4 DEF BecomesCurrent, PaintRecords
<1> HIDE DEF blank
<1>5. CASE p = [blank EXCEPT !.invalid = @ \cup Hears]
  <2>1. p \in PaintRecords /\ p.buff = m_pBitmapBuff /\ p.invalid = view_invalid \cup Hears
    BY <1>5, <1>2 DEF PaintRecords, Hears
  <2>2. m_pBitmapBuff' = m_pBitmapBuff /\ view_invalid' = view_invalid \cup Hears
    BY <1>4, <2>1
  <2>3. visible /\ m_refBrowser \in Windowless => m_refBrowser \in Hears
    BY BrowsersAssumption DEF OwedInv, Hears, HasHost
  <2> QED
    BY <1>3, <2>2, <2>3 DEF OwedInv, RepaintIsOwed, Waiting
<1>6. ASSUME NEW b \in Hears, p \in OnPaintResults(blank, b, "view", resize_popup_, TRUE, FALSE)
      PROVE  OwedInv'
  <2>1. p \in PaintRecords /\ p.buff # "none"
    BY <1>2, <1>6, OnPaintLeaves
  <2>2. ASSUME popup_shown = {} PROVE screen'.view /\ screen'.popup = {}
    <3>1. p = Drawn(Copied(blank, b, "view"), TRUE, FALSE)
      BY <1>6, <2>2 DEF OnPaintResults
    <3>2. p.buff = "view" /\ p.screen = BlankScreen
      BY <1>2, <3>1, ViewPainted
    <3>3. HasHost
      BY <1>6 DEF Hears
    <3>4. BecomesCurrent([p EXCEPT !.screen.view = TRUE])
      BY <1>1, <3>2, <3>3
    <3> QED
      BY <2>1, <3>2, <3>4, ViewDrawn
  <2> QED
    BY <1>3, <1>4, <2>1, <2>2 DEF OwedInv, RepaintIsOwed, Waiting
<1> QED BY <1>1, <1>5, <1>6, InvalidateCases

(* So do the paints CEF makes on its own or inside Invalidate, if it is the
   view that is painted and no pop-up is up: the page is drawn, or the
   background was out of date and nothing was. *)
LEMMA ViewResult ==
  ASSUME TypeOK, popup_shown = {}, NEW b, NEW resize,
         NEW q \in OnPaintResults(Current, b, "view", resize, FALSE, m_bBkgndDirty)
  PROVE  /\ ~m_bBkgndDirty => q.screen = [view |-> TRUE, popup |-> {}]
         /\ m_bBkgndDirty => q.screen = screen
<1>1. q = Drawn(Copied(Current, b, "view"), FALSE, m_bBkgndDirty)
  BY DEF OnPaintResults
<1>2. m_bBkgndDirty \in BOOLEAN
  BY DEF TypeOK
<1>3. CASE m_bBkgndDirty = TRUE
  BY <1>1, <1>3, ViewPainted, CurrentIsRecord
<1>4. CASE m_bBkgndDirty = FALSE
  BY <1>1, <1>4, ViewPainted, CurrentIsRecord
<1> QED BY <1>2, <1>3, <1>4

LEMMA StepOwed == ASSUME TypeOK, OwedInv, [Next]_vars PROVE OwedInv'
<1> USE BrowsersAssumption DEF OwedInv, RepaintIsOwed, Waiting, browserVars, showVars, bkgndVars,
        popupVars, paintVars
<1>1. ASSUME NEW bShow \in BOOLEAN, NEW visible_now \in BOOLEAN, OnShowWindow(bShow, visible_now)
      PROVE  OwedInv'
  BY <1>1 DEF OnShowWindow, TypeOK
<1>2. ASSUME NEW b \in Browsers, Open(b) \/ OpenDevTools(b) PROVE OwedInv'
  BY <1>2 DEF Open, OpenDevTools
<1>3. CASE Close
  BY <1>3 DEF Close
<1>4. ASSUME NEW b \in Browsers, OnAfterCreated(b) \/ OnBeforeClose(b) PROVE OwedInv'
  BY <1>4 DEF OnAfterCreated, OnBeforeClose
<1>5. ASSUME NEW size \in ViewSizes, OnSize(size) PROVE OwedInv'
  BY <1>5 DEF OnSize
<1>6. CASE OnPaintWindow
  BY <1>6, WindowOwed
<1>7. ASSUME NEW b \in Browsers, NEW type \in {"view", "popup"}, OnPaint(b, type) PROVE OwedInv'
  <2>1. /\ type = "popup" => b \in popup_shown
        /\ UNCHANGED <<m_posr, m_refBrowser, first_show_, visible, m_bBkgndDirty, repaint_pending, popup_shown>>
    BY <1>7 DEF OnPaint
  <2>2. CASE m_posr
    <3>1. PICK q \in OnPaintResults(Current, b, type, resize_popup_, FALSE, m_bBkgndDirty) : BecomesCurrent(q)
      BY <1>7, <2>2 DEF OnPaint
    <3>2. q.buff # "none"
      BY <3>1, OnPaintLeaves, CurrentIsRecord
    <3>3. m_pBitmapBuff' = q.buff /\ screen' = q.screen
      BY <3>1 DEF BecomesCurrent
    <3>4. CASE popup_shown # {}
      BY <2>1, <3>2, <3>3, <3>4
    <3>5. CASE popup_shown = {}
      <4>1. type = "view"
        BY <2>1, <3>5
      <4>2. /\ ~m_bBkgndDirty => screen' = [view |-> TRUE, popup |-> {}]
            /\ m_bBkgndDirty => screen' = screen
        BY <3>1, <3>3, <3>5, <4>1, ViewResult
      <4> QED
        BY <2>1, <3>2, <3>3, <4>2
    <3> QED BY <3>4, <3>5
  <2>3. CASE ~m_posr
    BY <2>1, <2>3
  <2> QED BY <2>2, <2>3
<1>8. ASSUME NEW b \in Browsers, NEW show \in BOOLEAN, OnPopupShow(b, show) PROVE OwedInv'
  <2>1. /\ ~first_show_ /\ popup_shown' = IF show THEN popup_shown \cup {b} ELSE popup_shown \ {b}
        /\ b \in Windowless
        /\ UNCHANGED <<m_posr, m_refBrowser, first_show_, visible, m_bBkgndDirty, repaint_pending>>
    BY <1>8 DEF OnPopupShow, PopupTurns
  <2>2. CASE m_posr /\ ~show
    <3>1. PICK q \in InvalidateResults(Current, FALSE, FALSE, m_bBkgndDirty) : BecomesCurrent(q)
      BY <1>8, <2>2 DEF OnPopupShow
    <3>2. m_pBitmapBuff' = q.buff /\ screen' = q.screen /\ view_invalid' = q.invalid
      BY <3>1 DEF BecomesCurrent
    <3>3. CASE q = [Current EXCEPT !.invalid = @ \cup Hears]
      <4>1. q.buff = m_pBitmapBuff /\ q.invalid = view_invalid \cup Hears
        BY <3>3 DEF Current
      <4>2. m_refBrowser \in Windowless => m_refBrowser \in Hears
        BY <2>1 DEF Hears, HasHost
      <4> QED BY <2>1, <3>2, <4>1, <4>2
    <3>4. ASSUME NEW c \in Hears, q \in OnPaintResults(Current, c, "view", FALSE, FALSE, m_bBkgndDirty)
          PROVE  OwedInv'
      <4>1. q.buff # "none"
        BY <3>4, OnPaintLeaves, CurrentIsRecord
      <4>2. q = Drawn(Copied(Current, c, "view"), FALSE, m_bBkgndDirty)
        BY <3>4 DEF OnPaintResults
      <4>3. ~m_bBkgndDirty => q.screen = [view |-> TRUE, popup |-> {}]
        BY <4>2, ViewPainted, CurrentIsRecord DEF TypeOK
      <4> QED BY <2>1, <3>2, <4>1, <4>3
    <3> QED BY <3>1, <3>3, <3>4, InvalidateCases
  <2>3. CASE ~(m_posr /\ ~show)
    <3>1. UNCHANGED paintVars
      BY <1>8, <2>3 DEF OnPopupShow
    <3> QED BY <2>1, <2>3, <3>1
  <2> QED BY <2>2, <2>3
<1>10. ASSUME NEW b \in Browsers, NEW rect \in PopupRects, OnPopupSize(b, rect) PROVE OwedInv'
  BY <1>10 DEF OnPopupSize
<1>9. CASE UNCHANGED vars
  BY <1>9 DEF vars
<1> QED
  BY <1>1, <1>2, <1>3, <1>4, <1>5, <1>6, <1>7, <1>8, <1>9, <1>10 DEF Next

(* A paint that Draw dropped, because the background was out of date or the
   window was painting itself or the bitmap held a pop-up, or that CEF put off
   because the view was hidden, is always followed by another paint or repaint
   that is already asked for: the safety half of HiddenPopupDisappears and
   ViewReachesScreen, for any sizes, pop-ups and browsers. *)
THEOREM NoPaintIsLost == Spec => []RepaintIsOwed
<1>1. Init => OwedInv
  BY BrowsersAssumption DEF Init, OwedInv, RepaintIsOwed, Waiting, BlankScreen
<1>2. TypeOK /\ OwedInv /\ [Next]_vars => OwedInv'
  BY StepOwed
<1>3. OwedInv => RepaintIsOwed
  BY DEF OwedInv
<1> QED
  BY <1>1, <1>2, <1>3, TypeCorrect, PTL DEF Spec

-----------------------------------------------------------------------------
(* Where a pop-up that fits is put: at the top of the view whatever y CEF asks
   for, and at the x it asks for if that fits. *)
PutAtTop ==
  popup_rc' # popup_rc /\ popup_rc'.width <= client_size.width /\ popup_rc'.height <= client_size.height =>
    /\ popup_rc'.y = 0
    /\ 0 <= original_popup_rect_'.x /\ original_popup_rect_'.x + popup_rc'.width <= client_size.width =>
         popup_rc'.x = original_popup_rect_'.x

LEMMA ClampedAtTop ==
  ASSUME TypeOK, NEW r \in IntRects, r.height <= client_size.height
  PROVE  /\ ClampedToView(r).y = 0
         /\ 0 <= r.x /\ r.x + r.width <= client_size.width => ClampedToView(r).x = r.x
<1>1. client_size.width \in Int /\ client_size.height \in Int
  BY SizesAssumption DEF TypeOK, NoSize
<1> DEFINE x == AtLeastZero(AtMost(AtLeastZero(r.x), client_size.width - r.width))
           y == AtLeastZero(AtMost(0, client_size.height - r.height))
<1>2. y = 0
  BY <1>1 DEF AtLeastZero, AtMost, IntRects
<1>3. 0 <= r.x /\ r.x + r.width <= client_size.width => x = r.x
  BY <1>1 DEF AtLeastZero, AtMost, IntRects
<1>4. ClampedToView(r) = [r EXCEPT !.x = x, !.y = y]
  BY DEF ClampedToView
<1> HIDE DEF x, y
<1> QED
  BY <1>2, <1>3, <1>4 DEF IntRects

(* How far the finding of PopupPlacedWhereAsked reaches: every pop-up that fits
   is put at the top of the view, and only its y is wrong. *)
THEOREM PopupIsAtTop == Spec => [][PutAtTop]_vars
<1>1. ASSUME Inv, [Next]_vars PROVE PutAtTop \/ UNCHANGED vars
  <2>1. CASE popup_rc' = popup_rc
    BY <2>1 DEF PutAtTop
  <2>2. ASSUME NEW b \in Browsers, NEW rect \in PopupRects, OnPopupSize(b, rect) PROVE PutAtTop
    <3> DEFINE rc == LogicalToDeviceRect(rect)
    <3>1. rc \in IntRects
      BY DeviceRectType
    <3>2. original_popup_rect_' = rc /\ (popup_rc' = popup_rc \/ popup_rc' = ClampedToView(rc))
      BY <2>2 DEF OnPopupSize
    <3> HIDE DEF rc
    <3> QED
      BY <1>1, <3>1, <3>2, ClampedType, ClampedAtTop DEF Inv, PutAtTop
  <2>3. ASSUME Next, ~\E b \in Browsers, rect \in PopupRects : OnPopupSize(b, rect) PROVE popup_rc' = popup_rc
    BY <2>3 DEF Next, OnShowWindow, OnSize, OnPaintWindow, Open, OpenDevTools, Close,
       OnAfterCreated, OnBeforeClose, OnPaint, OnPopupShow, popupVars
  <2> QED
    BY <1>1, <2>1, <2>2, <2>3
<1>2. Inv /\ [Next]_vars => [PutAtTop]_vars
  BY <1>1
<1> QED
  BY <1>2, OsrInvariance, PTL DEF Spec
=============================================================================
