-------------------------- MODULE WindowSync_proofs --------------------------
(***************************************************************************)
(* Theorems about WindowSync, for any sizes and any scale of Windows'.     *)
(***************************************************************************)
EXTENDS WindowSync, TLAPS

USE DEF PassedOn

LEMMA DivisionFacts ==
  ASSUME NEW a \in Int, NEW d \in Nat \ {0}
  PROVE  /\ a \div d \in Int
         /\ (a \div d) * d <= a
         /\ a < (a \div d) * d + d
         /\ a >= 0 => a \div d \in Nat
<1>1. a \div d \in Int /\ a % d \in 0..(d - 1) /\ a = d * (a \div d) + (a % d)
  BY Z3
<1> QED
  BY <1>1, Z3

(* Division keeps the order of what is divided. *)
LEMMA DivisionMonotone ==
  ASSUME NEW a \in Int, NEW b \in Int, a <= b, NEW d \in Nat \ {0}
  PROVE  a \div d <= b \div d
<1> DEFINE p == a \div d
           q == b \div d
<1>1. p \in Int /\ q \in Int /\ p * d <= a /\ b < q * d + d
  BY DivisionFacts
<1> HIDE DEF p, q
<1>2. p * d < (q + 1) * d
  BY <1>1
<1>3. CASE p >= q + 1
  <2>1. PICK k \in Nat : p = q + 1 + k
    BY <1>1, <1>3
  <2>2. p * d = (q + 1) * d + k * d /\ k * d \in Nat
    BY <1>1, <2>1
  <2> QED BY <1>1, <1>2, <2>2
<1>4. CASE p <= q
  BY <1>4 DEF p, q
<1> QED BY <1>1, <1>3, <1>4

(* The conversions keep the order of positions, negative ones included: a point
   left of or above another one never ends up on its other side, and what is in
   a view is at most at the edge of it afterwards (geometry_util.cc). *)
THEOREM ConversionsKeepOrder ==
  ASSUME NEW a \in Int, NEW b \in Int, a <= b
  PROVE  LogicalToDevice(a) <= LogicalToDevice(b) /\ DeviceToLogical(a) <= DeviceToLogical(b)
<1>1. a * Dpi \in Int /\ b * Dpi \in Int /\ a * Dpi <= b * Dpi
  <2>1. PICK k \in Nat : b = a + k
    <3> WITNESS b - a \in Nat
    <3> QED OBVIOUS
  <2>2. b * Dpi = a * Dpi + k * Dpi /\ k * Dpi \in Nat /\ a * Dpi \in Int
    BY <2>1, DpiAssumption
  <2> QED BY <2>2
<1>2. (a * Dpi) \div 96 <= (b * Dpi) \div 96
  BY <1>1, DivisionMonotone
<1>3. (a * 96) \div Dpi <= (b * 96) \div Dpi
  BY DivisionMonotone, DpiAssumption
<1> QED
  BY <1>2, <1>3 DEF LogicalToDevice, DeviceToLogical

(* A logical position that is drawn in device pixels and pointed at again is
   found where it was or one logical pixel before it, at every scale and also
   left of and above the view: what CEF asks for (OnPopupSize) and what the mouse
   says of it (SendMouseEvent) stay together. *)
THEOREM PointerStaysOnPixel ==
  ASSUME NEW n \in Int
  PROVE  DeviceToLogical(LogicalToDevice(n)) \in {n - 1, n}
<1> DEFINE m == (n * Dpi) \div 96
           q == (m * 96) \div Dpi
           k == n * Dpi
           l == q * Dpi
<1>1. Dpi \in Nat /\ Dpi >= 96 /\ k \in Int
  BY DpiAssumption
<1>2. m \in Int /\ m * 96 <= k /\ k < m * 96 + 96
  BY <1>1, DivisionFacts
<1>3. q \in Int /\ l \in Int /\ l <= m * 96 /\ m * 96 < l + Dpi
  BY <1>1, <1>2, DivisionFacts
<1>4. l <= k /\ k < l + 2 * Dpi
  <2> HIDE DEF m, k, l, q
  <2> QED BY <1>1, <1>2, <1>3
<1>5. q <= n
  <2>1. CASE q > n
    <3>1. q = n + 1 + (q - n - 1) /\ q - n - 1 \in Nat
      BY <1>3, <2>1
    <3>2. q * Dpi = n * Dpi + Dpi + (q - n - 1) * Dpi /\ (q - n - 1) * Dpi \in Nat
      BY <1>1, <1>3, <3>1
    <3> QED BY <1>1, <1>4, <3>2
  <2> QED BY <1>3, <2>1
<1>6. n <= q + 1
  <2>1. CASE n > q + 1
    <3>1. n - q - 2 \in Nat
      BY <1>3, <2>1
    <3>2. n * Dpi = q * Dpi + 2 * Dpi + (n - q - 2) * Dpi /\ (n - q - 2) * Dpi \in Nat
      BY <1>1, <1>3, <3>1
    <3> QED BY <1>1, <1>3, <1>4, <3>2
  <2> QED BY <1>3, <2>1
<1> HIDE DEF q
<1>7. q \in {n - 1, n}
  BY <1>3, <1>5, <1>6
<1> QED BY <1>7 DEF q, LogicalToDevice, DeviceToLogical

(* A length rounded to logical pixels and back is no longer than it was, and
   shorter by less than a logical pixel and a device pixel. *)
LEMMA RoundTrip ==
  ASSUME NEW n \in Nat
  PROVE  LET m == LogicalToDevice(DeviceToLogical(n))
         IN m \in Nat /\ m <= n /\ 96 * (n - m) < Dpi + 96
<1> DEFINE q == (n * 96) \div Dpi
           m == (q * Dpi) \div 96
<1>1. q \in Nat /\ q * Dpi <= n * 96 /\ n * 96 < q * Dpi + Dpi
  BY DivisionFacts, DpiAssumption
<1>2. q * Dpi \in Nat
  BY <1>1, DpiAssumption
<1> DEFINE k == q * Dpi
<1>3. m \in Nat /\ m * 96 <= k /\ k < m * 96 + 96
  BY <1>2, DivisionFacts
<1>4. k \in Nat /\ k <= n * 96 /\ n * 96 < k + Dpi
  BY <1>1, <1>2
<1> HIDE DEF q, m, k
<1>5. m <= n /\ 96 * (n - m) < Dpi + 96
  BY <1>3, <1>4, DpiAssumption
<1> QED
  BY <1>3, <1>5 DEF m, q, LogicalToDevice, DeviceToLogical

LEMMA RoundTripFills ==
  ASSUME NEW s \in [width : Nat, height : Nat]
  PROVE  Fills(ToDevice(ToLogical(s)), s)
<1>1. s.width \in Nat /\ s.height \in Nat
  OBVIOUS
<1> QED
  BY <1>1, RoundTrip DEF Fills, ToDevice, ToLogical

LEMMA ExactFills ==
  ASSUME NEW s \in [width : Nat, height : Nat]
  PROVE  Fills(s, s)
  BY DpiAssumption DEF Fills

-----------------------------------------------------------------------------
(* The inductive invariant.                                                 *)

(* CEF is only told of a focus through a browser, and only once the view was
   visible; so what it was told is taken back the same way. *)
ToldThroughHost == (focus => HasHost) /\ (visible => ~first_show_)

(* The stored browser lays out for the widget's size, or for one that paints
   exactly that size: OnSize was then right to keep quiet. *)
LayoutFits ==
  m_posr /\ m_refBrowser \in Windowless \ resize_asked /\ ~overtaken
    => \/ view_size[m_refBrowser] = ToLogical(client_size)
       \/ ToDevice(view_size[m_refBrowser]) = client_size

(* Without a paint due the bitmap is what the browser that painted it lays out
   for; nobody painted it while the widget was detached. *)
BitmapIsPainted ==
  /\ m_refBrowser \in Windowless \ paint_due /\ painter = m_refBrowser
       => m_pBitmapBuff = ToDevice(view_size[m_refBrowser])
  /\ ~m_posr => painter = NULL

Inv ==
  /\ TypeOK
  /\ ToldThroughHost /\ VisibleIsNotHidden /\ FocusIsReal
  /\ LayoutFits /\ BitmapIsPainted

LEMMA NoBrowserIsNULL == NULL \notin Browsers /\ NULL \notin Windowless
  BY BrowsersAssumption

LEMMA InitInv == Init => Inv
<1> SUFFICES ASSUME Init PROVE Inv
  OBVIOUS
<1>1. ToLogical(EmptySize) \in LogicalSizes
  BY SizesAssumption DEF LogicalSizes
<1> QED
  BY <1>1, SizesAssumption, NoBrowserIsNULL
  DEF Init, Inv, TypeOK, ToldThroughHost, VisibleIsNotHidden, FocusIsReal, LayoutFits,
      BitmapIsPainted, HasHost

LEMMA StepType == TypeOK /\ [Next]_vars => TypeOK'
<1> SUFFICES ASSUME TypeOK, [Next]_vars PROVE TypeOK'
  OBVIOUS
<1> USE DEF TypeOK
<1>0. /\ ToLogical(client_size) \in LogicalSizes /\ ToLogical(EmptySize) \in LogicalSizes
      /\ Windowless \subseteq Browsers
  BY SizesAssumption, BrowsersAssumption DEF LogicalSizes
<1>1. ASSUME NEW bShow \in BOOLEAN, NEW visible_now \in BOOLEAN, OnShowWindow(bShow, visible_now)
      PROVE  TypeOK'
  BY <1>1 DEF OnShowWindow, HasHost, sizeVars, browserVars
<1>2. CASE OnSetFocus \/ OnKillFocus
  BY <1>2 DEF OnSetFocus, OnKillFocus, browserVars, sizeVars, HasHost
<1>3. ASSUME NEW size \in Sizes, OnSize(size)
      PROVE  TypeOK'
  BY <1>3 DEF OnSize, Resize, LeftBehind, browserVars, widgetVars, toldVars, HasHost
<1>4. CASE OnPaintWindow \/ Close
  BY <1>4 DEF OnPaintWindow, Close, browserVars, widgetVars, toldVars, HasHost
<1>5. ASSUME NEW b \in Browsers, Open(b) \/ OpenDevTools(b)
      PROVE  TypeOK'
  BY <1>5 DEF Open, OpenDevTools, widgetVars, toldVars, sizeVars
<1>6. ASSUME NEW b \in Browsers, OnAfterCreated(b)
      PROVE  TypeOK'
  <2>1. view_size' \in [Windowless -> LogicalSizes]
    BY <1>0, <1>6 DEF OnAfterCreated
  <2>2. paint_due' \subseteq live' \cap Windowless
    BY <1>6 DEF OnAfterCreated
  <2> QED
    BY <1>6, <2>1, <2>2 DEF OnAfterCreated, widgetVars
<1>7. ASSUME NEW b \in Browsers, OnBeforeClose(b)
      PROVE  TypeOK'
  <2>1. view_size' \in [Windowless -> LogicalSizes]
    BY <1>0, <1>7 DEF OnBeforeClose
  <2> QED
    BY <1>7, <2>1 DEF OnBeforeClose, widgetVars
<1>8. ASSUME NEW b \in Browsers, GetViewRect(b)
      PROVE  TypeOK'
  <2>1. view_size' \in [Windowless -> LogicalSizes]
    BY <1>0, <1>8 DEF GetViewRect
  <2> QED
    BY <1>8, <2>1 DEF GetViewRect, browserVars, widgetVars, toldVars
<1>9. ASSUME NEW b \in Browsers, OnPaint(b)
      PROVE  TypeOK'
  <2>1. b \in Windowless /\ ToDevice(view_size[b]) \in {ToDevice(s) : s \in LogicalSizes}
    BY <1>9 DEF OnPaint
  <2> QED
    BY <1>9, <2>1 DEF OnPaint, browserVars, widgetVars, toldVars
<1>10. CASE UNCHANGED vars
  BY <1>10 DEF vars
<1> QED
  BY <1>1, <1>2, <1>3, <1>4, <1>5, <1>6, <1>7, <1>8, <1>9, <1>10 DEF Next

(* What the stored browser was told of visibility and focus. *)
LEMMA StepTold ==
  ASSUME Inv, [Next]_vars
  PROVE  ToldThroughHost' /\ VisibleIsNotHidden' /\ FocusIsReal'
<1> USE NoBrowserIsNULL DEF Inv, TypeOK, ToldThroughHost, VisibleIsNotHidden, FocusIsReal, HasHost
<1>1. ASSUME NEW bShow \in BOOLEAN, NEW visible_now \in BOOLEAN, OnShowWindow(bShow, visible_now)
      PROVE  ToldThroughHost' /\ VisibleIsNotHidden' /\ FocusIsReal'
  BY <1>1 DEF OnShowWindow, browserVars
<1>2. CASE OnSetFocus \/ OnKillFocus
  BY <1>2 DEF OnSetFocus, OnKillFocus, browserVars
<1>3. ASSUME UNCHANGED <<widgetVars, toldVars, m_refBrowser>>
      PROVE  ToldThroughHost' /\ VisibleIsNotHidden' /\ FocusIsReal'
  BY <1>3 DEF widgetVars, toldVars
<1>4. ASSUME NEW b \in Browsers, OnAfterCreated(b)
      PROVE  ToldThroughHost' /\ VisibleIsNotHidden' /\ FocusIsReal'
  BY <1>4 DEF OnAfterCreated, widgetVars
<1>5. ASSUME NEW b \in Browsers, OnBeforeClose(b)
      PROVE  ToldThroughHost' /\ VisibleIsNotHidden' /\ FocusIsReal'
  BY <1>5 DEF OnBeforeClose, widgetVars
<1>6. ASSUME \/ \E size \in Sizes : OnSize(size)
             \/ OnPaintWindow \/ Close \/ UNCHANGED vars
             \/ \E b \in Browsers : Open(b) \/ OpenDevTools(b) \/ GetViewRect(b) \/ OnPaint(b)
      PROVE  UNCHANGED <<widgetVars, toldVars, m_refBrowser>>
  BY <1>6 DEF OnSize, Resize, OnPaintWindow, Open, OpenDevTools, Close, GetViewRect, OnPaint,
     browserVars, widgetVars, toldVars, vars
<1> QED
  BY <1>1, <1>2, <1>3, <1>4, <1>5, <1>6 DEF Next

(* What the stored browser lays out for and what it painted. *)
LEMMA StepSizes ==
  ASSUME Inv, [Next]_vars
  PROVE  LayoutFits' /\ BitmapIsPainted'
<1> USE NoBrowserIsNULL DEF Inv, LayoutFits, BitmapIsPainted
<1>1. ASSUME UNCHANGED <<m_posr, m_refBrowser, sizeVars>>
      PROVE  LayoutFits' /\ BitmapIsPainted'
  BY <1>1 DEF sizeVars
<1>2. ASSUME NEW size \in Sizes, OnSize(size)
      PROVE  LayoutFits' /\ BitmapIsPainted'
  <2>1. BitmapIsPainted'
    BY <1>2 DEF OnSize, Resize, browserVars
  <2>2. ASSUME m_refBrowser \in Windowless \ resize_asked', ~overtaken'
        PROVE  ToDevice(view_size[m_refBrowser]) = size
    BY <1>2, <2>2 DEF OnSize, Resize, LeftBehind
  <2>3. LayoutFits'
    BY <1>2, <2>2 DEF OnSize, Resize, browserVars
  <2> QED
    BY <2>1, <2>3
<1>3. CASE OnPaintWindow \/ Close
  BY <1>3 DEF OnPaintWindow, Close, browserVars
<1>4. ASSUME NEW b \in Browsers, Open(b)
      PROVE  LayoutFits' /\ BitmapIsPainted'
  BY <1>4 DEF Open, sizeVars
<1>5. ASSUME NEW b \in Browsers, OnAfterCreated(b)
      PROVE  LayoutFits' /\ BitmapIsPainted'
  BY <1>5 DEF OnAfterCreated, TypeOK, PassedOn
<1>6. ASSUME NEW b \in Browsers, OnBeforeClose(b)
      PROVE  LayoutFits' /\ BitmapIsPainted'
  BY <1>6 DEF OnBeforeClose, TypeOK
<1>7. ASSUME NEW b \in Browsers, GetViewRect(b)
      PROVE  LayoutFits' /\ BitmapIsPainted'
  BY <1>7 DEF GetViewRect, TypeOK, browserVars
<1>8. ASSUME NEW b \in Browsers, OnPaint(b)
      PROVE  LayoutFits' /\ BitmapIsPainted'
  <2>1. b \in Windowless /\ paint_due' = paint_due \ {b}
        /\ UNCHANGED <<m_posr, m_refBrowser, client_size, view_size, resize_asked, overtaken>>
    BY <1>8 DEF OnPaint, TypeOK, browserVars
  <2>2. CASE PassedOn
    <3>1. m_pBitmapBuff' = ToDevice(view_size[b]) /\ painter' = b
      BY <1>8, <2>2 DEF OnPaint
    <3> QED
      BY <2>1, <2>2, <3>1
  <2>3. CASE ~PassedOn
    <3>1. UNCHANGED <<m_pBitmapBuff, painter>>
      BY <1>8, <2>3 DEF OnPaint
    <3>2. LayoutFits'
      BY <2>1
    <3>3. CASE m_refBrowser = b
      <4>1. painter # b
        BY <2>3 DEF PassedOn
      <4> QED
        BY <2>1, <3>1, <3>2, <3>3, <4>1
    <3>4. CASE m_refBrowser # b
      BY <2>1, <3>1, <3>2, <3>4
    <3> QED
      BY <3>3, <3>4
  <2> QED
    BY <2>2, <2>3
<1>9. ASSUME \/ \E bShow, visible_now \in BOOLEAN : OnShowWindow(bShow, visible_now)
             \/ OnSetFocus \/ OnKillFocus \/ UNCHANGED vars
             \/ \E b \in Browsers : OpenDevTools(b)
      PROVE  UNCHANGED <<m_posr, m_refBrowser, sizeVars>>
  BY <1>9 DEF OnShowWindow, OnSetFocus, OnKillFocus, OpenDevTools, browserVars, sizeVars, vars
<1> QED
  BY <1>1, <1>2, <1>3, <1>4, <1>5, <1>6, <1>7, <1>8, <1>9 DEF Next

(* The invariant holds in every reachable state. *)
THEOREM WindowInvariance == Spec => []Inv
<1>1. Inv /\ [Next]_vars => Inv'
  BY StepType, StepTold, StepSizes DEF Inv
<1> QED
  BY <1>1, InitInv, PTL DEF Spec

(* Every size stays a size of whole pixels on its way to CEF (GetViewRect) and
   back (OnPaint), and nobody but a browser that is there is told anything. *)
THEOREM TypeCorrect == Spec => []TypeOK
<1>1. Inv => TypeOK
  BY DEF Inv
<1> QED
  BY <1>1, WindowInvariance, PTL

(* In a visible view the browser the view speaks to is not hidden in CEF,
   however many browsers arrive at the handler and replace each other: the
   WasHidden of OnShowWindow is taken back as long as there is someone to take
   it back from. *)
THEOREM NeverLeftHidden == Spec => []VisibleIsNotHidden
<1>1. Inv => VisibleIsNotHidden
  BY DEF Inv
<1> QED
  BY <1>1, WindowInvariance, PTL

(* The focus the stored browser was told of is the widget's, or one SOUI
   refused it in OnShowWindow, for any number of browsers. *)
THEOREM FocusNotInvented == Spec => []FocusIsReal
<1>1. Inv => FocusIsReal
  BY DEF Inv
<1> QED
  BY <1>1, WindowInvariance, PTL

(* Once the stored browser has asked for the size and painted, the bitmap fits
   the widget to within a logical pixel at every scale. *)
THEOREM BitmapFits == Spec => []SizeSettles
<1>1. ASSUME Inv, m_posr, m_refBrowser \in Windowless \ (resize_asked \cup paint_due),
             painter = m_refBrowser, ~overtaken
      PROVE  Fills(m_pBitmapBuff, client_size)
  <2>1. client_size \in [width : Nat, height : Nat]
    BY <1>1, SizesAssumption DEF Inv, TypeOK
  <2>2. \/ m_pBitmapBuff = ToDevice(ToLogical(client_size))
        \/ m_pBitmapBuff = client_size
    BY <1>1 DEF Inv, LayoutFits, BitmapIsPainted
  <2> QED
    BY <2>1, <2>2, RoundTripFills, ExactFills
<1>2. Inv => SizeSettles
  BY <1>1 DEF SizeSettles
<1> QED
  BY <1>2, WindowInvariance, PTL
=============================================================================
