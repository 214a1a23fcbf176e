-------------------------- MODULE MouseInput_proofs --------------------------
(***************************************************************************)
(* Proofs about MouseInput, for any buttons, positions, double-click time  *)
(* and width of the message time.                                          *)
(***************************************************************************)
EXTENDS MouseInput, TLAPS

(* No browser was told of a button. *)
NoneDown == \A b \in Browsers : cef_down[b] = {}

(* Only the stored browser was told of a button, and of this one. *)
OnlyTold(button) ==
  /\ cef_down[m_refBrowser] = {button}
  /\ \A b \in Browsers \ {m_refBrowser} : cef_down[b] = {}

(* What QuietWithoutButtons needs while a button is held: the press took the
   capture and was sent to the browser that is still stored or began a
   rotation, or found no browser at all. *)
PressUnderWay(button) ==
  /\ held = {button}
  /\ \/ HasHost /\ captured /\ mouse_rotation_ /\ NoneDown
     \/ HasHost /\ captured /\ ~mouse_rotation_ /\ OnlyTold(button)
     \/ ~captured /\ ~mouse_rotation_ /\ NoneDown

Calm ==
  undisturbed =>
    \/ held = {} /\ ~captured /\ ~mouse_rotation_ /\ NoneDown
    \/ \E button \in Buttons : PressUnderWay(button)

(* The time the view remembers is the time of the last press, or zeroed. *)
TimeKnown ==
  ~chain.wrapped =>
    \/ last_click_time_ = 0
    \/ /\ chain.elapsed # LongAgo => now - last_click_time_ = chain.elapsed
       /\ chain.elapsed = LongAgo => now - last_click_time_ > DoubleClickTime

(* What the view remembers of a plain chain is the chain. *)
ChainKnown ==
  chain.plain =>
    /\ ~chain.wrapped /\ now > DoubleClickTime
    /\ IF chain.broken THEN last_click_count_ = 0 /\ last_click_time_ = 0
       ELSE /\ last_click_count_ = chain.length
            /\ last_click_at = chain.at /\ last_click_button_ = chain.button
            /\ chain.elapsed # LongAgo => now - last_click_time_ = chain.elapsed
            /\ chain.elapsed = LongAgo => now - last_click_time_ > DoubleClickTime

Inv == TypeOK /\ Calm /\ TimeKnown /\ ChainKnown

-----------------------------------------------------------------------------

LEMMA Numbers ==
  /\ HalfRange \in Nat /\ DoubleClickTime \in Nat /\ DoubleClickTime < HalfRange
  /\ LongAgo = DoubleClickTime + 1
  /\ Times \subseteq Int /\ 0 \in Times
  /\ 0 \in 0..LongAgo /\ LongAgo \in 0..LongAgo
  BY ClicksAssumption DEF Times, LongAgo

LEMMA UnknownType ==
  ASSUME NEW elapsed \in 0..LongAgo, NEW wrapped \in BOOLEAN
  PROVE  UnknownChain(elapsed, wrapped) \in Chains
  BY ButtonsAssumption, PositionsAssumption DEF UnknownChain, Chains

(* Where the view knows the chain, the view forgets a click exactly when the
   multiple click is over. *)
LEMMA ForgetsWhenOver ==
  ASSUME Inv, NEW p \in Positions, chain.plain
  PROVE  Over(p) <=> chain.broken \/ CancelPreviousClick(p)
<1>1. /\ now \in Int /\ last_click_time_ \in Int /\ chain.elapsed \in 0..LongAgo
      /\ chain.broken \in BOOLEAN
  BY Numbers DEF Inv, TypeOK, Chains
<1>2. CASE chain.broken
  BY <1>2 DEF Over
<1>3. CASE ~chain.broken
  <2>1. last_click_at = chain.at
    BY <1>3 DEF Inv, ChainKnown
  <2>2. chain.elapsed = LongAgo <=> now - last_click_time_ > DoubleClickTime
    BY <1>1, <1>3, Numbers DEF Inv, ChainKnown
  <2> QED
    BY <1>3, <2>1, <2>2 DEF Over, CancelPreviousClick
<1> QED
  BY <1>2, <1>3

LEMMA InitInv == Init => Inv
<1> SUFFICES ASSUME Init PROVE Inv
  OBVIOUS
<1>1. chain \in Chains
  BY UnknownType, Numbers DEF Init
<1>2. TypeOK
  BY <1>1, Numbers, ButtonsAssumption, PositionsAssumption DEF Init, TypeOK
<1> QED
  BY <1>2 DEF Init, Inv, Calm, NoneDown, TimeKnown, ChainKnown, UnknownChain

(* Steps that leave the buttons and the stored browser alone. *)
LEMMA CalmKept ==
  ASSUME Inv, UNCHANGED <<m_refBrowser, held, captured, mouse_rotation_, cef_down, undisturbed>>
  PROVE  Calm'
  BY DEF Inv, Calm, PressUnderWay, NoneDown, OnlyTold, HasHost

(* A move, or a leave, keeps the view and the chain together. *)
LEMMA MoveInv ==
  ASSUME Inv, NEW p \in Positions, ForgetClick(p), ChainAfterMove(p),
         mouse_tracking_' \in BOOLEAN, UNCHANGED <<worldVars, buttonVars>>
  PROVE  Inv'
<1> USE DEF worldVars, browserVars, buttonVars, clickVars
<1>1. chain \in Chains /\ now \in Int /\ last_click_time_ \in Int
  BY Numbers DEF Inv, TypeOK
<1>2. chain' = [chain EXCEPT !.broken = Over(p)]
  BY DEF ChainAfterMove
<1>3. Over(p) \in BOOLEAN
  BY <1>1 DEF Over, Chains, Distant, Apart
<1>4. chain' \in Chains
  BY <1>1, <1>2, <1>3 DEF Chains
<1>5. /\ chain'.plain = chain.plain /\ chain'.wrapped = chain.wrapped
      /\ chain'.elapsed = chain.elapsed /\ chain'.length = chain.length
      /\ chain'.at = chain.at /\ chain'.button = chain.button
      /\ chain'.broken = Over(p)
  BY <1>1, <1>2 DEF Chains
<1>6. TypeOK'
  BY <1>4, Numbers, PositionsAssumption DEF Inv, TypeOK, ForgetClick
<1>7. Calm'
  BY CalmKept
<1>8. TimeKnown'
  BY <1>5 DEF Inv, TimeKnown, ForgetClick
<1>9. ChainKnown'
  <2> SUFFICES ASSUME chain.plain PROVE ChainKnown'
    BY <1>5 DEF ChainKnown
  <2>1. Over(p) <=> chain.broken \/ CancelPreviousClick(p)
    BY ForgetsWhenOver
  <2>2. CASE CancelPreviousClick(p)
    BY <1>5, <2>1, <2>2 DEF Inv, ChainKnown, ForgetClick
  <2>3. CASE ~CancelPreviousClick(p)
    BY <1>5, <2>1, <2>3 DEF Inv, ChainKnown, ForgetClick
  <2> QED
    BY <2>2, <2>3
<1> QED
  BY <1>6, <1>7, <1>8, <1>9 DEF Inv

(* So does a press that is counted. *)
LEMMA CountInv ==
  ASSUME Inv, NEW button \in Buttons, NEW p \in Positions,
         CountClick(button, p), ChainAfterPress(button, p), now' = now
  PROVE  /\ last_click_at' \in Positions /\ last_click_button_' \in Buttons
         /\ last_click_count_' \in Nat /\ last_click_time_' \in Times
         /\ chain' \in Chains
         /\ TimeKnown' /\ ChainKnown'
<1>1. /\ chain \in Chains /\ now \in Int /\ last_click_time_ \in Int /\ now \in Times
      /\ last_click_count_ \in Nat /\ last_click_at \in Positions
  BY Numbers DEF Inv, TypeOK
<1> DEFINE goes_on == ~Over(p) /\ chain.button = button
           plain == /\ now > DoubleClickTime /\ ~chain.wrapped
                    /\ chain.plain \/ chain.elapsed = LongAgo
           counted == [plain |-> TRUE, button |-> button,
                       at |-> IF goes_on THEN chain.at ELSE p,
                       length |-> IF goes_on THEN chain.length + 1 ELSE 1,
                       broken |-> FALSE, elapsed |-> 0, wrapped |-> FALSE]
<1>2. chain' = IF ~plain THEN UnknownChain(0, FALSE) ELSE counted
  BY DEF ChainAfterPress
<1>3. counted \in Chains
  BY <1>1, Numbers DEF Chains
<1>4. chain' \in Chains
  BY <1>2, <1>3, UnknownType, Numbers
<1>5. chain'.elapsed = 0 /\ 0 # LongAgo /\ ~chain'.wrapped
  BY <1>2, Numbers DEF UnknownChain
<1>6. last_click_time_' = now /\ last_click_button_' = button
  BY DEF CountClick
<1>7. TimeKnown'
  BY <1>1, <1>5, <1>6 DEF TimeKnown
<1>8. last_click_at' \in Positions /\ last_click_count_' \in Nat
  BY <1>1 DEF CountClick
<1>9. ChainKnown'
  <2>1. CASE ~plain
    BY <1>2, <2>1 DEF ChainKnown, UnknownChain
  <2>2. CASE plain /\ goes_on
    <3>1. chain.plain /\ ~chain.broken
      BY <2>2 DEF Over
    <3>2. ~CancelPreviousClick(p)
      BY <2>2, <3>1, ForgetsWhenOver
    <3>3. last_click_button_ = button /\ last_click_count_ = chain.length /\ last_click_at = chain.at
      BY <2>2, <3>1 DEF Inv, ChainKnown
    <3>4. last_click_count_' = chain.length + 1 /\ last_click_at' = chain.at
      BY <3>2, <3>3 DEF CountClick
    <3>5. chain' = counted /\ chain'.length = chain.length + 1 /\ chain'.at = chain.at
          /\ chain'.button = button /\ ~chain'.broken
      BY <1>2, <2>2
    <3> QED
      BY <1>1, <1>5, <1>6, <2>2, <3>4, <3>5 DEF ChainKnown
  <2>3. CASE plain /\ ~goes_on
    <3>1. CancelPreviousClick(p) \/ button # last_click_button_
      <4>1. CASE chain.plain /\ ~chain.broken
        <5>1. last_click_button_ = chain.button
          BY <4>1 DEF Inv, ChainKnown
        <5> QED
          BY <2>3, <4>1, <5>1, ForgetsWhenOver
      <4>2. CASE chain.plain /\ chain.broken
        <5>1. last_click_time_ = 0
          BY <4>2 DEF Inv, ChainKnown
        <5> QED
          BY <1>1, <2>3, <5>1, Numbers DEF CancelPreviousClick
      <4>3. CASE chain.elapsed = LongAgo /\ ~chain.wrapped
        BY <1>1, <2>3, <4>3, Numbers DEF CancelPreviousClick, Inv, TimeKnown
      <4> QED
        BY <2>3, <4>1, <4>2, <4>3
    <3>2. last_click_count_' = 1 /\ last_click_at' = p
      BY <3>1 DEF CountClick
    <3>3. chain' = counted /\ chain'.length = 1 /\ chain'.at = p
          /\ chain'.button = button /\ ~chain'.broken
      BY <1>2, <2>3
    <3> QED
      BY <1>1, <1>5, <1>6, <2>3, <3>2, <3>3 DEF ChainKnown
  <2> QED
    BY <2>1, <2>2, <2>3
<1> QED
  BY <1>1, <1>4, <1>6, <1>7, <1>8, <1>9

(* Steps that leave the clicks, the chain and the time alone. *)
LEMMA ClicksKept ==
  ASSUME Inv, UNCHANGED <<clickVars, chain, now>>
  PROVE  TimeKnown' /\ ChainKnown'
  BY DEF Inv, TimeKnown, ChainKnown, clickVars

LEMMA DownInv ==
  ASSUME Inv, NEW button \in Buttons, NEW p \in Positions, NEW shift \in BOOLEAN,
         OnButtonDown(button, p, shift)
  PROVE  Inv'
<1> USE DEF worldVars, browserVars, clickVars
<1>1. /\ now' = now /\ live' = live /\ m_refBrowser' = m_refBrowser /\ popup' = popup
      /\ mouse_tracking_' = mouse_tracking_
  BY DEF OnButtonDown
<1>2. held' = held \cup {button} /\ undisturbed' = (undisturbed /\ held = {})
  BY DEF OnButtonDown
<1>3. Calm'
  <2> SUFFICES ASSUME undisturbed' PROVE PressUnderWay(button)'
    BY DEF Calm
  <2>1. undisturbed /\ held = {} /\ held' = {button}
    BY <1>2
  <2>2. ~captured /\ ~mouse_rotation_ /\ NoneDown
    BY <2>1 DEF Inv, Calm, PressUnderWay
  <2>3. CASE ~HasHost \/ shift
    <3>1. cef_down' = cef_down
      BY <2>3 DEF OnButtonDown
    <3> QED
      BY <1>1, <2>1, <2>2, <2>3, <3>1 DEF OnButtonDown, PressUnderWay, NoneDown, HasHost
  <2>4. CASE HasHost /\ ~shift
    <3>1. m_refBrowser \in Browsers /\ cef_down \in [Browsers -> SUBSET Buttons]
      BY <2>4 DEF HasHost, Inv, TypeOK
    <3>2. cef_down' = [cef_down EXCEPT ![m_refBrowser] = @ \cup {button}]
      BY <2>4 DEF OnButtonDown
    <3>3. OnlyTold(button)'
      BY <1>1, <2>2, <3>1, <3>2 DEF OnlyTold, NoneDown
    <3>4. captured' /\ mouse_rotation_' = mouse_rotation_
      BY <2>4 DEF OnButtonDown
    <3> QED
      BY <1>1, <2>1, <2>2, <2>4, <3>3, <3>4 DEF PressUnderWay, HasHost
  <2> QED
    BY <2>3, <2>4
<1>4. /\ last_click_at' \in Positions /\ last_click_button_' \in Buttons
      /\ last_click_count_' \in Nat /\ last_click_time_' \in Times
      /\ chain' \in Chains
      /\ TimeKnown' /\ ChainKnown'
  <2>1. CASE HasHost /\ ~shift
    BY <1>1, <2>1, CountInv DEF OnButtonDown
  <2>2. CASE ~(HasHost /\ ~shift)
    <3>1. UNCHANGED <<clickVars, chain, now>>
      BY <1>1, <2>2 DEF OnButtonDown
    <3> QED
      BY <3>1, ClicksKept DEF Inv, TypeOK
  <2> QED
    BY <2>1, <2>2
<1>5. /\ captured' \in BOOLEAN /\ mouse_rotation_' \in BOOLEAN
      /\ last_mouse_down_on_view_' \in BOOLEAN /\ cef_down' \in [Browsers -> SUBSET Buttons]
  BY DEF OnButtonDown, Inv, TypeOK, HasHost
<1>6. undisturbed' \in BOOLEAN /\ held' \subseteq Buttons
  BY <1>2 DEF Inv, TypeOK
<1>7. TypeOK'
  BY <1>1, <1>4, <1>5, <1>6 DEF Inv, TypeOK
<1> QED
  BY <1>3, <1>4, <1>7 DEF Inv

LEMMA UpInv ==
  ASSUME Inv, NEW button \in Buttons, NEW p \in Positions, OnButtonUp(button, p)
  PROVE  Inv'
<1>1. UNCHANGED <<worldVars, mouse_tracking_, clickVars, last_mouse_down_on_view_, chain>>
  BY DEF OnButtonUp
<1>2. LandsOnShiftedPopup(p) \in BOOLEAN
  BY DEF LandsOnShiftedPopup
<1>3. TypeOK'
  BY <1>1, <1>2 DEF Inv, TypeOK, OnButtonUp, worldVars, browserVars, clickVars
<1>4. Calm'
  <2> SUFFICES ASSUME undisturbed' PROVE Calm'
    BY DEF Calm
  <2>1. undisturbed /\ held # {}
    BY DEF OnButtonUp
  <2>2. PICK b \in Buttons : PressUnderWay(b)
    BY <2>1 DEF Inv, Calm
  <2>3. b = button /\ held' = {}
    BY <2>2 DEF PressUnderWay, OnButtonUp
  <2>4. CASE HasHost /\ Delivered(p)
    <3>1. ~LandsOnShiftedPopup(p) /\ ~captured' /\ ~mouse_rotation_'
      BY <2>4 DEF OnButtonUp
    <3>2. NoneDown'
      <4>1. CASE mouse_rotation_
        BY <2>2, <2>4, <4>1 DEF OnButtonUp, PressUnderWay, NoneDown
      <4>2. CASE ~mouse_rotation_
        <5>1. cef_down' = [cef_down EXCEPT ![m_refBrowser] = @ \ {button}]
          BY <2>4, <3>1, <4>2 DEF OnButtonUp
        <5>2. cef_down \in [Browsers -> SUBSET Buttons]
          BY DEF Inv, TypeOK
        <5>3. NoneDown \/ OnlyTold(button)
          BY <2>2, <2>3, <4>2 DEF PressUnderWay
        <5> QED
          BY <5>1, <5>2, <5>3 DEF NoneDown, OnlyTold
      <4> QED
        BY <4>1, <4>2
    <3> QED
      BY <2>3, <3>1, <3>2 DEF Calm
  <2>5. CASE ~(HasHost /\ Delivered(p))
    <3>1. UNCHANGED <<captured, mouse_rotation_, cef_down>>
      BY <2>5 DEF OnButtonUp
    <3>2. ~captured /\ ~mouse_rotation_ /\ NoneDown
      BY <2>2, <2>5 DEF PressUnderWay, Delivered
    <3> QED
      BY <2>3, <3>1, <3>2 DEF Calm, NoneDown
  <2> QED
    BY <2>4, <2>5
<1> QED
  BY <1>1, <1>3, <1>4, ClicksKept DEF Inv, worldVars

LEMMA TickInv == ASSUME Inv, Tick PROVE Inv'
<1>1. /\ chain \in Chains /\ now \in Times /\ now \in Int /\ last_click_time_ \in Int
      /\ chain.elapsed \in 0..LongAgo
  BY Numbers DEF Inv, TypeOK, Chains
<1>2. UNCHANGED <<browserVars, popup, buttonVars, mouse_tracking_, clickVars>>
  BY DEF Tick
<1> USE DEF browserVars
<1> DEFINE elapsed == IF chain.elapsed = LongAgo THEN LongAgo ELSE chain.elapsed + 1
<1>3. elapsed \in 0..LongAgo
  BY <1>1, Numbers
<1>4. CASE now = HalfRange - 1
  <2>1. chain' = UnknownChain(elapsed, TRUE) /\ now' = -HalfRange
    BY <1>4 DEF Tick
  <2>2. chain' \in Chains /\ now' \in Times
    <3>1. UnknownChain(elapsed, TRUE) \in Chains
      BY <1>3, UnknownType
    <3>2. -HalfRange \in Times
      BY Numbers DEF Times
    <3> QED
      BY <2>1, <3>1, <3>2
  <2>3. TypeOK' /\ Calm'
    BY <1>2, <2>2, CalmKept DEF Inv, TypeOK, buttonVars, clickVars
  <2> QED
    BY <2>1, <2>3 DEF Inv, TimeKnown, ChainKnown, UnknownChain
<1>5. CASE now # HalfRange - 1
  <2>1. chain' = [chain EXCEPT !.elapsed = elapsed] /\ now' = now + 1
    BY <1>5 DEF Tick
  <2>2. now' \in Times
    BY <1>1, <1>5, <2>1, Numbers DEF Times
  <2>3. chain' \in Chains
    BY <1>1, <1>3, <2>1 DEF Chains
  <2>4. TypeOK' /\ Calm'
    BY <1>2, <2>2, <2>3, CalmKept DEF Inv, TypeOK, buttonVars, clickVars
  <2>5. /\ chain'.plain = chain.plain /\ chain'.wrapped = chain.wrapped
        /\ chain'.elapsed = elapsed /\ chain'.length = chain.length
        /\ chain'.at = chain.at /\ chain'.button = chain.button
        /\ chain'.broken = chain.broken
    BY <1>1, <2>1 DEF Chains
  <2>6. /\ chain.elapsed # LongAgo /\ now - last_click_time_ = chain.elapsed
           => /\ elapsed # LongAgo => now' - last_click_time_ = elapsed
              /\ elapsed = LongAgo => now' - last_click_time_ > DoubleClickTime
        /\ now - last_click_time_ > DoubleClickTime => now' - last_click_time_ > DoubleClickTime
        /\ chain.elapsed = LongAgo => elapsed = LongAgo
    BY <1>1, <2>1, Numbers
  <2>7. TimeKnown'
    BY <1>2, <2>5, <2>6 DEF Inv, TimeKnown, clickVars
  <2>8. ChainKnown'
    <3>1. now > DoubleClickTime => now' > DoubleClickTime
      BY <1>1, <2>1, Numbers
    <3> QED
      BY <1>2, <2>5, <2>6, <3>1 DEF Inv, ChainKnown, clickVars
  <2> QED
    BY <2>4, <2>7, <2>8 DEF Inv
<1> QED
  BY <1>4, <1>5

LEMMA StepInv == Inv /\ [Next]_vars => Inv'
<1> SUFFICES ASSUME Inv, [Next]_vars PROVE Inv'
  OBVIOUS
<1>1. ASSUME NEW p \in Positions, OnMouseMove(p) PROVE Inv'
  <2>1. mouse_tracking_' \in BOOLEAN
    BY <1>1 DEF OnMouseMove, Inv, TypeOK
  <2> QED
    BY <1>1, <2>1, MoveInv DEF OnMouseMove
<1>2. CASE OnMouseLeave
  <2>1. mouse_tracking_' \in BOOLEAN
    BY <1>2 DEF OnMouseLeave
  <2> QED
    BY <1>2, <2>1, MoveInv, PositionsAssumption DEF OnMouseLeave
<1>3. CASE OnCaptureChanged
  BY <1>3, ClicksKept DEF OnCaptureChanged, Inv, TypeOK, Calm, worldVars, browserVars, clickVars
<1>4. ASSUME NEW b \in Browsers, OnAfterCreated(b) PROVE Inv'
  <2> SUFFICES Calm'
    BY <1>4, ClicksKept DEF OnAfterCreated, Inv, TypeOK, LosesItsBrowser, HasHost, clickVars
  <2> SUFFICES ASSUME undisturbed' PROVE Calm'
    BY DEF Calm
  <2>1. undisturbed /\ ~LosesItsBrowser
    BY <1>4 DEF OnAfterCreated
  <2>2. UNCHANGED <<held, captured, mouse_rotation_, cef_down>>
    BY <1>4 DEF OnAfterCreated
  <2> QED
    BY <2>1, <2>2 DEF Inv, Calm, PressUnderWay, NoneDown, LosesItsBrowser
<1>5. ASSUME NEW b \in Browsers, OnBeforeClose(b) PROVE Inv'
  <2>1. TypeOK'
    BY <1>5 DEF OnBeforeClose, Inv, TypeOK, LosesItsBrowser, HasHost, clickVars
  <2>2. Calm'
    <3> SUFFICES ASSUME undisturbed' PROVE Calm'
      BY DEF Calm
    <3>1. /\ cef_down \in [Browsers -> SUBSET Buttons]
          /\ cef_down' = [cef_down EXCEPT ![b] = {}]
          /\ UNCHANGED <<held, captured, mouse_rotation_>>
      BY <1>5 DEF OnBeforeClose, Inv, TypeOK
    <3>2. NoneDown => NoneDown'
      BY <3>1 DEF NoneDown
    <3>3. CASE m_refBrowser = b
      <4>1. undisturbed /\ ~LosesItsBrowser
        BY <1>5, <3>3 DEF OnBeforeClose
      <4>2. HasHost
        BY <3>3, BrowsersAssumption DEF HasHost
      <4>3. held = {}
        BY <4>1, <4>2 DEF LosesItsBrowser
      <4> QED
        BY <3>1, <3>2, <4>1, <4>3 DEF Inv, Calm, PressUnderWay
    <3>4. CASE m_refBrowser # b
      <4>1. undisturbed /\ m_refBrowser' = m_refBrowser
        BY <1>5, <3>4 DEF OnBeforeClose
      <4>2. ASSUME NEW button, HasHost, OnlyTold(button) PROVE OnlyTold(button)'
        BY <3>1, <3>4, <4>1, <4>2 DEF OnlyTold, HasHost, Inv, TypeOK
      <4> QED
        BY <3>1, <3>2, <4>1, <4>2 DEF Inv, Calm, PressUnderWay, HasHost
    <3> QED
      BY <3>3, <3>4
  <2> QED
    BY <1>5, <2>1, <2>2, ClicksKept DEF OnBeforeClose, Inv
<1>6. ASSUME NEW state \in PopupStates, PopupChanges(state) PROVE Inv'
  BY <1>6, ClicksKept, CalmKept DEF PopupChanges, Inv, TypeOK, browserVars, buttonVars, clickVars
<1>7. CASE UNCHANGED vars
  BY <1>7, ClicksKept, CalmKept DEF vars, Inv, TypeOK, clickVars
<1> QED
  BY <1>1, <1>2, <1>3, <1>4, <1>5, <1>6, <1>7, DownInv, UpInv, TickInv DEF Next

-----------------------------------------------------------------------------

(* The inductive invariant holds: buttons held, capture and the remembered click are
   explained by each other after every mouse message. *)
THEOREM MouseInvariance == Spec => []Inv
<1> QED
  BY InitInv, StepInv, PTL DEF Spec

(* Every variable of SendMouseEvent keeps its type: the click count never falls
   below zero, and the remembered button and position are ones that exist. *)
THEOREM TypeCorrect == Spec => []TypeOK
<1>1. Inv => TypeOK
  BY DEF Inv
<1> QED
  BY <1>1, MouseInvariance, PTL

(* Undisturbed presses leave the view quiet (OnButtonDown, OnButtonUp), however
   many browsers share its handler. *)
THEOREM QuietAfterRelease == Spec => []QuietWithoutButtons
<1>1. Inv => QuietWithoutButtons
  BY DEF Inv, Calm, PressUnderWay, NoneDown, QuietWithoutButtons
<1> QED
  BY <1>1, MouseInvariance, PTL

(* The click count is the user's, for every double-click time and distance. *)
THEOREM ClickCountCorrect == Spec => []ClickCountIsChain
<1>1. Inv => ClickCountIsChain
  BY DEF Inv, ChainKnown, ClickCountIsChain
<1> QED
  BY <1>1, MouseInvariance, PTL
=============================================================================
