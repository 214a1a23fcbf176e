----------------------- MODULE ImeComposition_proofs -----------------------
(***************************************************************************)
(* Theorems about ImeComposition, for compositions of every length.        *)
(***************************************************************************)
EXTENDS ImeComposition, FiniteSetTheorems, TLAPS

USE DEF UpdateCaretPosition, ChangeCompositionRange, ResetComposition

(* CEF only ever has a composition that came from a message of IMM's. *)
NodeKnown == node = NULL \/ \E c \in Compositions : node = NodeFor(c)

(* A page has a composition only if its browser is the stored one or lost its
   place while it had it. *)
NodesFit ==
  /\ live \subseteq Browsers /\ m_refBrowser \in live \cup {NULL}
  /\ node_in \subseteq live /\ replaced \subseteq node_in
  /\ m_refBrowser \notin replaced
  /\ node_in \subseteq replaced \cup {m_refBrowser}

(* The cursor never runs further ahead of the text than -1, which is what
   keeps the index of the rectangle from going below zero. *)
Inv ==
  /\ ime_handler_ \in BOOLEAN /\ imm_composing \in BOOLEAN
  /\ cursor_index_ \in Int /\ cursor_index_ >= -1
  /\ composition_range_from \in Nat /\ composition_bounds_ \in Nat
  /\ candidate \in [index : Int, of : Nat]
  /\ CandidateInBounds
  /\ NodeEndsWithImm
  /\ NodesFit
  /\ NodeKnown

LEMMA IndexBounds ==
  ASSUME NEW cursor \in Int, cursor >= -1, NEW from \in Nat
  PROVE  BoundsIndex(cursor, from) \in Int /\ BoundsIndex(cursor, from) >= 0
  BY DEF BoundsIndex

LEMMA MoveKeeps ==
  ASSUME Inv, NEW cursor \in Int, cursor >= -1, NEW from \in Nat, NEW bounds \in Nat,
         MoveImeWindow(cursor, from, bounds)
  PROVE  candidate' \in [index : Int, of : Nat] /\ CandidateInBounds'
<1>1. BoundsIndex(cursor, from) \in Int /\ BoundsIndex(cursor, from) >= 0
  BY IndexBounds
<1> QED
  BY <1>1 DEF MoveImeWindow, Inv, CandidateInBounds

LEMMA StartType ==
  ASSUME NEW c \in Compositions
  PROVE  CompositionStart(c) \in Nat
<1>1. PICK n \in Lengths : c.cursor \in {NULL} \cup 0..n
  BY DEF Compositions
<1> QED
  BY <1>1 DEF CompositionStart, Lengths

LEMMA InitInv == Init => Inv
<1> SUFFICES ASSUME Init PROVE Inv
  OBVIOUS
<1>1. candidate \in [index : Int, of : Nat] /\ CandidateInBounds
  BY DEF Init, NoCandidate, CandidateInBounds
<1>2. ime_handler_ \in BOOLEAN /\ imm_composing \in BOOLEAN
  BY DEF Init
<1>3. cursor_index_ \in Int /\ cursor_index_ >= -1
  BY DEF Init
<1>4. composition_range_from \in Nat /\ composition_bounds_ \in Nat
  BY DEF Init
<1>5. NodeEndsWithImm /\ NodeKnown /\ NodesFit
  BY DEF Init, NodeEndsWithImm, NodeKnown, NodesFit
<1> QED
  BY <1>1, <1>2, <1>3, <1>4, <1>5 DEF Inv

(* Steps that leave the browsers and what they have alone. *)
LEMMA NodesKept ==
  ASSUME Inv, UNCHANGED <<live, m_refBrowser, replaced, node, node_in>>
  PROVE  NodesFit' /\ NodeKnown'
  BY DEF Inv, NodesFit, NodeKnown

LEMMA StepInv == Inv /\ [Next]_vars => Inv'
<1> SUFFICES ASSUME Inv, [Next]_vars PROVE Inv'
  OBVIOUS
<1> USE DEF browserVars, nodeVars
<1>0. /\ cursor_index_ \in Int /\ cursor_index_ >= -1
      /\ composition_range_from \in Nat /\ composition_bounds_ \in Nat
  BY DEF Inv
<1>1. CASE OnIMESetContext
  <2>1. candidate' \in [index : Int, of : Nat] /\ CandidateInBounds'
    <3>1. CASE ime_handler_
      BY <1>0, <1>1, <3>1, MoveKeeps DEF OnIMESetContext
    <3>2. CASE ~ime_handler_
      BY <1>1, <3>2 DEF OnIMESetContext, Inv, CandidateInBounds
    <3> QED
      BY <3>1, <3>2
  <2> QED
    BY <1>1, <2>1, NodesKept DEF OnIMESetContext, Inv, NodeEndsWithImm
<1>2. CASE OnIMEStartComposition
  <2>1. candidate' \in [index : Int, of : Nat] /\ CandidateInBounds'
    <3>1. CASE ime_handler_
      BY <1>0, <1>2, <3>1, MoveKeeps DEF OnIMEStartComposition
    <3>2. CASE ~ime_handler_
      BY <1>2, <3>2 DEF OnIMEStartComposition, Inv, CandidateInBounds
    <3> QED
      BY <3>1, <3>2
  <2>2. cursor_index_' \in Int /\ cursor_index_' >= -1
    BY <1>0, <1>2 DEF OnIMEStartComposition
  <2> QED
    BY <1>2, <2>1, <2>2, NodesKept DEF OnIMEStartComposition, Inv, NodeEndsWithImm
<1>3. ASSUME NEW c \in Compositions, OnIMEComposition(c)
      PROVE  Inv'
  <2>1. cursor_index_' \in Int /\ cursor_index_' >= -1
    BY <1>0, <1>3, StartType DEF OnIMEComposition
  <2>2. candidate' \in [index : Int, of : Nat] /\ CandidateInBounds'
    <3>1. CASE m_refBrowser # NULL /\ ime_handler_
      BY <1>0, <1>3, <2>1, <3>1, MoveKeeps DEF OnIMEComposition
    <3>2. CASE ~(m_refBrowser # NULL /\ ime_handler_)
      BY <1>3, <3>2 DEF OnIMEComposition, Inv, CandidateInBounds
    <3> QED
      BY <3>1, <3>2
  <2>3. NodesFit' /\ NodeKnown'
    BY <1>3 DEF OnIMEComposition, Inv, NodesFit, NodeKnown
  <2> QED
    BY <1>3, <2>1, <2>2, <2>3 DEF OnIMEComposition, Inv, NodeEndsWithImm
<1>4. ASSUME CancelComposition, imm_composing' \in {imm_composing, FALSE}
      PROVE  Inv'
  <2>1. NodesFit' /\ NodeEndsWithImm'
    <3>1. CASE m_refBrowser # NULL /\ ime_handler_
      BY <1>4, <3>1 DEF CancelComposition, Inv, NodesFit, NodeEndsWithImm
    <3>2. CASE m_refBrowser = NULL
      <4>1. node_in \subseteq replaced
        BY <3>2, BrowsersAssumption DEF Inv, NodesFit
      <4> QED
        BY <1>4, <3>2, <4>1 DEF CancelComposition, Inv, NodesFit, NodeEndsWithImm
    <3>3. CASE ~ime_handler_
      BY <1>4, <3>3 DEF CancelComposition, Inv, NodesFit, NodeEndsWithImm
    <3> QED
      BY <3>1, <3>2, <3>3
  <2>2. cursor_index_' \in Int /\ cursor_index_' >= -1
    BY <1>0, <1>4 DEF CancelComposition
  <2>3. NodeKnown'
    BY <1>4 DEF CancelComposition, Inv, NodeKnown
  <2>4. CandidateInBounds' /\ candidate' = candidate
    BY <1>4 DEF CancelComposition, Inv, CandidateInBounds
  <2>5. ime_handler_' \in BOOLEAN /\ imm_composing' \in BOOLEAN
    BY <1>4 DEF CancelComposition, Inv
  <2> QED
    BY <1>4, <2>1, <2>2, <2>3, <2>4, <2>5 DEF CancelComposition, Inv
<1>5. ASSUME NEW from \in 0..MaxLength, NEW bounds \in 0..MaxLength,
             OnImeCompositionRangeChanged(from, bounds)
      PROVE  Inv'
  <2>1. from \in Nat /\ bounds \in Nat
    BY MaxLengthAssumption
  <2>2. candidate' \in [index : Int, of : Nat] /\ CandidateInBounds'
    <3>1. CASE ime_handler_
      BY <1>0, <1>5, <2>1, <3>1, MoveKeeps DEF OnImeCompositionRangeChanged
    <3>2. CASE ~ime_handler_
      BY <1>5, <3>2 DEF OnImeCompositionRangeChanged, Inv, CandidateInBounds
    <3> QED
      BY <3>1, <3>2
  <2> QED
    BY <1>0, <1>5, <2>1, <2>2, NodesKept DEF OnImeCompositionRangeChanged, Inv, NodeEndsWithImm
<1>6. ASSUME NEW b \in Browsers, OnAfterCreated(b)
      PROVE  Inv'
  <2>1. NodesFit' /\ NodeEndsWithImm' /\ NodeKnown'
    BY <1>6 DEF OnAfterCreated, Inv, NodesFit, NodeEndsWithImm, NodeKnown
  <2> QED
    BY <1>6, <2>1 DEF OnAfterCreated, handlerVars, Inv, CandidateInBounds
<1>7. ASSUME NEW b \in Browsers, OnBeforeClose(b)
      PROVE  Inv'
  <2>1. NodesFit' /\ NodeEndsWithImm' /\ NodeKnown'
    BY <1>7, BrowsersAssumption DEF OnBeforeClose, Inv, NodesFit, NodeEndsWithImm, NodeKnown
  <2> QED
    BY <1>7, <2>1 DEF OnBeforeClose, handlerVars, Inv, CandidateInBounds
<1>8. CASE OnDestroy
  BY <1>8, NodesKept DEF OnDestroy, handlerVars, Inv, CandidateInBounds, NodeEndsWithImm
<1>9. CASE UNCHANGED vars
  BY <1>9, NodesKept DEF vars, Inv, CandidateInBounds, NodeEndsWithImm
<1> QED
  BY <1>1, <1>2, <1>3, <1>4, <1>5, <1>6, <1>7, <1>8, <1>9 DEF Next, OnIMEResult, OnIMEEndComposition

(* The inductive invariant holds: what CEF was given and what the handler remembers
   of a composition fit together after every IMM message. *)
THEOREM ImeInvariance == Spec => []Inv
<1> QED
  BY InitInv, StepInv, PTL DEF Spec

(* MoveImeWindow never indexes the rectangles out of bounds, for any ranges
   CEF reports and any cursor inside a composition. *)
THEOREM CandidateIsSafe == Spec => []CandidateInBounds
<1>1. Inv => CandidateInBounds
  BY DEF Inv
<1> QED
  BY <1>1, ImeInvariance, PTL

(* No composition node outlives IMM's composition but one that DevTools or
   another browser shut off from the view, for any number of browsers. *)
THEOREM NodeEnds == Spec => []NodeEndsWithImm
<1>1. Inv => NodeEndsWithImm
  BY DEF Inv
<1> QED
  BY <1>1, ImeInvariance, PTL

-----------------------------------------------------------------------------
(* What Windows' text positions need of Min and Max.                        *)

LEMMA MinOfNats ==
  ASSUME NEW S \in SUBSET Nat, S # {}
  PROVE  Min(S) \in S /\ \A y \in S : Min(S) <= y
<1> DEFINE R == OpToRel(<, Nat)
<1>1. PICK x \in S : \A y \in S : <<y, x>> \notin R
  <2>1. IsWellFoundedOn(R, Nat)
    BY NatLessThanWellFounded
  <2> HIDE DEF R
  <2> QED
    BY <2>1, WFMin
<1>2. \A y \in S : x <= y
  <2> SUFFICES ASSUME NEW y \in S, y < x PROVE FALSE
    OBVIOUS
  <2>1. <<y, x>> \in R
    BY DEF OpToRel
  <2> QED
    BY <1>1, <2>1
<1> QED
  BY <1>2 DEF Min

(* A bounded set has a last element: the first of its mirror image. *)
LEMMA LastOf ==
  ASSUME NEW n \in Nat, NEW S \in SUBSET (0..n), S # {}
  PROVE  \E x \in S : \A y \in S : y <= x
<1> DEFINE Mirror == {n - y : y \in S}
<1>1. Mirror \in SUBSET Nat /\ Mirror # {}
  <2>1. \A y \in S : y \in Int /\ n - y \in Nat
    OBVIOUS
  <2> QED
    BY <2>1
<1>2. Min(Mirror) \in Mirror /\ \A y \in Mirror : Min(Mirror) <= y
  BY <1>1, MinOfNats
<1>3. PICK x \in S : Min(Mirror) = n - x
  BY <1>2
<1>4. \A y \in S : n - x <= n - y
  BY <1>2, <1>3
<1> QED
  BY <1>4

(* The default underlines of GetCompositionInfo cover every character of the
   text, and no character twice. *)
THEOREM DefaultUnderlinesPartition ==
  ASSUME NEW length \in Nat, NEW start \in 0..length, NEW end \in start..length,
         NEW i \in 0..(length - 1)
  PROVE  \E u \in DefaultUnderlines(length, start, end) :
           /\ Covers(u, i)
           /\ \A w \in DefaultUnderlines(length, start, end) : Covers(w, i) => w = u
<1> DEFINE D == DefaultUnderlines(length, start, end)
           before == Underline(0, start, FALSE)
           inside == Underline(start, end, TRUE)
           behind == Underline(end, length, FALSE)
<1>1. \A u : u \in D <=> (u = before \/ u = inside \/ u = behind) /\ u.from < u.to
  BY DEF DefaultUnderlines
<1>2. /\ Covers(before, i) <=> i < start
      /\ Covers(inside, i) <=> start <= i /\ i < end
      /\ Covers(behind, i) <=> end <= i
      /\ before.from < before.to <=> 0 < start
      /\ inside.from < inside.to <=> start < end
      /\ behind.from < behind.to <=> end < length
  BY DEF Covers, Underline
<1> HIDE DEF D, before, inside, behind
<1>3. CASE i < start
  <2>1. before \in D /\ Covers(before, i) /\ \A w \in D : Covers(w, i) => w = before
    BY <1>1, <1>2, <1>3
  <2> QED
    BY <2>1 DEF D
<1>4. CASE start <= i /\ i < end
  <2>1. inside \in D /\ Covers(inside, i) /\ \A w \in D : Covers(w, i) => w = inside
    BY <1>1, <1>2, <1>4
  <2> QED
    BY <2>1 DEF D
<1>5. CASE end <= i
  <2>1. behind \in D /\ Covers(behind, i) /\ \A w \in D : Covers(w, i) => w = behind
    BY <1>1, <1>2, <1>5
  <2> QED
    BY <2>1 DEF D
<1> QED
  BY <1>3, <1>4, <1>5

-----------------------------------------------------------------------------
(* Any composition, with clauses or without.                                *)

(* Where clauses begin and end in a text of n characters, and the clause from
   a to b. *)
IsDivision(clauses, n) == {0, n} \subseteq clauses /\ clauses \subseteq 0..n

IsClause(clauses, a, b) ==
  a \in clauses /\ b \in clauses /\ a < b /\ ~\E k \in clauses : a < k /\ k < b

LEMMA CompositionShape ==
  ASSUME NEW c \in Compositions
  PROVE  /\ c.length \in Lengths
         /\ c.target = NULL \/ c.target \in SUBSET (0..(c.length - 1))
         /\ c.clauses = NULL \/ IsDivision(c.clauses, c.length)
<1>1. PICK n \in Lengths :
        /\ c.length = n
        /\ c.target \in {NULL} \cup SUBSET (0..(n - 1))
        /\ c.clauses \in {NULL} \cup {{0, n} \cup inner : inner \in SUBSET (1..(n - 1))}
  BY DEF Compositions
<1>2. ASSUME c.clauses # NULL PROVE IsDivision(c.clauses, n)
  <2>1. PICK inner \in SUBSET (1..(n - 1)) : c.clauses = {0, n} \cup inner
    BY <1>1, <1>2
  <2>2. n \in Nat
    BY MaxLengthAssumption DEF Lengths
  <2>3. \A k \in inner : k \in 0..n
    BY <2>2
  <2>4. 0 \in 0..n /\ n \in 0..n
    BY <2>2
  <2> QED
    BY <2>1, <2>3, <2>4 DEF IsDivision
<1> QED
  BY <1>1, <1>2

LEMMA LengthIsPositive ==
  ASSUME NEW n \in Lengths
  PROVE  n \in Nat /\ 0 < n /\ n <= MaxLength
  BY MaxLengthAssumption DEF Lengths

TargetOf(c) == IF c.target = NULL THEN {} ELSE c.target

(* What the two loops of GetCompositionSelectionRange find is the first run of
   target characters. *)
LEMMA TargetIsFirstRun ==
  ASSUME NEW c \in Compositions
  PROVE  /\ TargetStart(c) \in 0..c.length
         /\ TargetEnd(c) \in TargetStart(c)..c.length
         /\ FirstRun(TargetOf(c)) \subseteq 0..(c.length - 1)
         /\ \A i \in 0..(c.length - 1) :
              i \in FirstRun(TargetOf(c)) <=> TargetStart(c) <= i /\ i < TargetEnd(c)
<1> DEFINE n == c.length
           t == c.target
           s == TargetStart(c)
           e == TargetEnd(c)
<1>1. n \in Nat
  BY CompositionShape, LengthIsPositive
<1>2. CASE t = NULL
  <2>1. s = n /\ e = n
    BY <1>2 DEF TargetStart, TargetEnd
  <2>2. FirstRun(TargetOf(c)) = {}
    BY <1>2 DEF FirstRun, TargetOf
  <2> QED
    BY <1>1, <2>1, <2>2
<1>3. CASE t # NULL
  <2>1. t \in SUBSET (0..(n - 1))
    BY <1>3, CompositionShape
  <2>2. s = Min(t \cup {n})
    BY <1>3 DEF TargetStart
  <2>3. s \in t \cup {n} /\ \A y \in t \cup {n} : s <= y
    <3>1. t \cup {n} \in SUBSET Nat /\ t \cup {n} # {}
      BY <1>1, <2>1
    <3> QED
      BY <2>2, <3>1, MinOfNats
  <2>4. s \in 0..n
    BY <1>1, <2>1, <2>3
  <2>5. e = Min({i \in s..n : i \notin t})
    BY <1>3 DEF TargetEnd
  <2>6. e \in s..n /\ e \notin t /\ \A i \in s..n : i \notin t => e <= i
    <3>1. {i \in s..n : i \notin t} \in SUBSET Nat
      BY <1>1, <2>4
    <3>2. n \in {i \in s..n : i \notin t}
      BY <1>1, <2>1, <2>4
    <3>3. /\ Min({i \in s..n : i \notin t}) \in {i \in s..n : i \notin t}
          /\ \A y \in {i \in s..n : i \notin t} : Min({i \in s..n : i \notin t}) <= y
      BY <3>1, <3>2, MinOfNats
    <3> QED
      BY <2>5, <3>3
  <2> HIDE DEF s, e
  <2>7. \A i \in 0..(n - 1) : s <= i /\ i < e => i \in t
    BY <1>1, <2>4, <2>6
  <2>8. FirstRun(t) \subseteq 0..(n - 1)
    BY <2>1 DEF FirstRun
  <2>9. ASSUME NEW i \in 0..(n - 1), s <= i, i < e
        PROVE  i \in FirstRun(t)
    <3>1. i \in t
      BY <2>7, <2>9
    <3>2. ASSUME NEW j \in t, j < i PROVE j..i \subseteq t
      <4>1. s <= j /\ j \in Int
        BY <2>1, <2>3, <3>2
      <4>2. \A k \in j..i : k \in 0..(n - 1) /\ s <= k /\ k < e
        BY <1>1, <2>4, <2>6, <2>9, <4>1
      <4> QED
        BY <2>7, <4>2
    <3> QED
      BY <3>1, <3>2 DEF FirstRun
  <2>10. ASSUME NEW i \in 0..(n - 1), i \in FirstRun(t)
         PROVE  s <= i /\ i < e
    <3>1. i \in t /\ \A j \in t : j < i => j..i \subseteq t
      BY <2>10 DEF FirstRun
    <3>2. s <= i
      BY <2>3, <3>1
    <3>3. ASSUME e <= i PROVE FALSE
      <4>1. s \in t
        BY <1>1, <2>3, <2>4, <3>2
      <4>2. s # e
        BY <2>6, <4>1
      <4>3. s < i /\ e \in s..i
        BY <1>1, <2>4, <2>6, <3>3, <4>2
      <4> QED
        BY <2>6, <3>1, <4>1, <4>3
    <3> QED
      BY <1>1, <2>4, <2>6, <3>2, <3>3
  <2>11. TargetOf(c) = t
    BY <1>3 DEF TargetOf
  <2>12. \A i \in 0..(n - 1) : i \in FirstRun(TargetOf(c)) <=> s <= i /\ i < e
    BY <2>9, <2>10, <2>11
  <2> QED
    BY <2>4, <2>6, <2>8, <2>11, <2>12 DEF s, e
<1> QED
  BY <1>2, <1>3

(* A character lies in exactly one clause. *)
LEMMA OneClause ==
  ASSUME NEW n \in Nat, NEW i \in 0..(n - 1), NEW clauses, IsDivision(clauses, n)
  PROVE  \E a, b :
           /\ IsClause(clauses, a, b) /\ a <= i /\ i < b
           /\ \A p, q : IsClause(clauses, p, q) /\ p <= i /\ i < q => p = a /\ q = b
<1>1. clauses \in SUBSET (0..n)
  BY DEF IsDivision
<1> DEFINE Before == {k \in clauses : k <= i}
           After == {k \in clauses : k > i}
<1>2. PICK a \in Before : \A y \in Before : y <= a
  <2>1. Before \subseteq clauses
    OBVIOUS
  <2>2. 0 \in clauses /\ 0 <= i
    BY DEF IsDivision
  <2>3. Before \in SUBSET (0..n) /\ Before # {}
    BY <1>1, <2>1, <2>2
  <2> HIDE DEF Before
  <2> QED
    BY <2>3, LastOf
<1>3. PICK b \in After : \A y \in After : b <= y
  <2>1. After \subseteq clauses
    OBVIOUS
  <2>2. n \in clauses /\ n > i
    BY DEF IsDivision
  <2>3. After \in SUBSET Nat /\ After # {}
    <3>1. n \in After
      BY <2>2
    <3>2. 0..n \subseteq Nat
      OBVIOUS
    <3> HIDE DEF After
    <3> QED
      BY <1>1, <2>1, <3>1, <3>2
  <2> HIDE DEF After
  <2>4. Min(After) \in After /\ \A y \in After : Min(After) <= y
    BY <2>3, MinOfNats
  <2> QED
    BY <2>4
<1>4. a \in clauses /\ b \in clauses /\ a <= i /\ i < b
  BY <1>1, <1>2, <1>3
<1>5. ~\E k \in clauses : a < k /\ k < b
  <2> SUFFICES ASSUME NEW k \in clauses, a < k, k < b PROVE FALSE
    OBVIOUS
  <2>1. k \in Before \/ k \in After
    BY <1>1
  <2> QED
    BY <1>1, <1>2, <1>3, <2>1
<1>6. IsClause(clauses, a, b)
  <2>1. a < b
    BY <1>1, <1>4
  <2> QED
    BY <1>4, <1>5, <2>1 DEF IsClause
<1>7. ASSUME NEW p, NEW q, IsClause(clauses, p, q), p <= i, i < q
      PROVE  p = a /\ q = b
  <2>0. p \in clauses /\ q \in clauses
    BY <1>7 DEF IsClause
  <2>1. p <= a /\ b <= q
    BY <1>1, <1>2, <1>3, <1>7, <2>0
  <2>2. ~(p < a /\ a < q) /\ ~(p < b /\ b < q)
    BY <1>4, <1>7 DEF IsClause
  <2> QED
    BY <1>1, <1>4, <1>7, <2>0, <2>1, <2>2
<1> QED
  BY <1>4, <1>6, <1>7

LEMMA ClauseUnderlinesAre ==
  ASSUME NEW clauses, NEW start, NEW end
  PROVE  \A u : u \in ClauseUnderlines(clauses, start, end) <=>
           \E a, b : IsClause(clauses, a, b) /\ u = Underline(a, b, a >= start /\ b <= end)
<1> DEFINE U(a, b) == Underline(a, b, a >= start /\ b <= end)
           clause == {p \in clauses \X clauses :
                        p[1] < p[2] /\ ~\E k \in clauses : p[1] < k /\ k < p[2]}
<1>1. ClauseUnderlines(clauses, start, end) = {U(p[1], p[2]) : p \in clause}
  BY DEF ClauseUnderlines
<1>2. \A p \in clause : IsClause(clauses, p[1], p[2])
  BY DEF IsClause
<1>3. \A a, b : IsClause(clauses, a, b) => <<a, b>> \in clause
  BY DEF IsClause
<1> HIDE DEF U, clause
<1>4. ASSUME NEW a, NEW b, IsClause(clauses, a, b)
      PROVE  U(a, b) \in {U(p[1], p[2]) : p \in clause}
  <2>1. <<a, b>> \in clause /\ <<a, b>>[1] = a /\ <<a, b>>[2] = b
    BY <1>3, <1>4
  <2> QED
    BY <2>1
<1>5. \A u : u \in ClauseUnderlines(clauses, start, end) <=>
        \E a, b : IsClause(clauses, a, b) /\ u = U(a, b)
  BY <1>1, <1>2, <1>4
<1> QED
  BY <1>5 DEF U

LEMMA ClauseUnderlinesPartition ==
  ASSUME NEW n \in Nat, NEW clauses, IsDivision(clauses, n), NEW start, NEW end,
         NEW i \in 0..(n - 1)
  PROVE  \E u \in ClauseUnderlines(clauses, start, end) :
           /\ Covers(u, i)
           /\ \A w \in ClauseUnderlines(clauses, start, end) : Covers(w, i) => w = u
<1> DEFINE U(a, b) == Underline(a, b, a >= start /\ b <= end)
<1>1. \A u : u \in ClauseUnderlines(clauses, start, end) <=>
        \E a, b : IsClause(clauses, a, b) /\ u = U(a, b)
  BY ClauseUnderlinesAre
<1>2. PICK a, b :
        /\ IsClause(clauses, a, b) /\ a <= i /\ i < b
        /\ \A p, q : IsClause(clauses, p, q) /\ p <= i /\ i < q => p = a /\ q = b
  BY OneClause
<1>3. \A p, q : Covers(U(p, q), i) <=> p <= i /\ i < q
  BY DEF Covers, Underline
<1> HIDE DEF U
<1>4. U(a, b) \in ClauseUnderlines(clauses, start, end) /\ Covers(U(a, b), i)
  BY <1>1, <1>2, <1>3
<1>5. ASSUME NEW w \in ClauseUnderlines(clauses, start, end), Covers(w, i)
      PROVE  w = U(a, b)
  <2>1. PICK p, q : IsClause(clauses, p, q) /\ w = U(p, q)
    BY <1>1, <1>5
  <2> QED
    BY <1>2, <1>3, <1>5, <2>1
<1> QED
  BY <1>4, <1>5

LEMMA NodePartition ==
  ASSUME NEW c \in Compositions, NEW i \in 0..(c.length - 1)
  PROVE  \E u \in NodeFor(c).underlines :
           Covers(u, i) /\ \A w \in NodeFor(c).underlines : Covers(w, i) => w = u
<1>1. c.length \in Nat
  BY CompositionShape, LengthIsPositive
<1>2. CASE c.clauses = NULL
  <2>1. NodeFor(c).underlines = DefaultUnderlines(c.length, TargetStart(c), TargetEnd(c))
    BY <1>2 DEF NodeFor
  <2> QED
    BY <1>1, <2>1, TargetIsFirstRun, DefaultUnderlinesPartition
<1>3. CASE c.clauses # NULL
  <2>1. NodeFor(c).underlines = ClauseUnderlines(c.clauses, TargetStart(c), TargetEnd(c))
    BY <1>3 DEF NodeFor
  <2>2. IsDivision(c.clauses, c.length)
    BY <1>3, CompositionShape
  <2> QED
    BY <1>1, <2>1, <2>2, ClauseUnderlinesPartition
<1> QED
  BY <1>2, <1>3

(* An underline is thick exactly when it lies in the target. *)
LEMMA UnderlineShape ==
  ASSUME NEW c \in Compositions, NEW u \in NodeFor(c).underlines
  PROVE  /\ u \in [from : 0..c.length, to : 0..c.length, thick : BOOLEAN]
         /\ u.from < u.to
         /\ u.thick <=> TargetStart(c) <= u.from /\ u.to <= TargetEnd(c)
<1> DEFINE n == c.length
           s == TargetStart(c)
           e == TargetEnd(c)
<1>1. n \in Nat /\ s \in 0..n /\ e \in s..n
  BY CompositionShape, LengthIsPositive, TargetIsFirstRun
<1> HIDE DEF n, s, e
<1>2. CASE c.clauses = NULL
  <2>1. /\ u \in {Underline(0, s, FALSE), Underline(s, e, TRUE), Underline(e, n, FALSE)}
        /\ u.from < u.to
    BY <1>2 DEF NodeFor, DefaultUnderlines, n, s, e
  <2>2. CASE u = Underline(0, s, FALSE)
    BY <1>1, <2>1, <2>2 DEF Underline, n, s, e
  <2>3. CASE u = Underline(s, e, TRUE)
    BY <1>1, <2>1, <2>3 DEF Underline, n, s, e
  <2>4. CASE u = Underline(e, n, FALSE)
    BY <1>1, <2>1, <2>4 DEF Underline, n, s, e
  <2> QED
    BY <2>1, <2>2, <2>3, <2>4
<1>3. CASE c.clauses # NULL
  <2>1. c.clauses \in SUBSET (0..n)
    <3>1. IsDivision(c.clauses, n)
      BY <1>3, CompositionShape DEF n
    <3> QED
      BY <3>1 DEF IsDivision
  <2>2. PICK a, b : IsClause(c.clauses, a, b) /\ u = Underline(a, b, a >= s /\ b <= e)
    <3>1. u \in ClauseUnderlines(c.clauses, s, e)
      BY <1>3 DEF NodeFor, s, e
    <3> QED
      BY <3>1, ClauseUnderlinesAre
  <2>3. a \in 0..n /\ b \in 0..n /\ a < b
    BY <2>1, <2>2 DEF IsClause
  <2>4. u.from = a /\ u.to = b /\ (u.thick <=> a >= s /\ b <= e)
    BY <2>2 DEF Underline
  <2>5. u \in [from : 0..n, to : 0..n, thick : BOOLEAN]
    BY <2>2, <2>3 DEF Underline
  <2>6. a >= s <=> s <= a
    BY <1>1, <2>3
  <2> QED
    BY <2>3, <2>4, <2>5, <2>6 DEF n, s, e
<1> QED
  BY <1>2, <1>3

LEMMA NodeShape ==
  ASSUME NEW c \in Compositions
  PROVE  /\ NodeFor(c).length = c.length
         /\ NodeFor(c).target = TargetOf(c)
         /\ NodeFor(c) \in Nodes
<1>1. c.length \in Lengths /\ c.length \in Nat /\ c.length <= MaxLength
  BY CompositionShape, LengthIsPositive
<1>2. NodeFor(c).underlines \in SUBSET AllUnderlines
  <2>1. ASSUME NEW u \in NodeFor(c).underlines PROVE u \in AllUnderlines
    <3>1. u \in [from : 0..c.length, to : 0..c.length, thick : BOOLEAN]
      BY UnderlineShape
    <3>2. 0..c.length \subseteq 0..MaxLength
      BY <1>1, MaxLengthAssumption
    <3> QED
      BY <3>1, <3>2 DEF AllUnderlines
  <2> QED
    BY <2>1
<1>3. NodeFor(c).target \in SUBSET (0..MaxLength)
  <2>1. 0..(c.length - 1) \subseteq 0..MaxLength
    BY <1>1, MaxLengthAssumption
  <2> QED
    BY <2>1, CompositionShape DEF NodeFor
<1>4. NodeFor(c) = [length |-> c.length, underlines |-> NodeFor(c).underlines,
                    target |-> NodeFor(c).target]
  BY DEF NodeFor
<1>5. NodeFor(c).length = c.length /\ NodeFor(c).target = TargetOf(c)
  BY DEF NodeFor, TargetOf
<1> QED
  BY <1>1, <1>2, <1>3, <1>4, <1>5 DEF Nodes

(* Every variable keeps its type: in particular CEF is only given compositions
   with underlines inside the text (OnIMEComposition). *)
THEOREM TypeCorrect == Spec => []TypeOK
<1>1. Inv => TypeOK
  BY NodeShape DEF Inv, NodesFit, NodeKnown, TypeOK
<1> QED
  BY <1>1, ImeInvariance, PTL

(* Whatever attributes, clauses and cursor IMM sent, every character of CEF's
   composition is underlined exactly once (GetCompositionUnderlines). *)
THEOREM UnderlinesAreRight == Spec => []UnderlinesPartition
<1>1. ASSUME NEW c \in Compositions, NEW i \in 0..(c.length - 1)
      PROVE  Cardinality({u \in NodeFor(c).underlines : Covers(u, i)}) = 1
  <2>1. PICK u \in NodeFor(c).underlines :
          Covers(u, i) /\ \A w \in NodeFor(c).underlines : Covers(w, i) => w = u
    BY NodePartition
  <2>2. {w \in NodeFor(c).underlines : Covers(w, i)} = {u}
    BY <2>1
  <2> QED
    BY <2>2, FS_Singleton
<1>2. Inv => UnderlinesPartition
  <2> SUFFICES ASSUME Inv, node # NULL,
                      NEW i \in 0..(node.length - 1)
               PROVE  Cardinality({u \in node.underlines : Covers(u, i)}) = 1
    BY DEF UnderlinesPartition
  <2>1. PICK c \in Compositions : node = NodeFor(c)
    BY DEF Inv, NodeKnown
  <2>2. i \in 0..(c.length - 1)
    BY <2>1, NodeShape
  <2> QED
    BY <1>1, <2>1, <2>2
<1> QED
  BY <1>2, ImeInvariance, PTL

(* What is underlined thickly is the target the user converts, unless a clause
   of IMM's straddles its edge, for any target and clauses. *)
THEOREM ThickIsRight == Spec => []ThickIsTarget
<1>1. Inv => ThickIsTarget
  <2> SUFFICES ASSUME Inv, node # NULL PROVE ThickIsTarget
    BY DEF ThickIsTarget
  <2>1. PICK c \in Compositions : node = NodeFor(c)
    BY DEF Inv, NodeKnown
  <2> DEFINE n == c.length
             s == TargetStart(c)
             e == TargetEnd(c)
             F == FirstRun(TargetOf(c))
             thick == {i \in 0..(n - 1) : \E u \in node.underlines : u.thick /\ Covers(u, i)}
             straddles == \E u \in node.underlines :
                            \E i, j \in u.from..(u.to - 1) : i \in F /\ j \notin F
  <2>2. n \in Nat /\ s \in 0..n /\ e \in s..n /\ F \subseteq 0..(n - 1)
    BY CompositionShape, LengthIsPositive, TargetIsFirstRun
  <2>3. \A i \in 0..(n - 1) : i \in F <=> s <= i /\ i < e
    BY TargetIsFirstRun
  <2>4. \A u \in node.underlines :
          /\ u.from \in 0..n /\ u.to \in 0..n /\ u.from < u.to
          /\ u.thick <=> s <= u.from /\ u.to <= e
    BY <2>1, UnderlineShape
  <2>5. \A i \in 0..(n - 1) : \E u \in node.underlines : Covers(u, i)
    BY <2>1, NodePartition
  <2>6. ThickIsTarget <=> thick \subseteq F /\ (~straddles => thick = F)
    BY <2>1, NodeShape DEF ThickIsTarget
  <2> HIDE DEF n, s, e, F
  <2>7. ASSUME NEW i \in thick PROVE i \in F
    <3>1. PICK u \in node.underlines : u.thick /\ Covers(u, i)
      OBVIOUS
    <3>2. s <= i /\ i < e
      BY <2>2, <2>4, <2>7, <3>1 DEF Covers
    <3> QED
      BY <2>3, <3>2
  <2>8. ASSUME ~straddles, NEW i \in F PROVE i \in thick
    <3>1. i \in 0..(n - 1)
      BY <2>2
    <3>2. PICK u \in node.underlines : Covers(u, i)
      BY <2>5, <3>1
    <3>3. i \in u.from..(u.to - 1) /\ u.from \in u.from..(u.to - 1) /\ u.to - 1 \in u.from..(u.to - 1)
      BY <2>2, <2>4, <3>1, <3>2 DEF Covers
    <3>4. u.from \in F /\ u.to - 1 \in F
      BY <2>8, <3>3
    <3>5. s <= u.from /\ u.to - 1 < e
      BY <2>2, <2>3, <3>4
    <3>6. u.thick
      BY <2>2, <2>4, <3>5
    <3> QED
      BY <3>1, <3>2, <3>6
  <2> QED
    BY <2>6, <2>7, <2>8
<1> QED
  BY <1>1, ImeInvariance, PTL
=============================================================================
