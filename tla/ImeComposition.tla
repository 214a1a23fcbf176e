--------------------------- MODULE ImeComposition ---------------------------
(***************************************************************************)
(* The input method editor in front of a windowless browser: SWebView      *)
(* (webview.cc) and OsrImeHandlerWin (osr_ime_handler_win.cc) turn the     *)
(* messages of Windows' input method manager (IMM) into a composition of   *)
(* CEF's, with underlines, and put the IMM's candidate                     *)
(* window next to the character CEF says it belongs to.                    *)
(*                                                                         *)
(* IMM and CEF are external.  A text is known by its length, the place of  *)
(* the candidate window by the index of the character rectangle it is      *)
(* taken from.  Left out: is_composing_, which only functions nobody calls *)
(* read, and the system caret, which is made for an input language nobody  *)
(* ever sets (SetInputLanguage has no caller).                             *)
(*                                                                         *)
(* The view composes in the browser its handler has stored, m_refBrowser.  *)
(* Every browser that arrives is stored over the one before, DevTools and  *)
(* a second Open's browser included, in the middle of a composition too.   *)
(***************************************************************************)
EXTENDS Integers, FiniteSets, FiniteSetsExt

CONSTANTS
  Browsers,   \* the browsers that arrive at the view's handler, DevTools included
  MaxLength,  \* the longest composition (a bound)
  NULL        \* no browser, no node, no part of a message

ASSUME BrowsersAssumption == NULL \notin Browsers
ASSUME MaxLengthAssumption == MaxLength \in Nat \ {0}

VARIABLES
  live,                    \* CEF: the browsers that have arrived and not gone
  m_refBrowser,            \* SWebViewHandler::m_refBrowser
  ime_handler_,            \* SWebView::ime_handler_ is not null
  cursor_index_,           \* OsrImeHandlerWin::cursor_index_
  composition_range_from,  \* OsrImeHandlerWin::composition_range_.from
  composition_bounds_,     \* how many rectangles composition_bounds_ has
  candidate,               \* IMM: the rectangle the candidate window is at
  imm_composing,           \* IMM: between start and end of a composition
  node,                    \* CEF: the composition m_refBrowser's page has, or NULL
  node_in,                 \* CEF: the browsers whose page has a composition
  replaced                 \* history: browsers that lost their place while they had a node

handlerVars == <<cursor_index_, composition_range_from, composition_bounds_, candidate>>
browserVars == <<live, m_refBrowser, replaced>>
nodeVars == <<node, node_in>>
vars == <<live, m_refBrowser, ime_handler_, cursor_index_, composition_range_from,
          composition_bounds_, candidate, imm_composing, node, node_in, replaced>>

NoCandidate == [index |-> 0, of |-> 1]

Lengths == 1..MaxLength

Underline(from, to, thick) == [from |-> from, to |-> to, thick |-> thick]

AllUnderlines == [from : 0..MaxLength, to : 0..MaxLength, thick : BOOLEAN]

Nodes ==
  [length : Lengths, underlines : SUBSET AllUnderlines, target : SUBSET (0..MaxLength)]

TypeOK ==
  /\ live \subseteq Browsers /\ m_refBrowser \in live \cup {NULL} /\ replaced \subseteq node_in
  /\ ime_handler_ \in BOOLEAN /\ imm_composing \in BOOLEAN
  /\ cursor_index_ \in Int
  /\ composition_range_from \in Nat /\ composition_bounds_ \in Nat
  /\ candidate \in [index : Int, of : Nat]
  /\ node_in \subseteq live
  /\ node \in {NULL} \cup Nodes

(* OnCreate makes the handler; browsers come later. *)
Init ==
  /\ live = {} /\ m_refBrowser = NULL /\ ime_handler_ = TRUE
  /\ cursor_index_ = -1
  /\ composition_range_from = 0 /\ composition_bounds_ = 0
  /\ candidate = NoCandidate
  /\ imm_composing = FALSE
  /\ node = NULL /\ node_in = {} /\ replaced = {}

-----------------------------------------------------------------------------
(* The data of a WM_IME_COMPOSITION message.                                *)

(* What IMM has to say about a composition of a given length: which of its
   characters are marked as the target of a conversion, where its clauses
   begin and end, and where the cursor is.  A message need not bring all of
   it; NULL stands for a part it does not bring. *)
Compositions ==
  UNION {[length : {n},
          target : {NULL} \cup SUBSET (0..(n - 1)),
          clauses : {NULL} \cup {{0, n} \cup inner : inner \in SUBSET (1..(n - 1))},
          cursor : {NULL} \cup 0..n] : n \in Lengths}

(* GetCompositionSelectionRange: the first run of target characters, or the
   end of the text. *)
TargetStart(c) ==
  IF c.target = NULL THEN c.length ELSE Min(c.target \cup {c.length})

TargetEnd_LastTarget(c) ==
  IF c.target = NULL \/ c.target = {} THEN c.length ELSE Max(c.target) + 1

TargetEnd(c) ==
  IF c.target = NULL THEN c.length
  ELSE Min({i \in TargetStart(c)..c.length : i \notin c.target})

(* GetCompositionUnderlines: one underline to each clause. *)
ClauseUnderlines(clauses, start, end) ==
  LET clause == {p \in clauses \X clauses :
                   p[1] < p[2] /\ ~\E k \in clauses : p[1] < k /\ k < p[2]}
  IN {Underline(p[1], p[2], p[1] >= start /\ p[2] <= end) : p \in clause}

DefaultUnderlines_TargetToEnd(length, start, end) ==
  {u \in {Underline(0, start, FALSE), Underline(start, length, TRUE), Underline(end, length, FALSE)} :
     u.from < u.to}

(* The default: before, in and behind the target. *)
DefaultUnderlines(length, start, end) ==
  {u \in {Underline(0, start, FALSE), Underline(start, end, TRUE), Underline(end, length, FALSE)} :
     u.from < u.to}

(* GetCompositionInfo: the cursor, from which OnIMEComposition makes the caret
   (and the selection, which nothing here reads), and the underlines. *)
CompositionStart(c) == IF c.cursor = NULL THEN 0 ELSE c.cursor

NodeFor(c) ==
  [length |-> c.length,
   underlines |-> IF c.clauses = NULL
                  THEN DefaultUnderlines(c.length, TargetStart(c), TargetEnd(c))
                  ELSE ClauseUnderlines(c.clauses, TargetStart(c), TargetEnd(c)),
   target |-> IF c.target = NULL THEN {} ELSE c.target]

-----------------------------------------------------------------------------

BoundsIndex_AlwaysRelative(cursor, from) ==
  (IF cursor = -1 THEN from ELSE cursor) - from

(* MoveImeWindow: the rectangle of the character at the cursor, counted from
   the start of CEF's range where the cursor lies behind it; -1 stands for
   that start.  Without the focus, or without a rectangle, nothing moves. *)
BoundsIndex(cursor, from) ==
  LET location == IF cursor = -1 THEN from ELSE cursor
  IN IF location >= from THEN location - from ELSE location

MoveImeWindow(cursor, from, bounds) ==
  \/ /\ BoundsIndex(cursor, from) < bounds
     /\ candidate' = [index |-> BoundsIndex(cursor, from), of |-> bounds]
  \/ UNCHANGED candidate

UpdateCaretPosition(index) ==
  /\ cursor_index_' = index
  /\ MoveImeWindow(index, composition_range_from, composition_bounds_)

ChangeCompositionRange(from, bounds) ==
  /\ composition_range_from' = from
  /\ composition_bounds_' = bounds
  /\ MoveImeWindow(cursor_index_, from, bounds)

ResetComposition == cursor_index_' = -1

OnIMESetContext ==
  /\ IF ime_handler_
     THEN MoveImeWindow(cursor_index_, composition_range_from, composition_bounds_)
     ELSE UNCHANGED candidate
  /\ UNCHANGED <<browserVars, ime_handler_, cursor_index_, composition_range_from,
                 composition_bounds_, imm_composing, nodeVars>>

(* The window is moved before the cursor is reset. *)
OnIMEStartComposition ==
  /\ ~imm_composing
  /\ imm_composing' = TRUE
  /\ IF ime_handler_
     THEN /\ MoveImeWindow(cursor_index_, composition_range_from, composition_bounds_)
          /\ ResetComposition
     ELSE UNCHANGED <<candidate, cursor_index_>>
  /\ UNCHANGED <<browserVars, ime_handler_, composition_range_from, composition_bounds_, nodeVars>>

(* A message with a composition string, after a result string or not: the
   result, if any, is committed first, then the composition is set anew. *)
OnIMEComposition(c) ==
  /\ imm_composing
  /\ IF m_refBrowser # NULL /\ ime_handler_
     THEN /\ node' = NodeFor(c)
          /\ node_in' = node_in \cup {m_refBrowser}
          /\ UpdateCaretPosition(CompositionStart(c) - 1)
     ELSE UNCHANGED <<nodeVars, cursor_index_, candidate>>
  /\ UNCHANGED <<browserVars, ime_handler_, composition_range_from, composition_bounds_,
                 imm_composing>>

(* OnIMECancelCompositionEvent. *)
CancelComposition ==
  /\ IF m_refBrowser # NULL /\ ime_handler_
     THEN /\ node' = NULL
          /\ node_in' = node_in \ {m_refBrowser}
          /\ ResetComposition
     ELSE UNCHANGED <<nodeVars, cursor_index_>>
  /\ UNCHANGED <<browserVars, ime_handler_, composition_range_from, composition_bounds_, candidate>>

(* A message without a composition string: its result, if any, is committed,
   and what is left of the composition is cancelled. *)
OnIMEResult ==
  /\ CancelComposition
  /\ UNCHANGED imm_composing

OnIMEEndComposition_WithoutCancel ==
  /\ imm_composing
  /\ imm_composing' = FALSE
  /\ UNCHANGED <<browserVars, ime_handler_, handlerVars, nodeVars>>

OnIMEEndComposition ==
  /\ imm_composing
  /\ imm_composing' = FALSE
  /\ CancelComposition

(* CEF reports the range of the composition and the rectangle of each of its
   characters (OnImeCompositionRangeChanged, ChangeCompositionRange); the view
   does not ask of which browser. *)
OnImeCompositionRangeChanged(from, bounds) ==
  /\ live # {}
  /\ IF ime_handler_
     THEN ChangeCompositionRange(from, bounds)
     ELSE UNCHANGED <<composition_range_from, composition_bounds_, candidate>>
  /\ UNCHANGED <<browserVars, ime_handler_, cursor_index_, imm_composing, nodeVars>>

(* Any browser is stored as it arrives, over one that is there already. *)
OnAfterCreated(b) ==
  /\ b \notin live
  /\ live' = live \cup {b}
  /\ m_refBrowser' = b
  /\ replaced' = replaced \cup (node_in \cap {m_refBrowser})
  /\ node' = NULL
  /\ UNCHANGED <<ime_handler_, handlerVars, imm_composing, node_in>>

(* A browser goes with its composition node; the stored one is cleared only if
   it is the one that goes. *)
OnBeforeClose(b) ==
  /\ b \in live
  /\ live' = live \ {b}
  /\ IF m_refBrowser = b
     THEN m_refBrowser' = NULL /\ node' = NULL
     ELSE UNCHANGED <<m_refBrowser, node>>
  /\ node_in' = node_in \ {b}
  /\ replaced' = replaced \ {b}
  /\ UNCHANGED <<ime_handler_, handlerVars, imm_composing>>

(* The widget's window is destroyed, and its IME handler with it. *)
OnDestroy ==
  /\ ime_handler_
  /\ ime_handler_' = FALSE
  /\ UNCHANGED <<browserVars, handlerVars, imm_composing, nodeVars>>

Next ==
  \/ OnIMESetContext \/ OnIMEStartComposition
  \/ \E c \in Compositions : OnIMEComposition(c)
  \/ OnIMEResult \/ OnIMEEndComposition
  \/ \E from, bounds \in 0..MaxLength : OnImeCompositionRangeChanged(from, bounds)
  \/ \E b \in Browsers : OnAfterCreated(b) \/ OnBeforeClose(b)
  \/ OnDestroy

Spec == Init /\ [][Next]_vars

-----------------------------------------------------------------------------

Covers(u, i) == u.from <= i /\ i < u.to

(* Every character of a composition is underlined exactly once, whichever of
   the attributes, clauses and cursor the message brought. *)
UnderlinesPartition ==
  node # NULL =>
    \A i \in 0..(node.length - 1) :
      Cardinality({u \in node.underlines : Covers(u, i)}) = 1

(* The first run of target characters, without the loops that look for it. *)
FirstRun(target) ==
  {i \in target : \A j \in target : j < i => j..i \subseteq target}

(* Only characters of the first run of the target are underlined thickly,
   and all of them are unless a clause straddles its edge. *)
ThickIsTarget ==
  node # NULL =>
    LET thick == {i \in 0..(node.length - 1) : \E u \in node.underlines : u.thick /\ Covers(u, i)}
        straddles == \E u \in node.underlines :
                       \E i, j \in u.from..(u.to - 1) :
                         i \in FirstRun(node.target) /\ j \notin FirstRun(node.target)
    IN /\ thick \subseteq FirstRun(node.target)
       /\ ~straddles => thick = FirstRun(node.target)

(* The candidate window is only ever put at a rectangle that exists, with
   the range of one composition and the cursor of the next in any order. *)
CandidateInBounds == 0 <= candidate.index /\ candidate.index < candidate.of

(* When IMM has ended its composition, no page has a composition node left but
   one whose browser had it when another browser took its place in the handler
   (DevTools too): the cancellation goes to the other one.  Results, ranges that
   arrive late, browsers that go, and browsers that arrive before the
   composition or after it leave nothing behind. *)
NodeEndsWithImm == ~imm_composing /\ ime_handler_ => node_in \subseteq replaced
=============================================================================
