------------------------------ MODULE Viewport ------------------------------
(***************************************************************************)
(* yamlviewport.Model: revisions of a document, the diff of one of them     *)
(* with an earlier one, three ways to show it, a search over what is shown, *)
(* and highlights painted on the sources themselves.  All of it is derived  *)
(* state, renewed by rerender; the methods may be called in any order.      *)
(*                                                                          *)
(* Lines and rows count from 1, and a line takes one row of the screen.     *)
(* Horizontal scrolling is left out.                                        *)
(***************************************************************************)
EXTENDS Integers, Sequences, FiniteSets

CONSTANTS
    Texts,         \* of lines
    Sources,       \* documents, as sequences of texts
    Terms, NoTerm, \* what is searched for, and the empty string
    Contains,      \* Contains[t]: the texts the finder finds t in
    Script,        \* Script[<<a, b>>]: the operations of the diff of two documents
    Rows,          \* Rows[<<a, b>>]: its aligned rows, see DiffResult
    Blank,         \* the text of a placeholder
    Heights, Widths, Contexts,
    MaxRevisions   \* bound on the history

ASSUME ViewportAssumption ==
    /\ Sources \subseteq Seq(Texts) \ {<<>>} /\ Blank \notin Texts
    /\ NoTerm \notin Terms /\ Contains \in [Terms -> SUBSET Texts]
    /\ Heights \subseteq Nat /\ Widths \subseteq Nat /\ Contexts \subseteq Int
    /\ MaxRevisions \in Nat \ {0}

Kind == {"equal", "delete", "insert"}

\* The first k operations but for those of a kind, counted.
CountBut(kind, ops, k) == Cardinality({i \in 1 .. k : ops[i].kind # kind})

\* Each line of a and each of b has its one operation, in order; an operation has
\* the number of its line in a, if it deletes that line, and in b otherwise.
IsScript(ops, a, b) ==
    /\ ops \in Seq([kind : Kind, index : Nat])
    /\ CountBut("insert", ops, Len(ops)) = Len(a)
    /\ CountBut("delete", ops, Len(ops)) = Len(b)
    /\ \A k \in DOMAIN ops :
          /\ ops[k].kind = "delete" => ops[k].index = CountBut("insert", ops, k)
          /\ ops[k].kind # "delete" => ops[k].index = CountBut("delete", ops, k)
          /\ ops[k].kind = "equal" => a[CountBut("insert", ops, k)] = b[ops[k].index]

\* The two columns show each operation once, in order, and an unchanged line
\* beside itself.
IsAligned(before, after, ops) ==
    /\ {before, after} \subseteq Seq(0 .. Len(ops)) /\ Len(before) = Len(after)
    /\ \A i \in DOMAIN ops :
          /\ ops[i].kind # "insert" <=> \E k \in DOMAIN before : before[k] = i
          /\ ops[i].kind # "delete" <=> \E k \in DOMAIN after : after[k] = i
          /\ ops[i].kind = "equal" <=> \E k \in DOMAIN before : before[k] = i /\ after[k] = i
    /\ \A k, l \in DOMAIN before : k < l =>
          /\ before[k] # 0 /\ before[l] # 0 => before[k] < before[l]
          /\ after[k] # 0 /\ after[l] # 0 => after[k] < after[l]

\* What Hirschberg!EditScript says of operations, and DiffResult!PanesFaithful of
\* rows.
ASSUME ScriptAssumption ==
    \A a, b \in Sources :
        /\ IsScript(Script[<<a, b>>], a, b)
        /\ IsAligned(Rows[<<a, b>>].before, Rows[<<a, b>>].after, Script[<<a, b>>])

DiffModes == {"adjacent", "origin", "none"}
ViewModes == {"full", "hunks", "sideBySide"}

VARIABLES
    view,        \* what the calls ask for: revs, cur, diffMode, viewMode, term
    paint,       \* the overlays of each revision's source, line by line
    diffResult,
    left, right, \* the sources shown
    search,      \* searchMatches and searchIndex
    yOffset, height, width, hunkContext, wrapEnabled,
    printer      \* its width and word wrap; shared by copies of the model

vars == <<view, paint, diffResult, left, right, search, yOffset, height, width,
          hunkContext, wrapEnabled, printer>>

\* A source that is shown: that of a revision, or one of its own (rev 0).
Pane(rev, lines, marks) == [rev |-> rev, lines |-> lines, marks |-> marks]

Nil == Pane(-1, <<>>, <<>>)
NoDiff == [base |-> 0, after |-> 0, baseMarks |-> <<>>, afterMarks |-> <<>>]

Unmarked(s) == [k \in DOMAIN s |-> "none"]

Init ==
    /\ view = [revs |-> <<>>, cur |-> 0, diffMode |-> "adjacent", viewMode |-> "full",
               term |-> NoTerm]
    /\ paint = <<>>
    /\ diffResult = NoDiff
    /\ left = Nil /\ right = Nil
    /\ search = [matches |-> {}, index |-> -1]
    /\ yOffset = 0 /\ height = 0 /\ width = 0
    /\ hunkContext = 3
    /\ wrapEnabled = TRUE
    /\ printer = [width |-> 0, wrap |-> TRUE]

-----------------------------------------------------------------------------
(* What is shown of a view c whose sources have the overlays p.             *)

NeedsDiff(c) == c.cur > 1 /\ c.diffMode # "none"

\* getDiffBaseRevision.
Base(c) == IF c.diffMode = "origin" THEN 1 ELSE c.cur - 1

\* A diff copies the lines it compares, with the overlays they have.
FreshDiff(c, p) ==
    [base |-> Base(c), after |-> c.cur, baseMarks |-> p[Base(c)], afterMarks |-> p[c.cur]]

Ops(c, d) == Script[<<c.revs[d.base], c.revs[d.after]>>]

Layout(c, d) == Rows[<<c.revs[d.base], c.revs[d.after]>>]

FlagOf == [equal |-> "default", delete |-> "deleted", insert |-> "inserted"]

\* toLines; an unchanged line is that of the later source.
OpLine(c, d, op) ==
    [text |-> c.revs[IF op.kind = "delete" THEN d.base ELSE d.after][op.index],
     flag |-> FlagOf[op.kind]]

OpMark(d, op) == IF op.kind = "delete" THEN d.baseMarks[op.index] ELSE d.afterMarks[op.index]

Unified(c, d) ==
    LET ops == Ops(c, d)
    IN  Pane(0, [k \in DOMAIN ops |-> OpLine(c, d, ops[k])],
                [k \in DOMAIN ops |-> OpMark(d, ops[k])])

\* Before and After: cells are the operations on that side of the rows, or 0.
Side(c, d, cells) ==
    LET ops == Ops(c, d)
    IN  Pane(0, [k \in DOMAIN cells |-> IF cells[k] = 0 THEN [text |-> Blank, flag |-> "default"]
                                        ELSE OpLine(c, d, ops[cells[k]])],
                [k \in DOMAIN cells |-> IF cells[k] = 0 THEN "none" ELSE OpMark(d, ops[cells[k]])])

\* resolveRevisionSource, without a diff: the source itself, not a copy.
Whole(c) ==
    Pane(c.cur, [k \in DOMAIN c.revs[c.cur] |-> [text |-> c.revs[c.cur][k], flag |-> "default"]],
         Unmarked(c.revs[c.cur]))

-----------------------------------------------------------------------------
(* Searching.                                                              *)

Hits(c, pane) == {k \in DOMAIN pane.lines : pane.lines[k].text \in Contains[c.term]}

\* The search begun again.
SettledFirst(i, matches) == IF matches = {} THEN -1 ELSE 0

\* The index stays where it is as long as it is one.
Settled(i, matches) ==
    IF matches = {} THEN -1
    ELSE IF i >= Cardinality(matches) \/ i < 0 THEN 0
    ELSE i

NoMatches(s) == [matches |-> {}, index |-> s.index]

\* updateSearchState.
Searched(c, pane, s) ==
    LET matches == {[row |-> k, inLeft |-> FALSE] : k \in Hits(c, pane)}
    IN  IF c.term = NoTerm THEN NoMatches(s)
        ELSE [matches |-> matches, index |-> Settled(s.index, matches)]

\* Matches of both panes, without regard to unchanged lines.
CombinedAll(l, inLeft, inRight) ==
    {[row |-> k, inLeft |-> TRUE] : k \in inLeft} \cup {[row |-> k, inLeft |-> FALSE] : k \in inRight}

\* An unchanged line is in both panes and counts once.
Combined(l, inLeft, inRight) ==
    {[row |-> k, inLeft |-> TRUE] : k \in inLeft}
    \cup {[row |-> k, inLeft |-> FALSE] :
             k \in {j \in inRight : ~(j \in inLeft /\ l.lines[j].flag = "default")}}

\* updateSideBySideSearchState.
SearchedBoth(c, l, r, s) ==
    LET matches == Combined(l, Hits(c, l), Hits(c, r))
    IN  IF c.term = NoTerm THEN NoMatches(s)
        ELSE [matches |-> matches, index |-> Settled(s.index, matches)]

\* The order of the matches: by row, the left pane's first.
Precedes(m, n) == m.row < n.row \/ (m.row = n.row /\ m.inLeft /\ ~n.inLeft)

\* The match with as many before it as searchIndex says.
Current(s) == {m \in s.matches : Cardinality({n \in s.matches : Precedes(n, m)}) = s.index}

\* applySearchOverlays: the overlays of a source in one pane.
Overlaid(pane, s) ==
    LET current == {m.row : m \in Current(s)}
        rows == {m.row : m \in s.matches}
    IN  [k \in DOMAIN pane.lines |->
            IF k \in current THEN "current" ELSE IF k \in rows THEN "dim" ELSE "none"]

\* applySideBySidePaneOverlays.
PaneOverlaid(pane, hits, row, showSelected) ==
    [k \in DOMAIN pane.lines |->
        IF k \notin hits THEN "none" ELSE IF k = row /\ showSelected THEN "current" ELSE "dim"]

\* applySideBySideOverlays, for a term.  Its leftMatches and rightMatches are the
\* hits of the rerender that made the panes: neither term nor panes change since.
BothOverlaid(c, l, r, s) ==
    LET m == CHOOSE m \in Current(s) : TRUE
        isEqual == l.lines[m.row].flag = "default"
    IN  IF s.matches = {} THEN <<Unmarked(l.lines), Unmarked(r.lines)>>
        ELSE <<PaneOverlaid(l, Hits(c, l), m.row, m.inLeft \/ isEqual),
               PaneOverlaid(r, Hits(c, r), m.row, ~m.inLeft \/ isEqual)>>

-----------------------------------------------------------------------------
(* rerender: all derived state from a view c, the overlays p on its sources *)
(* and the search state s.                                                  *)

ShowPanes(c, d, p, s) ==
    LET l == Side(c, d, Layout(c, d).before)
        r == Side(c, d, Layout(c, d).after)
        found == SearchedBoth(c, l, r, s)
        marks == IF c.term = NoTerm THEN <<l.marks, r.marks>> ELSE BothOverlaid(c, l, r, found)
    IN  [left |-> [l EXCEPT !.marks = marks[1]], right |-> [r EXCEPT !.marks = marks[2]],
         search |-> found, paint |-> p]

\* A copy has its overlays to itself, a revision's source keeps them.
ShowOne(c, pane, p, s) ==
    LET found == Searched(c, pane, s)
        marks == Overlaid(pane, found)
    IN  IF pane.rev = 0
        THEN [left |-> [pane EXCEPT !.marks = marks], right |-> Nil, search |-> found, paint |-> p]
        ELSE [left |-> pane, right |-> Nil, search |-> found,
              paint |-> [p EXCEPT ![pane.rev] = marks]]

\* Without a revision the search is left as it was.
ShowNothing(p, s) == [left |-> Nil, right |-> Nil, search |-> s, paint |-> p]

Shown(c, p, s) ==
    CASE c.cur = 0 -> ShowNothing(p, s)
      [] c.cur # 0 /\ ~NeedsDiff(c) -> ShowOne(c, Whole(c), p, s)
      [] NeedsDiff(c) /\ c.viewMode = "sideBySide" -> ShowPanes(c, FreshDiff(c, p), p, s)
      [] OTHER -> ShowOne(c, Unified(c, FreshDiff(c, p)), p, s)

Rerender(c, p, s) ==
    LET shown == Shown(c, p, s)
    IN  /\ view' = c
        /\ diffResult' = IF NeedsDiff(c) THEN FreshDiff(c, p) ELSE NoDiff
        /\ left' = shown.left /\ right' = shown.right
        /\ search' = shown.search
        /\ paint' = shown.paint

-----------------------------------------------------------------------------
(* Scrolling.                                                              *)

AtLeast0(n) == IF n < 0 THEN 0 ELSE n

MaxYOffset == AtLeast0(Len(left.lines) - height)

\* SetYOffset with the lower bound forgotten.
ClampedAbove(n, max) == IF n > max THEN max ELSE n

\* SetYOffset.
Clamped(n, max) == IF n > max THEN max ELSE AtLeast0(n)

\* Centring by the whole height.
HalfWhole == height

\* Half the height, rounded to the middle.
Half == AtLeast0(height - 1) \div 2

\* scrollToCurrentMatch; a search without a current match does not scroll.
ScrollToMatch ==
    yOffset' = IF Current(search') = {} THEN yOffset
               ELSE Clamped((CHOOSE m \in Current(search') : TRUE).row - 1 - Half, MaxYOffset')

Others == <<height, width, hunkContext, wrapEnabled, printer>>

SetYOffset(n) ==
    /\ yOffset' = Clamped(n, MaxYOffset)
    /\ UNCHANGED <<view, paint, diffResult, left, right, search, Others>>

\* ScrollDown and PageDown, which stop at the bottom or below it.
ScrollDown(n) ==
    /\ left # Nil /\ left.lines # <<>>
    /\ yOffset < MaxYOffset
    /\ n # 0
    /\ SetYOffset(yOffset + n)

ScrollUp(n) ==
    /\ left # Nil /\ left.lines # <<>>
    /\ yOffset > 0
    /\ n # 0
    /\ SetYOffset(yOffset - n)

\* GotoTop, GotoBottom, and what a caller asks for.
Goto ==
    \E n \in {-1, 1, MaxYOffset + 1} : SetYOffset(n)

SetHeight(h) ==
    /\ height' = h
    /\ UNCHANGED <<view, paint, diffResult, left, right, search, yOffset, width, hunkContext,
                   wrapEnabled, printer>>

-----------------------------------------------------------------------------
(* Revisions and modes.                                                    *)

\* A revision added without a look at the offset.
AddRevisionUnclamped(s) ==
    /\ Len(view.revs) < MaxRevisions
    /\ Rerender([view EXCEPT !.revs = Append(view.revs, s), !.cur = Len(view.revs) + 1],
                Append(paint, Unmarked(s)), search)
    /\ UNCHANGED <<yOffset, Others>>

\* The new revision goes to the end, whatever is shown.
AddRevision(s) ==
    /\ Len(view.revs) < MaxRevisions
    /\ Rerender([view EXCEPT !.revs = Append(view.revs, s), !.cur = Len(view.revs) + 1],
                Append(paint, Unmarked(s)), search)
    /\ UNCHANGED Others
    /\ yOffset' = Clamped(yOffset, MaxYOffset')

ClearRevisions ==
    /\ Rerender([view EXCEPT !.revs = <<>>, !.cur = 0], <<>>, search)
    /\ UNCHANGED <<yOffset, Others>>

\* ClearRevisions, then AddRevision.
SetTokens(s) ==
    /\ Rerender([view EXCEPT !.revs = <<s>>, !.cur = 1], <<Unmarked(s)>>, search)
    /\ UNCHANGED Others
    /\ yOffset' = Clamped(yOffset, MaxYOffset')

\* GoToRevision, NextRevision and PrevRevision.
GoToRevision(i) ==
    /\ i \in DOMAIN view.revs
    /\ Rerender([view EXCEPT !.cur = i], paint, search)
    /\ yOffset' = 0
    /\ UNCHANGED Others

\* A mode set without a rerender.
SetDiffModeOnly(m) ==
    /\ view' = [view EXCEPT !.diffMode = m]
    /\ UNCHANGED <<paint, diffResult, left, right, search, yOffset, Others>>

\* SetDiffMode and ToggleDiffMode.
SetDiffMode(m) ==
    /\ Rerender([view EXCEPT !.diffMode = m], paint, search)
    /\ UNCHANGED <<yOffset, Others>>

\* SetViewMode and ToggleViewMode.
SetViewMode(m) ==
    /\ Rerender([view EXCEPT !.viewMode = m], paint, search)
    /\ UNCHANGED <<yOffset, Others>>

SetHunkContext(n) ==
    /\ hunkContext' = AtLeast0(n)
    /\ UNCHANGED <<view, paint, diffResult, left, right, search, yOffset, height, width,
                   wrapEnabled, printer>>

-----------------------------------------------------------------------------
(* Search calls.                                                           *)

SetSearchTerm(t) ==
    /\ Rerender([view EXCEPT !.term = t], paint, search)
    /\ UNCHANGED Others
    /\ ScrollToMatch

ClearSearch ==
    /\ Rerender([view EXCEPT !.term = NoTerm], paint,
                [search EXCEPT !.matches = {}, !.index = -1])
    /\ UNCHANGED <<yOffset, Others>>

\* The index moved, the highlights not.
NavigateUnpainted(delta) ==
    /\ search.matches # {}
    /\ LET n == Cardinality(search.matches)
       IN  search' = [search EXCEPT !.index = (search.index + delta + n) % n]
    /\ UNCHANGED <<view, diffResult, left, right, paint, Others>>
    /\ ScrollToMatch

\* SearchNext and SearchPrevious.
Navigate(delta) ==
    /\ search.matches # {}
    /\ LET n == Cardinality(search.matches)
       IN  search' = [search EXCEPT !.index = (search.index + delta + n) % n]
    /\ IF view.viewMode = "sideBySide" /\ right # Nil
       THEN LET marks == BothOverlaid(view, left, right, search')
            IN  /\ left' = [left EXCEPT !.marks = marks[1]]
                /\ right' = [right EXCEPT !.marks = marks[2]]
                /\ UNCHANGED paint
       ELSE /\ left' = IF left.rev = 0 THEN [left EXCEPT !.marks = Overlaid(left, search')] ELSE left
            /\ paint' = IF left.rev > 0 THEN [paint EXCEPT ![left.rev] = Overlaid(left, search')]
                        ELSE paint
            /\ UNCHANGED right
    /\ UNCHANGED <<view, diffResult, Others>>
    /\ ScrollToMatch

-----------------------------------------------------------------------------
(* The printer.                                                            *)

\* The width of the model and, if it is another, of the printer.
Widen(w) ==
    /\ width' = w
    /\ printer' = IF w = width THEN printer ELSE [printer EXCEPT !.width = w]
    /\ IF wrapEnabled /\ w # width
       THEN Rerender(view, paint, search)
       ELSE UNCHANGED <<view, paint, diffResult, left, right, search>>

SetWidth(w) ==
    /\ Widen(w)
    /\ UNCHANGED <<yOffset, height, hunkContext, wrapEnabled>>

\* A new printer, which wraps until told not to.
SetPrinter ==
    /\ printer' = [width |-> width, wrap |-> TRUE]
    /\ Rerender(view, paint, search)
    /\ UNCHANGED <<yOffset, height, width, hunkContext, wrapEnabled>>

ToggleWordWrap ==
    /\ wrapEnabled' = ~wrapEnabled
    /\ printer' = [printer EXCEPT !.wrap = ~wrapEnabled]
    /\ Rerender(view, paint, search)
    /\ UNCHANGED <<yOffset, height, width, hunkContext>>

SeparatorWidth == 3
PaneWidth == (width - SeparatorWidth) \div 2

\* View: two panes are printed by the one printer, at the width of a pane.
View ==
    /\ view.viewMode = "sideBySide"
    /\ width > 0 /\ height > 0
    /\ left # Nil
    /\ PaneWidth >= 1
    /\ yOffset < Len(left.lines)
    /\ printer' = [width |-> PaneWidth, wrap |-> wrapEnabled]
    /\ UNCHANGED <<view, paint, diffResult, left, right, search, yOffset, height, width,
                   hunkContext, wrapEnabled>>

HunksShown == view.viewMode = "hunks" /\ NeedsDiff(view)

\* The sources that View prints.  Hunks are printed from a copy of the cached diff
\* made for the purpose, with the overlays its lines had when it was computed:
\* those of the search are on left, which is not printed.
Printed ==
    IF HunksShown THEN {Unified(view, diffResult)}
    ELSE IF right = Nil THEN {left} ELSE {left, right}

Marks(pane) == IF pane.rev > 0 THEN paint[pane.rev] ELSE pane.marks

\* The operations in hunks: see SpansExact of DiffResult.
InHunks ==
    LET ops == Ops(view, diffResult)
    IN  {k \in DOMAIN ops : \E j \in DOMAIN ops :
            ops[j].kind # "equal" /\ j - hunkContext <= k /\ k <= j + hunkContext}

\* The row of a line in a hunk, whose header has one of its own.
HunkRow(k) ==
    LET above == {i \in InHunks : i <= k}
    IN  Cardinality(above) + Cardinality({i \in above : i - 1 \notin InHunks})

\* The lines printed that fit the screen.  The hunks view begins at the top
\* whatever the offset, also where there is no diff and it has all lines.  A diff
\* without a change has no hunks and leaves the screen blank.
Window ==
    IF HunksShown THEN {k \in InHunks : HunkRow(k) <= height}
    ELSE IF view.viewMode = "hunks" THEN {k \in DOMAIN left.lines : k <= height}
    ELSE {k \in DOMAIN left.lines : yOffset < k /\ k <= yOffset + height}

\* The calls that choose what is shown, and scroll and search in it.
Browse ==
    \/ \E s \in Sources : AddRevision(s) \/ SetTokens(s)
    \/ ClearRevisions
    \/ \E i \in 1 .. MaxRevisions : GoToRevision(i)
    \/ \E m \in DiffModes : SetDiffMode(m)
    \/ \E m \in ViewModes : SetViewMode(m)
    \/ \E n \in Contexts : SetHunkContext(n)
    \/ \E t \in Terms : SetSearchTerm(t)
    \/ ClearSearch
    \/ Navigate(1) \/ Navigate(-1)
    \/ \E n \in {1, height, height \div 2} : ScrollDown(n) \/ ScrollUp(n)
    \/ Goto
    \/ \E h \in Heights : SetHeight(h)

\* The calls that set up the printer, and those that use it.
Printing ==
    \/ \E w \in Widths : SetWidth(w)
    \/ SetPrinter
    \/ ToggleWordWrap
    \/ View

Next == Browse \/ Printing

Spec == Init /\ [][Next]_vars

BrowseSpec == Init /\ [][Browse]_vars

-----------------------------------------------------------------------------
(* Properties.                                                             *)

Mark == {"none", "dim", "current"}
Match == [row : Nat \ {0}, inLeft : BOOLEAN]

Choice == [revs : Seq(Sources), cur : Nat, diffMode : DiffModes, viewMode : ViewModes,
           term : Terms \cup {NoTerm}]

TypeOK ==
    /\ view \in Choice /\ Len(view.revs) <= MaxRevisions
    /\ view.cur \in IF view.revs = <<>> THEN {0} ELSE DOMAIN view.revs
    /\ DOMAIN paint = DOMAIN view.revs
    /\ \A i \in DOMAIN paint : paint[i] \in [DOMAIN view.revs[i] -> Mark]
    /\ search \in [matches : SUBSET Match, index : Int]
    /\ yOffset \in Nat /\ height \in Nat /\ width \in Nat /\ hunkContext \in Nat
    /\ wrapEnabled \in BOOLEAN
    /\ printer \in [width : Nat, wrap : BOOLEAN]

\* The lines of a pane but for those with a flag, and placeholders, are those of
\* a source, in order.
Reads(pane, flag, source) ==
    LET kept == {k \in DOMAIN pane.lines : pane.lines[k].flag # flag /\ pane.lines[k].text # Blank}
    IN  /\ Cardinality(kept) = Len(source)
        /\ \A k \in kept : pane.lines[k].text = source[Cardinality({j \in kept : j <= k})]

\* What is shown is the revision the history points to and, if a diff is asked
\* for, the one it is to be compared with: no call leaves an earlier answer on
\* the screen or in the cache.
ShowsRevisions ==
    /\ left = Nil <=> view.cur = 0
    /\ view.cur # 0 => Reads(IF right = Nil THEN left ELSE right, "deleted", view.revs[view.cur])
    /\ NeedsDiff(view) =>
          /\ Reads(left, "inserted", view.revs[Base(view)])
          /\ <<diffResult.base, diffResult.after>> = <<Base(view), view.cur>>
          /\ right # Nil <=> view.viewMode = "sideBySide"
    /\ ~NeedsDiff(view) => diffResult = NoDiff /\ right = Nil

\* The texts a search goes through: those of the source, or of the operations.
Searchable ==
    IF ~NeedsDiff(view) THEN view.revs[view.cur]
    ELSE LET ops == Ops(view, FreshDiff(view, paint))
         IN  [k \in DOMAIN ops |-> OpLine(view, FreshDiff(view, paint), ops[k]).text]

\* There is a match for each line of the document or the diff with the term,
\* one for an unchanged line in two panes, and the index is that of a match.
SearchCurrent ==
    view.cur # 0 =>
        /\ Cardinality(search.matches) =
              IF view.term = NoTerm THEN 0
              ELSE Cardinality({k \in DOMAIN Searchable : Searchable[k] \in Contains[view.term]})
        /\ search.index \in IF search.matches = {} THEN {-1}
                            ELSE 0 .. Cardinality(search.matches) - 1

\* What a search highlights of the sources shown: the lines with the term, and
\* as current the match the index counts up to, in both panes if the line is
\* unchanged and in the one it is in otherwise.
SearchHighlighted(panes) ==
    LET rows == {k \in DOMAIN left.lines : \E pane \in panes : Marks(pane)[k] = "current"}
    IN  /\ \A pane \in panes : \A k \in DOMAIN pane.lines :
              Marks(pane)[k] # "none" <=>
                  view.term # NoTerm /\ pane.lines[k].text \in Contains[view.term]
        /\ Cardinality(rows) = IF search.matches = {} THEN 0 ELSE 1
        /\ \A m \in Current(search) :
              Marks(IF m.inLeft \/ right = Nil THEN left ELSE right)[m.row] = "current"
        /\ \A k \in rows : right # Nil =>
              (Marks(left)[k] = "current" /\ Marks(right)[k] = "current"
               <=> Marks(left)[k] # "none" /\ left.lines[k].flag = "default")

\* What View prints is highlighted as the search of now wants it.  There are two
\* exceptions.  Once a search is cleared this is so without two panes only: panes
\* are copies, and keep the highlights of what they copy.  And a search never
\* highlights the hunks of a diff: their lines have the highlights that the two
\* revisions were left with when each was last shown by itself.
HighlightsRight ==
    view.cur # 0 =>
        /\ ~HunksShown /\ (right = Nil \/ view.term # NoTerm) => SearchHighlighted(Printed)
        /\ HunksShown => \A pane \in Printed : pane.marks = Unified(view, FreshDiff(view, paint)).marks

Searches == (\E t \in Terms : SetSearchTerm(t)) \/ Navigate(1) \/ Navigate(-1)

\* A search call leaves its match among the lines on the screen, if that has a row.
\* The hunks view is excepted: the calls set the offset, to which it pays no
\* attention, and its hunks may leave the match out.
MatchVisible ==
    [][\/ left' # Nil /\ height > 0 /\ view'.viewMode # "hunks" =>
             \A m \in Current(search') : m.row \in Window'
       \/ ~Searches]_vars

\* Another revision, or a new one, is never shown from below its end.
LandsInside ==
    [][view'.cur # view.cur /\ view'.cur # 0 => yOffset' <= MaxYOffset']_vars

\* Showing everything again, as a resize, another printer or the word-wrap
\* toggle does, shows nothing new: what SearchNext has changed by itself is what
\* rerender arrives at, and no highlight, match or index is lost.
RedrawStable ==
    Shown(view, paint, search) = [left |-> left, right |-> right, search |-> search, paint |-> paint]
=============================================================================
