------------------------------ MODULE Positions ------------------------------
(* Package position: spans of lines and columns, ranges of text, and the    *)
(* windows of lines that are cut out of a document around its errors.  All  *)
(* of it is pure; lines and columns are counted from 0 and ends are         *)
(* exclusive, as in the code.                                               *)
EXTENDS Integers, SequencesExt

CONSTANT MaxCol   \* the column that stands for the end of a line
ASSUME MaxColAssumption == MaxCol \in Nat \ {0}

Pos(line, col) == [line |-> line, col |-> col]
NewRange(start, end) == [start |-> start, end |-> end]
NewSpan(start, end) == [start |-> start, end |-> end]

Larger(a, b) == IF a > b THEN a ELSE b
Smaller(a, b) == IF a < b THEN a ELSE b

\* A token counts lines and columns from 1; column 0 marks a block scalar.
NewFromToken(tk) == Pos(Larger(0, tk.line - 1), Larger(0, tk.col - 1))

SpanContains(s, v) == s.start <= v /\ v < s.end
Overlaps(s, t) ==
    /\ s.start < s.end /\ t.start < t.end
    /\ s.start < t.end /\ t.start < s.end

\* One range for every line that r touches.
SliceLines(r) ==
    [n \in 1 .. (r.end.line - r.start.line + 1) |->
        LET l == r.start.line + n - 1 IN
        NewRange(Pos(l, IF l = r.start.line THEN r.start.col ELSE 0),
               Pos(l, IF l = r.end.line THEN r.end.col ELSE MaxCol))]

\* The lines that ranges cover, with repetitions, in the order of the ranges.
LineIndices(rs) ==
    FlattenSeq([i \in DOMAIN rs |->
        [n \in 1 .. (rs[i].end.line - rs[i].start.line + 1) |-> rs[i].start.line + n - 1]])

\* The ranges without repetitions, first occurrences in order.
UniqueValues(rs) ==
    FlattenSeq([n \in DOMAIN rs |-> IF \E m \in 1 .. n - 1 : rs[m] = rs[n] THEN <<>> ELSE <<rs[n]>>])

-----------------------------------------------------------------------------
(* Windows: group sorted lines, widen every group, cut at the ends.         *)

\* slices.Sort: the n-th value is the least that n of them do not exceed.
SortedValues(s) ==
    [n \in DOMAIN s |-> Min({v \in ToSet(s) : Cardinality({m \in DOMAIN s : s[m] <= v}) >= n})]

\* An index joins the last span when it is nearer to its end than the
\* threshold, and it begins a span of its own otherwise.
AddIndex(spans, i, threshold) ==
    IF spans # <<>> /\ i < Last(spans).end + threshold
    THEN Append(Front(spans), NewSpan(Last(spans).start, i + 1))
    ELSE Append(spans, NewSpan(i, i + 1))

Grouped(sorted, threshold) ==
    LET spans[n \in 0 .. Len(sorted)] ==
          IF n = 0 THEN <<>> ELSE AddIndex(spans[n - 1], sorted[n], threshold)
    IN  spans[Len(sorted)]

\* Windows that touch are kept apart.
GroupIndicesTouching(sorted, context) == Grouped(sorted, context * 2)

\* Windows that overlap or touch are one.
GroupIndices(sorted, context) == Grouped(sorted, context * 2 + 1)

Expand(spans, amount) ==
    [i \in DOMAIN spans |-> NewSpan(spans[i].start - amount, spans[i].end + amount)]

Clamp(spans, lower, upper) ==
    [i \in DOMAIN spans |-> NewSpan(Larger(spans[i].start, lower), Smaller(spans[i].end, upper))]
=============================================================================
