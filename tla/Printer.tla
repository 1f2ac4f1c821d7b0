------------------------------- MODULE Printer -------------------------------
(* print.go: lines as the rows of a terminal.  A cell is a rune with the    *)
(* style of its token and the overlays that lie on it, in the order in      *)
(* which they are blended; a row begins with a gutter.  Colours, escape     *)
(* sequences and the gutter's text are left out.                            *)
EXTENDS Lines

Cell(rune, base, kinds) == [rune |-> rune, base |-> base, kinds |-> kinds]
RunesOf(cells) == [n \in DOMAIN cells |-> cells[n].rune]

\* Where a style may change inside some columns: at their ends and at the
\* ends of the overlays that reach into them.
StyleBoundaries(active, cols) ==
    {cols.start, cols.end}
      \cup {active[n].cols.start : n \in {m \in DOMAIN active : cols.start < active[m].cols.start /\ active[m].cols.start < cols.end}}
      \cup {active[n].cols.end : n \in {m \in DOMAIN active : cols.start < active[m].cols.end /\ active[m].cols.end < cols.end}}

\* The overlays at a column, one after the other.
KindsAtPoint(active, point) ==
    LET on == SelectSeq(active, LAMBDA o : SpanContains(o.cols, point))
    IN  [n \in DOMAIN on |-> on[n].kind]

\* Every stretch between two boundaries has the style of its first column.
StyleWithRanges(text, col, base, overlays) ==
    LET cols == NewSpan(col, col + Len(text))
        active == SelectSeq(overlays, LAMBDA o : Overlaps(o.cols, cols))
        from(c) == Max({b \in StyleBoundaries(active, cols) : b <= c})
    IN  [n \in DOMAIN text |-> Cell(text[n], base, KindsAtPoint(active, from(col + n - 1)))]

\* The leading spaces of a token are plain text when its value follows them.
SeparatorWidth(part) ==
    LET text == TrimNL(part.origin)
        n == LeadingCount(text, SP)
        starts == {i \in 1 .. Len(text) - Len(part.value) + 1 :
                     SubSeq(text, i, i + Len(part.value) - 1) = part.value}
        offset == IF starts = {} THEN 0 ELSE Min(starts) - 1
    IN  IF offset <= n THEN offset ELSE 0

RenderSegment(seg, col, overlays) ==
    LET text == TrimNL(seg.part.origin)
        n == SeparatorWidth(seg.part)
    IN  StyleWithRanges(SubSeq(text, 1, n), col, "text", overlays)
          \o StyleWithRanges(SubSeq(text, n + 1, Len(text)), col + n, seg.part.type, overlays)

RenderTokenLine(l) ==
    FlattenSeq([j \in DOMAIN l.segments |->
        RenderSegment(l.segments[j], ColOf(l.segments, j), l.overlays)])

\* lipgloss.Wrap of something whose runes are given: a row holds at most width
\* of them; it ends at the last space that fits, which is dropped, or where it
\* is full.
Wrap(s, runes, width) ==
    LET rows[i \in 1 .. Len(s) + 1] ==
          IF width <= 0 \/ Len(s) - i + 1 <= width THEN << SubSeq(s, i, Len(s)) >>
          ELSE LET breaks == {j \in i + 1 .. i + width : runes[j] = SP} IN
               IF breaks = {} THEN << SubSeq(s, i, i + width - 1) >> \o rows[i + width]
               ELSE << SubSeq(s, i, Max(breaks) - 1) >> \o rows[Max(breaks) + 1]
    IN  rows[1]

\* A changed line is cut into rows first, and each row is styled at the
\* column that the rows before it add up to.
WriteChanged(l, width) ==
    LET rows == Wrap(Content(l), Content(l), width)
        before(n) == FoldLeft(LAMBDA c, row : c + Len(row), 0, SubSeq(rows, 1, n - 1))
    IN  [n \in DOMAIN rows |-> StyleWithRanges(rows[n], before(n), l.flag, l.overlays)]

WriteLine(l, width) ==
    IF l.flag = "default" THEN Wrap(RenderTokenLine(l), RunesOf(RenderTokenLine(l)), width)
    ELSE WriteChanged(l, width)

TextRow(l, soft, cells) == [number |-> Number(l), soft |-> soft, flag |-> l.flag, cells |-> cells, notes |-> <<>>]

\* The annotations of a line on one side of it, as a single row.
AnnotationRows(l, position) ==
    LET on == {n \in DOMAIN l.annotations : l.annotations[n].position = position}
    IN  IF on = {} THEN <<>>
        ELSE << [number |-> Number(l), soft |-> FALSE, flag |-> "annotation", cells |-> <<>>,
                 notes |-> FlattenSeq([n \in DOMAIN l.annotations |->
                                          IF n \in on THEN l.annotations[n].content ELSE <<>>])] >>

RenderLine(l, width) ==
    LET rows == WriteLine(l, width)
    IN  AnnotationRows(l, "above")
          \o [n \in DOMAIN rows |-> TextRow(l, n > 1, rows[n])]
          \o AnnotationRows(l, "below")

\* The indices of the lines that AllLines yields for a span.
InSpan(lines, span) ==
    [n \in 1 .. Larger(0, Smaller(Len(lines), span.end) - Larger(0, span.start)) |->
        Larger(0, span.start) + n]

\* No spans stand for the whole.
SpansToPrint(lines, spans) == IF spans = <<>> THEN << NewSpan(0, Len(lines)) >> ELSE spans
=============================================================================
