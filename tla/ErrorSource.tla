----------------------------- MODULE ErrorSource -----------------------------
(* error.go: how an error finds its place in a source and marks it.  The    *)
(* target of an error is the token that its path or its option resolved to, *)
(* by its place; an empty value has a place without any text.               *)
EXTENDS Printer

\* Where the main error is marked: all of its token.
MainPosition(lines, tks, main) ==
    IF main = 0 \/ NewFromToken(tks[main]).line >= Len(lines) THEN <<>>
    ELSE << [pos |-> NewFromToken(tks[main]), messages |-> <<>>,
             ranges |-> ContentPositionRanges(lines, TokenPositions(lines, main))] >>

\* Where nested error m is marked; it is passed over behind the last line.  One
\* that resolves to no token, or all of them when the source does not parse, the
\* code drops at this point; the list nested has only those that resolve.
NestedPosition(lines, target, m) ==
    LET pos == NewFromToken(target) IN
    IF pos.line >= Len(lines) THEN <<>>
    ELSE << [pos |-> pos, messages |-> <<m>>, ranges |-> ContentPositionRanges(lines, <<pos>>)] >>

CollectPositions(lines, tks, main, nested) ==
    MainPosition(lines, tks, main)
      \o FlattenSeq([m \in DOMAIN nested |-> NestedPosition(lines, nested[m], m)])

AllRanges(positions) == FlattenSeq([n \in DOMAIN positions |-> positions[n].ranges])

\* The errors that have something to say about line i.
OnLine(positions, i) ==
    {n \in DOMAIN positions : positions[n].messages # <<>> /\ positions[n].pos.line = i - 1}

\* The last error of a line takes the annotation.
PrepareLineAnnotationLast(positions, i) ==
    LET on == OnLine(positions, i)
    IN  [content |-> IF on = {} THEN <<>> ELSE positions[Max(on)].messages, position |-> "below", col |-> 0]

\* The messages of a line in one annotation below it, at the first column.
PrepareLineAnnotation(positions, i) ==
    LET on == OnLine(positions, i)
    IN  [content |-> FlattenSeq([n \in DOMAIN positions |-> IF n \in on THEN positions[n].messages ELSE <<>>]),
         position |-> "below",
         col |-> IF on = {} THEN 0 ELSE Min({positions[n].pos.col : n \in on})]

AnnotateLines(lines, positions) ==
    [i \in DOMAIN lines |->
        LET note == PrepareLineAnnotation(positions, i)
        IN  IF note.content = <<>> THEN lines[i]
            ELSE [lines[i] EXCEPT !.annotations = Append(@, note)]]

BuildHunkSpans(positions, context, total) ==
    Clamp(Expand(GroupIndices(SortedValues(LineIndices(AllRanges(positions))), context), context), 0, total)

Ellipsis == 0   \* the message "...", beside the numbers of the nested errors

\* A hunk that is not the first says that lines are missing above it.
MarkGaps(lines, spans) ==
    [i \in DOMAIN lines |->
        IF \E n \in DOMAIN spans \ {1} : spans[n].start + 1 = i
        THEN [lines[i] EXCEPT !.annotations =
                Append(@, [content |-> <<Ellipsis>>, position |-> "above", col |-> 0])]
        ELSE lines[i]]

\* Marked lines, all but the overlays, which are added under the lock.
Annotated(lines, positions, context) ==
    MarkGaps(AnnotateLines(lines, positions), BuildHunkSpans(positions, context, Len(lines)))
=============================================================================
