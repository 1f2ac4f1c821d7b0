-------------------------------- MODULE Lines --------------------------------
(* Packages tokens and line: how the stream of lexer tokens of a YAML file  *)
(* becomes numbered lines, and back.  A rune is a string of one character;  *)
(* text is a sequence of runes.  A token is a record of the text it stands  *)
(* for (origin, every rune between the previous token and its own end), the *)
(* value it means, and the line and column of that value, counted from 1.   *)
(* Byte offsets and indentation are left out: nothing but the parser reads  *)
(* them.  A token of the stream is known by its index, as it is by its      *)
(* pointer in the code.                                                     *)
EXTENDS Positions

NL == "\n"
CR == "\r"
SP == " "

TokenTypes == {"string", "colon", "comment", "docheader", "header", "space"}
Tokens == [type : TokenTypes, origin : Seq(STRING), value : Seq(STRING), line : Int, col : Int]

EndsWithNL(s) == s # <<>> /\ Last(s) = NL
TrimNL(s) == IF EndsWithNL(s) THEN Front(s) ELSE s
TrimCR(s) == IF s # <<>> /\ Last(s) = CR THEN Front(s) ELSE s
TrimEOL(s) == TrimCR(TrimNL(s))
IsPureNewline(s) == s \in {<<NL>>, <<CR, NL>>}
IsPureHorizontalWhitespace(s) == s # <<>> /\ ToSet(s) = {SP}
Newlines(s) == Cardinality({i \in DOMAIN s : s[i] = NL})
LeadingCount(s, r) == Cardinality({n \in DOMAIN s : \A m \in 1 .. n : s[m] = r})
TrailingCount(s, r) == LeadingCount(Reverse(s), r)

\* The newlines in front of a text, whichever way its lines end.
LeadingNewlines(s) ==
    Cardinality({n \in DOMAIN s : s[n] = NL /\ \A m \in 1 .. n : s[m] \in {CR, NL}})

-----------------------------------------------------------------------------
(* Segments: a part of a token on one line, with the token it is a part of. *)

Segment(source, part) == [source |-> source, part |-> part]

\* The runes of a segment without its newline, but with a carriage return.
Width(seg) == Len(TrimNL(seg.part.origin))

\* The column at which segment j of a line begins, counted from 0.
ColOf(segs, j) == Len(FlattenSeq([k \in 1 .. j - 1 |-> TrimNL(segs[k].part.origin)]))

NextColumn(segs) == Max({0} \cup {segs[j].part.col : j \in DOMAIN segs})

\* The segment in which a column falls, 0 if the line is shorter.
SegmentAt(segs, col) ==
    LET at == {j \in DOMAIN segs : ColOf(segs, j) <= col /\ col < ColOf(segs, j) + Width(segs[j])}
    IN  IF at = {} THEN 0 ELSE Min(at)

AddSource(found, seg) ==
    IF found # <<>> /\ Last(found) = seg.source THEN found ELSE Append(found, seg.source)

\* The tokens that segments come from, each once, in order.
SourceTokens(segs) ==
    LET found[n \in 0 .. Len(segs)] == IF n = 0 THEN <<>> ELSE AddSource(found[n - 1], segs[n])
    IN  found[Len(segs)]

-----------------------------------------------------------------------------
(* The lines builder.                                                       *)

NewLine(segs, number) ==
    [segments |-> segs, number |-> number, flag |-> "default", overlays |-> <<>>, annotations |-> <<>>]

NewBuilder(first) ==
    LET leading == LeadingNewlines(first.origin) IN
    [lines |-> <<>>, segs |-> <<>>, endedWithNL |-> FALSE,
     current |-> IF first.line > leading THEN first.line - leading ELSE first.line]

\* A string is the content of a block scalar when nothing but comments
\* stands between it and the header, | or >.
IsBlockScalarContent(tks, i) ==
    /\ tks[i].type = "string"
    /\ \E h \in 1 .. i - 1 : /\ tks[h].type = "header"
                             /\ \A c \in h + 1 .. i - 1 : tks[c].type = "comment"

\* A rune behind a newline begins another part.
AddRune(parts, rune) ==
    IF EndsWithNL(Last(parts)) THEN Append(parts, <<rune>>)
    ELSE [parts EXCEPT ![Len(parts)] = Append(@, rune)]

\* Cut after every newline; no text at all is one empty part.
SplitOrigin(origin) ==
    LET parts[n \in 0 .. Len(origin)] == IF n = 0 THEN << <<>> >> ELSE AddRune(parts[n - 1], origin[n])
    IN  parts[Len(origin)]

ContentParts(parts) == {k \in DOMAIN parts : ~IsPureNewline(parts[k])}
LastContentPart(parts) == IF ContentParts(parts) = {} THEN Len(parts) ELSE Max(ContentParts(parts))

FinishLine(b) ==
    [b EXCEPT !.lines = Append(@, NewLine(b.segs, b.current)), !.segs = <<>>, !.current = @ + 1]

\* A token without inner newlines that lies ahead moves the builder to its
\* line; the line under way is flushed when lines in between are missing.
HandleGap(b, tk) ==
    LET simple == Newlines(tk.origin) = IF EndsWithNL(tk.origin) THEN 1 ELSE 0
        flushed == IF tk.line > b.current + 1 /\ b.segs # <<>>
                   THEN [FinishLine(b) EXCEPT !.current = b.current] ELSE b
    IN  IF ~simple THEN b
        ELSE IF flushed.segs = <<>> /\ tk.line > b.current
             THEN [flushed EXCEPT !.current = tk.line] ELSE flushed

\* Every newline ends a line.
IsDuplicateNewlineNever(b, tk, part, k) == FALSE

\* The lexer may count one newline both at the end of a token and at the
\* start of the next: the second goes to the line that the first has ended.
IsDuplicateNewline(b, tk, part, k) ==
    k = 1 /\ IsPureNewline(part) /\ b.endedWithNL /\ b.current = tk.line /\ b.lines # <<>>

KeepDuplicate(b, i, tk, part) ==
    LET before == Last(b.lines)
        copy == [type |-> tk.type, origin |-> part, value |-> <<>>,
                 line |-> b.current - 1, col |-> NextColumn(before.segments) + 1]
    IN  [b EXCEPT !.lines[Len(b.lines)].segments = Append(@, Segment(i, copy))]

\* The part of token i that stands on the current line: block scalars have
\* their value on the last part with content, other tokens on the first.
PartToken(b, tk, parts, k, block) ==
    LET part == parts[k]
        isFirst == \A j \in ContentParts(parts) : j >= k
        isLast == k = LastContentPart(parts)
        hasValue == ~IsPureNewline(part) /\ IF block THEN isLast ELSE isFirst
        value == IF hasValue THEN tk.value ELSE <<>>
        keepsCol == (value # <<>> \/ isFirst) /\ tk.col > 0
        multi == Len(parts) > 1
        blockPosition == /\ block /\ multi
                         /\ \/ tk.col = 0 /\ isFirst /\ ~IsPureNewline(part)
                            \/ tk.col # 0 /\ isLast
        blankPosition == /\ multi /\ IsPureNewline(parts[1])
                         /\ isFirst /\ ~IsPureNewline(part)
        keepsPosition == blockPosition \/ blankPosition
    IN  [type |-> IF IsPureHorizontalWhitespace(part) /\ value = <<>> /\ ~block THEN "space" ELSE tk.type,
         origin |-> part, value |-> value,
         line |-> IF keepsPosition THEN tk.line ELSE b.current,
         col |-> IF keepsPosition THEN tk.col
                 ELSE IF IsPureNewline(part) THEN NextColumn(b.segs) + 1
                 ELSE IF keepsCol THEN tk.col ELSE 1]

ProcessPart(b, tks, i, parts, k) ==
    LET tk == tks[i]
        part == PartToken(b, tk, parts, k, IsBlockScalarContent(tks, i))
        grown == [b EXCEPT !.segs = Append(@, Segment(i, part))]
    IN  IF IsDuplicateNewline(b, tk, parts[k], k) THEN KeepDuplicate(b, i, tk, parts[k])
        ELSE IF EndsWithNL(parts[k]) THEN FinishLine(grown) ELSE grown

AddToken(b, tks, i) ==
    LET parts == SplitOrigin(tks[i].origin)
        built[k \in 0 .. Len(parts)] ==
          IF k = 0 THEN HandleGap(b, tks[i]) ELSE ProcessPart(built[k - 1], tks, i, parts, k)
    IN  [built[Len(parts)] EXCEPT !.endedWithNL = EndsWithNL(tks[i].origin)]

Build(b) == IF b.segs = <<>> THEN b.lines ELSE FinishLine(b).lines

NewLines(tks) ==
    LET built[i \in 0 .. Len(tks)] == IF i = 0 THEN NewBuilder(tks[1]) ELSE AddToken(built[i - 1], tks, i)
    IN  IF tks = <<>> THEN <<>> ELSE Build(built[Len(tks)])

-----------------------------------------------------------------------------
(* Reading lines.                                                           *)

Number(l) ==
    IF l.number # 0 \/ l.segments = <<>> THEN l.number ELSE l.segments[1].part.line

\* Every rune of a line, newlines too, in the order of the columns.
Runes(l) == FlattenSeq([j \in DOMAIN l.segments |-> l.segments[j].part.origin])

\* The text of a line, as the content of a changed line is printed.
Content(l) == FlattenSeq([j \in DOMAIN l.segments |-> TrimEOL(l.segments[j].part.origin)])

AllRunes(lines) ==
    FlattenSeq([i \in DOMAIN lines |->
        LET runes == Runes(lines[i]) IN
        [c \in DOMAIN runes |-> [rune |-> runes[c], pos |-> Pos(i - 1, c - 1)]]])

\* The stream that lines were built from: tokens cut in parts count once.
StreamOf(lines) == SourceTokens(FlattenSeq([i \in DOMAIN lines |-> lines[i].segments]))

\* Lines.Validate: numbers grow, a line's tokens agree on its number, columns grow.
Valid(lines) ==
    /\ \A i, j \in DOMAIN lines :
          i < j /\ Number(lines[i]) # 0 /\ Number(lines[j]) # 0 => Number(lines[i]) < Number(lines[j])
    /\ \A i \in DOMAIN lines :
          LET parts == [j \in DOMAIN lines[i].segments |-> lines[i].segments[j].part]
              wide == SelectSeq(parts, LAMBDA p : p.origin # <<>>)
          IN  /\ \A j \in DOMAIN parts : parts[j].line = parts[1].line
              /\ \A j \in DOMAIN wide : wide[j].col > IF j = 1 THEN 0 ELSE wide[j - 1].col

\* Where the parts of a token stand: a position for each of them.
TokenPositions(lines, source) ==
    LET At(i, segs) ==
          FlattenSeq([j \in DOMAIN segs |->
              IF segs[j].source = source THEN <<Pos(i - 1, ColOf(segs, j))>> ELSE <<>>])
    IN  FlattenSeq([i \in DOMAIN lines |-> At(i, lines[i].segments)])

\* The columns of a segment without the spaces on either side of it.  A carriage
\* return is not among the runes that are looked at, but it is among the columns.
ContentRange(segs, j, i) ==
    LET text == TrimEOL(segs[j].part.origin)
        from == ColOf(segs, j) + LeadingCount(text, SP)
        to == ColOf(segs, j) + Width(segs[j]) - TrailingCount(text, SP)
    IN  IF from < to THEN <<NewRange(Pos(i - 1, from), Pos(i - 1, to))>> ELSE <<>>

\* The ranges of the content of the token at a position, on each of its lines.
ContentRangesAt(lines, pos) ==
    LET hit == IF pos.line + 1 \in DOMAIN lines THEN SegmentAt(lines[pos.line + 1].segments, pos.col) ELSE 0
        source == lines[pos.line + 1].segments[hit].source
        At(i, segs) ==
          FlattenSeq([j \in DOMAIN segs |->
              IF segs[j].source = source THEN ContentRange(segs, j, i) ELSE <<>>])
    IN  IF hit = 0 THEN <<>> ELSE FlattenSeq([i \in DOMAIN lines |-> At(i, lines[i].segments)])

\* The distinct content ranges at several positions.
ContentPositionRanges(lines, positions) ==
    UniqueValues(FlattenSeq([n \in DOMAIN positions |-> ContentRangesAt(lines, positions[n])]))

-----------------------------------------------------------------------------
(* Marking lines.                                                           *)

\* What a range puts on line i: an overlay, if it touches the line.
OverlayOn(kind, r, i) ==
    LET n == i - r.start.line IN
    IF n \notin DOMAIN SliceLines(r) THEN <<>>
    ELSE << [kind |-> kind, cols |-> NewSpan(SliceLines(r)[n].start.col, SliceLines(r)[n].end.col)] >>

AddOverlay(lines, kind, ranges) ==
    [i \in DOMAIN lines |->
        [lines[i] EXCEPT !.overlays = @ \o FlattenSeq([n \in DOMAIN ranges |-> OverlayOn(kind, ranges[n], i)])]]

ClearOverlays(lines) == [i \in DOMAIN lines |-> [lines[i] EXCEPT !.overlays = <<>>]]

AddAnnotation(lines, i, annotation) ==
    [lines EXCEPT ![i].annotations = Append(@, annotation)]

-----------------------------------------------------------------------------
(* SplitDocuments: a document header opens a new document, unless nothing   *)
(* stands before it.  Documents are sequences of indices of the stream.     *)

\* Token i opens a document or joins the last one.
AddToDocuments(docs, i, opens) ==
    IF docs = <<>> \/ opens THEN Append(docs, <<i>>) ELSE [docs EXCEPT ![Len(docs)] = Append(@, i)]

\* A header that closes a document.
SplitDocumentsAfter(tks) ==
    LET docs[i \in 0 .. Len(tks)] ==
          IF i = 0 THEN <<>>
          ELSE AddToDocuments(docs[i - 1], i, i > 1 /\ tks[i - 1].type = "docheader")
    IN  docs[Len(tks)]

\* The documents of a stream.
SplitDocuments(tks) ==
    LET docs[i \in 0 .. Len(tks)] ==
          IF i = 0 THEN <<>> ELSE AddToDocuments(docs[i - 1], i, tks[i].type = "docheader")
    IN  docs[Len(tks)]

\* A document's tokens counted from its own first line and column.
CloneWithResetPositions(tks, doc) ==
    LET first == tks[doc[1]] IN
    [n \in DOMAIN doc |->
        LET tk == tks[doc[n]] IN
        [tk EXCEPT !.line = @ - first.line + 1,
                   !.col = IF tk.line = first.line THEN @ - first.col + 1 ELSE @]]
=============================================================================
