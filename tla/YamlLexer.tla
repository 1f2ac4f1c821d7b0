------------------------------ MODULE YamlLexer ------------------------------
(* External: what the lexer of the YAML library makes of some constructs,   *)
(* as the builder, its comments and its tests describe its streams.  A file *)
(* grows item by item and keeps three views of itself: the tokens, the text *)
(* by lines, and the place of every token's content in the text.  That a    *)
(* CRLF after a comment is cut in two, and elsewhere stays whole in the     *)
(* origins, is how builder.go:324 and line.go:248 are read here.            *)
EXTENDS Lines

Spaces(n) == [i \in 1 .. n |-> SP]
Token(type, origin, value, line, col) ==
    [type |-> type, origin |-> origin, value |-> value, line |-> line, col |-> col]

\* The cells of n runes from a line and column that are counted from 1.
Cells(line, col, n) == {Pos(line - 1, col - 1 + i) : i \in 0 .. n - 1}

\* eol: what the lines of the file end in, in origins; values have newlines.
\* pending: what goes to the origin of the next token, of the end of the line.
EmptyFile(eol) == [tks |-> <<>>, text |-> <<>>, spots |-> <<>>, pending |-> <<>>, eol |-> eol]
NextLine(f) == Len(f.text) + 1
Ends(f, n) == FlattenSeq([i \in 1 .. n |-> f.eol])
Grow(f, tks, spots, text, pending) ==
    [f EXCEPT !.tks = @ \o tks, !.text = @ \o text, !.spots = @ \o spots, !.pending = pending]

\* An empty line at the top of a file, in front of the first token.
Top(f) == Grow(f, <<>>, <<>>, << <<>> >>, f.pending \o f.eol)

\* The key and the colon of a pair, indented.
Key(f, indent, k) ==
    LET n == NextLine(f) IN
    << Token("string", f.pending \o Spaces(indent) \o <<k>>, <<k>>, n, indent + 1),
       Token("colon", <<":">>, <<":">>, n, indent + 2) >>
KeySpots(f, indent) == << Cells(NextLine(f), indent + 1, 1), Cells(NextLine(f), indent + 2, 1) >>

\* k: v, its newline and blank lines belong to the value.
Pair(f, indent, k, v, newlines) ==
    LET n == NextLine(f)
        value == Token("string", <<SP>> \o v \o Ends(f, newlines), v, n, indent + 4)
    IN  Grow(f, Key(f, indent, k) \o <<value>>,
             KeySpots(f, indent) \o << Cells(n, indent + 4, Len(v)) >>,
             << Spaces(indent) \o <<k, ":", SP>> \o v >> \o [i \in 1 .. newlines - 1 |-> <<>>], <<>>)

\* A comment ends with the first rune of the end of its line.
CommentEnd(f) == <<Head(f.eol)>>

\* k: v #c, the comment's newline is read again before the next token.  When
\* lines end in two runes it is read there only.
Remarked(f, k, v, c) ==
    LET n == NextLine(f)
        value == Token("string", <<SP>> \o v \o <<SP>>, v, n, 4)
        comment == Token("comment", <<"#">> \o c \o CommentEnd(f), c, n, 5 + Len(v))
    IN  Grow(f, Key(f, 0, k) \o <<value, comment>>,
             KeySpots(f, 0) \o << Cells(n, 4, Len(v)), Cells(n, 5 + Len(v), 1 + Len(c)) >>,
             << <<k, ":", SP>> \o v \o <<SP, "#">> \o c >>, <<NL>>)

\* k: without a value, or with one on the lines below.
Bare(f, k) == Grow(f, Key(f, 0, k), KeySpots(f, 0), << <<k, ":">> >>, f.eol)

\* A line of comment.
Comment(f, c) ==
    Grow(f, << Token("comment", f.pending \o <<"#">> \o c \o CommentEnd(f), c, NextLine(f), 1) >>,
         << Cells(NextLine(f), 1, 1 + Len(c)) >>, << <<"#">> \o c >>, Tail(f.eol))

DocumentHeader(f) ==
    Grow(f, << Token("docheader", f.pending \o <<"-", "-", "-">>, <<"-", "-", "-">>, NextLine(f), 1) >>,
         << Cells(NextLine(f), 1, 3) >>, << <<"-", "-", "-">> >>, f.eol)

\* k: | and its lines.  What the lexer takes for the position of the content
\* depends on what follows: one line has its own, several lines have none
\* (column 0 of the first) unless they end the file (that of the last).
Block(f, k, lines, atEnd) ==
    LET n == NextLine(f)
        many == Len(lines) > 1
        text(i) == Spaces(2) \o lines[i]
        content == Token("string", FlattenSeq([i \in DOMAIN lines |-> text(i) \o f.eol]),
                         FlattenSeq([i \in DOMAIN lines |-> lines[i] \o <<NL>>]),
                         IF many /\ atEnd THEN n + Len(lines) ELSE n + 1,
                         IF many /\ ~atEnd THEN 0 ELSE 3)
    IN  Grow(f, Key(f, 0, k) \o << Token("header", <<SP, "|">> \o f.eol, <<"|">>, n, 4), content >>,
             KeySpots(f, 0) \o << Cells(n, 4, 1), UNION {Cells(n + i, 3, Len(lines[i])) : i \in DOMAIN lines} >>,
             << <<k, ":", SP, "|">> >> \o [i \in DOMAIN lines |-> text(i)], <<>>)

\* k: v over two lines; the value is folded and stands on the first.
Folded(f, k, v, w) ==
    LET n == NextLine(f)
        value == Token("string", <<SP>> \o v \o f.eol \o Spaces(2) \o w \o f.eol, v \o <<SP>> \o w, n, 4)
    IN  Grow(f, Key(f, 0, k) \o <<value>>,
             KeySpots(f, 0) \o << Cells(n, 4, Len(v)) \cup Cells(n + 1, 3, Len(w)) >>,
             << <<k, ":", SP>> \o v, Spaces(2) \o w >>, <<>>)

\* A file as it is read.  In a file with carriage returns each of them is a cell
\* behind the text of its line, and of the token that it is in the origin of.
CRs(tks) == [i \in DOMAIN tks |-> Cardinality({c \in DOMAIN tks[i].origin : tks[i].origin[c] = CR})]
AsRead(f) ==
    LET crs == CRs(f.tks)
        before(i) == FoldLeft(LAMBDA n, k : n + k, 0, SubSeq(crs, 1, i - 1))
    IN  [tks |-> f.tks, text |-> f.text, crs |-> before(Len(f.tks) + 1),
         spots |-> [i \in DOMAIN f.tks |->
             f.spots[i] \cup UNION {Cells(n, Len(f.text[n]) + 1, 1) : n \in before(i) + 1 .. before(i) + crs[i]}]]
=============================================================================
