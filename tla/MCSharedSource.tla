--------------------------- MODULE MCSharedSource ---------------------------
(* Small files and small programs for SharedSource.  The runes "A" and "a"  *)
(* are the same to the finder, "F" stands for a ligature of f and i, and    *)
(* "^" for a combining mark, which has no normal form of its own.           *)
EXTENDS SharedSource, YamlLexer

MCNormalForm == [r \in {"A", "F", "^"} |-> IF r = "A" THEN <<"a">> ELSE IF r = "F" THEN <<"f", "i">> ELSE <<>>]

\* The items a file is made of.
Item(f, kind, atEnd) ==
    CASE kind = "top" -> Top(f)
      [] kind = "pair" -> Pair(f, 0, "k", <<"a", "A">>, IF atEnd THEN 0 ELSE 1)
      [] kind = "line" -> Pair(f, 0, "l", <<"a", "^", SP, "F">>, 1)
      [] kind = "blank" -> Pair(f, 0, "b", <<"F", "i">>, 2)
      [] kind = "child" -> Pair(f, 2, "c", <<"a">>, 1)
      [] kind = "bare" -> Bare(f, "p")
      [] kind = "note" -> Remarked(f, "r", <<"i">>, <<SP, "a">>)
      [] kind = "comment" -> Comment(f, <<"A", "a">>)
      [] kind = "header" -> DocumentHeader(f)
      [] kind = "one" -> Block(f, "o", << <<"a", "a">> >>, atEnd)
      [] kind = "block" -> Block(f, "m", << <<"a">>, <<"f", "i">> >>, atEnd)
      [] kind = "fold" -> Folded(f, "w", <<"a", SP, "A">>, <<"a">>)

Kinds == {"top", "pair", "line", "blank", "child", "bare", "note", "comment", "header", "one", "block", "fold"}

\* A child stands below a bare key, an empty line at the top only; a file of one
\* pair needs no newline.
WellFormed(kinds) ==
    \A n \in DOMAIN kinds :
        /\ kinds[n] = "child" => n > 1 /\ kinds[n - 1] = "bare"
        /\ kinds[n] = "top" => n = 1

File(kinds, eol) ==
    AsRead(FoldLeftDomain(LAMBDA g, n : Item(g, kinds[n], n = Len(kinds)), EmptyFile(eol), kinds))

LF == <<NL>>
CRLF == <<CR, NL>>

\* What an error may point to: a token, or the empty value of a bare key.  Where
\* the value would be there is nothing, or the carriage return of the token behind.
Target(file, i) == [token |-> i, line |-> file.tks[i].line, col |-> file.tks[i].col]
Null(file, i) ==
    [token |-> IF file.crs > 0 /\ i < Len(file.tks) THEN i + 1 ELSE 0, line |-> file.tks[i].line, col |-> file.tks[i].col + 1]
IsBare(file, i) ==
    /\ file.tks[i].type = "colon" /\ file.tks[i - 1].value = <<"p">>
    /\ i < Len(file.tks) => file.tks[i + 1].value # <<"c">>
Targets(file) ==
    {Target(file, i) : i \in DOMAIN file.tks} \cup {Null(file, i) : i \in {j \in DOMAIN file.tks : IsBare(file, j)}}

Program(kinds, eol, flag, width, team, ops, budget) ==
    [file |-> File(kinds, eol), flag |-> flag, width |-> width, team |-> team, ops |-> ops,
     left |-> budget, budget |-> budget, awaited |-> FALSE]

PrintOp(spans) == [op |-> "print", spans |-> spans]
HighlightOp(term) == [op |-> "highlight", term |-> term]
ClearOp == [op |-> "clear"]
ErrorOp(main, nested, context) == [op |-> "error", main |-> main, nested |-> nested, context |-> context]

Terms == { <<"a">>, <<"a", "a">>, <<"A", "A">>, <<"f">>, <<"i">>, <<"F">>, <<"a", SP>>, <<":", SP>> }

Short == {ks \in Kinds \X Kinds : WellFormed(ks)}
Long == {ks \in Kinds \X Kinds \X Kinds : WellFormed(ks)}

One == {CHOOSE t \in Threads : TRUE}

Eols == {LF, CRLF}

\* Every file of three items is printed, and of two where lines end in CRLF.
Printed ==
    {Program(ks, LF, "default", 0, One, {PrintOp(<<>>)}, 1) : ks \in Long}
      \cup {Program(ks, CRLF, "default", 0, One, {PrintOp(<<>>)}, 1) : ks \in Short}

\* A term is searched in every file of two items, which is then printed; some
\* files also in narrow rows, or as the lines that a diff has inserted.
Shows == {<<ks, "default", 0>> : ks \in Short}
           \cup {<< <<"line", "note">>, "default", 3>>, << <<"fold", "block">>, "default", 3>>,
                 << <<"line", "note">>, "inserted", 0>>, << <<"fold", "block">>, "inserted", 0>>}
Searched ==
    {Program(show[1], eol, show[2], show[3], One, {HighlightOp(term) : term \in Terms} \cup {PrintOp(<<>>)}, 2) :
        show \in Shows, eol \in Eols}

\* Errors with a place of their own and another one nested in them; a wider
\* context counts lines, however they end.
Contexts(eol) == IF eol = LF THEN {0, 1} ELSE {0}
Failed ==
    {LET file == File(ks, eol) IN
     Program(ks, eol, "default", 0, One, {ErrorOp(main, <<t>>, context) :
                                          main \in DOMAIN file.tks, t \in Targets(file), context \in Contexts(eol)}, 1) :
        ks \in Short, eol \in Eols}

\* Two goroutines print, search and clear at once: all of the file, or two
\* spans of it, one of which reaches behind its end.
Shared ==
    {Program(<<"pair", "note">>, LF, "default", 0, Threads,
             {PrintOp(<<>>), PrintOp(<<NewSpan(1, 2), NewSpan(0, 9)>>), HighlightOp(<<"a">>), HighlightOp(<<"i">>), ClearOp}, 3)}

\* The same on a short file, to their end.
Awaited ==
    {[Program(<<"pair">>, LF, "default", 0, Threads, {PrintOp(<<>>), HighlightOp(<<"a">>), ClearOp}, 2)
        EXCEPT !.awaited = TRUE]}

\* Errors nested in one without a place of its own, twice on one Source.
Nested ==
    {LET file == File(ks, eol)
         targets == {t \in Targets(file) : t.token = 0 \/ file.tks[t.token].type = "comment"
                                              \/ Len(file.tks[t.token].value) > 1}
     IN  Program(ks, eol, "default", 0, One, {ErrorOp(0, <<t, u>>, 0) : t \in targets, u \in targets}, 2) :
        ks \in {<<"note", "line", "pair", "bare", "pair">>}, eol \in Eols}

\* A combining mark alone is searched.
Endless == {[Program(<<"pair">>, LF, "default", 0, Threads, {HighlightOp(<<"^">>)}, 1) EXCEPT !.awaited = TRUE]}

\* Lines of a diff, in narrow rows.
Narrow == {Program(<<"line", "pair">>, LF, "inserted", 3, One, {HighlightOp(<<"f">>), PrintOp(<<>>)}, 2)}

MCWorks == Printed \cup Searched \cup Failed \cup Shared \cup Awaited \cup Nested
=============================================================================
