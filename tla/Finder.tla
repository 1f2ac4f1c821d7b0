------------------------------- MODULE Finder -------------------------------
(* find.go: the searchable text of some lines and the matches of a term in  *)
(* it.  The text is made of the normal forms of the runes, which may be     *)
(* none (a combining mark), one or several (a ligature); every rune of it   *)
(* remembers the place it came from.                                        *)
EXTENDS Lines

CONSTANT NormalForm   \* a rune's normal form, a sequence of runes
ASSUME NormalFormAssumption == \A r \in DOMAIN NormalForm : NormalForm[r] \in Seq(STRING)

Normal(r) == IF r \in DOMAIN NormalForm THEN NormalForm[r] ELSE <<r>>

\* Of a term, rune by rune as of the text.  The code has a whole term normalised at
\* once, where runes that compose, as the letters of a Hangul syllable do, become
\* one; no rune of NormalForm is to do that.
Normalize(s) == FlattenSeq([i \in DOMAIN s |-> Normal(s[i])])

\* The text and its position map in one: a sequence of runes with places.
BuildSource(lines) ==
    LET runes == AllRunes(lines)
        Places(n) == [m \in DOMAIN Normal(runes[n].rune) |->
                        [rune |-> Normal(runes[n].rune)[m], pos |-> runes[n].pos]]
    IN  FlattenSeq([n \in DOMAIN runes |-> Places(n)])

MatchesAt(text, term, i) ==
    /\ i + Len(term) - 1 <= Len(text)
    /\ \A m \in DOMAIN term : text[i + m - 1].rune = term[m]

\* strings.Index in the rest of the text: the first match after offset runes.
FirstMatch(text, term, offset) ==
    LET at == {i \in offset + 1 .. Len(text) + 1 : MatchesAt(text, term, i)}
    IN  IF at = {} THEN 0 ELSE Min(at)

\* The map answers for the last of its runes when it is asked for one behind.
Lookup(text, i) == IF text = <<>> THEN Pos(0, 0) ELSE text[Smaller(Larger(i, 1), Len(text))].pos

\* The end taken from the rune behind the match.
MatchRangeBehind(text, term, i) == NewRange(Lookup(text, i), Lookup(text, i + Len(term)))

\* The range of a match; its end is one column after its last rune.
MatchRange(text, term, i) ==
    LET last == Lookup(text, i + Len(term) - 1)
    IN  NewRange(Lookup(text, i), [last EXCEPT !.col = @ + 1])

\* One turn of the loop of Find: the match found and the offset behind it.
NextMatch(text, term, offset) ==
    LET i == FirstMatch(text, term, offset)
    IN  IF i = 0 THEN [found |-> {}, offset |-> Len(text) + 1]
        ELSE [found |-> {MatchRange(text, term, i)}, offset |-> i - 1 + Len(term)]
=============================================================================
