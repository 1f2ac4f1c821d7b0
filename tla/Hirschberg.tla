----------------------------- MODULE Hirschberg -----------------------------
(***************************************************************************)
(* diff.Hirschberg: the edit script between two sequences of lines, by     *)
(* divide and conquer over the longest common subsequence.  A step is one  *)
(* call of recurse up to its own recursive calls, which wait on the stack. *)
(* The object is used again and again: the two rows of the dynamic program *)
(* and the list of operations outlive a call, and are never freed.         *)
(*                                                                         *)
(* Lines are numbered from 1: a call answers for the lines bStart+1..bEnd  *)
(* of before and aStart+1..aEnd of after.                                  *)
(***************************************************************************)
EXTENDS Integers, Sequences, FiniteSets

CONSTANTS
    Content,   \* the contents of a line
    Input      \* the sequences of lines compared

ASSUME InputAssumption == Input \subseteq Seq(Content)

VARIABLES
    before, after,   \* what is compared
    running,         \* inside Diff
    calls,           \* pending calls of recurse, the next one last
    ops,             \* h.ops
    row0, row1       \* h.row0 and h.row1, indexed from 0

vars == <<before, after, running, calls, ops, row0, row1>>

Call == [bStart : Nat, bEnd : Nat, aStart : Nat, aEnd : Nat]
Over(b0, b1, a0, a1) == [bStart |-> b0, bEnd |-> b1, aStart |-> a0, aEnd |-> a1]
Op == [kind : {"equal", "delete", "insert"}, index : Nat \ {0}]

Init ==
    /\ before = <<>>
    /\ after = <<>>
    /\ running = FALSE
    /\ calls = <<>>
    /\ ops = <<>>
    /\ row0 = [j \in {} |-> 0]
    /\ row1 = [j \in {} |-> 0]

-----------------------------------------------------------------------------
(* The rows.                                                               *)

\* A row that is long enough is used as it is.
Grown(row, needed) ==
    IF Cardinality(DOMAIN row) >= needed THEN row ELSE [j \in 0 .. needed - 1 |-> 0]

\* Clearing only the row that is filled first.
ClearOne(rows, n) ==
    [old |-> [j \in DOMAIN rows.old |-> IF j <= n THEN 0 ELSE rows.old[j]], new |-> rows.new]

\* Both rows are zero up to n before a pass: they swap before the first line,
\* so the "old" row of that line is the one left in row1.
Clear(rows, n) ==
    [old |-> [j \in DOMAIN rows.old |-> IF j <= n THEN 0 ELSE rows.old[j]],
     new |-> [j \in DOMAIN rows.new |-> IF j <= n THEN 0 ELSE rows.new[j]]]

\* One row of the dynamic program over another; same[j] says whether the line
\* of this row equals the j-th of the others.
NextRow(old, n, same) ==
    LET new[j \in 0 .. n] ==
            CASE j = 0 -> 0
              [] j > 0 /\ same[j] -> old[j - 1] + 1
              [] j > 0 /\ ~same[j] -> IF new[j - 1] >= old[j] THEN new[j - 1] ELSE old[j]
    IN  new

\* forward and backward: k rows of n + 1 cells; new[j] is then the length of
\* the longest common subsequence of the k lines and the first j of the others.
Pass(start, k, n, same) ==
    LET rows[i \in 0 .. k] ==
            IF i = 0 THEN Clear(start, n)
            ELSE LET last == rows[i - 1]
                     next == NextRow(last.new, n, same[i])
                 IN  [old |-> last.new,
                      new |-> [j \in DOMAIN last.old |-> IF j <= n THEN next[j] ELSE last.old[j]]]
    IN  rows[k]

-----------------------------------------------------------------------------
(* Diff and recurse.                                                       *)

Diff(b, a) ==
    /\ ~running
    /\ before' = b
    /\ after' = a
    /\ running' = TRUE
    /\ calls' = <<Over(0, Len(b), 0, Len(a))>>
    /\ ops' = <<>>
    /\ row0' = Grown(row0, Len(a) + 1)
    /\ row1' = Grown(row1, Len(a) + 1)

Top == calls[Len(calls)]
Pending(m) == Len(calls) > 0 /\ m = Top.bEnd - Top.bStart

Deletes(from, to) == [i \in 1 .. to - from |-> [kind |-> "delete", index |-> from + i]]

\* Insertions numbered as Go numbers them.
InsertsFromZero(from, to) == [i \in 1 .. to - from |-> [kind |-> "insert", index |-> from + i - 1]]

Inserts(from, to) == [i \in 1 .. to - from |-> [kind |-> "insert", index |-> from + i]]

\* The call appends its operations and returns.
Emit(block) ==
    /\ ops' = ops \o block
    /\ calls' = SubSeq(calls, 1, Len(calls) - 1)
    /\ UNCHANGED <<before, after, running, row0, row1>>

InsertAll ==
    /\ Pending(0)
    /\ Emit(Inserts(Top.aStart, Top.aEnd))

DeleteAll ==
    /\ ~Pending(0)
    /\ Len(calls) > 0
    /\ Top.aStart = Top.aEnd
    /\ Emit(Deletes(Top.bStart, Top.bEnd))

\* singleBeforeLine, without the match.
ReplaceOne ==
    /\ Pending(1)
    /\ Top.aStart < Top.aEnd
    /\ \A j \in Top.aStart + 1 .. Top.aEnd : after[j] # before[Top.bEnd]
    /\ Emit(Deletes(Top.bStart, Top.bEnd) \o Inserts(Top.aStart, Top.aEnd))

\* A singleBeforeLine that forgets the lines after its match.
KeepOneOnly ==
    /\ Pending(1)
    /\ \E j \in Top.aStart + 1 .. Top.aEnd :
          /\ after[j] = before[Top.bEnd]
          /\ \A i \in Top.aStart + 1 .. j - 1 : after[i] # before[Top.bEnd]
          /\ Emit([Inserts(Top.aStart, j) EXCEPT ![j - Top.aStart].kind = "equal"])

\* singleBeforeLine, with its first match at j.
KeepOne ==
    /\ Pending(1)
    /\ \E j \in Top.aStart + 1 .. Top.aEnd :
          /\ after[j] = before[Top.bEnd]
          /\ \A i \in Top.aStart + 1 .. j - 1 : after[i] # before[Top.bEnd]
          /\ Emit([Inserts(Top.aStart, Top.aEnd) EXCEPT ![j - Top.aStart].kind = "equal"])

\* A search for the best split that lets later ones win a tie.
LastBest(score, j) ==
    \A i \in DOMAIN score : score[i] <= score[j] /\ (i > j => score[i] < score[j])

\* The first of the best splits wins: the loop replaces on "score > best".
Best(score, j) ==
    \A i \in DOMAIN score : score[i] <= score[j] /\ (i < j => score[i] < score[j])

\* A split that leaves nothing to the first half of two lines.
MiddleLow(c) == c.bStart + (c.bEnd - c.bStart - 1) \div 2

\* Where a call divides before; m \div 2 is positive, as m > 1.
Middle(c) == c.bStart + (c.bEnd - c.bStart) \div 2

Divide ==
    LET m == Top.bEnd - Top.bStart
        n == Top.aEnd - Top.aStart
        bMid == Middle(Top)
        forward == Pass([old |-> row0, new |-> row1], bMid - Top.bStart, n,
                        [i \in 1 .. m |-> [j \in 1 .. n |->
                            before[Top.bStart + i] = after[Top.aStart + j]]])
        backward == Pass(forward, Top.bEnd - bMid, n,
                         [i \in 1 .. m |-> [j \in 1 .. n |->
                             before[Top.bEnd + 1 - i] = after[Top.aEnd + 1 - j]]])
        score == [j \in Top.aStart .. Top.aEnd |->
                     forward.new[j - Top.aStart] + backward.new[Top.aEnd - j]]
    IN  /\ Len(calls) > 0
        /\ m > 1
        /\ n > 0
        /\ \E aMid \in Top.aStart .. Top.aEnd :
              /\ Best(score, aMid)
              /\ calls' = Append([calls EXCEPT ![Len(calls)] = Over(bMid, Top.bEnd, aMid, Top.aEnd)],
                                 Over(Top.bStart, bMid, Top.aStart, aMid))
        /\ row0' = backward.old
        /\ row1' = backward.new
        /\ UNCHANGED <<before, after, running, ops>>

Return ==
    /\ running
    /\ calls = <<>>
    /\ running' = FALSE
    /\ UNCHANGED <<before, after, calls, ops, row0, row1>>

Recurse == InsertAll \/ DeleteAll \/ ReplaceOne \/ KeepOne \/ Divide

Next ==
    \/ \E b, a \in Input : Diff(b, a)
    \/ Recurse
    \/ Return

Spec == Init /\ [][Next]_vars

-----------------------------------------------------------------------------
(* Properties.                                                             *)

TypeOK ==
    /\ before \in Seq(Content) /\ after \in Seq(Content)
    /\ running \in BOOLEAN
    /\ calls \in Seq(Call)
    /\ ops \in Seq(Op)
    /\ row0 \in [DOMAIN row0 -> Nat] /\ row1 \in [DOMAIN row0 -> Nat]

\* The lines of before, and of after, that the first k operations of a script
\* account for.
CountBut(kind, script, k) == Cardinality({i \in 1 .. k : script[i].kind # kind})
Used(script, k) == CountBut("insert", script, k)
Made(script, k) == CountBut("delete", script, k)

\* The k-th operation carries on where the ones before it stopped.
Fits(script, k) ==
    CASE script[k].kind = "insert" -> script[k].index = Made(script, k)
      [] script[k].kind = "delete" -> script[k].index = Used(script, k)
      [] script[k].kind = "equal" ->
             /\ script[k].index = Made(script, k)
             /\ before[Used(script, k)] = after[Made(script, k)]

\* The operations Diff returns are an edit script: they keep or delete the
\* lines of before and keep or insert the lines of after, each exactly once
\* and in order, and what they keep is equal on both sides.
EditScript ==
    ~running =>
        /\ \A k \in DOMAIN ops : Fits(ops, k)
        /\ Used(ops, Len(ops)) = Len(before)
        /\ Made(ops, Len(ops)) = Len(after)

\* The subsequences of s, each as the set of positions it takes.
Picks(s) == SUBSET DOMAIN s
Picked(s, P) ==
    [i \in 1 .. Cardinality(P) |-> s[CHOOSE p \in P : Cardinality({q \in P : q <= p}) = i]]
Common(b, a) == {Picked(b, P) : P \in Picks(b)} \cap {Picked(a, P) : P \in Picks(a)}

\* The script keeps as many lines as any could: as many as the longest common
\* subsequence has, by its definition, whatever earlier diffs left in the rows.
Shortest ==
    ~running => \A s \in Common(before, after) :
        Len(s) <= Cardinality({k \in DOMAIN ops : ops[k].kind = "equal"})

\* Between two kept lines every deletion comes before every insertion: on this
\* DiffResult relies to put a replaced line beside its replacement.  It takes
\* the tie-breaking of every split, not only singleBeforeLine's convention.
DeletionsFirst ==
    ~running => \A k \in 1 .. Len(ops) - 1 :
        ~(ops[k].kind = "insert" /\ ops[k + 1].kind = "delete")

\* What is left to do: the pending calls tile the lines of before from Top on,
\* and a call over m of them makes at most 2m - 1 calls in all.
Work ==
    IF calls = <<>> THEN 0
    ELSE IF before = <<>> THEN 1
    ELSE 2 * (Len(before) - Top.bStart) - Len(calls)

\* The recursion comes to an end, within 2m - 1 calls for a before of m lines:
\* each call leaves less work, and never less than none.
EachCallCounts == [][calls # <<>> => Work' \in 0 .. Work - 1]_vars

-----------------------------------------------------------------------------
(* The inductive invariant.                                                *)

ScriptType ==
    /\ before \in Seq(Content) /\ after \in Seq(Content)
    /\ running \in BOOLEAN
    /\ calls \in Seq(Call)
    /\ ops \in Seq(Op)
    /\ \A i \in DOMAIN calls :
          calls[i].bStart <= calls[i].bEnd /\ calls[i].aStart <= calls[i].aEnd

\* The operations so far lead up to line u of before and line m of after.
Reaches(u, m) == Used(ops, Len(ops)) = u /\ Made(ops, Len(ops)) = m

\* The pending calls take up, one after the other, what is left to compare.
Tiled ==
    /\ calls = <<>> => Reaches(Len(before), Len(after))
    /\ calls # <<>> =>
          /\ Reaches(Top.bStart, Top.aStart)
          /\ calls[1].bEnd = Len(before)
          /\ calls[1].aEnd = Len(after)
    /\ \A i \in 1 .. Len(calls) - 1 :
          calls[i + 1].bEnd = calls[i].bStart /\ calls[i + 1].aEnd = calls[i].aStart

IInv ==
    /\ ScriptType
    /\ ~running => calls = <<>>
    /\ Tiled
    /\ \A k \in DOMAIN ops : Fits(ops, k)

\* A pending call has lines of before to itself, and those below it on the
\* stack have lines after these; only an empty before has a call without any.
WorkInv ==
    \A i \in DOMAIN calls :
        \/ before = <<>> /\ i = 1
        \/ calls[i].bStart < calls[i].bEnd /\ i <= Len(before) - calls[i].bStart

-----------------------------------------------------------------------------
(* The invariant of the shortest script: what the splits and their         *)
(* tie-breaking are about.                                                 *)

\* A set of pairs of lines is a way to keep them all if no two cross.
Uncrossed(M) == \A p, q \in M : p[1] < q[1] <=> p[2] < q[2]

\* The most pairs of E that can be kept at once.
Most(E) ==
    CHOOSE v \in Nat :
        /\ \E M \in SUBSET E : Uncrossed(M) /\ Cardinality(M) = v
        /\ \A M \in SUBSET E : Uncrossed(M) => Cardinality(M) <= v

\* The equal lines of b0 + 1 .. b1 and a0 + 1 .. a1.
Equal(b0, b1, a0, a1) == {p \in (b0 + 1 .. b1) \X (a0 + 1 .. a1) : before[p[1]] = after[p[2]]}

\* The length of their longest common subsequence.
Longest(b0, b1, a0, a1) == Most(Equal(b0, b1, a0, a1))
LongestOf(c) == Longest(c.bStart, c.bEnd, c.aStart, c.aEnd)

Kept(script) == Cardinality({k \in DOMAIN script : script[k].kind = "equal"})

\* What the operations keep and the pending calls can keep, left[i] of it in
\* the lowest i, is as much as can be kept at all.
NothingLost ==
    \E left \in [0 .. Len(calls) -> Nat] :
        /\ left[0] = 0
        /\ \A i \in 1 .. Len(calls) : left[i] = left[i - 1] + LongestOf(calls[i])
        /\ Kept(ops) + left[Len(calls)] = Longest(0, Len(before), 0, Len(after))

\* A call above another on the stack covers the first half of some split, and
\* cannot do without its last line of after: of the splits that are as good the
\* first is taken.
EndsTight(c) ==
    c.aStart < c.aEnd => Longest(c.bStart, c.bEnd, c.aStart, c.aEnd - 1) < LongestOf(c)

\* So its operations do not end in an insertion, which the deletions of the
\* next might follow.
Tidy ==
    /\ \A i \in 2 .. Len(calls) : EndsTight(calls[i])
    /\ \A k \in 1 .. Len(ops) - 1 : ~(ops[k].kind = "insert" /\ ops[k + 1].kind = "delete")
    /\ calls # <<>> /\ ops # <<>> => ops[Len(ops)].kind # "insert"

\* The rows are long enough for every pending call.
RowsLong ==
    /\ \E size \in Nat :
          /\ row0 \in [0 .. size - 1 -> Nat] /\ row1 \in [0 .. size - 1 -> Nat]
          /\ running => size > Len(after)
    /\ \A i \in DOMAIN calls : calls[i].bEnd <= Len(before) /\ calls[i].aEnd <= Len(after)

ShortInv == RowsLong /\ NothingLost /\ Tidy
=============================================================================
