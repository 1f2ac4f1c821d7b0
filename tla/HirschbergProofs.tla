-------------------------- MODULE HirschbergProofs --------------------------
(***************************************************************************)
(* Whatever the sequences, Hirschberg returns an edit script, and none     *)
(* keeps more lines or puts a deletion after an insertion.  The first      *)
(* invariant, IInv, says that the operations so far bring the comparison   *)
(* to where the next pending call begins and that the pending calls tile   *)
(* the rest, wherever each call splits; counting what a block of           *)
(* operations adds to a script takes the lemmas at the beginning.          *)
(*                                                                         *)
(* The second, ShortInv, is about where a call splits.  It rests on what   *)
(* the longest common subsequence of two stretches is, on the rows being   *)
(* its lengths, by induction over the lines a pass reads, and on the sum   *)
(* of two rows having its first maximum where nothing is lost.             *)
(***************************************************************************)
EXTENDS Hirschberg, Functions, FiniteSetTheorems, SequenceTheorems, TLAPS

-----------------------------------------------------------------------------
(* Counting along a script.                                                *)

\* Moving a set of numbers by a constant keeps its cardinality.
LEMMA Shifted ==
    ASSUME NEW B, IsFiniteSet(B), B \subseteq Nat, NEW n \in Nat
    PROVE  /\ IsFiniteSet({n + i : i \in B})
           /\ Cardinality({n + i : i \in B}) = Cardinality(B)
<1> DEFINE T == {n + i : i \in B}
           f == [i \in B |-> n + i]
<1>1. f \in [B -> T]
  OBVIOUS
<1>2. \A i, j \in B : f[i] = f[j] => i = j
  OBVIOUS
<1>3. \A t \in T : \E i \in B : f[i] = t
  OBVIOUS
<1>4. f \in Bijection(B, T)
  BY <1>1, <1>2, <1>3 DEF Bijection, Injection, Surjection, IsInjective
<1>5. ExistsBijection(B, T)
  BY <1>4 DEF ExistsBijection
<1> QED
  BY <1>5, FS_Bijection

\* The operations of a script up to k that are not of one kind are finitely
\* many, and there are none before the first.
LEMMA Counts ==
    ASSUME NEW s \in Seq(Op), NEW k \in 0 .. Len(s), NEW kind
    PROVE  /\ IsFiniteSet({i \in 1 .. k : s[i].kind # kind})
           /\ CountBut(kind, s, k) \in Nat
           /\ k = 0 => CountBut(kind, s, k) = 0
<1> DEFINE C == {i \in 1 .. k : s[i].kind # kind}
<1>1. IsFiniteSet(1 .. k)
  BY FS_Interval
<1>2. IsFiniteSet(C)
  BY <1>1, FS_Subset
<1>3. Cardinality(C) \in Nat
  BY <1>2, FS_CardinalityType
<1>4. k = 0 => C = {}
  OBVIOUS
<1> QED
  BY <1>2, <1>3, <1>4, FS_EmptySet DEF CountBut

\* The same count along two scripts, one after the other.
LEMMA CountAppended ==
    ASSUME NEW s \in Seq(Op), NEW t \in Seq(Op), NEW kind, NEW k \in 0 .. Len(t)
    PROVE  CountBut(kind, s \o t, Len(s) + k)
           = CountBut(kind, s, Len(s)) + CountBut(kind, t, k)
<1> DEFINE A == {i \in 1 .. Len(s) : s[i].kind # kind}
           B == {i \in 1 .. k : t[i].kind # kind}
           C == {i \in 1 .. Len(s) + k : (s \o t)[i].kind # kind}
           T == {Len(s) + i : i \in B}
<1>1. /\ Len(s) \in Nat /\ Len(t) \in Nat
      /\ \A i \in 1 .. Len(s) + Len(t) :
            (s \o t)[i] = IF i <= Len(s) THEN s[i] ELSE t[i - Len(s)]
  BY ConcatProperties, LenProperties
<1>2. IsFiniteSet(A) /\ Cardinality(A) \in Nat
  <2>1. IsFiniteSet(1 .. Len(s))
    BY <1>1, FS_Interval
  <2>2. IsFiniteSet(A)
    BY <2>1, FS_Subset
  <2> QED
    BY <2>2, FS_CardinalityType
<1>3. IsFiniteSet(B) /\ Cardinality(B) \in Nat
  <2>1. IsFiniteSet(1 .. k)
    BY FS_Interval
  <2>2. IsFiniteSet(B)
    BY <2>1, FS_Subset
  <2> QED
    BY <2>2, FS_CardinalityType
<1>4. IsFiniteSet(T) /\ Cardinality(T) = Cardinality(B)
  <2>1. B \subseteq Nat
    OBVIOUS
  <2> QED
    BY <2>1, <1>1, <1>3, Shifted
<1>5. C = A \cup T
  <2>1. ASSUME NEW i \in C PROVE i \in A \cup T
    <3>1. CASE i <= Len(s)
      BY <3>1, <1>1
    <3>2. CASE i > Len(s)
      <4>1. i - Len(s) \in B
        BY <3>2, <1>1
      <4>2. i = Len(s) + (i - Len(s))
        BY <1>1
      <4> QED
        BY <4>1, <4>2
    <3> QED
      BY <3>1, <3>2, <1>1
  <2>2. ASSUME NEW i \in A PROVE i \in C
    BY <1>1
  <2>3. ASSUME NEW i \in B PROVE Len(s) + i \in C
    <3>1. /\ Len(s) + i \in 1 .. Len(s) + Len(t)
          /\ ~(Len(s) + i <= Len(s))
          /\ Len(s) + i - Len(s) = i
      BY <1>1
    <3>2. (s \o t)[Len(s) + i] = t[i]
      BY <3>1, <1>1
    <3> QED
      BY <3>2, <1>1
  <2> QED
    BY <2>1, <2>2, <2>3
<1>6. A \cap T = {}
  BY <1>1
<1>7. Cardinality(C) = Cardinality(A) + Cardinality(T) - Cardinality(A \cap T)
  BY <1>2, <1>4, <1>5, FS_Union
<1>8. Cardinality(A \cap T) = 0
  BY <1>6, FS_EmptySet
<1>9. Cardinality(C) = Cardinality(A) + Cardinality(B)
  <2> HIDE DEF A, B, C, T
  <2> QED
    BY <1>2, <1>3, <1>4, <1>7, <1>8
<1> QED
  BY <1>9 DEF CountBut

\* A script that goes on counts on where it was.
LEMMA Appended ==
    ASSUME NEW s \in Seq(Op), NEW t \in Seq(Op), NEW k \in 0 .. Len(t)
    PROVE  /\ Used(s \o t, Len(s) + k) = Used(s, Len(s)) + Used(t, k)
           /\ Made(s \o t, Len(s) + k) = Made(s, Len(s)) + Made(t, k)
BY CountAppended DEF Used, Made

\* What is appended to a script leaves the counts at its beginning alone.
LEMMA Beginning ==
    ASSUME NEW s \in Seq(Op), NEW t \in Seq(Op), NEW k \in 0 .. Len(s)
    PROVE  /\ Used(s \o t, k) = Used(s, k)
           /\ Made(s \o t, k) = Made(s, k)
<1>1. /\ Len(s) \in Nat /\ Len(t) \in Nat
      /\ \A i \in 1 .. k : (s \o t)[i] = s[i]
  BY ConcatProperties, LenProperties
<1>2. ASSUME NEW kind PROVE CountBut(kind, s \o t, k) = CountBut(kind, s, k)
  <2>1. {i \in 1 .. k : (s \o t)[i].kind # kind} = {i \in 1 .. k : s[i].kind # kind}
    BY <1>1
  <2> QED
    BY <2>1 DEF CountBut
<1> QED
  BY <1>2 DEF Used, Made

\* The counts are numbers, and zero before the first operation.
LEMMA CountsAreNatural ==
    ASSUME NEW s \in Seq(Op), NEW k \in 0 .. Len(s)
    PROVE  /\ Used(s, k) \in Nat /\ Made(s, k) \in Nat
           /\ k = 0 => Used(s, k) = 0 /\ Made(s, k) = 0
BY Counts DEF Used, Made

\* The empty script accounts for nothing.
LEMMA NothingCounted ==
    ASSUME NEW s \in Seq(Op), Len(s) = 0
    PROVE  Used(s, Len(s)) = 0 /\ Made(s, Len(s)) = 0
<1>1. 0 \in 0 .. Len(s)
  OBVIOUS
<1> QED
  BY <1>1, CountsAreNatural

-----------------------------------------------------------------------------
(* What a block of operations does to a script.                            *)

\* The k-th operation of a block that begins after u lines of before and m
\* lines of after.
FitsAt(t, k, u, m) ==
    CASE t[k].kind = "insert" -> t[k].index = m + Made(t, k)
      [] t[k].kind = "delete" -> t[k].index = u + Used(t, k)
      [] t[k].kind = "equal" ->
             /\ t[k].index = m + Made(t, k)
             /\ before[u + Used(t, k)] = after[m + Made(t, k)]

\* A block carries the script on from where it was to where the block ends.
LEMMA Carries ==
    ASSUME NEW s \in Seq(Op), NEW t \in Seq(Op),
           \A k \in DOMAIN s : Fits(s, k),
           \A k \in DOMAIN t : FitsAt(t, k, Used(s, Len(s)), Made(s, Len(s)))
    PROVE  /\ s \o t \in Seq(Op)
           /\ \A k \in DOMAIN (s \o t) : Fits(s \o t, k)
           /\ Used(s \o t, Len(s \o t)) = Used(s, Len(s)) + Used(t, Len(t))
           /\ Made(s \o t, Len(s \o t)) = Made(s, Len(s)) + Made(t, Len(t))
<1>1. /\ Len(s) \in Nat /\ Len(t) \in Nat
      /\ DOMAIN s = 1 .. Len(s) /\ DOMAIN t = 1 .. Len(t)
      /\ s \o t \in Seq(Op)
      /\ Len(s \o t) = Len(s) + Len(t)
      /\ DOMAIN (s \o t) = 1 .. Len(s) + Len(t)
      /\ \A i \in 1 .. Len(s) + Len(t) :
            (s \o t)[i] = IF i <= Len(s) THEN s[i] ELSE t[i - Len(s)]
  BY ConcatProperties, LenProperties
<1>2. ASSUME NEW k \in 1 .. Len(s) PROVE Fits(s \o t, k)
  <2>1. (s \o t)[k] = s[k]
    BY <1>1
  <2>2. Used(s \o t, k) = Used(s, k) /\ Made(s \o t, k) = Made(s, k)
    BY <1>1, Beginning
  <2> QED
    BY <2>1, <2>2, <1>1 DEF Fits
<1>3. ASSUME NEW k \in 1 .. Len(t) PROVE Fits(s \o t, Len(s) + k)
  <2>1. (s \o t)[Len(s) + k] = t[k]
    <3>1. /\ Len(s) + k \in 1 .. Len(s) + Len(t)
          /\ ~(Len(s) + k <= Len(s))
          /\ Len(s) + k - Len(s) = k
      BY <1>1
    <3> QED
      BY <3>1, <1>1
  <2>2. /\ Used(s \o t, Len(s) + k) = Used(s, Len(s)) + Used(t, k)
        /\ Made(s \o t, Len(s) + k) = Made(s, Len(s)) + Made(t, k)
    BY <1>1, Appended
  <2>3. FitsAt(t, k, Used(s, Len(s)), Made(s, Len(s)))
    BY <1>1
  <2> QED
    BY <2>1, <2>2, <2>3 DEF Fits, FitsAt
<1>4. ASSUME NEW k \in 1 .. Len(s) + Len(t) PROVE Fits(s \o t, k)
  <2>1. CASE k <= Len(s)
    BY <2>1, <1>1, <1>2
  <2>2. CASE k > Len(s)
    <3>1. k - Len(s) \in 1 .. Len(t) /\ k = Len(s) + (k - Len(s))
      BY <2>2, <1>1
    <3> QED
      BY <3>1, <1>3
  <2> QED
    BY <2>1, <2>2, <1>1
<1>5. /\ Used(s \o t, Len(s) + Len(t)) = Used(s, Len(s)) + Used(t, Len(t))
      /\ Made(s \o t, Len(s) + Len(t)) = Made(s, Len(s)) + Made(t, Len(t))
  BY <1>1, Appended
<1> QED
  BY <1>1, <1>4, <1>5

\* If no operation is of a kind all count, and if all are none does.
LEMMA AllCount ==
    ASSUME NEW t, NEW k \in Nat, NEW kind, \A i \in 1 .. k : t[i].kind # kind
    PROVE  CountBut(kind, t, k) = k
<1>1. {i \in 1 .. k : t[i].kind # kind} = 1 .. k
  OBVIOUS
<1>2. Cardinality(1 .. k) = k
  <2>1. Cardinality(1 .. k) = IF 1 > k THEN 0 ELSE k - 1 + 1
    BY FS_Interval
  <2>2. (IF 1 > k THEN 0 ELSE k - 1 + 1) = k
    OBVIOUS
  <2> QED
    BY <2>1, <2>2
<1> QED
  BY <1>1, <1>2 DEF CountBut

LEMMA NoneCounts ==
    ASSUME NEW t, NEW k \in Nat, NEW kind, \A i \in 1 .. k : t[i].kind = kind
    PROVE  CountBut(kind, t, k) = 0
<1>1. {i \in 1 .. k : t[i].kind # kind} = {}
  OBVIOUS
<1> QED
  BY <1>1, FS_EmptySet DEF CountBut

\* Insertions carry a script on over the lines of after they insert.
LEMMA InsertBlock ==
    ASSUME NEW from \in Nat, NEW to \in Nat, from <= to, NEW u \in Nat
    PROVE  LET t == Inserts(from, to)
           IN  /\ t \in Seq(Op)
               /\ Len(t) = to - from
               /\ \A k \in DOMAIN t : FitsAt(t, k, u, from)
               /\ Used(t, Len(t)) = 0
               /\ Made(t, Len(t)) = to - from
<1> DEFINE n == to - from
           t == Inserts(from, to)
<1>1. n \in Nat
  OBVIOUS
<1>2. /\ t = [i \in 1 .. n |-> [kind |-> "insert", index |-> from + i]]
      /\ \A i \in 1 .. n : t[i] = [kind |-> "insert", index |-> from + i]
  BY DEF Inserts
<1>3. \A i \in 1 .. n : t[i] \in Op
  BY <1>2 DEF Op
<1>4. t \in Seq(Op) /\ Len(t) = n /\ DOMAIN t = 1 .. n
  <2>1. DOMAIN t = 1 .. n /\ t = [i \in 1 .. n |-> t[i]]
    BY <1>2
  <2> HIDE DEF t
  <2> QED
    BY <1>1, <1>3, <2>1
<1>5. ASSUME NEW k \in 0 .. n PROVE Used(t, k) = 0 /\ Made(t, k) = k
  <2>1. /\ k \in Nat
        /\ \A i \in 1 .. k : t[i].kind = "insert"
        /\ \A i \in 1 .. k : t[i].kind # "delete"
    BY <1>2
  <2> HIDE DEF t
  <2> QED
    BY <2>1, AllCount, NoneCounts DEF Used, Made
<1>6. ASSUME NEW k \in 1 .. n PROVE FitsAt(t, k, u, from)
  <2>1. t[k].kind = "insert" /\ t[k].index = from + k
    BY <1>2
  <2>2. Made(t, k) = k
    BY <1>5
  <2> HIDE DEF t
  <2> QED
    BY <2>1, <2>2 DEF FitsAt
<1>7. Used(t, n) = 0 /\ Made(t, n) = n
  BY <1>1, <1>5
<1> HIDE DEF t
<1> QED
  BY <1>4, <1>6, <1>7 DEF t

\* Deletions carry a script on over the lines of before they delete.
LEMMA DeleteBlock ==
    ASSUME NEW from \in Nat, NEW to \in Nat, from <= to, NEW m \in Nat
    PROVE  LET t == Deletes(from, to)
           IN  /\ t \in Seq(Op)
               /\ Len(t) = to - from
               /\ \A k \in DOMAIN t : FitsAt(t, k, from, m)
               /\ Used(t, Len(t)) = to - from
               /\ Made(t, Len(t)) = 0
<1> DEFINE n == to - from
           t == Deletes(from, to)
<1>1. n \in Nat
  OBVIOUS
<1>2. /\ t = [i \in 1 .. n |-> [kind |-> "delete", index |-> from + i]]
      /\ \A i \in 1 .. n : t[i] = [kind |-> "delete", index |-> from + i]
  BY DEF Deletes
<1>3. \A i \in 1 .. n : t[i] \in Op
  BY <1>2 DEF Op
<1>4. t \in Seq(Op) /\ Len(t) = n /\ DOMAIN t = 1 .. n
  <2>1. DOMAIN t = 1 .. n /\ t = [i \in 1 .. n |-> t[i]]
    BY <1>2
  <2> HIDE DEF t
  <2> QED
    BY <1>1, <1>3, <2>1
<1>5. ASSUME NEW k \in 0 .. n PROVE Used(t, k) = k /\ Made(t, k) = 0
  <2>1. /\ k \in Nat
        /\ \A i \in 1 .. k : t[i].kind = "delete"
        /\ \A i \in 1 .. k : t[i].kind # "insert"
    BY <1>2
  <2> HIDE DEF t
  <2> QED
    BY <2>1, AllCount, NoneCounts DEF Used, Made
<1>6. ASSUME NEW k \in 1 .. n PROVE FitsAt(t, k, from, m)
  <2>1. t[k].kind = "delete" /\ t[k].index = from + k
    BY <1>2
  <2>2. Used(t, k) = k
    BY <1>5
  <2> HIDE DEF t
  <2> QED
    BY <2>1, <2>2 DEF FitsAt
<1>7. Used(t, n) = n /\ Made(t, n) = 0
  BY <1>1, <1>5
<1> HIDE DEF t
<1> QED
  BY <1>4, <1>6, <1>7 DEF t

\* Insertions around one kept line, the p-th, carry a script on over them and
\* over one line of before.
LEMMA KeepBlock ==
    ASSUME NEW from \in Nat, NEW to \in Nat, NEW p \in 1 .. to - from, NEW u \in Nat,
           before[u + 1] = after[from + p]
    PROVE  LET t == [Inserts(from, to) EXCEPT ![p].kind = "equal"]
           IN  /\ t \in Seq(Op)
               /\ Len(t) = to - from
               /\ \A k \in DOMAIN t : FitsAt(t, k, u, from)
               /\ Used(t, Len(t)) = 1
               /\ Made(t, Len(t)) = to - from
<1> DEFINE n == to - from
           t == [Inserts(from, to) EXCEPT ![p].kind = "equal"]
<1>1. n \in Nat
  OBVIOUS
<1>2. /\ DOMAIN t = 1 .. n
      /\ t[p] = [kind |-> "equal", index |-> from + p]
      /\ \A i \in 1 .. n : i # p => t[i] = [kind |-> "insert", index |-> from + i]
  BY DEF Inserts
<1>3. \A i \in 1 .. n : t[i] \in Op
  BY <1>2 DEF Op
<1>4. t \in Seq(Op) /\ Len(t) = n
  <2>1. t = [i \in 1 .. n |-> t[i]]
    BY DEF Inserts
  <2> HIDE DEF t
  <2> QED
    BY <1>1, <1>2, <1>3, <2>1
<1>5. ASSUME NEW k \in 0 .. n PROVE Made(t, k) = k
  <2>1. k \in Nat /\ \A i \in 1 .. k : t[i].kind # "delete"
    <3> HIDE DEF t
    <3> QED
      BY <1>2
  <2> HIDE DEF t
  <2> QED
    BY <2>1, AllCount DEF Made
<1>6. ASSUME NEW k \in 0 .. n, k < p PROVE Used(t, k) = 0
  <2>1. k \in Nat /\ \A i \in 1 .. k : t[i].kind = "insert"
    <3> HIDE DEF t
    <3> QED
      BY <1>2, <1>6
  <2> HIDE DEF t
  <2> QED
    BY <2>1, NoneCounts DEF Used
<1>7. ASSUME NEW k \in 0 .. n, k >= p PROVE Used(t, k) = 1
  <2> HIDE DEF t
  <2>1. {i \in 1 .. k : t[i].kind # "insert"} = {p}
    <3>1. p \in 1 .. k /\ t[p].kind = "equal"
      BY <1>2, <1>7
    <3>2. \A i \in 1 .. k : i # p => t[i].kind = "insert"
      BY <1>2
    <3> QED
      BY <3>1, <3>2
  <2> QED
    BY <2>1, FS_Singleton DEF Used, CountBut
<1>8. ASSUME NEW k \in 1 .. n PROVE FitsAt(t, k, u, from)
  <2> HIDE DEF t
  <2>1. Made(t, k) = k
    BY <1>5
  <2>2. CASE k = p
    <3>1. Used(t, k) = 1
      BY <1>7, <2>2
    <3>2. t[k].kind = "equal" /\ t[k].index = from + k
      BY <1>2, <2>2
    <3> QED
      BY <2>1, <2>2, <3>1, <3>2 DEF FitsAt
  <2>3. CASE k # p
    <3>1. t[k].kind = "insert" /\ t[k].index = from + k
      BY <1>2, <2>3
    <3> QED
      BY <2>1, <3>1 DEF FitsAt
  <2> QED
    BY <2>2, <2>3
<1>9. Used(t, n) = 1 /\ Made(t, n) = n
  <2>1. n \in 0 .. n /\ n >= p
    OBVIOUS
  <2> HIDE DEF t, n
  <2> QED
    BY <1>5, <1>7, <2>1
<1> HIDE DEF t
<1> QED
  BY <1>2, <1>4, <1>8, <1>9 DEF t

-----------------------------------------------------------------------------
(* The steps.                                                              *)

\* A call that emits a block from where it begins to where it ends keeps the
\* invariant: the next pending call begins where it ended.
LEMMA Emitted ==
    ASSUME IInv, Len(calls) > 0, NEW t \in Seq(Op),
           \A k \in DOMAIN t : FitsAt(t, k, Top.bStart, Top.aStart),
           Used(t, Len(t)) = Top.bEnd - Top.bStart,
           Made(t, Len(t)) = Top.aEnd - Top.aStart,
           Emit(t)
    PROVE  IInv'
<1> DEFINE n == Len(calls)
<1>1. /\ n \in Nat /\ n > 0 /\ calls # <<>>
      /\ calls \in Seq(Call) /\ ops \in Seq(Op)
      /\ Top \in Call
      /\ DOMAIN calls = 1 .. n
  BY DEF IInv, ScriptType, Top
<1>2. /\ calls' \in Seq(Call)
      /\ Len(calls') = n - 1
      /\ DOMAIN calls' = 1 .. n - 1
      /\ \A i \in 1 .. n - 1 : calls'[i] = calls[i]
  BY <1>1, SubSeqProperties DEF Emit
<1>3. /\ ops' \in Seq(Op)
      /\ \A k \in DOMAIN ops' : Fits(ops', k)
      /\ Used(ops', Len(ops')) = Top.bEnd
      /\ Made(ops', Len(ops')) = Top.aEnd
  <2>1. /\ Used(ops, Len(ops)) = Top.bStart
        /\ Made(ops, Len(ops)) = Top.aStart
    BY <1>1 DEF IInv, Tiled, Reaches
  <2>2. \A k \in DOMAIN ops : Fits(ops, k)
    BY DEF IInv
  <2>3. /\ Top.bStart \in Nat /\ Top.bEnd \in Nat
        /\ Top.aStart \in Nat /\ Top.aEnd \in Nat
    BY <1>1 DEF Call
  <2>4. ops' = ops \o t
    BY DEF Emit
  <2>5. /\ ops \o t \in Seq(Op)
        /\ \A k \in DOMAIN (ops \o t) : Fits(ops \o t, k)
        /\ Used(ops \o t, Len(ops \o t)) = Top.bStart + (Top.bEnd - Top.bStart)
        /\ Made(ops \o t, Len(ops \o t)) = Top.aStart + (Top.aEnd - Top.aStart)
    BY <1>1, <2>1, <2>2, Carries
  <2> QED
    BY <2>3, <2>4, <2>5
<1>4. ScriptType'
  <2>1. ASSUME NEW i \in DOMAIN calls'
        PROVE  calls'[i].bStart <= calls'[i].bEnd /\ calls'[i].aStart <= calls'[i].aEnd
    <3>1. i \in DOMAIN calls /\ calls'[i] = calls[i]
      BY <1>1, <1>2
    <3> QED
      BY <3>1 DEF IInv, ScriptType
  <2>2. /\ before' \in Seq(Content) /\ after' \in Seq(Content)
        /\ running' \in BOOLEAN
    BY Zenon DEF IInv, ScriptType, Emit
  <2>3. calls' \in Seq(Call) /\ ops' \in Seq(Op)
    BY <1>2, <1>3
  <2> QED
    BY <2>1, <2>2, <2>3, Zenon DEF ScriptType
<1>5. (~running => calls = <<>>)'
  BY <1>1 DEF IInv, Emit
<1>6. Tiled'
  <2>1. \A i \in 1 .. n - 1 :
           calls[i + 1].bEnd = calls[i].bStart /\ calls[i + 1].aEnd = calls[i].aStart
    BY DEF IInv, Tiled
  <2>2. calls[1].bEnd = Len(before) /\ calls[1].aEnd = Len(after)
    BY <1>1 DEF IInv, Tiled
  <2>3. calls' = <<>> => Reaches(Len(before), Len(after))'
    <3>1. calls' = <<>> => n = 1
      <4>1. calls' = <<>> => Len(calls') = 0
        OBVIOUS
      <4>2. Len(calls') = n - 1 /\ n \in Nat
        BY <1>1, <1>2
      <4> HIDE DEF n
      <4> QED
        BY <4>1, <4>2
    <3>2. n = 1 => Top.bEnd = Len(before) /\ Top.aEnd = Len(after)
      BY <2>2 DEF Top
    <3> QED
      BY <1>3, <3>1, <3>2 DEF Reaches, Emit
  <2>4. ASSUME calls' # <<>>
        PROVE  /\ Reaches(Top.bStart, Top.aStart)'
               /\ calls'[1].bEnd = Len(before)
               /\ calls'[1].aEnd = Len(after)
    <3>1. n - 1 \in 1 .. n - 1 /\ 1 \in 1 .. n - 1
      BY <1>1, <1>2, <2>4
    <3>2. Top' = calls[n - 1] /\ Top = calls[n - 1 + 1]
      BY <1>1, <1>2, <3>1 DEF Top
    <3>3. Top.bEnd = Top'.bStart /\ Top.aEnd = Top'.aStart
      BY <2>1, <3>1, <3>2
    <3> QED
      BY <1>2, <1>3, <2>2, <3>1, <3>3 DEF Reaches
  <2>5. \A i \in 1 .. Len(calls') - 1 :
           calls'[i + 1].bEnd = calls'[i].bStart /\ calls'[i + 1].aEnd = calls'[i].aStart
    <3>1. ASSUME NEW i \in 1 .. n - 2
          PROVE  i \in 1 .. n - 1 /\ i + 1 \in 1 .. n - 1
      BY <1>1
    <3> QED
      BY <1>1, <1>2, <2>1, <3>1
  <2>6. before' = before /\ after' = after
    BY DEF Emit
  <2> QED
    BY <2>3, <2>4, <2>5, <2>6 DEF Tiled
<1>7. (\A k \in DOMAIN ops : Fits(ops, k))'
  BY <1>3 DEF Fits, Emit
<1> QED
  BY <1>4, <1>5, <1>6, <1>7 DEF IInv

\* The next pending call covers lines of both sides, from a start to an end.
LEMMA TopCovers ==
    ASSUME IInv, Len(calls) > 0
    PROVE  /\ Top \in Call
           /\ Top.bStart \in Nat /\ Top.bEnd \in Nat /\ Top.bStart <= Top.bEnd
           /\ Top.aStart \in Nat /\ Top.aEnd \in Nat /\ Top.aStart <= Top.aEnd
<1>1. Len(calls) \in DOMAIN calls /\ calls \in Seq(Call)
  BY DEF IInv, ScriptType
<1>2. Top \in Call /\ Top.bStart <= Top.bEnd /\ Top.aStart <= Top.aEnd
  BY <1>1 DEF IInv, ScriptType, Top
<1> QED
  BY <1>2 DEF Call

LEMMA InsertAllKeeps ==
    ASSUME IInv, InsertAll
    PROVE  IInv'
<1> DEFINE t == Inserts(Top.aStart, Top.aEnd)
<1>1. Len(calls) > 0 /\ Top.bEnd - Top.bStart = 0 /\ Emit(t)
  BY DEF InsertAll, Pending
<1>2. /\ t \in Seq(Op)
      /\ \A k \in DOMAIN t : FitsAt(t, k, Top.bStart, Top.aStart)
      /\ Used(t, Len(t)) = 0
      /\ Made(t, Len(t)) = Top.aEnd - Top.aStart
  BY <1>1, TopCovers, InsertBlock
<1> HIDE DEF t
<1> QED
  BY <1>1, <1>2, Emitted

LEMMA DeleteAllKeeps ==
    ASSUME IInv, DeleteAll
    PROVE  IInv'
<1> DEFINE t == Deletes(Top.bStart, Top.bEnd)
<1>1. Len(calls) > 0 /\ Top.aStart = Top.aEnd /\ Emit(t)
  BY DEF DeleteAll
<1>2. /\ t \in Seq(Op)
      /\ \A k \in DOMAIN t : FitsAt(t, k, Top.bStart, Top.aStart)
      /\ Used(t, Len(t)) = Top.bEnd - Top.bStart
      /\ Made(t, Len(t)) = 0
  BY <1>1, TopCovers, DeleteBlock
<1>3. Top.aEnd - Top.aStart = 0
  BY <1>1, TopCovers
<1> HIDE DEF t
<1> QED
  BY <1>1, <1>2, <1>3, Emitted

\* A block that fits where another ends can be put behind it.
LEMMA Joined ==
    ASSUME NEW s \in Seq(Op), NEW t \in Seq(Op), NEW u \in Nat, NEW m \in Nat,
           \A k \in DOMAIN s : FitsAt(s, k, u, m),
           \A k \in DOMAIN t : FitsAt(t, k, u + Used(s, Len(s)), m + Made(s, Len(s)))
    PROVE  /\ s \o t \in Seq(Op)
           /\ \A k \in DOMAIN (s \o t) : FitsAt(s \o t, k, u, m)
           /\ Used(s \o t, Len(s \o t)) = Used(s, Len(s)) + Used(t, Len(t))
           /\ Made(s \o t, Len(s \o t)) = Made(s, Len(s)) + Made(t, Len(t))
<1>1. /\ Len(s) \in Nat /\ Len(t) \in Nat
      /\ DOMAIN s = 1 .. Len(s) /\ DOMAIN t = 1 .. Len(t)
      /\ s \o t \in Seq(Op)
      /\ Len(s \o t) = Len(s) + Len(t)
      /\ DOMAIN (s \o t) = 1 .. Len(s) + Len(t)
      /\ \A i \in 1 .. Len(s) + Len(t) :
            (s \o t)[i] = IF i <= Len(s) THEN s[i] ELSE t[i - Len(s)]
  BY ConcatProperties, LenProperties
<1>2. ASSUME NEW k \in 1 .. Len(s) PROVE FitsAt(s \o t, k, u, m)
  <2>1. (s \o t)[k] = s[k]
    BY <1>1
  <2>2. Used(s \o t, k) = Used(s, k) /\ Made(s \o t, k) = Made(s, k)
    BY <1>1, Beginning
  <2> QED
    BY <2>1, <2>2, <1>1 DEF FitsAt
<1>3. ASSUME NEW k \in 1 .. Len(t) PROVE FitsAt(s \o t, Len(s) + k, u, m)
  <2>1. (s \o t)[Len(s) + k] = t[k]
    <3>1. /\ Len(s) + k \in 1 .. Len(s) + Len(t)
          /\ ~(Len(s) + k <= Len(s))
          /\ Len(s) + k - Len(s) = k
      BY <1>1
    <3> QED
      BY <3>1, <1>1
  <2>2. /\ Used(s, Len(s)) \in Nat /\ Made(s, Len(s)) \in Nat
        /\ Used(t, k) \in Nat /\ Made(t, k) \in Nat
    BY <1>1, CountsAreNatural
  <2>3. /\ u + Used(s \o t, Len(s) + k) = u + Used(s, Len(s)) + Used(t, k)
        /\ m + Made(s \o t, Len(s) + k) = m + Made(s, Len(s)) + Made(t, k)
    BY <1>1, <2>2, Appended
  <2>4. FitsAt(t, k, u + Used(s, Len(s)), m + Made(s, Len(s)))
    BY <1>1
  <2> QED
    BY <2>1, <2>3, <2>4 DEF FitsAt
<1>4. ASSUME NEW k \in 1 .. Len(s) + Len(t) PROVE FitsAt(s \o t, k, u, m)
  <2>1. CASE k <= Len(s)
    BY <2>1, <1>1, <1>2
  <2>2. CASE k > Len(s)
    <3>1. k - Len(s) \in 1 .. Len(t) /\ k = Len(s) + (k - Len(s))
      BY <2>2, <1>1
    <3> QED
      BY <3>1, <1>3
  <2> QED
    BY <2>1, <2>2, <1>1
<1>5. /\ Used(s \o t, Len(s) + Len(t)) = Used(s, Len(s)) + Used(t, Len(t))
      /\ Made(s \o t, Len(s) + Len(t)) = Made(s, Len(s)) + Made(t, Len(t))
  BY <1>1, Appended
<1> QED
  BY <1>1, <1>4, <1>5

LEMMA ReplaceOneKeeps ==
    ASSUME IInv, ReplaceOne
    PROVE  IInv'
<1> DEFINE s == Deletes(Top.bStart, Top.bEnd)
           t == Inserts(Top.aStart, Top.aEnd)
<1>1. Len(calls) > 0 /\ Emit(s \o t)
  BY DEF ReplaceOne, Pending
<1>2. /\ Top.bStart \in Nat /\ Top.bEnd \in Nat
      /\ Top.aStart \in Nat /\ Top.aEnd \in Nat
  BY <1>1, TopCovers
<1>3. /\ s \in Seq(Op)
      /\ \A k \in DOMAIN s : FitsAt(s, k, Top.bStart, Top.aStart)
      /\ Used(s, Len(s)) = Top.bEnd - Top.bStart
      /\ Made(s, Len(s)) = 0
  BY <1>1, TopCovers, DeleteBlock
<1>4. /\ t \in Seq(Op)
      /\ \A k \in DOMAIN t : FitsAt(t, k, Top.bEnd, Top.aStart)
      /\ Used(t, Len(t)) = 0
      /\ Made(t, Len(t)) = Top.aEnd - Top.aStart
  BY <1>1, TopCovers, InsertBlock
<1> HIDE DEF s, t
<1>5. \A k \in DOMAIN t :
         FitsAt(t, k, Top.bStart + Used(s, Len(s)), Top.aStart + Made(s, Len(s)))
  <2>1. /\ Top.bStart + Used(s, Len(s)) = Top.bEnd
        /\ Top.aStart + Made(s, Len(s)) = Top.aStart
    BY <1>2, <1>3
  <2> QED
    BY <1>4, <2>1
<1>6. /\ s \o t \in Seq(Op)
      /\ \A k \in DOMAIN (s \o t) : FitsAt(s \o t, k, Top.bStart, Top.aStart)
      /\ Used(s \o t, Len(s \o t)) = Used(s, Len(s)) + Used(t, Len(t))
      /\ Made(s \o t, Len(s \o t)) = Made(s, Len(s)) + Made(t, Len(t))
  BY <1>2, <1>3, <1>4, <1>5, Joined
<1>7. /\ Used(s \o t, Len(s \o t)) = Top.bEnd - Top.bStart
      /\ Made(s \o t, Len(s \o t)) = Top.aEnd - Top.aStart
  BY <1>2, <1>3, <1>4, <1>6
<1> QED
  BY <1>1, <1>6, <1>7, Emitted

LEMMA KeepOneKeeps ==
    ASSUME IInv, KeepOne
    PROVE  IInv'
<1>1. Len(calls) > 0 /\ Top.bEnd - Top.bStart = 1
  BY DEF KeepOne, Pending
<1>2. PICK j \in Top.aStart + 1 .. Top.aEnd :
         /\ after[j] = before[Top.bEnd]
         /\ Emit([Inserts(Top.aStart, Top.aEnd) EXCEPT ![j - Top.aStart].kind = "equal"])
  BY DEF KeepOne
<1> DEFINE p == j - Top.aStart
           t == [Inserts(Top.aStart, Top.aEnd) EXCEPT ![p].kind = "equal"]
<1>3. /\ p \in 1 .. Top.aEnd - Top.aStart
      /\ before[Top.bStart + 1] = after[Top.aStart + p]
  <2>1. Top.bStart + 1 = Top.bEnd /\ Top.aStart + p = j /\ p \in 1 .. Top.aEnd - Top.aStart
    BY <1>1, TopCovers, SMTT(30)
  <2> QED
    BY <1>2, <2>1
<1> HIDE DEF p
<1>4. /\ t \in Seq(Op)
      /\ \A k \in DOMAIN t : FitsAt(t, k, Top.bStart, Top.aStart)
      /\ Used(t, Len(t)) = 1
      /\ Made(t, Len(t)) = Top.aEnd - Top.aStart
  <2>1. Top.aStart \in Nat /\ Top.aEnd \in Nat /\ Top.bStart \in Nat
    BY <1>1, TopCovers
  <2> QED
    BY <1>3, <2>1, KeepBlock, ZenonT(30)
<1>5. Emit(t)
  BY <1>2 DEF p
<1> HIDE DEF t
<1> QED
  BY <1>1, <1>4, <1>5, Emitted

\* What a division does to the pending calls.
LEMMA CallsDivided ==
    ASSUME calls \in Seq(Call), Len(calls) > 0, NEW first \in Call, NEW second \in Call,
           calls' = Append([calls EXCEPT ![Len(calls)] = second], first)
    PROVE  /\ calls' \in Seq(Call) /\ calls' # <<>>
           /\ Len(calls') = Len(calls) + 1
           /\ DOMAIN calls' = 1 .. Len(calls) + 1
           /\ \A i \in 1 .. Len(calls) - 1 : i \in 1 .. Len(calls) /\ calls'[i] = calls[i]
           /\ calls'[Len(calls)] = second
           /\ calls'[Len(calls) + 1] = first
<1> DEFINE n == Len(calls)
           c == [calls EXCEPT ![n] = second]
<1>1. n \in Nat /\ n \in 1 .. n /\ \A i \in 1 .. n - 1 : i \in 1 .. n /\ i # n
  OBVIOUS
<1>2. /\ c \in Seq(Call) /\ Len(c) = n
      /\ \A i \in 1 .. n : c[i] = IF i = n THEN second ELSE calls[i]
  <2> HIDE DEF n
  <2>1. calls \in Seq(Call) /\ Len(calls) = n
    BY DEF n
  <2> QED
    BY <1>1, <2>1, ExceptSeq
<1>3. calls' = Append(c, first)
  OBVIOUS
<1> HIDE DEF c, n
<1>4. /\ Append(c, first) \in Seq(Call)
      /\ Append(c, first) # <<>>
      /\ Len(Append(c, first)) = n + 1
      /\ \A i \in 1 .. n : Append(c, first)[i] = c[i]
      /\ Append(c, first)[n + 1] = first
  BY <1>2, AppendProperties
<1>5. /\ calls' \in Seq(Call) /\ calls' # <<>>
      /\ Len(calls') = n + 1
      /\ DOMAIN calls' = 1 .. n + 1
      /\ \A i \in 1 .. n - 1 : i \in 1 .. n /\ calls'[i] = calls[i]
      /\ calls'[n] = second
      /\ calls'[n + 1] = first
  <2>1. ASSUME NEW i \in 1 .. n - 1 PROVE i \in 1 .. n /\ calls'[i] = calls[i]
    BY <1>1, <1>2, <1>3, <1>4
  <2>2. calls'[n] = second
    BY <1>1, <1>2, <1>3, <1>4
  <2>3. DOMAIN calls' = 1 .. n + 1
    BY <1>3, <1>4
  <2> QED
    BY <1>3, <1>4, <2>1, <2>2, <2>3
<1> QED
  BY <1>5 DEF n

\* A call is split between its first row and its last.
LEMMA MiddleBetween ==
    ASSUME NEW c, c.bStart \in Nat, c.bEnd \in Nat, c.bStart <= c.bEnd
    PROVE  Middle(c) \in Nat /\ c.bStart <= Middle(c) /\ Middle(c) <= c.bEnd
<1> DEFINE s == c.bStart
           e == c.bEnd
           d == e - s
<1>1. s \in Nat /\ d \in Nat /\ s + d = e
  OBVIOUS
<1>2. Middle(c) = s + d \div 2
  BY DEF Middle
<1> HIDE DEF s, e, d
<1>3. d \div 2 \in Nat /\ d \div 2 <= d
  BY <1>1
<1>4. Middle(c) \in Nat /\ s <= Middle(c) /\ Middle(c) <= e
  BY <1>1, <1>2, <1>3
<1> QED
  BY <1>4 DEF s, e

\* Wherever a call splits, its two halves tile what it covered; the operations
\* so far still lead up to the first half.
LEMMA DivideKeeps ==
    ASSUME IInv, Divide
    PROVE  IInv'
<1> DEFINE n == Len(calls)
           bMid == Middle(Top)
<1>1. /\ n > 0 /\ Top.bEnd - Top.bStart > 1
      /\ UNCHANGED <<before, after, running, ops>>
  BY Zenon DEF Divide
<1>2. PICK aMid \in Top.aStart .. Top.aEnd :
         calls' = Append([calls EXCEPT ![n] = Over(bMid, Top.bEnd, aMid, Top.aEnd)],
                         Over(Top.bStart, bMid, Top.aStart, aMid))
  BY DEF Divide
<1>3. /\ Top.bStart \in Nat /\ Top.bEnd \in Nat
      /\ Top.aStart \in Nat /\ Top.aEnd \in Nat
  BY <1>1, TopCovers
<1>4. /\ bMid \in Nat /\ Top.bStart <= bMid /\ bMid <= Top.bEnd
      /\ aMid \in Nat /\ Top.aStart <= aMid /\ aMid <= Top.aEnd
  <2>1. Top.bStart <= Top.bEnd
    BY <1>1, <1>3
  <2>2. bMid \in Nat /\ Top.bStart <= bMid /\ bMid <= Top.bEnd
    BY <1>3, <2>1, MiddleBetween
  <2>3. aMid \in Nat /\ Top.aStart <= aMid /\ aMid <= Top.aEnd
    BY <1>3
  <2> QED
    BY <2>2, <2>3
<1> HIDE DEF bMid
<1> DEFINE first == Over(Top.bStart, bMid, Top.aStart, aMid)
           second == Over(bMid, Top.bEnd, aMid, Top.aEnd)
<1>5. first \in Call /\ second \in Call
  BY <1>3, <1>4 DEF Call, Over
<1>6. /\ calls \in Seq(Call) /\ n \in Nat /\ n \in 1 .. n
      /\ DOMAIN calls = 1 .. n /\ Len(calls) = n /\ Top = calls[n]
      /\ \A i \in 1 .. n - 1 : i \in 1 .. n /\ i # n
  <2>1. /\ calls \in Seq(Call) /\ n \in Nat /\ n > 0
        /\ DOMAIN calls = 1 .. n /\ Len(calls) = n /\ Top = calls[n]
    BY <1>1 DEF IInv, ScriptType, Top
  <2> HIDE DEF n
  <2> QED
    BY <2>1
<1>7. calls' = Append([calls EXCEPT ![n] = second], first)
  BY <1>2
<1> HIDE DEF first, second, n
<1>8. /\ calls' \in Seq(Call)
      /\ Len(calls') = n + 1
      /\ DOMAIN calls' = 1 .. n + 1
      /\ \A i \in 1 .. n - 1 : calls'[i] = calls[i]
      /\ calls'[n] = second
      /\ calls'[n + 1] = first
      /\ calls' # <<>>
  <2>1. Len(calls) > 0
    BY <1>1 DEF n
  <2> QED
    BY <1>5, <1>6, <1>7, <2>1, CallsDivided DEF n
<1>9. ScriptType'
  <2>1. ASSUME NEW i \in 1 .. n + 1
        PROVE  calls'[i].bStart <= calls'[i].bEnd /\ calls'[i].aStart <= calls'[i].aEnd
    <3>1. CASE i \in 1 .. n - 1
      <4>1. calls'[i] = calls[i] /\ i \in DOMAIN calls
        BY <1>6, <1>8, <3>1
      <4> QED
        BY <4>1 DEF IInv, ScriptType
    <3>2. CASE i = n
      BY <1>4, <1>8, <3>2 DEF second, Over
    <3>3. CASE i = n + 1
      BY <1>4, <1>8, <3>3 DEF first, Over
    <3>4. i \in 1 .. n - 1 \/ i = n \/ i = n + 1
      BY <1>6
    <3> QED
      BY <3>1, <3>2, <3>3, <3>4
  <2>2. /\ before' \in Seq(Content) /\ after' \in Seq(Content)
        /\ running' \in BOOLEAN
        /\ ops' \in Seq(Op)
    BY <1>1, Zenon DEF IInv, ScriptType
  <2> QED
    BY <1>8, <2>1, <2>2, Zenon DEF ScriptType
<1>10. (~running => calls = <<>>)'
  BY <1>1, <1>6 DEF IInv
<1>11. Tiled'
  <2>0. calls # <<>>
    BY <1>1, <1>6
  <2>1. Reaches(Top.bStart, Top.aStart)
    BY <2>0 DEF IInv, Tiled
  <2>2. calls[1].bEnd = Len(before) /\ calls[1].aEnd = Len(after)
    BY <2>0 DEF IInv, Tiled
  <2>3. \A i \in 1 .. n - 1 :
           calls[i + 1].bEnd = calls[i].bStart /\ calls[i + 1].aEnd = calls[i].aStart
    BY <1>6 DEF IInv, Tiled
  <2>4. Reaches(Top.bStart, Top.aStart)'
    <3>1. Top' = first
      BY <1>8 DEF Top
    <3>2. Top'.bStart = Top.bStart /\ Top'.aStart = Top.aStart
      BY <3>1 DEF first, Over
    <3> QED
      BY <1>1, <2>1, <3>2 DEF Reaches
  <2>5. calls'[1].bEnd = Len(before) /\ calls'[1].aEnd = Len(after)
    <3>1. CASE n = 1
      <4>1. calls'[1] = second /\ Top = calls[1]
        BY <1>6, <1>8, <3>1
      <4> QED
        BY <2>2, <4>1 DEF second, Over
    <3>2. CASE n # 1
      <4>1. calls'[1] = calls[1]
        BY <1>6, <1>8, <3>2
      <4> QED
        BY <2>2, <4>1
    <3> QED
      BY <3>1, <3>2
  <2>6. ASSUME NEW i \in 1 .. n
        PROVE  calls'[i + 1].bEnd = calls'[i].bStart /\ calls'[i + 1].aEnd = calls'[i].aStart
    <3>1. CASE i = n
      BY <1>8, <3>1 DEF first, second, Over
    <3>2. CASE i = n - 1
      <4>1. /\ i \in 1 .. n - 1 /\ i + 1 = n
            /\ calls'[i] = calls[i] /\ calls'[i + 1] = second /\ calls[i + 1] = Top
        BY <1>6, <1>8, <3>2
      <4>2. Top.bEnd = calls[i].bStart /\ Top.aEnd = calls[i].aStart
        BY <2>3, <4>1
      <4> QED
        BY <4>1, <4>2 DEF second, Over
    <3>3. CASE i < n - 1
      <4>1. i \in 1 .. n - 1 /\ i + 1 \in 1 .. n - 1
        BY <1>6, <3>3
      <4>2. calls'[i] = calls[i] /\ calls'[i + 1] = calls[i + 1]
        BY <1>8, <4>1
      <4> QED
        BY <2>3, <4>1, <4>2
    <3> QED
      BY <1>6, <3>1, <3>2, <3>3
  <2>7. Len(calls') - 1 = n
    BY <1>6, <1>8
  <2>8. before' = before /\ after' = after
    BY <1>1
  <2> QED
    BY <1>8, <2>4, <2>5, <2>6, <2>7, <2>8 DEF Tiled
<1>12. (\A k \in DOMAIN ops : Fits(ops, k))'
  <2>1. \A k \in DOMAIN ops : Fits(ops, k)
    BY DEF IInv
  <2> QED
    BY <1>1, <2>1 DEF Fits, Used, Made
<1> QED
  BY <1>9, <1>10, <1>11, <1>12 DEF IInv

\* A diff begins with nothing done and one call that covers everything,
\* whatever the last one left.
LEMMA DiffKeeps ==
    ASSUME NEW b \in Input, NEW a \in Input, Diff(b, a)
    PROVE  IInv'
<1> DEFINE c == Over(0, Len(b), 0, Len(a))
<1>1. /\ b \in Seq(Content) /\ a \in Seq(Content)
      /\ Len(b) \in Nat /\ Len(a) \in Nat
  BY InputAssumption
<1>2. /\ before' = b /\ after' = a /\ running' = TRUE
      /\ calls' = <<c>> /\ ops' = <<>>
  BY DEF Diff
<1>3. c \in Call
  BY <1>1 DEF Call, Over
<1>4. /\ calls' \in Seq(Call) /\ Len(calls') = 1 /\ DOMAIN calls' = 1 .. 1
      /\ calls'[1] = c /\ calls' # <<>>
  <2> HIDE DEF c
  <2> QED
    BY <1>2, <1>3
<1>5. ops' \in Seq(Op) /\ Len(ops') = 0 /\ DOMAIN ops' = 1 .. 0
  BY <1>2
<1>6. ScriptType'
  <2>1. \A i \in DOMAIN calls' :
           calls'[i].bStart <= calls'[i].bEnd /\ calls'[i].aStart <= calls'[i].aEnd
    BY <1>1, <1>4 DEF Over
  <2> QED
    BY <1>1, <1>2, <1>4, <1>5, <2>1, Zenon DEF ScriptType
<1>7. Tiled'
  <2>1. Used(ops', Len(ops')) = 0 /\ Made(ops', Len(ops')) = 0
    BY <1>5, NothingCounted
  <2>2. Top' = c
    BY <1>4 DEF Top
  <2>3. Reaches(Top.bStart, Top.aStart)'
    BY <2>1, <2>2 DEF Reaches, Over
  <2>4. calls'[1].bEnd = Len(before') /\ calls'[1].aEnd = Len(after')
    BY <1>2, <1>4 DEF Over
  <2>5. 1 .. Len(calls') - 1 = {}
    BY <1>4
  <2> HIDE DEF c
  <2> QED
    BY <1>4, <2>3, <2>4, <2>5 DEF Tiled
<1>8. (\A k \in DOMAIN ops : Fits(ops, k))'
  BY <1>5
<1> QED
  BY <1>2, <1>6, <1>7, <1>8 DEF IInv

LEMMA ReturnKeeps ==
    ASSUME IInv, Return
    PROVE  IInv'
<1>1. /\ calls' = <<>> /\ calls = <<>> /\ running' = FALSE
      /\ UNCHANGED <<before, after, calls, ops>>
  BY DEF Return
<1>2. ScriptType'
  <2>1. running' \in BOOLEAN
    BY <1>1
  <2> QED
    BY <1>1, <2>1, Zenon DEF IInv, ScriptType
<1>3. Tiled'
  BY <1>1 DEF IInv, Tiled, Reaches, Top
<1>4. (\A k \in DOMAIN ops : Fits(ops, k))'
  BY <1>1 DEF IInv, Fits, Used, Made
<1> QED
  BY <1>1, <1>2, <1>3, <1>4 DEF IInv

-----------------------------------------------------------------------------
(* The recursion ends.                                                     *)

\* A call that returns takes its lines of before out of the work, at least one
\* unless there is none at all.
LEMMA EmitWorks ==
    ASSUME IInv, WorkInv, Len(calls) > 0, NEW t, Emit(t)
    PROVE  WorkInv' /\ Work' \in 0 .. Work - 1
<1> DEFINE n == Len(calls)
           x == Len(before)
<1>1. /\ n \in Nat /\ n > 0 /\ x \in Nat /\ x = 0 <=> before = <<>>
      /\ calls \in Seq(Call) /\ DOMAIN calls = 1 .. n /\ calls # <<>>
      /\ Top = calls[n] /\ n \in 1 .. n
  BY EmptySeq DEF IInv, ScriptType, Top
<1>2. /\ Len(calls') = n - 1
      /\ DOMAIN calls' = 1 .. n - 1
      /\ \A i \in 1 .. n - 1 : calls'[i] = calls[i]
      /\ calls' = <<>> <=> n = 1
      /\ before' = before
  BY <1>1, SubSeqProperties, EmptySeq DEF Emit
<1>3. WorkInv'
  <2>1. ASSUME NEW i \in 1 .. n - 1 PROVE i \in DOMAIN calls /\ calls'[i] = calls[i]
    BY <1>1, <1>2
  <2> QED
    BY <1>2, <2>1 DEF WorkInv
<1>4. Top.bStart \in Nat /\ Top.bEnd \in Nat
  BY <1>1, TopCovers
<1>5. \/ before = <<>> /\ n = 1
      \/ Top.bStart < Top.bEnd /\ n <= x - Top.bStart
  BY <1>1 DEF WorkInv
<1>6. CASE before = <<>>
  <2>1. n = 1
    BY <1>1, <1>4, <1>5, <1>6
  <2>2. Work = 1 /\ Work' = 0
    BY <1>1, <1>2, <1>6, <2>1 DEF Work
  <2> QED
    BY <1>3, <2>2
<1>7. CASE before # <<>>
  <2>1. Work = 2 * (x - Top.bStart) - n
    BY <1>1, <1>7 DEF Work
  <2>2. Top.bStart < Top.bEnd /\ n <= x - Top.bStart
    BY <1>5, <1>7
  <2>3. CASE n = 1
    <3>1. Work' = 0
      BY <1>2, <2>3 DEF Work
    <3>2. Work \in Nat /\ Work >= 1
      <4>1. n \in Nat /\ x \in Nat
        BY <1>1
      <4> HIDE DEF n, x
      <4> QED
        BY <1>4, <2>1, <2>2, <2>3, <4>1
    <3> QED
      BY <1>3, <3>1, <3>2
  <2>4. CASE n # 1
    <3>1. n - 1 \in 1 .. n - 1 /\ n - 1 \in DOMAIN calls /\ n = n - 1 + 1
      BY <1>1, <2>4
    <3>2. Top' = calls[n - 1]
      BY <1>2, <3>1 DEF Top
    <3>3. Top'.bStart = Top.bEnd
      <4>1. calls[n - 1 + 1].bEnd = calls[n - 1].bStart
        BY <3>1 DEF IInv, Tiled
      <4> QED
        BY <1>1, <3>1, <3>2, <4>1
    <3>4. n - 1 <= x - Top.bEnd
      BY <1>7, <3>1, <3>2, <3>3 DEF WorkInv
    <3>5. Work' = 2 * (x - Top.bEnd) - (n - 1)
      BY <1>2, <1>7, <2>4, <3>3 DEF Work
    <3>6. n \in Nat /\ x \in Nat /\ n > 0
      BY <1>1
    <3>7. 2 * (x - Top.bEnd) - (n - 1) \in 0 .. 2 * (x - Top.bStart) - n - 1
      <4> DEFINE p == x - Top.bEnd
                 q == x - Top.bStart
      <4> HIDE DEF n, x
      <4>0. Top.bStart \in Nat /\ Top.bEnd \in Nat /\ Top.bStart < Top.bEnd
        BY <1>4, <2>2
      <4> DEFINE s == Top.bStart
                 e == Top.bEnd
      <4>1. p = x - e /\ q = x - s /\ s \in Nat /\ e \in Nat /\ s < e /\ x \in Nat /\ n \in Nat /\ n - 1 <= p
        BY <3>4, <3>6, <4>0
      <4> HIDE DEF p, q, s, e
      <4>3. p \in Int /\ q \in Int /\ n \in Nat /\ p < q /\ n - 1 <= p
        BY <4>1
      <4>2. 2 * p - (n - 1) \in 0 .. 2 * q - n - 1
        BY <3>6, <4>3, SMTT(30)
      <4> QED
        BY <4>2 DEF p, q
    <3> QED
      BY <1>3, <2>1, <3>5, <3>7
  <2> QED
    BY <2>3, <2>4
<1> QED
  BY <1>6, <1>7

\* A call that divides leaves lines to both its halves.
LEMMA DivideWorks ==
    ASSUME IInv, WorkInv, Divide
    PROVE  WorkInv' /\ Work' \in 0 .. Work - 1
<1> DEFINE n == Len(calls)
           x == Len(before)
           bMid == Middle(Top)
<1>1. /\ n \in Nat /\ n > 0 /\ x \in Nat /\ x = 0 <=> before = <<>>
      /\ calls \in Seq(Call) /\ DOMAIN calls = 1 .. n /\ calls # <<>>
      /\ Top = calls[n] /\ n \in 1 .. n
      /\ Top.bEnd - Top.bStart > 1
      /\ before' = before
  <2>1. /\ Len(calls) > 0
        /\ Top.bEnd - Top.bStart > 1
        /\ before' = before
    BY DEF Divide
  <2> QED
    BY <2>1, EmptySeq DEF IInv, ScriptType, Top
<1>2. PICK aMid \in Top.aStart .. Top.aEnd :
         calls' = Append([calls EXCEPT ![n] = Over(bMid, Top.bEnd, aMid, Top.aEnd)],
                         Over(Top.bStart, bMid, Top.aStart, aMid))
  BY DEF Divide
<1>3. /\ Top.bStart \in Nat /\ Top.bEnd \in Nat
      /\ bMid \in Nat /\ Top.bStart < bMid /\ bMid < Top.bEnd
  BY <1>1, TopCovers DEF Middle
<1> HIDE DEF bMid
<1> DEFINE first == Over(Top.bStart, bMid, Top.aStart, aMid)
           second == Over(bMid, Top.bEnd, aMid, Top.aEnd)
<1>4. first \in Call /\ second \in Call
  <2>1. Top.aStart \in Nat /\ Top.aEnd \in Nat
    BY <1>1, TopCovers
  <2> QED
    BY <1>3, <2>1 DEF Call, Over
<1>5. /\ Len(calls') = n + 1
      /\ DOMAIN calls' = 1 .. n + 1
      /\ \A i \in 1 .. n - 1 : calls'[i] = calls[i]
      /\ calls'[n] = second /\ calls'[n + 1] = first
      /\ calls' # <<>>
  <2>1. calls' = Append([calls EXCEPT ![Len(calls)] = second], first)
    BY <1>2
  <2> HIDE DEF second, first
  <2>2. /\ calls' # <<>>
        /\ Len(calls') = Len(calls) + 1
        /\ DOMAIN calls' = 1 .. Len(calls) + 1
        /\ \A i \in 1 .. Len(calls) - 1 : i \in 1 .. Len(calls) /\ calls'[i] = calls[i]
        /\ calls'[Len(calls)] = second
        /\ calls'[Len(calls) + 1] = first
    <3>1. calls \in Seq(Call) /\ Len(calls) > 0
      BY <1>1
    <3> QED
      BY <1>4, <2>1, <3>1, CallsDivided, ZenonT(30)
  <2> QED
    BY <2>2
<1>6. /\ first.bStart = Top.bStart /\ first.bEnd = bMid
      /\ second.bStart = bMid /\ second.bEnd = Top.bEnd
  BY DEF Over
<1> HIDE DEF first, second
<1>7. before # <<>> /\ n <= x - Top.bStart
  <2>1. \/ before = <<>> /\ n = 1
        \/ n <= x - Top.bStart
    BY <1>1 DEF WorkInv
  <2>2. n = 1 => Top.bEnd = x
    BY <1>1 DEF IInv, Tiled
  <2> QED
    BY <1>1, <1>3, <2>1, <2>2
<1>8. n <= x - bMid
  <2>1. CASE n = 1
    <3>1. Top.bEnd = x
      BY <1>1, <2>1 DEF IInv, Tiled
    <3> QED
      BY <1>3, <2>1, <3>1
  <2>2. CASE n # 1
    <3>1. n - 1 \in 1 .. n - 1 /\ n - 1 \in DOMAIN calls /\ n = n - 1 + 1
      BY <1>1, <2>2
    <3>2. Top.bEnd = calls[n - 1].bStart
      <4>1. calls[n - 1 + 1].bEnd = calls[n - 1].bStart
        BY <3>1 DEF IInv, Tiled
      <4> QED
        BY <1>1, <3>1, <4>1
    <3>3. n - 1 <= x - Top.bEnd
      BY <1>7, <3>1, <3>2 DEF WorkInv
    <3>4. n \in Nat /\ x \in Nat
      BY <1>1
    <3> HIDE DEF n, x
    <3> QED
      BY <1>3, <3>3, <3>4
  <2> QED
    BY <2>1, <2>2
<1>9. WorkInv'
  <2>1. ASSUME NEW i \in 1 .. n + 1
        PROVE  \/ before = <<>> /\ i = 1
               \/ calls'[i].bStart < calls'[i].bEnd /\ i <= x - calls'[i].bStart
    <3>1. CASE i \in 1 .. n - 1
      <4>1. i \in DOMAIN calls /\ calls'[i] = calls[i]
        BY <1>1, <1>5, <3>1
      <4> QED
        BY <4>1 DEF WorkInv
    <3>2. CASE i = n
      BY <1>3, <1>5, <1>6, <1>8, <3>2
    <3>3. CASE i = n + 1
      <4>1. n + 1 <= x - Top.bStart
        <5>1. n \in Nat /\ x \in Nat
          BY <1>1
        <5> HIDE DEF n, x
        <5> QED
          BY <1>3, <1>8, <5>1
      <4> QED
        BY <1>3, <1>5, <1>6, <3>3, <4>1
    <3>4. i \in 1 .. n - 1 \/ i = n \/ i = n + 1
      <4>1. n \in Nat
        BY <1>1
      <4> HIDE DEF n
      <4> QED
        BY <4>1
    <3> QED
      BY <3>1, <3>2, <3>3, <3>4
  <2> QED
    BY <1>1, <1>5, <2>1 DEF WorkInv
<1>10. Work = 2 * (x - Top.bStart) - n
  BY <1>1, <1>7 DEF Work
<1>11. Work' = 2 * (x - Top.bStart) - (n + 1)
  <2>1. Top' = first
    BY <1>5 DEF Top
  <2> QED
    BY <1>1, <1>5, <1>6, <1>7, <2>1 DEF Work
<1>12. Work' \in 0 .. Work - 1
  <2>1. n \in Nat /\ x \in Nat /\ n > 0 /\ n <= x - Top.bStart
    BY <1>1, <1>7
  <2> HIDE DEF n, x
  <2> QED
    BY <1>3, <1>10, <1>11, <2>1
<1> QED
  BY <1>9, <1>12

LEMMA RecurseWorks ==
    ASSUME IInv, WorkInv, Recurse
    PROVE  calls # <<>> /\ WorkInv' /\ Work' \in 0 .. Work - 1
<1>1. Len(calls) > 0
  BY Zenon DEF Recurse, InsertAll, DeleteAll, ReplaceOne, KeepOne, Divide, Pending
<1>2. calls # <<>>
  BY <1>1
<1>3. CASE Divide
  BY <1>2, <1>3, DivideWorks
<1>4. CASE ~Divide
  <2>1. PICK t : Emit(t)
    BY <1>4, Zenon DEF Recurse, InsertAll, DeleteAll, ReplaceOne, KeepOne
  <2>2. WorkInv' /\ Work' \in 0 .. Work - 1
    BY <1>1, <2>1, EmitWorks
  <2> QED
    BY <1>2, <2>2
<1> QED
  BY <1>3, <1>4, Zenon

LEMMA DiffWorks ==
    ASSUME NEW b \in Input, NEW a \in Input, Diff(b, a)
    PROVE  WorkInv'
<1>1. b \in Seq(Content) /\ Len(b) \in Nat /\ (Len(b) = 0 <=> b = <<>>)
  BY InputAssumption, EmptySeq
<1>2. before' = b /\ calls' = <<Over(0, Len(b), 0, Len(a))>>
  BY DEF Diff
<1>3. DOMAIN calls' = {1} /\ calls'[1].bStart = 0 /\ calls'[1].bEnd = Len(b)
  BY <1>2 DEF Over
<1> QED
  BY <1>1, <1>2, <1>3 DEF WorkInv

-----------------------------------------------------------------------------
(* The theorems.                                                           *)

LEMMA InitEstablishes == Init => IInv
<1> SUFFICES ASSUME Init PROVE IInv
  OBVIOUS
<1>1. /\ before \in Seq(Content) /\ after \in Seq(Content)
      /\ calls \in Seq(Call) /\ ops \in Seq(Op)
      /\ calls = <<>> /\ ops = <<>> /\ running = FALSE
      /\ Len(calls) = 0 /\ Len(ops) = 0 /\ Len(before) = 0 /\ Len(after) = 0
      /\ DOMAIN calls = {} /\ DOMAIN ops = {}
  BY DEF Init
<1>2. ScriptType
  <2>1. running \in BOOLEAN
    BY <1>1
  <2> QED
    BY <1>1, <2>1 DEF ScriptType
<1>3. Used(ops, Len(ops)) = 0 /\ Made(ops, Len(ops)) = 0
  BY <1>1, NothingCounted
<1>4. Tiled
  <2>1. 1 .. Len(calls) - 1 = {}
    BY <1>1
  <2> QED
    BY <1>1, <1>3, <2>1 DEF Tiled, Reaches
<1> QED
  BY <1>1, <1>2, <1>4 DEF IInv

LEMMA StepKeeps == IInv /\ [Next]_vars => IInv'
<1> SUFFICES ASSUME IInv, [Next]_vars PROVE IInv'
  OBVIOUS
<1>1. ASSUME NEW b \in Input, NEW a \in Input, Diff(b, a) PROVE IInv'
  BY <1>1, DiffKeeps
<1>2. CASE InsertAll
  BY <1>2, InsertAllKeeps
<1>3. CASE DeleteAll
  BY <1>3, DeleteAllKeeps
<1>4. CASE ReplaceOne
  BY <1>4, ReplaceOneKeeps
<1>5. CASE KeepOne
  BY <1>5, KeepOneKeeps
<1>6. CASE Divide
  BY <1>6, DivideKeeps
<1>7. CASE Return
  BY <1>7, ReturnKeeps
<1>8. CASE UNCHANGED vars
  BY <1>8 DEF vars, IInv, ScriptType, Tiled, Reaches, Top, Fits, Used, Made
<1> QED
  BY <1>1, <1>2, <1>3, <1>4, <1>5, <1>6, <1>7, <1>8 DEF Next, Recurse

\* For every content of the lines and every pair of sequences, at every step:
\* the operations lead up to the next pending call, and the pending calls
\* tile what is left to compare.
THEOREM ScriptTiled == Spec => []IInv
<1> QED
  BY InitEstablishes, StepKeeps, PTL DEF Spec

\* What Diff returns is an edit script, for every pair of sequences, however
\* often the object was used before.
THEOREM ScriptRight == Spec => []EditScript
<1>1. IInv => EditScript
  <2> SUFFICES ASSUME IInv, ~running PROVE EditScript
    BY DEF EditScript
  <2>1. calls = <<>>
    BY DEF IInv
  <2>2. Reaches(Len(before), Len(after))
    BY <2>1 DEF IInv, Tiled
  <2> QED
    BY <2>2 DEF IInv, EditScript, Reaches
<1> QED
  BY <1>1, ScriptTiled, PTL

LEMMA WorkKept == IInv /\ WorkInv /\ [Next]_vars => WorkInv'
<1> SUFFICES ASSUME IInv, WorkInv, [Next]_vars PROVE WorkInv'
  OBVIOUS
<1>1. ASSUME NEW b \in Input, NEW a \in Input, Diff(b, a) PROVE WorkInv'
  BY <1>1, DiffWorks
<1>2. CASE Recurse
  BY <1>2, RecurseWorks
<1>3. CASE Return
  BY <1>3 DEF Return, WorkInv
<1>4. CASE UNCHANGED vars
  BY <1>4 DEF vars, WorkInv
<1> QED
  BY <1>1, <1>2, <1>3, <1>4 DEF Next

\* For sequences of every length the recursion comes to an end: each call
\* leaves less work than it found, so that a diff of m lines with any number of
\* lines takes at most 2m - 1 calls, or one.
THEOREM RecursionEnds == Spec => EachCallCounts
<1>1. Init => WorkInv
  BY DEF Init, WorkInv
<1>2. Spec => []WorkInv
  BY <1>1, WorkKept, ScriptTiled, PTL DEF Spec
<1>3. IInv /\ WorkInv /\ [Next]_vars => [calls # <<>> => Work' \in 0 .. Work - 1]_vars
  <2> SUFFICES ASSUME IInv, WorkInv, [Next]_vars, calls # <<>>
               PROVE  UNCHANGED vars \/ Work' \in 0 .. Work - 1
    OBVIOUS
  <2>1. CASE Recurse
    BY <2>1, RecurseWorks
  <2>2. CASE Return
    BY <2>2 DEF Return
  <2>3. CASE \E b, a \in Input : Diff(b, a)
    BY <2>3 DEF Diff, IInv
  <2> QED
    BY <2>1, <2>2, <2>3 DEF Next
<1> QED
  BY <1>2, <1>3, ScriptTiled, PTL DEF EachCallCounts, Spec

-----------------------------------------------------------------------------
(* Bounded sets of numbers.                                                *)

\* A bounded set of natural numbers has a least member: of the intervals from
\* 0 to its members, which are finite, one contains no other.
LEMMA Least ==
    ASSUME NEW n \in Nat, NEW X, X \subseteq 0 .. n, X # {}
    PROVE  \E m \in X : \A k \in X : m <= k
<1> DEFINE U == 0 .. n
           T == {0 .. i : i \in X}
<1>1. IsFiniteSet(U)
  BY FS_Interval
<1>2. FiniteSubsetsOf(U) = SUBSET U
  BY <1>1, FS_FiniteSubsetsOfFinite
<1>3. IsWellFoundedOn(StrictSubsetOrdering(U), SUBSET U)
  BY <1>2, FS_StrictSubsetOrderingWellFounded
<1>4. T \subseteq SUBSET U /\ T # {}
  <2>1. ASSUME NEW i \in X PROVE 0 .. i \subseteq U
    OBVIOUS
  <2> QED
    BY <2>1
<1> HIDE DEF T
<1>5. PICK x \in T : \A y \in T : ~ (<<y, x>> \in StrictSubsetOrdering(U))
  BY <1>3, <1>4, WFMin
<1>6. PICK m \in X : x = 0 .. m
  BY <1>5 DEF T
<1>7. ASSUME NEW k \in X, k < m PROVE FALSE
  <2>1. 0 .. k \in T /\ 0 .. k \in SUBSET U /\ 0 .. m \in SUBSET U
    BY <1>4, <1>5, <1>6 DEF T
  <2>2. 0 .. k \subseteq 0 .. m /\ 0 .. k # 0 .. m
    <3>1. m \in Nat /\ k \in Nat
      OBVIOUS
    <3>2. m \in 0 .. m /\ m \notin 0 .. k
      BY <1>7, <3>1
    <3> QED
      BY <1>7, <3>1, <3>2
  <2>3. <<0 .. k, 0 .. m>> \in StrictSubsetOrdering(U)
    BY <2>1, <2>2 DEF StrictSubsetOrdering
  <2> QED
    BY <1>5, <1>6, <2>1, <2>3
<1> QED
  BY <1>7

\* And a greatest one.
LEMMA Greatest ==
    ASSUME NEW n \in Nat, NEW X, X \subseteq 0 .. n, X # {}
    PROVE  \E m \in X : \A k \in X : k <= m
<1> DEFINE Y == {y \in 0 .. n : n - y \in X}
<1>1. \A x \in X : x \in 0 .. n /\ n - x \in 0 .. n /\ n - (n - x) = x
  OBVIOUS
<1>2. Y # {}
  <2>1. PICK x \in X : TRUE
    OBVIOUS
  <2> QED
    BY <1>1, <2>1
<1>3. PICK y \in Y : \A k \in Y : y <= k
  BY <1>2, Least
<1>4. n - y \in X
  OBVIOUS
<1>5. ASSUME NEW k \in X PROVE k <= n - y
  <2>1. n - k \in Y
    BY <1>1
  <2> QED
    BY <1>1, <1>3, <2>1
<1> QED
  BY <1>4, <1>5

\* What holds of 0 and passes from each number to the next holds up to n.
LEMMA Upward ==
    ASSUME NEW n \in Nat, NEW Y, 0 \in Y, \A i \in 0 .. n - 1 : i \in Y => i + 1 \in Y
    PROVE  0 .. n \subseteq Y
<1> SUFFICES ASSUME 0 .. n \ Y # {} PROVE FALSE
  OBVIOUS
<1>1. PICK m \in 0 .. n \ Y : \A k \in 0 .. n \ Y : m <= k
  BY Least
<1>2. m # 0 /\ m \in Nat /\ m <= n
  OBVIOUS
<1>3. m - 1 \in 0 .. n - 1 /\ m - 1 \in 0 .. n /\ m - 1 + 1 = m
  BY <1>2
<1>4. m - 1 \in Y
  BY <1>1, <1>2, <1>3
<1> QED
  BY <1>3, <1>4

-----------------------------------------------------------------------------
(* Pairs of lines that do not cross.                                       *)

\* The most pairs of a finite set that can be kept is a number, some choice
\* keeps as many, and none keeps more.
LEMMA MostIs ==
    ASSUME NEW E, IsFiniteSet(E)
    PROVE  /\ Most(E) \in Nat
           /\ \E M \in SUBSET E : Uncrossed(M) /\ Cardinality(M) = Most(E)
           /\ \A M \in SUBSET E : Uncrossed(M) =>
                 IsFiniteSet(M) /\ Cardinality(M) \in Nat /\ Cardinality(M) <= Most(E)
<1> DEFINE X == {v \in 0 .. Cardinality(E) : \E M \in SUBSET E : Uncrossed(M) /\ Cardinality(M) = v}
<1>1. \A M \in SUBSET E :
         IsFiniteSet(M) /\ Cardinality(M) \in Nat /\ Cardinality(M) <= Cardinality(E)
  BY FS_Subset, FS_CardinalityType
<1>2. Cardinality(E) \in Nat
  BY FS_CardinalityType
<1>3. 0 \in X
  <2>1. Uncrossed({}) /\ {} \in SUBSET E
    BY DEF Uncrossed
  <2>2. Cardinality({}) = 0
    BY FS_EmptySet
  <2> QED
    BY <1>2, <2>1, <2>2
<1>4. PICK v \in X : \A k \in X : k <= v
  <2>1. X \subseteq 0 .. Cardinality(E) /\ X # {}
    BY <1>3
  <2> HIDE DEF X
  <2> QED
    BY <1>2, <2>1, Greatest
<1>5. \A M \in SUBSET E : Uncrossed(M) => Cardinality(M) \in X
  BY <1>1, <1>2
<1>6. \E w \in Nat :
         /\ \E M \in SUBSET E : Uncrossed(M) /\ Cardinality(M) = w
         /\ \A M \in SUBSET E : Uncrossed(M) => Cardinality(M) <= w
  <2>1. v \in Nat /\ \E M \in SUBSET E : Uncrossed(M) /\ Cardinality(M) = v
    OBVIOUS
  <2>2. \A M \in SUBSET E : Uncrossed(M) => Cardinality(M) <= v
    BY <1>4, <1>5
  <2> HIDE DEF X
  <2> QED
    BY <2>1, <2>2
<1>7. /\ Most(E) \in Nat
      /\ \E M \in SUBSET E : Uncrossed(M) /\ Cardinality(M) = Most(E)
      /\ \A M \in SUBSET E : Uncrossed(M) => Cardinality(M) <= Most(E)
  <2> HIDE DEF X
  <2> QED
    BY <1>6 DEF Most
<1> QED
  BY <1>1, <1>7

\* Fewer pairs keep no more.
LEMMA FewerKeepNoMore ==
    ASSUME NEW E, IsFiniteSet(E), NEW D, D \subseteq E
    PROVE  Most(D) <= Most(E) /\ IsFiniteSet(D)
<1>1. IsFiniteSet(D)
  BY FS_Subset
<1>2. PICK M \in SUBSET D : Uncrossed(M) /\ Cardinality(M) = Most(D)
  BY <1>1, MostIs
<1>3. M \in SUBSET E
  OBVIOUS
<1>4. Cardinality(M) <= Most(E)
  BY <1>2, <1>3, MostIs
<1> QED
  BY <1>1, <1>2, <1>4

\* No pairs, nothing kept.
LEMMA NoneKept == Most({}) = 0
<1>1. IsFiniteSet({}) /\ Cardinality({}) = 0
  BY FS_EmptySet
<1>2. PICK M \in SUBSET {} : Uncrossed(M) /\ Cardinality(M) = Most({})
  BY <1>1, MostIs
<1>3. M = {}
  BY <1>2
<1> QED
  BY <1>1, <1>2, <1>3

\* Pairs of numbers, all on one side of the corner c.
Pairs(E) == E \subseteq Int \X Int
Cornered(E, c) ==
    /\ Pairs(E) /\ c \in Int \X Int
    /\ \/ \A p \in E : p[1] <= c[1] /\ p[2] <= c[2]
       \/ \A p \in E : c[1] <= p[1] /\ c[2] <= p[2]

\* Of uncrossed pairs only one can lie on the edges of a corner, or else both
\* lie on the same edge and are the same.
LEMMA OneOnEdges ==
    ASSUME NEW M, NEW c, Cornered(M, c), Uncrossed(M),
           NEW p \in M, NEW q \in M, p[1] = c[1], q[2] = c[2]
    PROVE  p = c /\ q = c
<1>1. p \in Int \X Int /\ q \in Int \X Int /\ c \in Int \X Int
  BY DEF Cornered, Pairs
<1>2. p[1] < q[1] <=> p[2] < q[2]
  BY DEF Uncrossed
<1>3. q[1] < p[1] <=> q[2] < p[2]
  BY DEF Uncrossed
<1>4. p[1] \in Int /\ p[2] \in Int /\ q[1] \in Int /\ q[2] \in Int /\ c[1] \in Int /\ c[2] \in Int
  BY <1>1
<1>5. \/ p[2] <= c[2] /\ q[1] <= c[1]
      \/ c[2] <= p[2] /\ c[1] <= q[1]
  BY DEF Cornered
<1>6. p[2] = c[2] /\ q[1] = c[1]
  BY <1>2, <1>3, <1>4, <1>5
<1> QED
  BY <1>1, <1>6

\* A pair at the corner is worth keeping: with the pairs off its edges, which
\* it cannot cross.
LEMMA CornerKept ==
    ASSUME NEW E, IsFiniteSet(E), NEW c \in E, Cornered(E, c)
    PROVE  Most(E) = Most({p \in E : p[1] # c[1] /\ p[2] # c[2]}) + 1
<1> DEFINE D == {p \in E : p[1] # c[1] /\ p[2] # c[2]}
<1>0. \A p \in E : p \in Int \X Int /\ p[1] \in Int /\ p[2] \in Int
  BY DEF Cornered, Pairs
<1>1. IsFiniteSet(D) /\ D \subseteq E /\ c \notin D
  BY FS_Subset
<1>2. Most(D) + 1 <= Most(E)
  <2>1. PICK M \in SUBSET D : Uncrossed(M) /\ Cardinality(M) = Most(D)
    BY <1>1, MostIs
  <2>2. IsFiniteSet(M) /\ c \notin M /\ M \cup {c} \in SUBSET E
    BY <1>1, FS_Subset
  <2>3. Cardinality(M \cup {c}) = Most(D) + 1
    BY <2>1, <2>2, FS_AddElement
  <2>4. Uncrossed(M \cup {c})
    <3>1. ASSUME NEW p \in M
          PROVE  (p[1] < c[1] <=> p[2] < c[2]) /\ (c[1] < p[1] <=> c[2] < p[2])
      <4>1. p \in E /\ p[1] # c[1] /\ p[2] # c[2]
        OBVIOUS
      <4>2. (p[1] <= c[1] /\ p[2] <= c[2]) \/ (c[1] <= p[1] /\ c[2] <= p[2])
        BY <4>1 DEF Cornered
      <4> QED
        BY <1>0, <4>1, <4>2
    <3>2. ~(c[1] < c[1]) /\ ~(c[2] < c[2])
      BY <1>0
    <3> HIDE DEF D
    <3> QED
      BY <2>1, <3>1, <3>2 DEF Uncrossed
  <2> QED
    BY <2>2, <2>3, <2>4, MostIs
<1>3. Most(E) <= Most(D) + 1
  <2>1. PICK M \in SUBSET E : Uncrossed(M) /\ Cardinality(M) = Most(E)
    BY MostIs
  <2>2. Cornered(M, c) /\ IsFiniteSet(M) /\ IsFiniteSet(M \cap D)
    BY <2>1, FS_Subset DEF Cornered, Pairs
  <2>3. M \cap D \in SUBSET D /\ Uncrossed(M \cap D)
    BY <2>1 DEF Uncrossed
  <2>4. Cardinality(M \cap D) <= Most(D) /\ Cardinality(M \cap D) \in Nat
    BY <1>1, <2>3, MostIs
  <2>5. CASE M \subseteq D
    <3>1. M \cap D = M
      BY <2>5
    <3> QED
      BY <1>1, <2>1, <2>4, <3>1, MostIs
  <2>6. CASE \E x \in M : x \notin D
    <3>1. PICK x \in M : x \notin D
      BY <2>6
    <3>2. \A y \in M : y \notin D => y = x
      <4>1. ASSUME NEW y \in M, y \notin D PROVE y = x
        <5>1. x[1] = c[1] \/ x[2] = c[2]
          BY <3>1
        <5>2. y[1] = c[1] \/ y[2] = c[2]
          BY <4>1
        <5>3. CASE x[1] = c[1] /\ y[2] = c[2]
          BY <2>1, <2>2, <3>1, <4>1, <5>3, OneOnEdges
        <5>4. CASE x[2] = c[2] /\ y[1] = c[1]
          BY <2>1, <2>2, <3>1, <4>1, <5>4, OneOnEdges
        <5>5. CASE x[1] = y[1] \/ x[2] = y[2]
          <6>1. /\ x[1] < y[1] <=> x[2] < y[2]
                /\ y[1] < x[1] <=> y[2] < x[2]
            BY <2>1, <3>1, <4>1 DEF Uncrossed
          <6>2. x \in E /\ y \in E
            BY <3>1, <4>1
          <6> HIDE DEF D
          <6>3. x[1] = y[1] /\ x[2] = y[2]
            BY <1>0, <5>5, <6>1, <6>2
          <6> QED
            BY <1>0, <6>2, <6>3
        <5> QED
          BY <5>1, <5>2, <5>3, <5>4, <5>5
      <4> QED
        BY <4>1
    <3>3. M = (M \cap D) \cup {x} /\ x \notin M \cap D
      BY <3>1, <3>2
    <3> HIDE DEF D
    <3>4. Cardinality((M \cap D) \cup {x}) = Cardinality(M \cap D) + 1
      BY <2>2, <3>3, FS_AddElement
    <3>5. Cardinality(M) = Cardinality(M \cap D) + 1
      BY <3>3, <3>4
    <3>6. Most(D) \in Nat /\ Most(E) \in Nat
      BY <1>1, MostIs
    <3> QED
      BY <2>1, <2>4, <3>5, <3>6
  <2> QED
    BY <2>5, <2>6
<1>4. Most(D) \in Nat /\ Most(E) \in Nat
  <2> HIDE DEF D
  <2> QED
    BY <1>1, MostIs
<1> HIDE DEF D
<1>5. Most(E) = Most(D) + 1
  BY <1>2, <1>3, <1>4
<1> QED
  BY <1>5 DEF D

\* Where the corner is no pair, one of its edges can be done without.
LEMMA CornerSpared ==
    ASSUME NEW E, IsFiniteSet(E), NEW c, c \notin E, Cornered(E, c)
    PROVE  LET u == Most({p \in E : p[1] # c[1]})
               w == Most({p \in E : p[2] # c[2]})
           IN  Most(E) = IF u >= w THEN u ELSE w
<1> DEFINE A == {p \in E : p[1] # c[1]}
           B == {p \in E : p[2] # c[2]}
<1>1. A \subseteq E /\ B \subseteq E /\ IsFiniteSet(A) /\ IsFiniteSet(B)
  BY FS_Subset
<1>2. PICK M \in SUBSET E : Uncrossed(M) /\ Cardinality(M) = Most(E)
  BY MostIs
<1>3. M \subseteq A \/ M \subseteq B
  <2> SUFFICES ASSUME NEW p \in M, p \notin A, NEW q \in M, q \notin B PROVE FALSE
    OBVIOUS
  <2>1. p[1] = c[1] /\ q[2] = c[2]
    OBVIOUS
  <2>2. Cornered(M, c)
    BY DEF Cornered, Pairs
  <2>3. p = c
    BY <1>2, <2>1, <2>2, OneOnEdges
  <2> QED
    BY <2>3
<1> HIDE DEF A, B
<1>4. Most(E) <= Most(A) \/ Most(E) <= Most(B)
  BY <1>1, <1>2, <1>3, MostIs
<1>5. Most(A) <= Most(E) /\ Most(B) <= Most(E)
  BY <1>1, FewerKeepNoMore
<1>6. Most(A) \in Nat /\ Most(B) \in Nat /\ Most(E) \in Nat
  BY <1>1, MostIs
<1>7. Most(E) = IF Most(A) >= Most(B) THEN Most(A) ELSE Most(B)
  BY <1>4, <1>5, <1>6
<1> QED
  BY <1>7 DEF A, B

\* The pairs up to line b and those after it, each on its own side of line a,
\* can be kept together.
LEMMA HalvesKept ==
    ASSUME NEW E, IsFiniteSet(E), Pairs(E), NEW b \in Int, NEW a \in Int
    PROVE  Most({p \in E : p[1] <= b /\ p[2] <= a}) + Most({p \in E : b < p[1] /\ a < p[2]})
           <= Most(E)
<1> DEFINE C == {p \in E : p[1] <= b /\ p[2] <= a}
           D == {p \in E : b < p[1] /\ a < p[2]}
<1>0. \A p \in E : p[1] \in Int /\ p[2] \in Int
  BY DEF Pairs
<1>1. IsFiniteSet(C) /\ IsFiniteSet(D) /\ C \subseteq E /\ D \subseteq E
  BY FS_Subset
<1>2. PICK M \in SUBSET C : Uncrossed(M) /\ Cardinality(M) = Most(C)
  BY <1>1, MostIs
<1>3. PICK N \in SUBSET D : Uncrossed(N) /\ Cardinality(N) = Most(D)
  BY <1>1, MostIs
<1>4. ASSUME NEW p \in M, NEW q \in N
      PROVE  p # q /\ p[1] < q[1] /\ p[2] < q[2] /\ ~(q[1] < p[1]) /\ ~(q[2] < p[2])
  <2>1. p \in E /\ q \in E /\ p[1] <= b /\ p[2] <= a /\ b < q[1] /\ a < q[2]
    OBVIOUS
  <2> HIDE DEF C, D
  <2> QED
    BY <1>0, <2>1
<1>5. Uncrossed(M \cup N)
  <2> HIDE DEF C, D
  <2> QED
    BY <1>2, <1>3, <1>4 DEF Uncrossed
<1>6. M \cap N = {} /\ M \cup N \in SUBSET E
  <2>1. M \cap N = {}
    <3> HIDE DEF C, D
    <3> QED
      BY <1>4
  <2> QED
    BY <2>1
<1> HIDE DEF C, D
<1>7. Cardinality(M \cup N) = Most(C) + Most(D)
  <2>1. IsFiniteSet(M) /\ IsFiniteSet(N)
    BY <1>1, <1>2, <1>3, MostIs
  <2>2. Cardinality(M \cup N) = Cardinality(M) + Cardinality(N) - Cardinality(M \cap N)
    BY <2>1, FS_Union
  <2>3. Cardinality(M \cap N) = 0
    BY <1>6, FS_EmptySet
  <2>4. Most(C) \in Nat /\ Most(D) \in Nat
    BY <1>1, MostIs
  <2> QED
    BY <1>2, <1>3, <2>2, <2>3, <2>4
<1>8. Most(C) + Most(D) <= Most(E)
  BY <1>5, <1>6, <1>7, MostIs
<1> QED
  BY <1>8 DEF C, D

\* And at some line a nothing is lost by it: the last one on the side of after
\* that is kept with a line up to b.
LEMMA HalvesSuffice ==
    ASSUME NEW E, IsFiniteSet(E), Pairs(E), NEW b \in Int, NEW a0 \in Nat, NEW a1 \in Nat,
           a0 <= a1, \A p \in E : a0 < p[2] /\ p[2] <= a1
    PROVE  \E a \in a0 .. a1 :
              Most(E) <= Most({p \in E : p[1] <= b /\ p[2] <= a})
                         + Most({p \in E : b < p[1] /\ a < p[2]})
<1> DEFINE C(a) == {p \in E : p[1] <= b /\ p[2] <= a}
           D(a) == {p \in E : b < p[1] /\ a < p[2]}
<1>0. \A p \in E : p[1] \in Int /\ p[2] \in Int
  BY DEF Pairs
<1>1. PICK M \in SUBSET E : Uncrossed(M) /\ Cardinality(M) = Most(E)
  BY MostIs
<1> DEFINE low == {p \in M : p[1] <= b}
           high == {p \in M : b < p[1]}
<1>2. \E a \in a0 .. a1 : low \in SUBSET C(a) /\ high \in SUBSET D(a)
  <2>1. CASE low = {}
    <3>1. high \in SUBSET D(a0) /\ low \in SUBSET C(a0)
      BY <2>1
    <3>2. a0 \in a0 .. a1
      OBVIOUS
    <3> QED
      BY <3>1, <3>2
  <2>2. CASE low # {}
    <3> DEFINE X == {p[2] : p \in low}
    <3>1. \A p \in low : p \in E /\ p[2] \in 0 .. a1
      BY <1>0
    <3>2. X \subseteq 0 .. a1 /\ X # {}
      BY <2>2, <3>1
    <3> HIDE DEF X
    <3>3. PICK a \in X : \A k \in X : k <= a
      BY <3>2, Greatest
    <3>4. PICK p \in low : p[2] = a
      BY <3>3 DEF X
    <3>5. a \in a0 .. a1
      BY <1>0, <3>1, <3>2, <3>4
    <3>6. low \in SUBSET C(a)
      BY <3>3 DEF X
    <3>7. high \in SUBSET D(a)
      <4> SUFFICES ASSUME NEW q \in high PROVE q \in D(a)
        OBVIOUS
      <4>1. /\ p \in M /\ q \in M /\ p[1] <= b /\ b < q[1]
            /\ p[1] \in Int /\ q[1] \in Int /\ q \in E
        BY <1>0, <3>1
      <4>2. p[1] < q[1]
        BY <4>1
      <4>3. p[2] < q[2]
        BY <1>1, <4>1, <4>2 DEF Uncrossed
      <4> QED
        BY <3>4, <4>1, <4>3
    <3> QED
      BY <3>5, <3>6, <3>7
  <2> QED
    BY <2>1, <2>2
<1>3. PICK a \in a0 .. a1 : low \in SUBSET C(a) /\ high \in SUBSET D(a)
  BY <1>2
<1>4. Uncrossed(low) /\ Uncrossed(high)
  BY <1>1 DEF Uncrossed
<1>5. low \cup high = M /\ low \cap high = {}
  BY <1>0
<1>6. IsFiniteSet(C(a)) /\ IsFiniteSet(D(a)) /\ IsFiniteSet(low) /\ IsFiniteSet(high)
  <2>1. C(a) \subseteq E /\ D(a) \subseteq E /\ low \subseteq E /\ high \subseteq E
    OBVIOUS
  <2> HIDE DEF C, D, low, high
  <2> QED
    BY <2>1, FS_Subset
<1> HIDE DEF C, D, low, high
<1>7. Cardinality(M) = Cardinality(low) + Cardinality(high)
  <2>1. Cardinality(low \cup high) = Cardinality(low) + Cardinality(high) - Cardinality(low \cap high)
    BY <1>6, FS_Union
  <2>2. Cardinality(low \cap high) = 0
    BY <1>5, FS_EmptySet
  <2>3. Cardinality(low) \in Nat /\ Cardinality(high) \in Nat
    BY <1>6, FS_CardinalityType
  <2>4. Cardinality(M) = Cardinality(low \cup high)
    BY <1>5
  <2> QED
    BY <2>1, <2>2, <2>3, <2>4
<1>8. Cardinality(low) <= Most(C(a)) /\ Cardinality(high) <= Most(D(a))
  BY <1>3, <1>4, <1>6, MostIs
<1>9. /\ Cardinality(low) \in Nat /\ Cardinality(high) \in Nat
      /\ Most(C(a)) \in Nat /\ Most(D(a)) \in Nat
  BY <1>6, FS_CardinalityType, MostIs
<1>10. Most(E) <= Most(C(a)) + Most(D(a))
  BY <1>1, <1>7, <1>8, <1>9
<1> QED
  BY <1>3, <1>10 DEF C, D

-----------------------------------------------------------------------------
(* The longest common subsequence of two stretches of lines.               *)

\* The equal lines of two stretches are finitely many pairs of numbers.
LEMMA EqualAre ==
    ASSUME NEW b0 \in Int, NEW b1 \in Int, NEW a0 \in Int, NEW a1 \in Int
    PROVE  /\ IsFiniteSet(Equal(b0, b1, a0, a1))
           /\ Pairs(Equal(b0, b1, a0, a1))
           /\ Longest(b0, b1, a0, a1) \in Nat
<1> DEFINE R == (b0 + 1 .. b1) \X (a0 + 1 .. a1)
<1>1. IsFiniteSet(b0 + 1 .. b1) /\ IsFiniteSet(a0 + 1 .. a1)
  BY FS_Interval
<1>2. IsFiniteSet(R)
  BY <1>1, FS_Product
<1>3. Equal(b0, b1, a0, a1) \subseteq R
  BY DEF Equal
<1> HIDE DEF R
<1>4. IsFiniteSet(Equal(b0, b1, a0, a1))
  BY <1>2, <1>3, FS_Subset
<1>5. Pairs(Equal(b0, b1, a0, a1))
  BY <1>3 DEF R, Pairs
<1>6. Longest(b0, b1, a0, a1) \in Nat
  BY <1>4, MostIs DEF Longest
<1> QED
  BY <1>4, <1>5, <1>6

\* Without lines on one side there is nothing in common.
LEMMA NothingCommon ==
    ASSUME NEW b0 \in Int, NEW b1 \in Int, NEW a0 \in Int, NEW a1 \in Int, b1 <= b0 \/ a1 <= a0
    PROVE  Longest(b0, b1, a0, a1) = 0
<1>1. Equal(b0, b1, a0, a1) = {}
  <2>1. b0 + 1 .. b1 = {} \/ a0 + 1 .. a1 = {}
    OBVIOUS
  <2> QED
    BY <2>1 DEF Equal
<1> QED
  BY <1>1, NoneKept DEF Longest

\* What the last lines of two stretches add to what is common.
LEMMA LastLines ==
    ASSUME NEW b0 \in Int, NEW b1 \in Int, NEW a0 \in Int, NEW a1 \in Int, b0 < b1, a0 < a1
    PROVE  /\ before[b1] = after[a1] =>
                 Longest(b0, b1, a0, a1) = Longest(b0, b1 - 1, a0, a1 - 1) + 1
           /\ before[b1] # after[a1] =>
                 LET u == Longest(b0, b1 - 1, a0, a1)
                     w == Longest(b0, b1, a0, a1 - 1)
                 IN  Longest(b0, b1, a0, a1) = IF u >= w THEN u ELSE w
<1> DEFINE E == Equal(b0, b1, a0, a1)
           c == <<b1, a1>>
<1>1. IsFiniteSet(E) /\ Pairs(E)
  BY EqualAre
<1>2. c \in E <=> before[b1] = after[a1]
  <2>1. b1 \in b0 + 1 .. b1 /\ a1 \in a0 + 1 .. a1
    OBVIOUS
  <2> QED
    BY <2>1 DEF Equal
<1>3. Cornered(E, c)
  <2>1. \A p \in E : p[1] <= b1 /\ p[2] <= a1
    BY DEF Equal
  <2>2. c \in Int \X Int /\ c[1] = b1 /\ c[2] = a1
    OBVIOUS
  <2> HIDE DEF c, E
  <2> QED
    BY <1>1, <2>1, <2>2 DEF Cornered
<1>4. /\ b0 + 1 .. b1 - 1 = {i \in b0 + 1 .. b1 : i # b1}
      /\ a0 + 1 .. a1 - 1 = {j \in a0 + 1 .. a1 : j # a1}
  OBVIOUS
<1>5. /\ {p \in E : p[1] # c[1]} = Equal(b0, b1 - 1, a0, a1)
      /\ {p \in E : p[2] # c[2]} = Equal(b0, b1, a0, a1 - 1)
      /\ {p \in E : p[1] # c[1] /\ p[2] # c[2]} = Equal(b0, b1 - 1, a0, a1 - 1)
  BY <1>4, Zenon DEF Equal
<1> HIDE DEF E, c
<1>6. c \in E => Most(E) = Most({p \in E : p[1] # c[1] /\ p[2] # c[2]}) + 1
  BY <1>1, <1>3, CornerKept
<1>7. c \notin E =>
         LET u == Most({p \in E : p[1] # c[1]})
             w == Most({p \in E : p[2] # c[2]})
         IN  Most(E) = IF u >= w THEN u ELSE w
  BY <1>1, <1>3, CornerSpared
<1> QED
  BY <1>2, <1>5, <1>6, <1>7 DEF E, Longest

\* What the first lines add.
LEMMA FirstLines ==
    ASSUME NEW b0 \in Int, NEW b1 \in Int, NEW a0 \in Int, NEW a1 \in Int, b0 < b1, a0 < a1
    PROVE  /\ before[b0 + 1] = after[a0 + 1] =>
                 Longest(b0, b1, a0, a1) = Longest(b0 + 1, b1, a0 + 1, a1) + 1
           /\ before[b0 + 1] # after[a0 + 1] =>
                 LET u == Longest(b0 + 1, b1, a0, a1)
                     w == Longest(b0, b1, a0 + 1, a1)
                 IN  Longest(b0, b1, a0, a1) = IF u >= w THEN u ELSE w
<1> DEFINE E == Equal(b0, b1, a0, a1)
           c == <<b0 + 1, a0 + 1>>
<1>1. IsFiniteSet(E) /\ Pairs(E)
  BY EqualAre
<1>2. c \in E <=> before[b0 + 1] = after[a0 + 1]
  <2>1. b0 + 1 \in b0 + 1 .. b1 /\ a0 + 1 \in a0 + 1 .. a1
    OBVIOUS
  <2> QED
    BY <2>1 DEF Equal
<1>3. Cornered(E, c)
  <2>1. \A p \in E : b0 + 1 <= p[1] /\ a0 + 1 <= p[2]
    BY DEF Equal
  <2>2. c \in Int \X Int /\ c[1] = b0 + 1 /\ c[2] = a0 + 1
    OBVIOUS
  <2> HIDE DEF c, E
  <2> QED
    BY <1>1, <2>1, <2>2 DEF Cornered
<1>4. /\ b0 + 1 + 1 .. b1 = {i \in b0 + 1 .. b1 : i # b0 + 1}
      /\ a0 + 1 + 1 .. a1 = {j \in a0 + 1 .. a1 : j # a0 + 1}
  OBVIOUS
<1>5. /\ {p \in E : p[1] # c[1]} = Equal(b0 + 1, b1, a0, a1)
      /\ {p \in E : p[2] # c[2]} = Equal(b0, b1, a0 + 1, a1)
      /\ {p \in E : p[1] # c[1] /\ p[2] # c[2]} = Equal(b0 + 1, b1, a0 + 1, a1)
  BY <1>4, Zenon DEF Equal
<1> HIDE DEF E, c
<1>6. c \in E => Most(E) = Most({p \in E : p[1] # c[1] /\ p[2] # c[2]}) + 1
  BY <1>1, <1>3, CornerKept
<1>7. c \notin E =>
         LET u == Most({p \in E : p[1] # c[1]})
             w == Most({p \in E : p[2] # c[2]})
         IN  Most(E) = IF u >= w THEN u ELSE w
  BY <1>1, <1>3, CornerSpared
<1> QED
  BY <1>2, <1>5, <1>6, <1>7 DEF E, Longest

\* Two stretches, each divided at a line, have in common at least what their
\* halves have, and for some division of after no more.
LEMMA Divided ==
    ASSUME NEW b0 \in Nat, NEW b1 \in Nat, NEW a0 \in Nat, NEW a1 \in Nat,
           NEW b \in b0 .. b1, a0 <= a1
    PROVE  /\ \A a \in a0 .. a1 :
                 Longest(b0, b, a0, a) + Longest(b, b1, a, a1) <= Longest(b0, b1, a0, a1)
           /\ \E a \in a0 .. a1 :
                 Longest(b0, b1, a0, a1) <= Longest(b0, b, a0, a) + Longest(b, b1, a, a1)
<1> DEFINE E == Equal(b0, b1, a0, a1)
           C(a) == {p \in E : p[1] <= b /\ p[2] <= a}
           D(a) == {p \in E : b < p[1] /\ a < p[2]}
<1>1. IsFiniteSet(E) /\ Pairs(E) /\ b \in Int
  BY EqualAre
<1>2. ASSUME NEW a \in a0 .. a1
      PROVE  C(a) = Equal(b0, b, a0, a) /\ D(a) = Equal(b, b1, a, a1)
  <2>1. /\ b0 + 1 .. b = {i \in b0 + 1 .. b1 : i <= b}
        /\ a0 + 1 .. a = {i \in a0 + 1 .. a1 : i <= a}
        /\ b + 1 .. b1 = {i \in b0 + 1 .. b1 : b < i}
        /\ a + 1 .. a1 = {i \in a0 + 1 .. a1 : a < i}
    OBVIOUS
  <2> QED
    BY <2>1, Zenon DEF Equal
<1>3. \A p \in E : a0 < p[2] /\ p[2] <= a1
  BY DEF Equal
<1> HIDE DEF E
<1>4. \A a \in a0 .. a1 : Most(C(a)) + Most(D(a)) <= Most(E)
  BY <1>1, HalvesKept
<1>5. \E a \in a0 .. a1 : Most(E) <= Most(C(a)) + Most(D(a))
  BY <1>1, <1>3, HalvesSuffice, SMTT(30)
<1> HIDE DEF C, D
<1> QED
  BY <1>2, <1>4, <1>5 DEF Longest, E

-----------------------------------------------------------------------------
(* The dynamic program.                                                    *)

\* What NextRow puts into cell j of row f.
Cell(f, old, same, j) ==
    CASE j = 0 -> 0
      [] j > 0 /\ same[j] -> old[j - 1] + 1
      [] j > 0 /\ ~same[j] -> IF f[j - 1] >= old[j] THEN f[j - 1] ELSE old[j]

IsRow(f, n, old, same) == f = [j \in 0 .. n |-> Cell(f, old, same, j)]

\* There is a row whose cells are what NextRow says, so NextRow is one.
LEMMA RowExists ==
    ASSUME NEW n \in Nat, NEW old, \A j \in 0 .. n : old[j] \in Nat, NEW same
    PROVE  \E f : IsRow(f, n, old, same)
<1> DEFINE Is(f, m) == \A j \in 0 .. m : f[j] = Cell(f, old, same, j)
           Y == {m \in 0 .. n : \E f : f = [j \in 0 .. m |-> f[j]] /\ Is(f, m)}
<1>1. 0 \in Y
  <2> DEFINE f == [j \in 0 .. 0 |-> 0]
  <2>1. f = [j \in 0 .. 0 |-> f[j]] /\ Is(f, 0)
    BY DEF Cell
  <2> QED
    BY <2>1
<1>2. ASSUME NEW m \in 0 .. n - 1, m \in Y PROVE m + 1 \in Y
  <2>1. PICK f : f = [j \in 0 .. m |-> f[j]] /\ Is(f, m)
    BY <1>2
  <2> DEFINE g == [j \in 0 .. m + 1 |-> IF j = m + 1 THEN Cell(f, old, same, j) ELSE f[j]]
  <2>2. \A j \in 0 .. m : g[j] = f[j]
    OBVIOUS
  <2>3. \A j \in 0 .. m + 1 : Cell(g, old, same, j) = Cell(f, old, same, j)
    <3> SUFFICES ASSUME NEW j \in 0 .. m + 1 PROVE Cell(g, old, same, j) = Cell(f, old, same, j)
      OBVIOUS
    <3>1. j > 0 => g[j - 1] = f[j - 1]
      BY <2>2
    <3> HIDE DEF g
    <3> QED
      BY <3>1 DEF Cell
  <2>4. g[m + 1] = Cell(f, old, same, m + 1) /\ g = [j \in 0 .. m + 1 |-> g[j]]
    OBVIOUS
  <2> HIDE DEF g
  <2>5. Is(g, m + 1)
    <3> SUFFICES ASSUME NEW j \in 0 .. m + 1 PROVE g[j] = Cell(g, old, same, j)
      OBVIOUS
    <3>1. j \in 0 .. m \/ j = m + 1
      OBVIOUS
    <3> QED
      BY <2>1, <2>2, <2>3, <2>4, <3>1
  <2> QED
    BY <2>4, <2>5
<1>3. n \in Y
  <2> HIDE DEF Y
  <2>1. 0 .. n \subseteq Y
    BY <1>1, <1>2, Upward
  <2> QED
    BY <2>1
<1>4. PICK f : f = [j \in 0 .. n |-> f[j]] /\ Is(f, n)
  BY <1>3
<1>5. IsRow(f, n, old, same)
  BY <1>4 DEF IsRow
<1> QED
  BY <1>5

\* NextRow fills the cells from left to right, each from those before it.
LEMMA RowIs ==
    ASSUME NEW n \in Nat, NEW old, \A j \in 0 .. n : old[j] \in Nat, NEW same
    PROVE  \A j \in 0 .. n :
              NextRow(old, n, same)[j] = Cell(NextRow(old, n, same), old, same, j)
<1>1. PICK f : IsRow(f, n, old, same)
  BY RowExists
<1> DEFINE r == NextRow(old, n, same)
<1>2. r = [j \in 0 .. n |->
              CASE j = 0 -> 0
                [] j > 0 /\ same[j] -> old[j - 1] + 1
                [] j > 0 /\ ~same[j] -> IF r[j - 1] >= old[j] THEN r[j - 1] ELSE old[j]]
  <2>1. \E g : g = [j \in 0 .. n |->
              CASE j = 0 -> 0
                [] j > 0 /\ same[j] -> old[j - 1] + 1
                [] j > 0 /\ ~same[j] -> IF g[j - 1] >= old[j] THEN g[j - 1] ELSE old[j]]
    BY <1>1 DEF IsRow, Cell
  <2> QED
    BY <2>1 DEF NextRow
<1>3. r = [j \in 0 .. n |-> Cell(r, old, same, j)]
  <2> HIDE DEF r
  <2> QED
    BY <1>2 DEF Cell
<1> HIDE DEF r
<1>4. \A j \in 0 .. n : r[j] = Cell(r, old, same, j)
  BY <1>3
<1> QED
  BY <1>4 DEF r

\* The lengths over one more line, from those over the lines before.
Follows(new, old, same, n) ==
    /\ new[0] = 0
    /\ \A j \in 1 .. n :
          /\ same[j] => new[j] = old[j - 1] + 1
          /\ ~same[j] => new[j] = IF old[j] >= new[j - 1] THEN old[j] ELSE new[j - 1]

\* A row is computed right over a row that is right.
LEMMA RowRight ==
    ASSUME NEW n \in Nat, NEW old, NEW same, NEW lens,
           \A j \in 0 .. n : old[j] \in Nat, \A j \in 0 .. n : lens[j] \in Nat,
           Follows(lens, old, same, n)
    PROVE  \A j \in 0 .. n : NextRow(old, n, same)[j] = lens[j]
<1> DEFINE r == NextRow(old, n, same)
           Y == {j \in 0 .. n : r[j] = lens[j]}
<1>1. \A j \in 0 .. n : r[j] = Cell(r, old, same, j)
  BY RowIs
<1> HIDE DEF r
<1>2. 0 \in Y
  BY <1>1 DEF Cell, Follows
<1>3. ASSUME NEW j \in 0 .. n - 1, j \in Y PROVE j + 1 \in Y
  <2>1. j + 1 \in 1 .. n /\ j + 1 \in 0 .. n /\ j + 1 - 1 = j /\ j + 1 > 0 /\ j + 1 # 0 /\ j \in 0 .. n
    OBVIOUS
  <2>2. r[j] = lens[j]
    BY <1>3
  <2>3. r[j + 1] = Cell(r, old, same, j + 1)
    BY <1>1, <2>1
  <2>4. CASE same[j + 1]
    <3>1. r[j + 1] = old[j] + 1
      BY <2>1, <2>3, <2>4 DEF Cell
    <3>2. lens[j + 1] = old[j] + 1
      BY <2>1, <2>4 DEF Follows
    <3> QED
      BY <2>1, <3>1, <3>2
  <2>5. CASE ~same[j + 1]
    <3>1. r[j + 1] = IF r[j] >= old[j + 1] THEN r[j] ELSE old[j + 1]
      BY <2>1, <2>3, <2>5 DEF Cell
    <3>2. lens[j + 1] = IF old[j + 1] >= lens[j] THEN old[j + 1] ELSE lens[j]
      BY <2>1, <2>5 DEF Follows
    <3>3. old[j + 1] \in Nat /\ lens[j] \in Nat
      BY <2>1
    <3>4. r[j + 1] = lens[j + 1]
      BY <2>2, <3>1, <3>2, <3>3
    <3> QED
      BY <2>1, <3>4
  <2> QED
    BY <2>4, <2>5
<1>4. 0 .. n \subseteq Y
  <2> HIDE DEF Y
  <2> QED
    BY <1>2, <1>3, Upward
<1>5. \A j \in 0 .. n : r[j] = lens[j]
  BY <1>4
<1> QED
  BY <1>5 DEF r

\* What Pass makes of the rows for one more line.
NextRows(last, n, line) ==
    LET next == NextRow(last.new, n, line)
    IN  [old |-> last.new,
         new |-> [j \in DOMAIN last.old |-> IF j <= n THEN next[j] ELSE last.old[j]]]

ArePassed(f, start, k, n, same) ==
    f = [i \in 0 .. k |-> IF i = 0 THEN Clear(start, n) ELSE NextRows(f[i - 1], n, same[i])]

LEMMA PassExists ==
    ASSUME NEW k \in Nat, NEW n, NEW start, NEW same
    PROVE  \E f : ArePassed(f, start, k, n, same)
<1> DEFINE At(f, i) == IF i = 0 THEN Clear(start, n) ELSE NextRows(f[i - 1], n, same[i])
           Is(f, m) == \A i \in 0 .. m : f[i] = At(f, i)
           Y == {m \in 0 .. k : \E f : f = [i \in 0 .. m |-> f[i]] /\ Is(f, m)}
<1>1. 0 \in Y
  <2> DEFINE f == [i \in 0 .. 0 |-> Clear(start, n)]
  <2>1. f = [i \in 0 .. 0 |-> f[i]] /\ Is(f, 0) /\ 0 \in 0 .. k
    OBVIOUS
  <2> HIDE DEF f, At
  <2> QED
    BY <2>1
<1>2. ASSUME NEW m \in 0 .. k - 1, m \in Y PROVE m + 1 \in Y
  <2>1. PICK f : f = [i \in 0 .. m |-> f[i]] /\ Is(f, m)
    BY <1>2
  <2> DEFINE g == [i \in 0 .. m + 1 |-> IF i = m + 1 THEN At(f, i) ELSE f[i]]
  <2>2. \A i \in 0 .. m : g[i] = f[i]
    OBVIOUS
  <2>3. \A i \in 0 .. m + 1 : At(g, i) = At(f, i)
    <3> SUFFICES ASSUME NEW i \in 0 .. m + 1 PROVE At(g, i) = At(f, i)
      OBVIOUS
    <3>1. i > 0 => g[i - 1] = f[i - 1]
      BY <2>2
    <3> HIDE DEF g
    <3> QED
      BY <3>1
  <2>4. g[m + 1] = At(f, m + 1) /\ g = [i \in 0 .. m + 1 |-> g[i]]
    OBVIOUS
  <2> HIDE DEF g, At
  <2>5. Is(g, m + 1)
    <3> SUFFICES ASSUME NEW i \in 0 .. m + 1 PROVE g[i] = At(g, i)
      OBVIOUS
    <3>1. i \in 0 .. m \/ i = m + 1
      OBVIOUS
    <3> QED
      BY <2>1, <2>2, <2>3, <2>4, <3>1
  <2> QED
    BY <2>4, <2>5
<1>3. k \in Y
  <2> HIDE DEF Y
  <2>1. 0 .. k \subseteq Y
    BY <1>1, <1>2, Upward
  <2> QED
    BY <2>1
<1>4. PICK f : f = [i \in 0 .. k |-> f[i]] /\ Is(f, k)
  BY <1>3
<1>5. f = [i \in 0 .. k |-> At(f, i)]
  <2> HIDE DEF At
  <2> QED
    BY <1>4
<1>6. ArePassed(f, start, k, n, same)
  BY <1>5 DEF ArePassed
<1> QED
  BY <1>6

\* The rows f lead to p.
LeadTo(p, f, start, k, n, same) ==
    /\ f[0] = Clear(start, n)
    /\ \A i \in 1 .. k : f[i] = NextRows(f[i - 1], n, same[i])
    /\ p = f[k]

\* Pass clears the rows and computes one row after the other.
LEMMA PassIs ==
    ASSUME NEW k \in Nat, NEW n, NEW start, NEW same
    PROVE  \E f : LeadTo(Pass(start, k, n, same), f, start, k, n, same)
<1>1. PICK f : ArePassed(f, start, k, n, same)
  BY PassExists
<1> DEFINE r == CHOOSE g : ArePassed(g, start, k, n, same)
<1>2. ArePassed(r, start, k, n, same)
  BY <1>1
<1>3. Pass(start, k, n, same) = r[k]
  BY Zenon DEF Pass, ArePassed, NextRows
<1> HIDE DEF r
<1>4. \A i \in 0 .. k : r[i] = IF i = 0 THEN Clear(start, n) ELSE NextRows(r[i - 1], n, same[i])
  BY <1>2 DEF ArePassed
<1>5. r[0] = Clear(start, n)
  BY <1>4
<1>6. \A i \in 1 .. k : r[i] = NextRows(r[i - 1], n, same[i])
  BY <1>4
<1>7. LeadTo(Pass(start, k, n, same), r, start, k, n, same)
  BY <1>3, <1>5, <1>6 DEF LeadTo
<1> QED
  BY <1>7

\* Rows of a size, the new one with the lengths t up to n.
RightRows(rows, t, n, size) ==
    /\ rows.old \in [0 .. size - 1 -> Nat] /\ rows.new \in [0 .. size - 1 -> Nat]
    /\ \A j \in 0 .. n : rows.new[j] = t[j]

LEMMA ClearRight ==
    ASSUME NEW size \in Nat, NEW n \in 0 .. size - 1, NEW start,
           start.old \in [0 .. size - 1 -> Nat], start.new \in [0 .. size - 1 -> Nat],
           NEW t, \A j \in 0 .. n : t[j] = 0
    PROVE  RightRows(Clear(start, n), t, n, size)
<1> DEFINE c == Clear(start, n)
           o == start.old
           w == start.new
<1>1. c = [old |-> [j \in DOMAIN o |-> IF j <= n THEN 0 ELSE o[j]],
           new |-> [j \in DOMAIN w |-> IF j <= n THEN 0 ELSE w[j]]]
  BY Zenon DEF Clear
<1>2. o \in [0 .. size - 1 -> Nat] /\ w \in [0 .. size - 1 -> Nat]
  OBVIOUS
<1> HIDE DEF c, o, w
<1>3. /\ c.old = [j \in DOMAIN o |-> IF j <= n THEN 0 ELSE o[j]]
      /\ c.new = [j \in DOMAIN w |-> IF j <= n THEN 0 ELSE w[j]]
  BY <1>1
<1>4. DOMAIN o = 0 .. size - 1 /\ DOMAIN w = 0 .. size - 1
  BY <1>2
<1>5. c.old \in [0 .. size - 1 -> Nat] /\ c.new \in [0 .. size - 1 -> Nat]
  BY <1>2, <1>3, <1>4
<1>6. \A j \in 0 .. n : c.new[j] = 0
  BY <1>3, <1>4
<1> QED
  BY <1>5, <1>6 DEF c, RightRows

LEMMA NextRowsRight ==
    ASSUME NEW size \in Nat, NEW n \in 0 .. size - 1, NEW last, NEW line, NEW lens,
           last.old \in [0 .. size - 1 -> Nat], last.new \in [0 .. size - 1 -> Nat],
           \A j \in 0 .. n : lens[j] \in Nat, Follows(lens, last.new, line, n)
    PROVE  RightRows(NextRows(last, n, line), lens, n, size)
<1> DEFINE c == NextRows(last, n, line)
           o == last.old
           w == last.new
           next == NextRow(w, n, line)
<1>1. c = [old |-> w, new |-> [j \in DOMAIN o |-> IF j <= n THEN next[j] ELSE o[j]]]
  BY Zenon DEF NextRows
<1>2. o \in [0 .. size - 1 -> Nat] /\ w \in [0 .. size - 1 -> Nat] /\ Follows(lens, w, line, n)
  OBVIOUS
<1> HIDE DEF c, o, w
<1>3. /\ c.old = w
      /\ c.new = [j \in DOMAIN o |-> IF j <= n THEN next[j] ELSE o[j]]
  BY <1>1
<1>4. n \in Nat /\ \A j \in 0 .. n : w[j] \in Nat /\ lens[j] \in Nat
  BY <1>2
<1> HIDE DEF next
<1>5. \A j \in 0 .. n : next[j] = lens[j]
  <2>1. ASSUME NEW row, \A j \in 0 .. n : row[j] \in Nat, Follows(lens, row, line, n)
        PROVE  \A j \in 0 .. n : NextRow(row, n, line)[j] = lens[j]
    BY <1>4, <2>1, RowRight
  <2> QED
    BY <1>2, <1>4, <2>1 DEF next
<1>6. DOMAIN o = 0 .. size - 1 /\ \A j \in 0 .. n : next[j] \in Nat
  BY <1>2, <1>5
<1>7. c.new \in [0 .. size - 1 -> Nat]
  <2>1. \A j \in 0 .. size - 1 : j <= n => j \in 0 .. n
    OBVIOUS
  <2> QED
    BY <1>2, <1>3, <1>6, <2>1
<1>8. \A j \in 0 .. n : c.new[j] = next[j]
  <2>1. \A j \in 0 .. n : j \in 0 .. size - 1 /\ j <= n
    OBVIOUS
  <2> QED
    BY <1>3, <1>6, <2>1
<1> QED
  BY <1>2, <1>3, <1>5, <1>7, <1>8 DEF c, RightRows

\* Over rows that are long enough, the pass leaves the lengths over all k lines
\* in the new row, whatever the rows held.
LEMMA PassRight ==
    ASSUME NEW k \in Nat, NEW size \in Nat, NEW n \in 0 .. size - 1,
           NEW start, start.old \in [0 .. size - 1 -> Nat], start.new \in [0 .. size - 1 -> Nat],
           NEW same, NEW lens, \A i \in 0 .. k : \A j \in 0 .. n : lens[i][j] \in Nat,
           \A j \in 0 .. n : lens[0][j] = 0,
           \A i \in 1 .. k : Follows(lens[i], lens[i - 1], same[i], n)
    PROVE  RightRows(Pass(start, k, n, same), lens[k], n, size)
<1>1. PICK f : LeadTo(Pass(start, k, n, same), f, start, k, n, same)
  BY PassIs
<1> DEFINE Y == {i \in 0 .. k : RightRows(f[i], lens[i], n, size)}
<1>2. 0 \in Y
  <2>1. 0 \in 0 .. k /\ f[0] = Clear(start, n)
    BY <1>1 DEF LeadTo
  <2>2. RightRows(Clear(start, n), lens[0], n, size)
    BY ClearRight
  <2> QED
    BY <2>1, <2>2
<1>3. ASSUME NEW i \in 0 .. k - 1, i \in Y PROVE i + 1 \in Y
  <2>1. i + 1 \in 1 .. k /\ i + 1 \in 0 .. k /\ i + 1 - 1 = i /\ i \in 0 .. k
    OBVIOUS
  <2>2. RightRows(f[i], lens[i], n, size)
    BY <1>3
  <2>3. f[i + 1] = NextRows(f[i], n, same[i + 1])
    <3>1. \A j \in 1 .. k : f[j] = NextRows(f[j - 1], n, same[j])
      BY <1>1, Zenon DEF LeadTo
    <3>2. PICK j \in 1 .. k : j = i + 1 /\ j - 1 = i
      BY <2>1
    <3>3. f[j] = NextRows(f[j - 1], n, same[j])
      BY <3>1
    <3> QED
      BY <3>2, <3>3, Zenon
  <2>4. ASSUME NEW g, RightRows(g, lens[i], n, size)
        PROVE  RightRows(NextRows(g, n, same[i + 1]), lens[i + 1], n, size)
    <3>1. Follows(lens[i + 1], lens[i], same[i + 1], n)
      BY <2>1
    <3>2. \A j \in 1 .. n : j - 1 \in 0 .. n /\ j \in 0 .. n
      OBVIOUS
    <3>3. \A j \in 0 .. n : lens[i + 1][j] \in Nat
      BY <2>1
    <3>4. Follows(lens[i + 1], g.new, same[i + 1], n)
      BY <2>4, <3>1, <3>2 DEF Follows, RightRows
    <3>5. g.old \in [0 .. size - 1 -> Nat] /\ g.new \in [0 .. size - 1 -> Nat]
      BY <2>4 DEF RightRows
    <3> HIDE DEF Y
    <3> QED
      BY <3>3, <3>4, <3>5, NextRowsRight
  <2> QED
    BY <2>1, <2>2, <2>3, <2>4
<1>4. k \in Y
  <2> HIDE DEF Y
  <2>1. 0 .. k \subseteq Y
    BY <1>2, <1>3, Upward
  <2> QED
    BY <2>1
<1>5. Pass(start, k, n, same) = f[k]
  BY <1>1 DEF LeadTo
<1> QED
  BY <1>4, <1>5

\* The lengths over the lines b0 + 1 .. b1 and each prefix of those after a0.
RightForward(rows, b0, b1, a0, n, size) ==
    /\ rows.old \in [0 .. size - 1 -> Nat] /\ rows.new \in [0 .. size - 1 -> Nat]
    /\ \A j \in 0 .. n : rows.new[j] = Longest(b0, b1, a0, a0 + j)

\* The lengths over the lines b0 + 1 .. b1 and each suffix of those up to a1.
RightBackward(rows, b0, b1, a1, n, size) ==
    /\ rows.old \in [0 .. size - 1 -> Nat] /\ rows.new \in [0 .. size - 1 -> Nat]
    /\ \A j \in 0 .. n : rows.new[j] = Longest(b0, b1, a1 - j, a1)

\* The forward pass over k lines from b0 on leaves the lengths over each prefix
\* of the lines after a0.
LEMMA ForwardRight ==
    ASSUME NEW b0 \in Nat, NEW a0 \in Nat, NEW k \in Nat,
           NEW size \in Nat, NEW n \in 0 .. size - 1, NEW start,
           start.old \in [0 .. size - 1 -> Nat], start.new \in [0 .. size - 1 -> Nat],
           NEW same,
           \A i \in 1 .. k : \A j \in 1 .. n : same[i][j] <=> before[b0 + i] = after[a0 + j]
    PROVE  RightForward(Pass(start, k, n, same), b0, b0 + k, a0, n, size)
<1> DEFINE lens == [i \in 0 .. k |-> [j \in 0 .. n |-> Longest(b0, b0 + i, a0, a0 + j)]]
<1>1. \A i \in 0 .. k : \A j \in 0 .. n : lens[i][j] = Longest(b0, b0 + i, a0, a0 + j)
  OBVIOUS
<1>2. k \in 0 .. k /\ n \in Nat
  OBVIOUS
<1> HIDE DEF lens
<1>3. \A i \in 0 .. k : \A j \in 0 .. n : lens[i][j] \in Nat
  <2> SUFFICES ASSUME NEW i \in 0 .. k, NEW j \in 0 .. n PROVE lens[i][j] \in Nat
    OBVIOUS
  <2>1. b0 + i \in Int /\ b0 \in Int /\ a0 + j \in Int /\ a0 \in Int
    OBVIOUS
  <2>2. Longest(b0, b0 + i, a0, a0 + j) \in Nat
    BY <2>1, EqualAre
  <2> QED
    BY <1>1, <2>2
<1>4. \A j \in 0 .. n : lens[0][j] = 0
  <2> SUFFICES ASSUME NEW j \in 0 .. n PROVE lens[0][j] = 0
    OBVIOUS
  <2>1. Longest(b0, b0 + 0, a0, a0 + j) = 0
    BY NothingCommon
  <2> QED
    BY <1>1, <1>2, <2>1
<1>5. ASSUME NEW i \in 1 .. k PROVE Follows(lens[i], lens[i - 1], same[i], n)
  <2>0. i \in 0 .. k /\ i - 1 \in 0 .. k /\ 0 \in 0 .. n
    OBVIOUS
  <2>1. lens[i][0] = 0
    <3>1. Longest(b0, b0 + i, a0, a0 + 0) = 0
      BY NothingCommon
    <3> QED
      BY <1>1, <2>0, <3>1
  <2>2. ASSUME NEW j \in 1 .. n
        PROVE  /\ same[i][j] => lens[i][j] = lens[i - 1][j - 1] + 1
               /\ ~same[i][j] => lens[i][j] = IF lens[i - 1][j] >= lens[i][j - 1]
                                              THEN lens[i - 1][j] ELSE lens[i][j - 1]
    <3>1. j \in 0 .. n /\ j - 1 \in 0 .. n
      OBVIOUS
    <3> DEFINE b == b0 + i
               a == a0 + j
    <3>2. /\ b0 \in Int /\ a0 \in Int /\ b \in Int /\ a \in Int /\ b0 < b /\ a0 < a
          /\ b - 1 = b0 + (i - 1) /\ a - 1 = a0 + (j - 1) /\ b = b0 + i /\ a = a0 + j
      OBVIOUS
    <3> HIDE DEF b, a
    <3>3. /\ before[b] = after[a] =>
                Longest(b0, b, a0, a) = Longest(b0, b - 1, a0, a - 1) + 1
          /\ before[b] # after[a] =>
                LET u == Longest(b0, b - 1, a0, a)
                    w == Longest(b0, b, a0, a - 1)
                IN  Longest(b0, b, a0, a) = IF u >= w THEN u ELSE w
      BY <3>2, LastLines
    <3>4. /\ lens[i][j] = Longest(b0, b, a0, a)
          /\ lens[i - 1][j - 1] = Longest(b0, b - 1, a0, a - 1)
          /\ lens[i - 1][j] = Longest(b0, b - 1, a0, a)
          /\ lens[i][j - 1] = Longest(b0, b, a0, a - 1)
      <4>1. /\ lens[i][j] = Longest(b0, b0 + i, a0, a0 + j)
            /\ lens[i - 1][j - 1] = Longest(b0, b0 + (i - 1), a0, a0 + (j - 1))
            /\ lens[i - 1][j] = Longest(b0, b0 + (i - 1), a0, a0 + j)
            /\ lens[i][j - 1] = Longest(b0, b0 + i, a0, a0 + (j - 1))
        BY <1>1, <2>0, <3>1, Zenon
      <4> QED
        BY <3>2, <4>1, Zenon
    <3>5. same[i][j] <=> before[b] = after[a]
      BY <2>0, <3>2
    <3> QED
      BY <3>3, <3>4, <3>5
  <2> QED
    BY <2>1, <2>2 DEF Follows
<1>6. RightRows(Pass(start, k, n, same), lens[k], n, size)
  BY <1>2, <1>3, <1>4, <1>5, PassRight
<1> QED
  BY <1>1, <1>2, <1>6 DEF RightRows, RightForward

\* The backward pass over k lines up to b1 leaves the lengths over each suffix
\* of the lines up to a1.
LEMMA BackwardRight ==
    ASSUME NEW b1 \in Nat, NEW a1 \in Nat, NEW k \in Nat,
           NEW size \in Nat, NEW n \in 0 .. size - 1, NEW start,
           start.old \in [0 .. size - 1 -> Nat], start.new \in [0 .. size - 1 -> Nat],
           NEW same,
           \A i \in 1 .. k : \A j \in 1 .. n :
              same[i][j] <=> before[b1 + 1 - i] = after[a1 + 1 - j]
    PROVE  RightBackward(Pass(start, k, n, same), b1 - k, b1, a1, n, size)
<1> DEFINE lens == [i \in 0 .. k |-> [j \in 0 .. n |-> Longest(b1 - i, b1, a1 - j, a1)]]
<1>1. \A i \in 0 .. k : \A j \in 0 .. n : lens[i][j] = Longest(b1 - i, b1, a1 - j, a1)
  OBVIOUS
<1>2. k \in 0 .. k /\ n \in Nat
  OBVIOUS
<1> HIDE DEF lens
<1>3. \A i \in 0 .. k : \A j \in 0 .. n : lens[i][j] \in Nat
  <2> SUFFICES ASSUME NEW i \in 0 .. k, NEW j \in 0 .. n PROVE lens[i][j] \in Nat
    OBVIOUS
  <2>1. b1 - i \in Int /\ b1 \in Int /\ a1 - j \in Int /\ a1 \in Int
    OBVIOUS
  <2>2. Longest(b1 - i, b1, a1 - j, a1) \in Nat
    BY <2>1, EqualAre
  <2> QED
    BY <1>1, <2>2
<1>4. \A j \in 0 .. n : lens[0][j] = 0
  <2> SUFFICES ASSUME NEW j \in 0 .. n PROVE lens[0][j] = 0
    OBVIOUS
  <2>1. Longest(b1 - 0, b1, a1 - j, a1) = 0
    BY NothingCommon
  <2> QED
    BY <1>1, <1>2, <2>1
<1>5. ASSUME NEW i \in 1 .. k PROVE Follows(lens[i], lens[i - 1], same[i], n)
  <2>0. i \in 0 .. k /\ i - 1 \in 0 .. k /\ 0 \in 0 .. n
    OBVIOUS
  <2>1. lens[i][0] = 0
    <3>1. Longest(b1 - i, b1, a1 - 0, a1) = 0
      BY NothingCommon
    <3> QED
      BY <1>1, <2>0, <3>1
  <2>2. ASSUME NEW j \in 1 .. n
        PROVE  /\ same[i][j] => lens[i][j] = lens[i - 1][j - 1] + 1
               /\ ~same[i][j] => lens[i][j] = IF lens[i - 1][j] >= lens[i][j - 1]
                                              THEN lens[i - 1][j] ELSE lens[i][j - 1]
    <3>1. j \in 0 .. n /\ j - 1 \in 0 .. n
      OBVIOUS
    <3> DEFINE b == b1 - i
               a == a1 - j
    <3>2. /\ b1 \in Int /\ a1 \in Int /\ b \in Int /\ a \in Int /\ b < b1 /\ a < a1
          /\ b + 1 = b1 - (i - 1) /\ a + 1 = a1 - (j - 1)
          /\ b + 1 = b1 + 1 - i /\ a + 1 = a1 + 1 - j /\ b = b1 - i /\ a = a1 - j
      OBVIOUS
    <3> HIDE DEF b, a
    <3>3. /\ before[b + 1] = after[a + 1] =>
                Longest(b, b1, a, a1) = Longest(b + 1, b1, a + 1, a1) + 1
          /\ before[b + 1] # after[a + 1] =>
                LET u == Longest(b + 1, b1, a, a1)
                    w == Longest(b, b1, a + 1, a1)
                IN  Longest(b, b1, a, a1) = IF u >= w THEN u ELSE w
      BY <3>2, FirstLines
    <3>4. /\ lens[i][j] = Longest(b, b1, a, a1)
          /\ lens[i - 1][j - 1] = Longest(b + 1, b1, a + 1, a1)
          /\ lens[i - 1][j] = Longest(b + 1, b1, a, a1)
          /\ lens[i][j - 1] = Longest(b, b1, a + 1, a1)
      <4>1. /\ lens[i][j] = Longest(b1 - i, b1, a1 - j, a1)
            /\ lens[i - 1][j - 1] = Longest(b1 - (i - 1), b1, a1 - (j - 1), a1)
            /\ lens[i - 1][j] = Longest(b1 - (i - 1), b1, a1 - j, a1)
            /\ lens[i][j - 1] = Longest(b1 - i, b1, a1 - (j - 1), a1)
        BY <1>1, <2>0, <3>1, Zenon
      <4> QED
        BY <3>2, <4>1, Zenon
    <3>5. same[i][j] <=> before[b + 1] = after[a + 1]
      <4>1. same[i][j] <=> before[b1 + 1 - i] = after[a1 + 1 - j]
        BY <2>0, Zenon
      <4> QED
        BY <3>2, <4>1, Zenon
    <3> QED
      BY <3>3, <3>4, <3>5
  <2> QED
    BY <2>1, <2>2 DEF Follows
<1>6. RightRows(Pass(start, k, n, same), lens[k], n, size)
  BY <1>2, <1>3, <1>4, <1>5, PassRight
<1> QED
  BY <1>1, <1>2, <1>6 DEF RightRows, RightBackward

-----------------------------------------------------------------------------
(* The split.                                                              *)

\* What a division of call c at line a of after keeps in its two halves.
Score(c, a) ==
    Longest(c.bStart, Middle(c), c.aStart, a) + Longest(Middle(c), c.bEnd, a, c.aEnd)

\* Divide takes the first of the divisions that keep most.
FirstBest(c, aMid) ==
    \A a \in c.aStart .. c.aEnd :
        Score(c, a) <= Score(c, aMid) /\ (a < aMid => Score(c, a) < Score(c, aMid))

Rows(size) == row0 \in [0 .. size - 1 -> Nat] /\ row1 \in [0 .. size - 1 -> Nat]

\* What a pending call covers.
LEMMA TopInside ==
    ASSUME IInv, RowsLong, Len(calls) > 0
    PROVE  /\ running
           /\ Top.bStart \in Nat /\ Top.bEnd \in Nat /\ Top.bStart <= Top.bEnd
           /\ Top.aStart \in Nat /\ Top.aEnd \in Nat /\ Top.aStart <= Top.aEnd
           /\ Top.bEnd <= Len(before) /\ Top.aEnd <= Len(after)
           /\ before \in Seq(Content) /\ after \in Seq(Content)
           /\ Len(before) \in Nat /\ Len(after) \in Nat
<1>1. before \in Seq(Content) /\ after \in Seq(Content) /\ calls \in Seq(Call)
  BY DEF IInv, ScriptType
<1>2. running
  BY <1>1 DEF IInv
<1>3. Len(calls) \in DOMAIN calls
  BY <1>1
<1> QED
  BY <1>1, <1>2, <1>3, TopCovers DEF RowsLong, Top

LEMMA DivideScores ==
    ASSUME IInv, RowsLong, Divide, NEW size \in Nat, Rows(size), size > Len(after)
    PROVE  /\ Rows(size)'
           /\ \E aMid \in Top.aStart .. Top.aEnd :
                 /\ FirstBest(Top, aMid)
                 /\ calls' = Append([calls EXCEPT ![Len(calls)] =
                                        Over(Middle(Top), Top.bEnd, aMid, Top.aEnd)],
                                    Over(Top.bStart, Middle(Top), Top.aStart, aMid))
<1> DEFINE b0 == Top.bStart
           b1 == Top.bEnd
           a0 == Top.aStart
           a1 == Top.aEnd
           m == b1 - b0
           n == a1 - a0
           bMid == Middle(Top)
           start == [old |-> row0, new |-> row1]
           forward == Pass(start, bMid - b0, n,
                           [i \in 1 .. m |-> [j \in 1 .. n |-> before[b0 + i] = after[a0 + j]]])
           backward == Pass(forward, b1 - bMid, n,
                            [i \in 1 .. m |-> [j \in 1 .. n |->
                                before[b1 + 1 - i] = after[a1 + 1 - j]]])
           score == [j \in a0 .. a1 |-> forward.new[j - a0] + backward.new[a1 - j]]
<1>1. /\ Len(calls) > 0 /\ m > 1
      /\ row0' = backward.old /\ row1' = backward.new
  BY Zenon DEF Divide
<1>2. PICK aMid \in a0 .. a1 :
         /\ Best(score, aMid)
         /\ calls' = Append([calls EXCEPT ![Len(calls)] = Over(bMid, b1, aMid, a1)],
                            Over(b0, bMid, a0, aMid))
  BY Zenon DEF Divide
<1>3. /\ b0 \in Nat /\ b1 \in Nat /\ b0 <= b1 /\ a0 \in Nat /\ a1 \in Nat /\ a0 <= a1
      /\ a1 <= Len(after) /\ Len(after) \in Nat
  BY <1>1, TopInside
<1>4. bMid \in Nat /\ b0 <= bMid /\ bMid <= b1
  <2>1. bMid = b0 + (b1 - b0) \div 2
    BY DEF Middle
  <2> HIDE DEF bMid, b0, b1
  <2> QED
    BY <1>1, <1>3, <2>1
<1>5. start.old \in [0 .. size - 1 -> Nat] /\ start.new \in [0 .. size - 1 -> Nat]
  BY DEF Rows
<1> DEFINE k == bMid - b0
           l == b1 - bMid
<1>6. /\ n \in 0 .. size - 1 /\ m \in Nat
      /\ k \in Nat /\ k <= m /\ b0 + k = bMid
      /\ l \in Nat /\ l <= m /\ b1 - l = bMid
  <2> HIDE DEF bMid, b0, b1, a0, a1
  <2> QED
    BY <1>3, <1>4
<1> DEFINE same == [i \in 1 .. m |-> [j \in 1 .. n |-> before[b0 + i] = after[a0 + j]]]
           back == [i \in 1 .. m |-> [j \in 1 .. n |-> before[b1 + 1 - i] = after[a1 + 1 - j]]]
<1>7. forward = Pass(start, k, n, same) /\ backward = Pass(forward, l, n, back)
  OBVIOUS
<1> HIDE DEF start, bMid, b0, b1, a0, a1, m, n, k, l
<1>8. \A i \in 1 .. k : \A j \in 1 .. n : same[i][j] <=> before[b0 + i] = after[a0 + j]
  <2>1. \A i \in 1 .. k : i \in 1 .. m
    BY <1>6
  <2> QED
    BY <2>1
<1>9. \A i \in 1 .. l : \A j \in 1 .. n :
         back[i][j] <=> before[b1 + 1 - i] = after[a1 + 1 - j]
  <2>1. \A i \in 1 .. l : i \in 1 .. m
    BY <1>6
  <2> QED
    BY <2>1
<1> HIDE DEF same, back, forward, backward
<1>10. RightForward(forward, b0, bMid, a0, n, size)
  <2>1. RightForward(Pass(start, k, n, same), b0, b0 + k, a0, n, size)
    BY <1>3, <1>5, <1>6, <1>8, ForwardRight
  <2> QED
    BY <1>6, <1>7, <2>1
<1>11. forward.old \in [0 .. size - 1 -> Nat] /\ forward.new \in [0 .. size - 1 -> Nat]
  BY <1>10 DEF RightForward
<1>12. RightBackward(backward, bMid, b1, a1, n, size)
  <2>1. RightBackward(Pass(forward, l, n, back), b1 - l, b1, a1, n, size)
    BY <1>3, <1>6, <1>9, <1>11, BackwardRight
  <2> QED
    BY <1>6, <1>7, <2>1
<1>13. Rows(size)'
  BY <1>1, <1>12 DEF Rows, RightBackward
<1>14. ASSUME NEW j \in a0 .. a1
       PROVE  score[j] = Longest(b0, bMid, a0, j) + Longest(bMid, b1, j, a1)
  <2>1. /\ j - a0 \in 0 .. n /\ a1 - j \in 0 .. n
        /\ a0 + (j - a0) = j /\ a1 - (a1 - j) = j
    BY <1>3 DEF n
  <2>2. forward.new[j - a0] = Longest(b0, bMid, a0, j)
    BY <1>10, <2>1 DEF RightForward
  <2>3. backward.new[a1 - j] = Longest(bMid, b1, j, a1)
    BY <1>12, <2>1 DEF RightBackward
  <2> QED
    BY <2>2, <2>3
<1>15. FirstBest(Top, aMid)
  <2>1. DOMAIN score = a0 .. a1
    OBVIOUS
  <2>2. \A i \in a0 .. a1 : score[i] <= score[aMid] /\ (i < aMid => score[i] < score[aMid])
    BY <1>2, <2>1 DEF Best
  <2>3. \A i \in a0 .. a1 : score[i] = Score(Top, i)
    BY <1>14 DEF Score, b0, b1, a0, a1, bMid
  <2> HIDE DEF score
  <2> QED
    BY <1>2, <2>2, <2>3 DEF FirstBest, a0, a1
<1> QED
  BY <1>2, <1>13, <1>15 DEF b0, b1, a0, a1, bMid

-----------------------------------------------------------------------------
(* What a block of operations keeps.                                       *)

\* The operations of a script that keep a line are finitely many.
LEMMA KeptIs ==
    ASSUME NEW s \in Seq(Op)
    PROVE  IsFiniteSet({k \in DOMAIN s : s[k].kind = "equal"}) /\ Kept(s) \in Nat
<1>1. IsFiniteSet(1 .. Len(s)) /\ DOMAIN s = 1 .. Len(s)
  BY FS_Interval
<1>2. IsFiniteSet({k \in DOMAIN s : s[k].kind = "equal"})
  BY <1>1, FS_Subset
<1> QED
  BY <1>2, FS_CardinalityType DEF Kept

\* Two scripts, one after the other, keep what each keeps.
LEMMA KeptAppended ==
    ASSUME NEW s \in Seq(Op), NEW t \in Seq(Op)
    PROVE  Kept(s \o t) = Kept(s) + Kept(t)
<1> DEFINE A == {i \in DOMAIN s : s[i].kind = "equal"}
           B == {i \in DOMAIN t : t[i].kind = "equal"}
           C == {i \in DOMAIN (s \o t) : (s \o t)[i].kind = "equal"}
           T == {Len(s) + i : i \in B}
<1>1. /\ Len(s) \in Nat /\ Len(t) \in Nat
      /\ DOMAIN s = 1 .. Len(s) /\ DOMAIN t = 1 .. Len(t)
      /\ DOMAIN (s \o t) = 1 .. Len(s) + Len(t)
      /\ \A i \in 1 .. Len(s) + Len(t) :
            (s \o t)[i] = IF i <= Len(s) THEN s[i] ELSE t[i - Len(s)]
  BY ConcatProperties, LenProperties
<1>2. /\ IsFiniteSet(A) /\ Cardinality(A) \in Nat
      /\ IsFiniteSet(B) /\ Cardinality(B) \in Nat
  BY KeptIs DEF Kept
<1>3. IsFiniteSet(T) /\ Cardinality(T) = Cardinality(B)
  <2>1. B \subseteq Nat
    BY <1>1
  <2> QED
    BY <2>1, <1>1, <1>2, Shifted
<1>4. C = A \cup T
  <2>1. ASSUME NEW i \in C PROVE i \in A \cup T
    <3>1. CASE i <= Len(s)
      BY <3>1, <1>1
    <3>2. CASE i > Len(s)
      <4>1. i - Len(s) \in B
        BY <3>2, <1>1
      <4>2. i = Len(s) + (i - Len(s))
        BY <1>1
      <4> QED
        BY <4>1, <4>2
    <3> QED
      BY <3>1, <3>2, <1>1
  <2>2. ASSUME NEW i \in A PROVE i \in C
    BY <1>1
  <2>3. ASSUME NEW i \in B PROVE Len(s) + i \in C
    <3>1. /\ i \in 1 .. Len(t)
          /\ Len(s) + i \in 1 .. Len(s) + Len(t)
          /\ ~(Len(s) + i <= Len(s))
          /\ Len(s) + i - Len(s) = i
      BY <1>1
    <3>2. (s \o t)[Len(s) + i] = t[i]
      BY <3>1, <1>1
    <3> QED
      BY <3>1, <3>2, <1>1
  <2> QED
    BY <2>1, <2>2, <2>3
<1>5. A \cap T = {}
  BY <1>1
<1>6. Cardinality(A \cup T) = Cardinality(A) + Cardinality(T) - Cardinality(A \cap T)
  BY <1>2, <1>3, FS_Union
<1>7. Cardinality(A \cap T) = 0
  BY <1>5, FS_EmptySet
<1>8. Cardinality(C) = Cardinality(A \cup T)
  BY <1>4
<1>9. Cardinality(C) = Cardinality(A) + Cardinality(B)
  <2> HIDE DEF A, B, C, T
  <2> QED
    BY <1>2, <1>3, <1>6, <1>7, <1>8
<1> QED
  BY <1>9 DEF Kept

\* A block without a kept line.
LEMMA KeepsNone ==
    ASSUME NEW t, \A k \in DOMAIN t : t[k].kind # "equal"
    PROVE  Kept(t) = 0
<1>1. {k \in DOMAIN t : t[k].kind = "equal"} = {}
  OBVIOUS
<1> QED
  BY <1>1, FS_EmptySet DEF Kept

\* Blocks of deletions and of insertions are scripts.
LEMMA BlockTypes ==
    ASSUME NEW from \in Nat, NEW to \in Nat, from <= to
    PROVE  /\ Deletes(from, to) \in Seq(Op) /\ Inserts(from, to) \in Seq(Op)
           /\ Len(Deletes(from, to)) = to - from /\ Len(Inserts(from, to)) = to - from
<1>1. 0 \in Nat
  OBVIOUS
<1> QED
  BY <1>1, InsertBlock, DeleteBlock

\* A single line of before can be kept once, by any line of after it equals.
LEMMA OneLine ==
    ASSUME NEW b0 \in Nat, NEW b1 \in Nat, b1 = b0 + 1, NEW a0 \in Nat, NEW a1 \in Nat
    PROVE  /\ (\A j \in a0 + 1 .. a1 : after[j] # before[b1]) => Longest(b0, b1, a0, a1) = 0
           /\ (\E j \in a0 + 1 .. a1 : after[j] = before[b1]) => Longest(b0, b1, a0, a1) = 1
<1> DEFINE E == Equal(b0, b1, a0, a1)
<1>1. IsFiniteSet(E) /\ E \subseteq {b1} \X (a0 + 1 .. a1)
  <2>1. b0 + 1 .. b1 = {b1} /\ b0 \in Int /\ b1 \in Int /\ a0 \in Int /\ a1 \in Int
    OBVIOUS
  <2>2. IsFiniteSet(E)
    BY <2>1, EqualAre
  <2>3. E \subseteq (b0 + 1 .. b1) \X (a0 + 1 .. a1)
    BY Zenon DEF Equal
  <2> HIDE DEF E
  <2> QED
    BY <2>1, <2>2, <2>3
<1>2. ASSUME \A j \in a0 + 1 .. a1 : after[j] # before[b1] PROVE Most(E) = 0
  <2>1. E = {}
    BY <1>1, <1>2 DEF Equal
  <2> QED
    BY <2>1, NoneKept
<1>3. ASSUME NEW j \in a0 + 1 .. a1, after[j] = before[b1] PROVE Most(E) = 1
  <2>1. <<b1, j>> \in E
    BY <1>3 DEF Equal
  <2> HIDE DEF E
  <2>2. {<<b1, j>>} \in SUBSET E /\ Uncrossed({<<b1, j>>}) /\ Cardinality({<<b1, j>>}) = 1
    <3>1. ~(b1 < b1) /\ ~(j < j)
      OBVIOUS
    <3>2. Uncrossed({<<b1, j>>})
      BY <3>1 DEF Uncrossed
    <3> QED
      BY <2>1, <3>2, FS_Singleton
  <2>3. Most(E) \in Nat /\ Most(E) >= 1
    BY <1>1, <2>2, MostIs
  <2>4. PICK M \in SUBSET E : Uncrossed(M) /\ Cardinality(M) = Most(E)
    BY <1>1, MostIs
  <2>5. M # {}
    BY <2>3, <2>4, FS_EmptySet
  <2>6. PICK p \in M : TRUE
    BY <2>5
  <2>7. ASSUME NEW q \in M PROVE q = p
    <3>1. p \in {b1} \X (a0 + 1 .. a1) /\ q \in {b1} \X (a0 + 1 .. a1)
      BY <1>1
    <3>2. p[1] = b1 /\ q[1] = b1 /\ p[2] \in Int /\ q[2] \in Int
          /\ p = <<p[1], p[2]>> /\ q = <<q[1], q[2]>>
      BY <3>1
    <3>3. (p[1] < q[1] <=> p[2] < q[2]) /\ (q[1] < p[1] <=> q[2] < p[2])
      BY <2>4 DEF Uncrossed
    <3>4. p[2] = q[2]
      BY <3>2, <3>3
    <3> QED
      BY <3>2, <3>4
  <2>8. M = {p}
    BY <2>7
  <2> QED
    BY <2>4, <2>8, FS_Singleton
<1> QED
  BY <1>2, <1>3 DEF Longest

-----------------------------------------------------------------------------
(* The steps keep the invariant of the shortest script.                    *)

\* While a diff runs its sequences stay, and what is common to them.
LEMMA SameLines ==
    ASSUME before' = before, after' = after
    PROVE  /\ \A b0, b1, a0, a1 : Longest(b0, b1, a0, a1)' = Longest(b0, b1, a0, a1)
           /\ \A c : LongestOf(c)' = LongestOf(c)
BY DEF LongestOf, Longest, Equal

\* No deletion follows an insertion.
Sorted(script) ==
    \A k \in 1 .. Len(script) - 1 : ~(script[k].kind = "insert" /\ script[k + 1].kind = "delete")

\* A sorted block behind a sorted script that does not end in an insertion.
LEMMA SortedAppended ==
    ASSUME NEW s \in Seq(Op), NEW t \in Seq(Op), Sorted(s), Sorted(t),
           s # <<>> => s[Len(s)].kind # "insert"
    PROVE  Sorted(s \o t)
<1>1. /\ Len(s) \in Nat /\ Len(t) \in Nat
      /\ s # <<>> <=> Len(s) > 0
      /\ Len(s \o t) = Len(s) + Len(t)
      /\ \A i \in 1 .. Len(s) + Len(t) :
            (s \o t)[i] = IF i <= Len(s) THEN s[i] ELSE t[i - Len(s)]
  BY ConcatProperties, LenProperties, EmptySeq
<1>2. ASSUME NEW k \in 1 .. Len(s) + Len(t) - 1,
             (s \o t)[k].kind = "insert", (s \o t)[k + 1].kind = "delete"
      PROVE  FALSE
  <2>1. k \in 1 .. Len(s) + Len(t) /\ k + 1 \in 1 .. Len(s) + Len(t)
    BY <1>1
  <2>2. CASE k < Len(s)
    <3>1. (s \o t)[k] = s[k] /\ (s \o t)[k + 1] = s[k + 1] /\ k \in 1 .. Len(s) - 1
      BY <1>1, <2>1, <2>2
    <3> QED
      BY <1>2, <3>1 DEF Sorted
  <2>3. CASE k = Len(s)
    BY <1>1, <1>2, <2>1, <2>3
  <2>4. CASE k > Len(s)
    <3>1. /\ (s \o t)[k] = t[k - Len(s)] /\ (s \o t)[k + 1] = t[k + 1 - Len(s)]
          /\ k - Len(s) \in 1 .. Len(t) - 1 /\ k + 1 - Len(s) = k - Len(s) + 1
      BY <1>1, <2>1, <2>4
    <3> QED
      BY <1>2, <3>1 DEF Sorted
  <2> QED
    BY <1>1, <2>2, <2>3, <2>4
<1> QED
  BY <1>1, <1>2 DEF Sorted

\* A call that emits a block keeping as many lines as it can keeps the
\* invariant, if the block is sorted and, unless it is the last, does not end
\* in an insertion.
LEMMA EmitShort ==
    ASSUME IInv, ShortInv, Len(calls) > 0, NEW t \in Seq(Op),
           Kept(t) = LongestOf(Top), Sorted(t),
           Len(calls) > 1 /\ t # <<>> => t[Len(t)].kind # "insert",
           Emit(t)
    PROVE  ShortInv'
<1> DEFINE n == Len(calls)
<1>1. /\ n \in Nat /\ n > 0 /\ calls # <<>> /\ n \in 1 .. n /\ Top = calls[n]
      /\ calls \in Seq(Call) /\ ops \in Seq(Op)
      /\ DOMAIN calls = 1 .. n
  BY DEF IInv, ScriptType, Top
<1>2. /\ Len(calls') = n - 1
      /\ DOMAIN calls' = 1 .. n - 1
      /\ \A i \in 1 .. n - 1 : i \in 1 .. n /\ calls'[i] = calls[i]
      /\ calls' # <<>> => n > 1
  <2>1. /\ calls' \in Seq(Call)
        /\ Len(calls') = n - 1
        /\ DOMAIN calls' = 1 .. n - 1
        /\ \A i \in 1 .. n - 1 : calls'[i] = calls[i]
    BY <1>1, SubSeqProperties DEF Emit
  <2>2. \A i \in 1 .. n - 1 : i \in 1 .. n
    BY <1>1
  <2>3. calls' # <<>> => Len(calls') # 0
    BY <2>1, EmptySeq
  <2> QED
    BY <1>1, <2>1, <2>2, <2>3
<1>3. /\ ops' = ops \o t
      /\ UNCHANGED <<before, after, running, row0, row1>>
  BY DEF Emit
<1>4. RowsLong'
  <2>1. PICK size \in Nat :
           /\ row0 \in [0 .. size - 1 -> Nat] /\ row1 \in [0 .. size - 1 -> Nat]
           /\ running => size > Len(after)
    BY DEF ShortInv, RowsLong
  <2>2. \A i \in 1 .. n - 1 :
           calls'[i].bEnd <= Len(before) /\ calls'[i].aEnd <= Len(after)
    BY <1>1, <1>2 DEF ShortInv, RowsLong
  <2> QED
    BY <1>2, <1>3, <2>1, <2>2 DEF RowsLong
<1>5. NothingLost'
  <2>1. PICK left \in [0 .. n -> Nat] :
           /\ left[0] = 0
           /\ \A i \in 1 .. n : left[i] = left[i - 1] + LongestOf(calls[i])
           /\ Kept(ops) + left[n] = Longest(0, Len(before), 0, Len(after))
    BY DEF ShortInv, NothingLost
  <2> DEFINE rest == [i \in 0 .. n - 1 |-> left[i]]
  <2>2. /\ rest \in [0 .. n - 1 -> Nat]
        /\ \A i \in 0 .. n - 1 : rest[i] = left[i]
        /\ 0 \in 0 .. n - 1 /\ n - 1 \in 0 .. n - 1
    BY <1>1
  <2>3. \A i \in 1 .. n - 1 : LongestOf(calls[i])' = LongestOf(calls[i])
    BY <1>2, <1>3, SameLines DEF LongestOf
  <2>4. ASSUME NEW i \in 1 .. n - 1
        PROVE  rest[i] = rest[i - 1] + LongestOf(calls[i])'
    <3>1. i \in 0 .. n - 1 /\ i - 1 \in 0 .. n - 1 /\ i \in 1 .. n
      BY <1>1
    <3> HIDE DEF rest
    <3> QED
      BY <2>1, <2>2, <2>3, <3>1
  <2>5. Kept(ops)' = Kept(ops) + LongestOf(Top)
    <3>1. Kept(ops') = Kept(ops) + Kept(t)
      BY <1>1, <1>3, KeptAppended
    <3> QED
      BY <3>1 DEF Kept
  <2>6. left[n] = left[n - 1] + LongestOf(Top) /\ left[n] \in Nat /\ left[n - 1] \in Nat
    <3>1. n - 1 \in 0 .. n /\ n \in 0 .. n
      BY <1>1
    <3> QED
      BY <1>1, <2>1, <3>1
  <2>7. Kept(ops) \in Nat
    BY <1>1, KeptIs
  <2>8. Longest(0, Len(before), 0, Len(after))' = Longest(0, Len(before), 0, Len(after))
    BY <1>3, SameLines
  <2>9. Kept(ops)' + rest[n - 1] = Longest(0, Len(before), 0, Len(after))'
    <3>1. rest[n - 1] = left[n - 1]
      BY <2>2
    <3>2. LongestOf(Top) \in Nat
      <4>1. /\ Top.bStart \in Int /\ Top.bEnd \in Int
            /\ Top.aStart \in Int /\ Top.aEnd \in Int
        BY <1>1, TopCovers
      <4> QED
        BY <4>1, EqualAre DEF LongestOf
    <3> HIDE DEF rest, n
    <3> QED
      BY <2>1, <2>5, <2>6, <2>7, <2>8, <3>1, <3>2
  <2>10. rest[0] = 0
    BY <2>1, <2>2
  <2> HIDE DEF rest, n
  <2> QED
    BY <1>2, <2>2, <2>4, <2>9, <2>10 DEF NothingLost
<1>6. Tidy'
  <2>1. ASSUME NEW i \in 2 .. n - 1 PROVE EndsTight(calls[i])'
    <3>1. i \in 2 .. n /\ i \in 1 .. n - 1
      BY <1>1
    <3>2. EndsTight(calls[i])
      BY <3>1 DEF ShortInv, Tidy
    <3>3. calls'[i] = calls[i]
      BY <1>2, <3>1
    <3> QED
      BY <1>3, <3>2, <3>3, SameLines DEF EndsTight
  <2>2. Sorted(ops) /\ (ops # <<>> => ops[Len(ops)].kind # "insert")
    BY <1>1 DEF ShortInv, Tidy, Sorted
  <2>3. Sorted(ops')
    BY <1>1, <1>3, <2>2, SortedAppended
  <2>4. ASSUME calls' # <<>>, ops' # <<>> PROVE ops'[Len(ops')].kind # "insert"
    <3>1. CASE t = <<>>
      <4>1. ops' = ops
        BY <1>1, <1>3, <3>1
      <4> QED
        BY <2>2, <2>4, <4>1
    <3>2. CASE t # <<>>
      <4>1. Len(t) \in Nat /\ Len(t) > 0 /\ Len(ops) \in Nat
        BY <1>1, <3>2, EmptySeq
      <4>2. Len(ops') = Len(ops) + Len(t) /\ ops'[Len(ops) + Len(t)] = t[Len(t)]
        <5>1. Len(ops \o t) = Len(ops) + Len(t)
          BY <1>1, ConcatProperties
        <5>2. \A i \in 1 .. Len(ops) + Len(t) :
                 (ops \o t)[i] = IF i <= Len(ops) THEN ops[i] ELSE t[i - Len(ops)]
          BY <1>1, ConcatProperties
        <5>3. /\ Len(ops) + Len(t) \in 1 .. Len(ops) + Len(t)
              /\ ~(Len(ops) + Len(t) <= Len(ops))
              /\ Len(ops) + Len(t) - Len(ops) = Len(t)
          BY <4>1
        <5> QED
          BY <1>3, <5>1, <5>2, <5>3
      <4> QED
        BY <1>2, <2>4, <3>2, <4>2
    <3> QED
      BY <3>1, <3>2
  <2> QED
    BY <1>2, <2>1, <2>3, <2>4 DEF Tidy, Sorted
<1> QED
  BY <1>4, <1>5, <1>6 DEF ShortInv

\* A call that is not the last needs its last line of after: it cannot be one
\* that keeps nothing at all.
LEMMA TightTop ==
    ASSUME IInv, ShortInv, Len(calls) > 1, Top.aStart < Top.aEnd
    PROVE  /\ Longest(Top.bStart, Top.bEnd, Top.aStart, Top.aEnd - 1) < LongestOf(Top)
           /\ Longest(Top.bStart, Top.bEnd, Top.aStart, Top.aEnd - 1) \in Nat
           /\ LongestOf(Top) \in Nat
           /\ LongestOf(Top) # 0
<1>1. Len(calls) \in 2 .. Len(calls) /\ Len(calls) > 0
  BY DEF IInv, ScriptType
<1>2. EndsTight(Top)
  BY <1>1 DEF ShortInv, Tidy, Top
<1>3. /\ Top.bStart \in Int /\ Top.bEnd \in Int
      /\ Top.aStart \in Int /\ Top.aEnd \in Int /\ Top.aEnd - 1 \in Int
  BY <1>1, TopCovers
<1>4. /\ Longest(Top.bStart, Top.bEnd, Top.aStart, Top.aEnd - 1) \in Nat
      /\ LongestOf(Top) \in Nat
  BY <1>3, EqualAre DEF LongestOf
<1> QED
  BY <1>2, <1>4 DEF EndsTight

LEMMA InsertAllShort ==
    ASSUME IInv, ShortInv, InsertAll
    PROVE  ShortInv'
<1> DEFINE t == Inserts(Top.aStart, Top.aEnd)
<1>1. Len(calls) > 0 /\ Top.bEnd - Top.bStart = 0 /\ Emit(t)
  BY DEF InsertAll, Pending
<1>2. /\ Top.bStart \in Nat /\ Top.bEnd \in Nat /\ Top.bEnd <= Top.bStart
      /\ Top.aStart \in Nat /\ Top.aEnd \in Nat /\ Top.aStart <= Top.aEnd
  BY <1>1, TopCovers
<1>3. /\ t \in Seq(Op) /\ Len(t) = Top.aEnd - Top.aStart
      /\ DOMAIN t = 1 .. Len(t)
      /\ \A k \in 1 .. Len(t) : t[k].kind = "insert"
  <2>1. /\ t \in Seq(Op) /\ Len(t) = Top.aEnd - Top.aStart
        /\ \A k \in 1 .. Top.aEnd - Top.aStart : t[k].kind = "insert"
    <3>1. t \in Seq(Op) /\ Len(t) = Top.aEnd - Top.aStart
      BY <1>2, BlockTypes
    <3>2. \A k \in 1 .. Top.aEnd - Top.aStart : t[k].kind = "insert"
      BY DEF Inserts
    <3> QED
      BY <3>1, <3>2
  <2> HIDE DEF t
  <2> QED
    BY <2>1
<1>4. LongestOf(Top) = 0
  <2>1. Top.bStart \in Int /\ Top.bEnd \in Int /\ Top.aStart \in Int /\ Top.aEnd \in Int
    BY <1>2
  <2> QED
    BY <1>2, <2>1, NothingCommon DEF LongestOf
<1>5. Kept(t) = 0
  <2> HIDE DEF t
  <2> QED
    BY <1>3, KeepsNone
<1>6. Len(calls) > 1 => t = <<>>
  <2>1. Len(calls) > 1 => Len(t) = 0
    BY <1>2, <1>3, <1>4, TightTop
  <2> HIDE DEF t
  <2> QED
    BY <1>3, <2>1, EmptySeq
<1>7. Sorted(t)
  <2> HIDE DEF t
  <2>1. \A k \in 1 .. Len(t) - 1 : k + 1 \in 1 .. Len(t)
    BY <1>3
  <2> QED
    BY <1>3, <2>1 DEF Sorted
<1> HIDE DEF t
<1> QED
  BY <1>1, <1>3, <1>4, <1>5, <1>6, <1>7, EmitShort

LEMMA DeleteAllShort ==
    ASSUME IInv, ShortInv, DeleteAll
    PROVE  ShortInv'
<1> DEFINE t == Deletes(Top.bStart, Top.bEnd)
<1>1. Len(calls) > 0 /\ Top.aStart = Top.aEnd /\ Emit(t)
  BY DEF DeleteAll
<1>2. /\ Top.bStart \in Nat /\ Top.bEnd \in Nat /\ Top.bStart <= Top.bEnd
      /\ Top.aStart \in Nat /\ Top.aEnd \in Nat /\ Top.aEnd <= Top.aStart
  BY <1>1, TopCovers
<1>3. /\ t \in Seq(Op) /\ Len(t) \in Nat
      /\ DOMAIN t = 1 .. Len(t)
      /\ \A k \in 1 .. Len(t) : t[k].kind = "delete"
  <2>1. /\ t \in Seq(Op) /\ Len(t) = Top.bEnd - Top.bStart
        /\ \A k \in 1 .. Top.bEnd - Top.bStart : t[k].kind = "delete"
    <3>1. t \in Seq(Op) /\ Len(t) = Top.bEnd - Top.bStart
      BY <1>2, BlockTypes
    <3>2. \A k \in 1 .. Top.bEnd - Top.bStart : t[k].kind = "delete"
      BY DEF Deletes
    <3> QED
      BY <3>1, <3>2
  <2> HIDE DEF t
  <2> QED
    BY <2>1
<1>4. LongestOf(Top) = 0
  <2>1. Top.bStart \in Int /\ Top.bEnd \in Int /\ Top.aStart \in Int /\ Top.aEnd \in Int
    BY <1>2
  <2> QED
    BY <1>2, <2>1, NothingCommon DEF LongestOf
<1> HIDE DEF t
<1>5. Kept(t) = 0
  BY <1>3, KeepsNone
<1>6. t # <<>> => t[Len(t)].kind # "insert"
  <2>1. t # <<>> => Len(t) \in 1 .. Len(t)
    BY <1>3, EmptySeq
  <2> QED
    BY <1>3, <2>1
<1>7. Sorted(t)
  <2>1. \A k \in 1 .. Len(t) - 1 : k \in 1 .. Len(t)
    BY <1>3
  <2> QED
    BY <1>3, <2>1 DEF Sorted
<1> QED
  BY <1>1, <1>3, <1>4, <1>5, <1>6, <1>7, EmitShort

LEMMA ReplaceOneShort ==
    ASSUME IInv, ShortInv, ReplaceOne
    PROVE  ShortInv'
<1> DEFINE s == Deletes(Top.bStart, Top.bEnd)
           t == Inserts(Top.aStart, Top.aEnd)
<1>1. /\ Len(calls) > 0 /\ Top.bEnd - Top.bStart = 1 /\ Top.aStart < Top.aEnd
      /\ \A j \in Top.aStart + 1 .. Top.aEnd : after[j] # before[Top.bEnd]
      /\ Emit(s \o t)
  BY DEF ReplaceOne, Pending
<1>2. /\ Top.bStart \in Nat /\ Top.bEnd \in Nat /\ Top.bEnd = Top.bStart + 1
      /\ Top.bStart <= Top.bEnd
      /\ Top.aStart \in Nat /\ Top.aEnd \in Nat /\ Top.aStart <= Top.aEnd
  BY <1>1, TopCovers
<1>3. /\ s \in Seq(Op) /\ Len(s) = Top.bEnd - Top.bStart
      /\ DOMAIN s = 1 .. Len(s)
      /\ \A k \in 1 .. Len(s) : s[k].kind = "delete"
      /\ t \in Seq(Op) /\ Len(t) = Top.aEnd - Top.aStart
      /\ DOMAIN t = 1 .. Len(t)
      /\ \A k \in 1 .. Len(t) : t[k].kind = "insert"
  <2>1. /\ s \in Seq(Op) /\ Len(s) = Top.bEnd - Top.bStart
        /\ \A k \in 1 .. Top.bEnd - Top.bStart : s[k].kind = "delete"
    <3>1. s \in Seq(Op) /\ Len(s) = Top.bEnd - Top.bStart
      BY <1>2, BlockTypes
    <3>2. \A k \in 1 .. Top.bEnd - Top.bStart : s[k].kind = "delete"
      BY DEF Deletes
    <3> QED
      BY <3>1, <3>2
  <2>2. /\ t \in Seq(Op) /\ Len(t) = Top.aEnd - Top.aStart
        /\ \A k \in 1 .. Top.aEnd - Top.aStart : t[k].kind = "insert"
    <3>1. t \in Seq(Op) /\ Len(t) = Top.aEnd - Top.aStart
      BY <1>2, BlockTypes
    <3>2. \A k \in 1 .. Top.aEnd - Top.aStart : t[k].kind = "insert"
      BY DEF Inserts
    <3> QED
      BY <3>1, <3>2
  <2> HIDE DEF s, t
  <2> QED
    BY <2>1, <2>2
<1>4. LongestOf(Top) = 0
  <2> DEFINE b0 == Top.bStart
             b1 == Top.bEnd
             a0 == Top.aStart
             a1 == Top.aEnd
  <2>1. /\ b0 \in Nat /\ b1 \in Nat /\ b1 = b0 + 1 /\ a0 \in Nat /\ a1 \in Nat
        /\ \A j \in a0 + 1 .. a1 : after[j] # before[b1]
    BY <1>1, <1>2
  <2> HIDE DEF b0, b1, a0, a1
  <2>2. Longest(b0, b1, a0, a1) = 0
    BY <2>1, OneLine, SMTT(30)
  <2> QED
    BY <2>2, Zenon DEF LongestOf, b0, b1, a0, a1
<1> HIDE DEF s, t
<1>5. Kept(s \o t) = 0
  <2>1. Kept(s) = 0 /\ Kept(t) = 0
    BY <1>3, KeepsNone
  <2> QED
    BY <1>3, <2>1, KeptAppended
<1>6. ~(Len(calls) > 1)
  BY <1>1, <1>4, TightTop
<1>7. Sorted(s \o t)
  <2>1. Len(s) \in Nat /\ Len(t) \in Nat
    BY <1>3
  <2>2. Sorted(s) /\ (s # <<>> => s[Len(s)].kind # "insert")
    <3>1. \A k \in 1 .. Len(s) - 1 : k \in 1 .. Len(s)
      BY <2>1
    <3>2. s # <<>> => Len(s) \in 1 .. Len(s)
      BY <1>3, <2>1, EmptySeq
    <3> QED
      BY <1>3, <3>1, <3>2 DEF Sorted
  <2>3. Sorted(t)
    <3>1. \A k \in 1 .. Len(t) - 1 : k + 1 \in 1 .. Len(t)
      BY <2>1
    <3> QED
      BY <1>3, <3>1 DEF Sorted
  <2> QED
    BY <1>3, <2>2, <2>3, SortedAppended
<1>8. s \o t \in Seq(Op)
  BY <1>3, ConcatProperties
<1> QED
  BY <1>1, <1>4, <1>5, <1>6, <1>7, <1>8, EmitShort

LEMMA KeepOneShort ==
    ASSUME IInv, ShortInv, KeepOne
    PROVE  ShortInv'
<1>1. Len(calls) > 0 /\ Top.bEnd - Top.bStart = 1
  BY DEF KeepOne, Pending
<1>2. PICK j \in Top.aStart + 1 .. Top.aEnd :
         /\ after[j] = before[Top.bEnd]
         /\ Emit([Inserts(Top.aStart, Top.aEnd) EXCEPT ![j - Top.aStart].kind = "equal"])
  BY DEF KeepOne
<1> DEFINE p == j - Top.aStart
           n == Top.aEnd - Top.aStart
           s == Inserts(Top.aStart, Top.aEnd)
           t == [s EXCEPT ![p].kind = "equal"]
<1>3. /\ Top.bStart \in Nat /\ Top.bEnd \in Nat /\ Top.bEnd = Top.bStart + 1
      /\ Top.aStart \in Nat /\ Top.aEnd \in Nat /\ Top.aStart < Top.aEnd
  BY <1>1, TopCovers
<1>4. /\ p \in 1 .. n /\ n \in Nat
      /\ before[Top.bStart + 1] = after[Top.aStart + p]
  <2>1. Top.bStart + 1 = Top.bEnd /\ Top.aStart + p = j /\ p \in 1 .. n
    BY <1>3
  <2> QED
    BY <1>2, <1>3, <2>1
<1>5. t \in Seq(Op) /\ Len(t) = n /\ DOMAIN t = 1 .. n
  <2>1. t \in Seq(Op) /\ Len(t) = n
    <3> HIDE DEF p
    <3> QED
      BY <1>3, <1>4, KeepBlock, Zenon
  <2> HIDE DEF t, n
  <2> QED
    BY <2>1
<1>6. /\ t[p].kind = "equal"
      /\ \A k \in 1 .. n : k # p => t[k].kind = "insert"
  <2>1. s = [i \in 1 .. n |-> [kind |-> "insert", index |-> Top.aStart + i]]
    BY DEF Inserts
  <2> HIDE DEF p, n
  <2> QED
    BY <1>4, <2>1
<1>7. Emit(t)
  BY <1>2
<1>8. LongestOf(Top) = 1
  BY <1>2, <1>3, OneLine DEF LongestOf
<1>9. Kept(t) = 1
  <2> HIDE DEF t, p, n
  <2>1. {k \in DOMAIN t : t[k].kind = "equal"} = {p}
    BY <1>4, <1>5, <1>6
  <2> QED
    BY <2>1, FS_Singleton DEF Kept
<1>10. Len(calls) > 1 => j = Top.aEnd
  <2>1. ASSUME Len(calls) > 1, j # Top.aEnd PROVE FALSE
    <3>1. Longest(Top.bStart, Top.bEnd, Top.aStart, Top.aEnd - 1) = 0
      BY <1>3, <1>8, <2>1, TightTop
    <3>2. Top.aEnd - 1 \in Nat /\ j \in Top.aStart + 1 .. Top.aEnd - 1
      BY <1>3, <2>1
    <3>3. Longest(Top.bStart, Top.bEnd, Top.aStart, Top.aEnd - 1) = 1
      BY <1>2, <1>3, <3>2, OneLine
    <3> QED
      BY <3>1, <3>3
  <2> QED
    BY <2>1
<1>11. Len(calls) > 1 => t[Len(t)].kind # "insert"
  <2>1. Len(calls) > 1 => Len(t) = p
    BY <1>3, <1>5, <1>10
  <2> HIDE DEF t
  <2> QED
    BY <1>6, <2>1
<1>12. Sorted(t)
  <2> HIDE DEF t, n
  <2>1. \A k \in 1 .. n - 1 : k + 1 \in 1 .. n
    BY <1>4
  <2>2. \A k \in 1 .. n : t[k].kind # "delete"
    BY <1>6
  <2> QED
    BY <1>5, <2>1, <2>2 DEF Sorted
<1> HIDE DEF t
<1> QED
  BY <1>1, <1>5, <1>7, <1>8, <1>9, <1>11, <1>12, EmitShort

\* A first best split loses nothing, its second half needs its last line of
\* after if the whole does, and its first half does in any case.
LEMMA SplitRight ==
    ASSUME NEW c \in Call, Middle(c) \in c.bStart .. c.bEnd,
           NEW aMid \in c.aStart .. c.aEnd, FirstBest(c, aMid)
    PROVE  LET first == Over(c.bStart, Middle(c), c.aStart, aMid)
               second == Over(Middle(c), c.bEnd, aMid, c.aEnd)
           IN  /\ LongestOf(c) = LongestOf(first) + LongestOf(second)
               /\ LongestOf(first) \in Nat /\ LongestOf(second) \in Nat
               /\ EndsTight(first)
               /\ EndsTight(c) => EndsTight(second)
<1> DEFINE b0 == c.bStart
           b1 == c.bEnd
           a0 == c.aStart
           a1 == c.aEnd
           b == Middle(c)
<1>1. /\ b0 \in Nat /\ b1 \in Nat /\ a0 \in Nat /\ a1 \in Nat
      /\ b \in b0 .. b1
  BY DEF Call
<1>2. /\ aMid \in Nat /\ a0 <= aMid /\ aMid <= a1 /\ aMid \in a0 .. a1 /\ a0 <= a1
  BY <1>1
<1>3. /\ FirstBest(c, aMid) <=>
            \A a \in a0 .. a1 :
               /\ Longest(b0, b, a0, a) + Longest(b, b1, a, a1)
                    <= Longest(b0, b, a0, aMid) + Longest(b, b1, aMid, a1)
               /\ a < aMid => Longest(b0, b, a0, a) + Longest(b, b1, a, a1)
                                < Longest(b0, b, a0, aMid) + Longest(b, b1, aMid, a1)
      /\ LongestOf(c) = Longest(b0, b1, a0, a1)
      /\ EndsTight(c) <=>
            (a0 < a1 => Longest(b0, b1, a0, a1 - 1) < Longest(b0, b1, a0, a1))
      /\ LongestOf(Over(b0, b, a0, aMid)) = Longest(b0, b, a0, aMid)
      /\ LongestOf(Over(b, b1, aMid, a1)) = Longest(b, b1, aMid, a1)
      /\ EndsTight(Over(b0, b, a0, aMid)) <=>
            (a0 < aMid => Longest(b0, b, a0, aMid - 1) < Longest(b0, b, a0, aMid))
      /\ EndsTight(Over(b, b1, aMid, a1)) <=>
            (aMid < a1 => Longest(b, b1, aMid, a1 - 1) < Longest(b, b1, aMid, a1))
  BY DEF FirstBest, Score, LongestOf, EndsTight, Over
<1> HIDE DEF b0, b1, a0, a1, b
<1>4. \A x, y, u, v \in Nat : Longest(x, y, u, v) \in Nat
  <2>1. ASSUME NEW x \in Nat, NEW y \in Nat, NEW u \in Nat, NEW v \in Nat
        PROVE  Longest(x, y, u, v) \in Nat
    <3>1. x \in Int /\ y \in Int /\ u \in Int /\ v \in Int
      OBVIOUS
    <3> QED
      BY <3>1, EqualAre
  <2> QED
    BY <2>1
<1>5. b \in Nat
  BY <1>1
<1>6. Longest(b0, b1, a0, a1) = Longest(b0, b, a0, aMid) + Longest(b, b1, aMid, a1)
  <2>1. Longest(b0, b, a0, aMid) + Longest(b, b1, aMid, a1) <= Longest(b0, b1, a0, a1)
    BY <1>1, <1>2, Divided
  <2>2. PICK a \in a0 .. a1 :
           Longest(b0, b1, a0, a1) <= Longest(b0, b, a0, a) + Longest(b, b1, a, a1)
    BY <1>1, <1>2, Divided
  <2>3. Longest(b0, b, a0, a) + Longest(b, b1, a, a1)
          <= Longest(b0, b, a0, aMid) + Longest(b, b1, aMid, a1)
    BY <1>3
  <2>4. /\ a \in Nat
        /\ Longest(b0, b1, a0, a1) \in Nat
        /\ Longest(b0, b, a0, a) \in Nat /\ Longest(b, b1, a, a1) \in Nat
        /\ Longest(b0, b, a0, aMid) \in Nat /\ Longest(b, b1, aMid, a1) \in Nat
    <3>1. a \in Nat
      BY <1>1
    <3> QED
      BY <1>1, <1>2, <1>4, <1>5, <3>1, Zenon
  <2> QED
    BY <2>1, <2>2, <2>3, <2>4
<1>7. ASSUME a0 < aMid PROVE Longest(b0, b, a0, aMid - 1) < Longest(b0, b, a0, aMid)
  <2>1. aMid - 1 \in a0 .. a1 /\ aMid - 1 < aMid /\ aMid - 1 \in Nat
    BY <1>1, <1>2, <1>7
  <2>2. Longest(b0, b, a0, aMid - 1) + Longest(b, b1, aMid - 1, a1)
          < Longest(b0, b, a0, aMid) + Longest(b, b1, aMid, a1)
    BY <1>3, <2>1
  <2>3. Longest(b, b1, aMid, a1) <= Longest(b, b1, aMid - 1, a1)
    <3>1. Equal(b, b1, aMid, a1) \subseteq Equal(b, b1, aMid - 1, a1)
      <4>1. aMid + 1 .. a1 \subseteq aMid - 1 + 1 .. a1
        BY <1>1, <1>2
      <4> QED
        BY <4>1 DEF Equal
    <3>2. b \in Int /\ b1 \in Int /\ aMid - 1 \in Int /\ a1 \in Int
      BY <1>1, <1>5, <2>1
    <3>3. IsFiniteSet(Equal(b, b1, aMid - 1, a1))
      BY <3>2, EqualAre
    <3> QED
      BY <3>1, <3>3, FewerKeepNoMore DEF Longest
  <2>4. /\ Longest(b0, b, a0, aMid - 1) \in Nat /\ Longest(b, b1, aMid - 1, a1) \in Nat
        /\ Longest(b0, b, a0, aMid) \in Nat /\ Longest(b, b1, aMid, a1) \in Nat
    BY <1>1, <1>2, <1>4, <1>5, <2>1
  <2> QED
    BY <2>2, <2>3, <2>4
<1>8. ASSUME aMid < a1, Longest(b0, b1, a0, a1 - 1) < Longest(b0, b1, a0, a1)
      PROVE  Longest(b, b1, aMid, a1 - 1) < Longest(b, b1, aMid, a1)
  <2>1. a1 - 1 \in Nat /\ a0 <= a1 - 1 /\ aMid \in a0 .. a1 - 1
    BY <1>1, <1>2, <1>8
  <2>2. Longest(b0, b, a0, aMid) + Longest(b, b1, aMid, a1 - 1) <= Longest(b0, b1, a0, a1 - 1)
    BY <1>1, <2>1, Divided
  <2>3. /\ Longest(b0, b, a0, aMid) \in Nat /\ Longest(b, b1, aMid, a1 - 1) \in Nat
        /\ Longest(b, b1, aMid, a1) \in Nat
        /\ Longest(b0, b1, a0, a1 - 1) \in Nat /\ Longest(b0, b1, a0, a1) \in Nat
    BY <1>1, <1>2, <1>4, <1>5, <2>1
  <2> QED
    BY <1>6, <1>8, <2>2, <2>3
<1>9. aMid < a1 => a0 < a1
  BY <1>1, <1>2
<1>10. Longest(b0, b, a0, aMid) \in Nat /\ Longest(b, b1, aMid, a1) \in Nat
  BY <1>1, <1>2, <1>4, <1>5
<1>11. EndsTight(Over(b0, b, a0, aMid))
  BY <1>3, <1>7
<1>12. EndsTight(c) => EndsTight(Over(b, b1, aMid, a1))
  BY <1>3, <1>8, <1>9
<1> QED
  BY <1>3, <1>6, <1>10, <1>11, <1>12 DEF b0, b1, a0, a1, b

LEMMA DivideShort ==
    ASSUME IInv, ShortInv, Divide
    PROVE  ShortInv'
<1> DEFINE n == Len(calls)
<1>1. /\ n > 0 /\ Top.bEnd - Top.bStart > 1
      /\ UNCHANGED <<before, after, running, ops>>
  BY Zenon DEF Divide
<1>2. /\ running
      /\ Top.bStart \in Nat /\ Top.bEnd \in Nat /\ Top.bStart <= Top.bEnd
      /\ Top.aStart \in Nat /\ Top.aEnd \in Nat /\ Top.aStart <= Top.aEnd
      /\ Top.bEnd <= Len(before) /\ Top.aEnd <= Len(after)
      /\ Len(before) \in Nat /\ Len(after) \in Nat
  BY <1>1, TopInside DEF ShortInv
<1>3. PICK size \in Nat : Rows(size) /\ size > Len(after)
  BY <1>2 DEF ShortInv, RowsLong, Rows
<1>4. RowsLong
  BY DEF ShortInv
<1>5. Rows(size)'
  BY <1>3, <1>4, DivideScores
<1>6. PICK aMid \in Top.aStart .. Top.aEnd :
         /\ FirstBest(Top, aMid)
         /\ calls' = Append([calls EXCEPT ![Len(calls)] =
                                Over(Middle(Top), Top.bEnd, aMid, Top.aEnd)],
                            Over(Top.bStart, Middle(Top), Top.aStart, aMid))
  BY <1>3, <1>4, DivideScores
<1>7. Middle(Top) \in Nat /\ Middle(Top) \in Top.bStart .. Top.bEnd
  <2>1. Middle(Top) \in Nat /\ Top.bStart <= Middle(Top) /\ Middle(Top) <= Top.bEnd
    BY <1>2, MiddleBetween
  <2> DEFINE s == Top.bStart
             e == Top.bEnd
             x == Middle(Top)
  <2>2. s \in Nat /\ e \in Nat /\ x \in Nat /\ s <= x /\ x <= e
    BY <1>2, <2>1
  <2> HIDE DEF s, e, x
  <2>3. x \in Nat /\ x \in s .. e
    BY <2>2
  <2> QED
    BY <2>3 DEF s, e, x
<1> DEFINE first == Over(Top.bStart, Middle(Top), Top.aStart, aMid)
           second == Over(Middle(Top), Top.bEnd, aMid, Top.aEnd)
<1>8. /\ LongestOf(Top) = LongestOf(first) + LongestOf(second)
      /\ LongestOf(first) \in Nat /\ LongestOf(second) \in Nat
      /\ EndsTight(first)
      /\ EndsTight(Top) => EndsTight(second)
  <2>1. Top \in Call
    BY <1>1, TopCovers
  <2> QED
    BY <1>6, <1>7, <2>1, SplitRight
<1>9. /\ first \in Call /\ second \in Call
      /\ first.bEnd <= Len(before) /\ first.aEnd <= Len(after)
      /\ second.bEnd <= Len(before) /\ second.aEnd <= Len(after)
  BY <1>2, <1>7 DEF Over, Call
<1>10. calls' = Append([calls EXCEPT ![Len(calls)] = second], first)
  BY <1>6
<1> HIDE DEF first, second
<1>11. /\ calls \in Seq(Call) /\ ops \in Seq(Op)
       /\ n \in Nat /\ n \in 1 .. n /\ DOMAIN calls = 1 .. n /\ Top = calls[n]
  BY <1>1 DEF IInv, ScriptType, Top
<1>12. /\ calls' # <<>>
       /\ Len(calls') = n + 1
       /\ DOMAIN calls' = 1 .. n + 1
       /\ \A i \in 1 .. n - 1 : i \in 1 .. n /\ calls'[i] = calls[i]
       /\ calls'[n] = second
       /\ calls'[n + 1] = first
  BY <1>1, <1>9, <1>10, <1>11, CallsDivided
<1>13. n \in Nat /\ \A i \in 1 .. n + 1 : i \in 1 .. n - 1 \/ i = n \/ i = n + 1
  <2> HIDE DEF n
  <2> QED
    BY <1>11
<1> HIDE DEF n
<1>14. RowsLong'
  <2>1. ASSUME NEW i \in 1 .. n + 1
        PROVE  calls'[i].bEnd <= Len(before) /\ calls'[i].aEnd <= Len(after)
    <3>1. CASE i \in 1 .. n - 1
      BY <1>4, <1>11, <1>12, <3>1 DEF RowsLong
    <3>2. CASE i = n
      BY <1>9, <1>12, <3>2
    <3>3. CASE i = n + 1
      BY <1>9, <1>12, <3>3
    <3> QED
      BY <1>13, <3>1, <3>2, <3>3
  <2> QED
    BY <1>1, <1>3, <1>5, <1>12, <2>1 DEF RowsLong, Rows
<1>15. NothingLost'
  <2>1. PICK left \in [0 .. n -> Nat] :
           /\ left[0] = 0
           /\ \A i \in 1 .. n : left[i] = left[i - 1] + LongestOf(calls[i])
           /\ Kept(ops) + left[n] = Longest(0, Len(before), 0, Len(after))
    BY DEF ShortInv, NothingLost, n
  <2>2. n \in 1 .. n /\ n - 1 \in 0 .. n /\ n \in 0 .. n /\ 0 \in 0 .. n - 1
    BY <1>11
  <2>3. /\ left[n] = left[n - 1] + LongestOf(Top)
        /\ left[n - 1] \in Nat /\ left[n] \in Nat
    BY <1>11, <2>1, <2>2
  <2> DEFINE m == left[n - 1] + LongestOf(second)
             more == [i \in 0 .. n + 1 |->
                         IF i <= n - 1 THEN left[i] ELSE IF i = n THEN m ELSE left[n]]
  <2>4. m \in Nat /\ left[n] = m + LongestOf(first)
    BY <1>8, <2>3
  <2> HIDE DEF m
  <2>5. more \in [0 .. n + 1 -> Nat]
    <3>1. \A i \in 0 .. n - 1 : i \in 0 .. n
      BY <1>13
    <3> QED
      BY <1>13, <2>1, <2>3, <2>4, <3>1
  <2>6. /\ \A i \in 0 .. n - 1 : more[i] = left[i]
        /\ more[n] = m /\ more[n + 1] = left[n]
    BY <1>13
  <2> HIDE DEF more
  <2>7. \A i : LongestOf(calls[i])' = LongestOf(calls'[i])
    BY <1>1, SameLines DEF LongestOf
  <2>8. ASSUME NEW i \in 1 .. n + 1
        PROVE  more[i] = more[i - 1] + LongestOf(calls[i])'
    <3>1. CASE i \in 1 .. n - 1
      <4>1. i \in 0 .. n - 1 /\ i - 1 \in 0 .. n - 1 /\ i \in 1 .. n
        BY <1>13, <3>1
      <4> QED
        BY <1>12, <2>1, <2>6, <2>7, <3>1, <4>1
    <3>2. CASE i = n
      <4>1. n - 1 \in 0 .. n - 1
        BY <1>11
      <4> QED
        BY <1>12, <2>6, <2>7, <3>2, <4>1 DEF m
    <3>3. CASE i = n + 1
      <4>1. more[n + 1] = more[n] + LongestOf(first)
        BY <2>4, <2>6
      <4>2. LongestOf(calls[i])' = LongestOf(first) /\ i - 1 = n
        BY <1>12, <1>13, <2>7, <3>3
      <4> QED
        BY <3>3, <4>1, <4>2
    <3> QED
      BY <1>13, <3>1, <3>2, <3>3
  <2>9. more[0] = 0
    BY <2>1, <2>2, <2>6
  <2>10. Kept(ops)' + more[n + 1] = Longest(0, Len(before), 0, Len(after))'
    <3>1. Kept(ops)' = Kept(ops)
      BY <1>1 DEF Kept
    <3>2. Longest(0, Len(before), 0, Len(after))' = Longest(0, Len(before), 0, Len(after))
      BY <1>1, SameLines
    <3> QED
      BY <2>1, <2>6, <3>1, <3>2
  <2> QED
    BY <1>12, <2>5, <2>8, <2>9, <2>10 DEF NothingLost
<1>16. Tidy'
  <2>1. ASSUME NEW i \in 2 .. n + 1 PROVE EndsTight(calls[i])'
    <3>0. \A c : EndsTight(c)' <=> EndsTight(c)
      BY <1>1, SameLines DEF EndsTight
    <3>1. EndsTight(calls'[i])
      <4>1. CASE i \in 1 .. n - 1
        <5>1. i \in 2 .. n
          BY <1>13, <4>1
        <5> QED
          BY <1>12, <4>1, <5>1 DEF ShortInv, Tidy, n
      <4>2. CASE i = n
        <5>1. EndsTight(Top)
          BY <1>11, <4>2 DEF ShortInv, Tidy, n
        <5> QED
          BY <1>8, <1>12, <4>2, <5>1
      <4>3. CASE i = n + 1
        BY <1>8, <1>12, <4>3
      <4> QED
        BY <1>13, <4>1, <4>2, <4>3
    <3> QED
      BY <1>1, <3>1, SameLines DEF EndsTight
  <2>2. calls # <<>>
    BY <1>1, <1>11 DEF n
  <2>3. /\ \A k \in 1 .. Len(ops) - 1 : ~(ops[k].kind = "insert" /\ ops[k + 1].kind = "delete")
        /\ ops # <<>> => ops[Len(ops)].kind # "insert"
    BY <2>2 DEF ShortInv, Tidy
  <2> QED
    BY <1>1, <1>12, <2>1, <2>3 DEF Tidy
<1> QED
  BY <1>14, <1>15, <1>16 DEF ShortInv

\* A diff begins with rows that are long enough and everything left to keep.
LEMMA DiffShort ==
    ASSUME ShortInv, NEW b \in Input, NEW a \in Input, Diff(b, a)
    PROVE  ShortInv'
<1> DEFINE c == Over(0, Len(b), 0, Len(a))
<1>1. Len(b) \in Nat /\ Len(a) \in Nat
  BY InputAssumption
<1>2. /\ before' = b /\ after' = a /\ running' = TRUE
      /\ calls' = <<c>> /\ ops' = <<>>
      /\ row0' = Grown(row0, Len(a) + 1) /\ row1' = Grown(row1, Len(a) + 1)
  BY DEF Diff
<1>3. /\ Len(calls') = 1 /\ DOMAIN calls' = 1 .. 1 /\ calls'[1] = c
      /\ c.bStart = 0 /\ c.bEnd = Len(b) /\ c.aStart = 0 /\ c.aEnd = Len(a)
  BY <1>2 DEF Over
<1>4. PICK size \in Nat : row0 \in [0 .. size - 1 -> Nat] /\ row1 \in [0 .. size - 1 -> Nat]
  BY DEF ShortInv, RowsLong
<1>5. \E long \in Nat :
         /\ row0' \in [0 .. long - 1 -> Nat] /\ row1' \in [0 .. long - 1 -> Nat]
         /\ long > Len(a)
  <2>1. Cardinality(0 .. size - 1) = size
    <3>1. Cardinality(0 .. size - 1) = IF 0 > size - 1 THEN 0 ELSE size - 1 - 0 + 1
      BY <1>4, FS_Interval
    <3>2. (IF 0 > size - 1 THEN 0 ELSE size - 1 - 0 + 1) = size
      BY <1>4
    <3> QED
      BY <3>1, <3>2
  <2>2. DOMAIN row0 = 0 .. size - 1 /\ DOMAIN row1 = 0 .. size - 1
    BY <1>4
  <2>3. CASE size >= Len(a) + 1
    <3>1. row0' = row0 /\ row1' = row1
      BY <1>2, <2>1, <2>2, <2>3 DEF Grown
    <3>2. /\ row0' \in [0 .. size - 1 -> Nat] /\ row1' \in [0 .. size - 1 -> Nat]
          /\ size > Len(a)
      BY <1>1, <1>4, <2>3, <3>1
    <3> QED
      BY <3>2
  <2>4. CASE ~(size >= Len(a) + 1)
    <3>1. /\ row0' = [j \in 0 .. Len(a) + 1 - 1 |-> 0]
          /\ row1' = [j \in 0 .. Len(a) + 1 - 1 |-> 0]
      BY <1>2, <2>1, <2>2, <2>4 DEF Grown
    <3>2. /\ row0' \in [0 .. Len(a) + 1 - 1 -> Nat] /\ row1' \in [0 .. Len(a) + 1 - 1 -> Nat]
          /\ Len(a) + 1 \in Nat /\ Len(a) + 1 > Len(a)
      BY <1>1, <3>1
    <3> QED
      BY <3>2
  <2> QED
    BY <2>3, <2>4
<1>6. RowsLong'
  <2>1. \A i \in DOMAIN calls' : calls'[i].bEnd <= Len(b) /\ calls'[i].aEnd <= Len(a)
    BY <1>1, <1>3
  <2> QED
    BY <1>2, <1>5, <2>1 DEF RowsLong
<1>7. NothingLost'
  <2>1. Kept(ops)' = 0
    <3>1. DOMAIN ops' = {}
      BY <1>2
    <3>2. \A k \in DOMAIN ops' : ops'[k].kind # "equal"
      BY <3>1
    <3>3. Kept(ops') = 0
      BY <3>2, KeepsNone
    <3> QED
      BY <3>3 DEF Kept
  <2> DEFINE all == Longest(0, Len(before), 0, Len(after))'
             left == [i \in 0 .. 1 |-> IF i = 0 THEN 0 ELSE all]
  <2>2. all \in Nat
    <3>1. IsFiniteSet(Equal(0, Len(before), 0, Len(after))')
      <4>1. Equal(0, Len(before), 0, Len(after))'
              \subseteq (0 + 1 .. Len(b)) \X (0 + 1 .. Len(a))
        <5>1. Equal(0, Len(before), 0, Len(after))'
                = {p \in (0 + 1 .. Len(b)) \X (0 + 1 .. Len(a)) : b[p[1]] = a[p[2]]}
          BY <1>2, Zenon DEF Equal
        <5> QED
          BY <5>1
      <4>2. IsFiniteSet(0 + 1 .. Len(b)) /\ IsFiniteSet(0 + 1 .. Len(a))
        BY <1>1, FS_Interval
      <4> QED
        BY <4>1, <4>2, FS_Product, FS_Subset
    <3>2. Most(Equal(0, Len(before), 0, Len(after))') \in Nat
      BY <3>1, MostIs
    <3> QED
      BY <3>2 DEF Longest, Most
  <2>3. LongestOf(calls[1])' = all
    BY <1>2, <1>3 DEF LongestOf
  <2> HIDE DEF all
  <2>4. left \in [0 .. 1 -> Nat] /\ left[0] = 0 /\ left[1] = all
    BY <2>2
  <2> HIDE DEF left
  <2>5. \A i \in 1 .. 1 : left[i] = left[i - 1] + LongestOf(calls[i])'
    <3>1. left[1] = left[0] + LongestOf(calls[1])'
      BY <2>2, <2>3, <2>4
    <3>2. \A i \in 1 .. 1 : i = 1 /\ i - 1 = 0
      OBVIOUS
    <3> QED
      BY <3>1, <3>2
  <2>6. Kept(ops)' + left[1] = Longest(0, Len(before), 0, Len(after))'
    <3>1. Kept(ops)' + left[1] = all
      BY <2>1, <2>2, <2>4
    <3> QED
      BY <3>1 DEF all
  <2> QED
    BY <1>3, <2>4, <2>5, <2>6 DEF NothingLost
<1>8. Tidy'
  <2>1. 2 .. Len(calls') = {}
    BY <1>3
  <2>2. Len(ops') = 0 /\ 1 .. Len(ops') - 1 = {} /\ ops' = <<>>
    BY <1>2
  <2> QED
    BY <2>1, <2>2 DEF Tidy
<1> QED
  BY <1>6, <1>7, <1>8 DEF ShortInv

\* At first there is nothing to keep.
LEMMA InitShort ==
    ASSUME Init
    PROVE  ShortInv
<1>1. /\ before = <<>> /\ after = <<>> /\ running = FALSE /\ calls = <<>> /\ ops = <<>>
      /\ row0 = [j \in {} |-> 0] /\ row1 = [j \in {} |-> 0]
      /\ Len(calls) = 0 /\ DOMAIN calls = {} /\ Len(ops) = 0
      /\ DOMAIN ops = {} /\ Len(before) = 0 /\ Len(after) = 0
  BY DEF Init
<1>2. RowsLong
  <2>1. 0 .. 0 - 1 = {} /\ 0 \in Nat
    OBVIOUS
  <2>2. row0 \in [0 .. 0 - 1 -> Nat] /\ row1 \in [0 .. 0 - 1 -> Nat]
    BY <1>1, <2>1
  <2> QED
    BY <1>1, <2>1, <2>2 DEF RowsLong
<1>3. NothingLost
  <2>1. Longest(0, Len(before), 0, Len(after)) = 0
    BY <1>1, NothingCommon
  <2>2. Kept(ops) = 0
    BY <1>1, KeepsNone
  <2> DEFINE left == [i \in 0 .. 0 |-> 0]
  <2>3. /\ left \in [0 .. Len(calls) -> Nat] /\ left[0] = 0
        /\ \A i \in 1 .. Len(calls) : left[i] = left[i - 1] + LongestOf(calls[i])
        /\ Kept(ops) + left[Len(calls)] = 0
    BY <1>1, <2>2
  <2> QED
    BY <2>1, <2>3 DEF NothingLost
<1>4. Tidy
  <2>1. 2 .. Len(calls) = {} /\ 1 .. Len(ops) - 1 = {}
    BY <1>1
  <2> QED
    BY <1>1, <2>1 DEF Tidy
<1> QED
  BY <1>2, <1>3, <1>4 DEF ShortInv

LEMMA ShortEstablished == Init => ShortInv
BY InitShort

LEMMA ShortKept == IInv /\ ShortInv /\ [Next]_vars => ShortInv'
<1> SUFFICES ASSUME IInv, ShortInv, [Next]_vars PROVE ShortInv'
  OBVIOUS
<1>1. ASSUME NEW b \in Input, NEW a \in Input, Diff(b, a) PROVE ShortInv'
  BY <1>1, DiffShort
<1>2. CASE InsertAll
  BY <1>2, InsertAllShort
<1>3. CASE DeleteAll
  BY <1>3, DeleteAllShort
<1>4. CASE ReplaceOne
  BY <1>4, ReplaceOneShort
<1>5. CASE KeepOne
  BY <1>5, KeepOneShort
<1>6. CASE Divide
  BY <1>6, DivideShort
<1>7. CASE Return \/ UNCHANGED vars
  <2>1. /\ UNCHANGED <<before, after, calls, ops, row0, row1>>
        /\ running' => running
    BY <1>7 DEF Return, vars
  <2>2. RowsLong'
    BY <2>1 DEF ShortInv, RowsLong
  <2>3. NothingLost'
    <3>1. /\ \A i : LongestOf(calls[i])' = LongestOf(calls[i])
          /\ Longest(0, Len(before), 0, Len(after))' = Longest(0, Len(before), 0, Len(after))
          /\ Kept(ops)' = Kept(ops)
      BY <2>1, SameLines DEF LongestOf, Kept
    <3> QED
      BY <2>1, <3>1 DEF ShortInv, NothingLost
  <2>4. Tidy'
    <3>1. \A i : EndsTight(calls[i])' <=> EndsTight(calls[i])
      BY <2>1, SameLines DEF EndsTight, LongestOf
    <3> QED
      BY <2>1, <3>1 DEF ShortInv, Tidy
  <2> QED
    BY <2>2, <2>3, <2>4 DEF ShortInv
<1> QED
  BY <1>1, <1>2, <1>3, <1>4, <1>5, <1>6, <1>7 DEF Next, Recurse

\* Whatever is compared and whatever earlier diffs left in the rows: at every
\* step the kept lines and those the pending calls can keep are as many as can
\* be kept at all, and no insertion is left before a deletion.
THEOREM NothingIsLost == Spec => []ShortInv
BY ShortEstablished, ShortKept, ScriptTiled, PTL DEF Spec

\* The rows are arrays of one length, whatever was compared before.
THEOREM ScriptTyped == Spec => []TypeOK
<1>1. IInv /\ ShortInv => TypeOK
  <2> SUFFICES ASSUME IInv, ShortInv PROVE TypeOK
    OBVIOUS
  <2>1. PICK size \in Nat : row0 \in [0 .. size - 1 -> Nat] /\ row1 \in [0 .. size - 1 -> Nat]
    BY DEF ShortInv, RowsLong
  <2>2. row0 \in [DOMAIN row0 -> Nat] /\ row1 \in [DOMAIN row0 -> Nat]
    BY <2>1
  <2> QED
    BY <2>2, Zenon DEF TypeOK, IInv, ScriptType
<1> QED
  BY <1>1, ScriptTiled, NothingIsLost, PTL

\* Every script that Diff returns has its deletions first between two kept
\* lines: the first of the best splits is taken at every call.
THEOREM DeletionsLead == Spec => []DeletionsFirst
<1>1. ShortInv => DeletionsFirst
  BY DEF ShortInv, Tidy, DeletionsFirst
<1> QED
  BY <1>1, NothingIsLost, PTL

-----------------------------------------------------------------------------
(* A common subsequence is a set of pairs of equal lines.                  *)

Rank(P, p) == Cardinality({q \in P : q <= p})
At(P, i) == CHOOSE p \in P : Rank(P, p) = i

\* In a finite set of numbers each rank is taken by one member, and a greater
\* rank by a greater member.
LEMMA Ranked ==
    ASSUME NEW n \in Nat, NEW P, P \subseteq 1 .. n
    PROVE  /\ Cardinality(P) \in Nat
           /\ \A i \in 1 .. Cardinality(P) : At(P, i) \in P /\ Rank(P, At(P, i)) = i
           /\ \A i, j \in 1 .. Cardinality(P) : At(P, i) < At(P, j) <=> i < j
<1>0. \A p \in P : p \in Nat
  OBVIOUS
<1>1. IsFiniteSet(P)
  <2>1. IsFiniteSet(1 .. n)
    BY FS_Interval
  <2> QED
    BY <2>1, FS_Subset
<1>2. Cardinality(P) \in Nat
  BY <1>1, FS_CardinalityType
<1> DEFINE k == Cardinality(P)
           Upto(p) == {q \in P : q <= p}
           rank == [p \in P |-> Rank(P, p)]
<1>3. ASSUME NEW p \in P PROVE Rank(P, p) \in 1 .. k /\ IsFiniteSet(Upto(p))
  <2>1. IsFiniteSet(Upto(p)) /\ Cardinality(Upto(p)) <= k /\ Cardinality(Upto(p)) \in Nat
    BY <1>1, FS_Subset, FS_CardinalityType
  <2>2. p \in Upto(p)
    OBVIOUS
  <2>3. Cardinality(Upto(p)) # 0
    BY <2>1, <2>2, FS_EmptySet
  <2>4. Rank(P, p) = Cardinality(Upto(p))
    BY DEF Rank
  <2> HIDE DEF k, Upto
  <2> QED
    BY <1>2, <2>1, <2>3, <2>4 DEF k
<1>4. ASSUME NEW p \in P, NEW q \in P, p < q PROVE Rank(P, p) < Rank(P, q)
  <2>1. Upto(p) \subseteq Upto(q) /\ q \in Upto(q) /\ q \notin Upto(p)
    <3>1. p \in Nat /\ q \in Nat /\ q <= q /\ ~(q <= p)
      BY <1>0, <1>4
    <3>2. \A r \in P : r <= p => r <= q
      BY <1>0, <1>4, <3>1
    <3> QED
      BY <3>1, <3>2
  <2>2. IsFiniteSet(Upto(q)) /\ IsFiniteSet(Upto(p))
    BY <1>3
  <2> HIDE DEF Upto
  <2>3. Cardinality(Upto(p)) <= Cardinality(Upto(q)) /\ Cardinality(Upto(p)) # Cardinality(Upto(q))
    BY <2>1, <2>2, FS_Subset
  <2>4. Cardinality(Upto(p)) \in Nat /\ Cardinality(Upto(q)) \in Nat
    BY <2>2, FS_CardinalityType
  <2>5. Rank(P, p) = Cardinality(Upto(p)) /\ Rank(P, q) = Cardinality(Upto(q))
    BY DEF Upto, Rank
  <2> QED
    BY <2>3, <2>4, <2>5
<1>5. rank \in Injection(P, 1 .. k)
  <2>1. rank \in [P -> 1 .. k]
    BY <1>3
  <2>2. ASSUME NEW p \in P, NEW q \in P, rank[p] = rank[q] PROVE p = q
    <3>1. Rank(P, p) = Rank(P, q) /\ Rank(P, p) \in Nat
      <4>1. Rank(P, p) \in 1 .. k
        BY <1>3
      <4> HIDE DEF k
      <4> QED
        BY <1>2, <2>2, <4>1
    <3>2. ~(p < q) /\ ~(q < p)
      BY <1>4, <3>1
    <3> QED
      BY <1>0, <3>2
  <2> HIDE DEF rank
  <2> QED
    BY <2>1, <2>2 DEF Injection, IsInjective
<1>6. rank \in Surjection(P, 1 .. k)
  <2>1. IsFiniteSet(1 .. k) /\ Cardinality(1 .. k) = k
    <3>1. Cardinality(1 .. k) = (IF 1 > k THEN 0 ELSE k - 1 + 1) /\ IsFiniteSet(1 .. k)
      BY <1>2, FS_Interval
    <3>2. (IF 1 > k THEN 0 ELSE k - 1 + 1) = k
      BY <1>2
    <3> QED
      BY <3>1, <3>2
  <2> HIDE DEF rank
  <2> QED
    BY <1>5, <2>1, FS_Injection
<1>7. ASSUME NEW i \in 1 .. k PROVE At(P, i) \in P /\ Rank(P, At(P, i)) = i
  <2>1. \E p \in P : rank[p] = i
    <3> HIDE DEF rank, k
    <3> QED
      BY <1>6 DEF Surjection
  <2>2. \E p \in P : Rank(P, p) = i
    BY <2>1
  <2> QED
    BY <2>2, Zenon DEF At
<1>8. ASSUME NEW i \in 1 .. k, NEW j \in 1 .. k PROVE At(P, i) < At(P, j) <=> i < j
  <2>1. /\ At(P, i) \in P /\ Rank(P, At(P, i)) = i
        /\ At(P, j) \in P /\ Rank(P, At(P, j)) = j
    BY <1>7
  <2>2. At(P, i) \in Nat /\ At(P, j) \in Nat
    BY <1>0, <2>1
  <2>3. At(P, i) < At(P, j) => i < j
    BY <1>4, <2>1
  <2>4. At(P, j) < At(P, i) => j < i
    BY <1>4, <2>1
  <2>5. At(P, i) = At(P, j) => i = j
    BY <2>1
  <2>6. i \in Int /\ j \in Int
    OBVIOUS
  <2> QED
    BY <2>2, <2>3, <2>4, <2>5, <2>6
<1> QED
  BY <1>2, <1>7, <1>8

\* A common subsequence is no longer than the most lines that can be kept.
LEMMA CommonFits ==
    ASSUME before \in Seq(Content), after \in Seq(Content), NEW s \in Common(before, after)
    PROVE  Len(s) <= Longest(0, Len(before), 0, Len(after))
<1>1. /\ Len(before) \in Nat /\ Len(after) \in Nat
      /\ DOMAIN before = 1 .. Len(before) /\ DOMAIN after = 1 .. Len(after)
  OBVIOUS
<1>2. PICK P \in SUBSET (1 .. Len(before)), Q \in SUBSET (1 .. Len(after)) :
         s = Picked(before, P) /\ s = Picked(after, Q)
  BY <1>1 DEF Common, Picks
<1>0. \A p \in P : p \in 1 .. Len(before) /\ p \in Nat
  BY <1>1
<1> DEFINE k == Cardinality(P)
<1>3. /\ k \in Nat
      /\ \A i \in 1 .. k : At(P, i) \in P
      /\ \A i, j \in 1 .. k : At(P, i) < At(P, j) <=> i < j
  BY <1>1, Ranked
<1>4. /\ Cardinality(Q) \in Nat
      /\ \A i \in 1 .. Cardinality(Q) : At(Q, i) \in Q
      /\ \A i, j \in 1 .. Cardinality(Q) : At(Q, i) < At(Q, j) <=> i < j
  BY <1>1, Ranked
<1>5. /\ s = [i \in 1 .. k |-> before[At(P, i)]]
      /\ s = [i \in 1 .. Cardinality(Q) |-> after[At(Q, i)]]
  BY <1>2 DEF Picked, At, Rank
<1>6. Cardinality(Q) = k
  <2>1. 1 .. k = 1 .. Cardinality(Q)
    BY <1>5
  <2> HIDE DEF k
  <2> QED
    BY <1>3, <1>4, <2>1
<1>7. \A i \in 1 .. k : before[At(P, i)] = after[At(Q, i)]
  BY <1>5, <1>6
<1>8. Len(s) = k
  BY <1>3, <1>5
<1> HIDE DEF k
<1> DEFINE M == {<<At(P, i), At(Q, i)>> : i \in 1 .. k}
           E == Equal(0, Len(before), 0, Len(after))
<1>9. M \subseteq E
  <2>1. ASSUME NEW i \in 1 .. k PROVE <<At(P, i), At(Q, i)>> \in E
    <3>1. At(P, i) \in P /\ At(Q, i) \in Q
      BY <1>3, <1>4, <1>6
    <3>2. At(P, i) \in 0 + 1 .. Len(before) /\ At(Q, i) \in 0 + 1 .. Len(after)
      <4>1. At(P, i) \in 1 .. Len(before)
        BY <1>0, <3>1
      <4>2. \A q \in Q : q \in 1 .. Len(after)
        OBVIOUS
      <4>3. At(Q, i) \in 1 .. Len(after)
        BY <3>1, <4>2
      <4> QED
        BY <4>1, <4>3
    <3> QED
      BY <1>7, <3>2 DEF Equal
  <2> QED
    BY <2>1
<1>10. Uncrossed(M)
  <2>1. ASSUME NEW i \in 1 .. k, NEW j \in 1 .. k
        PROVE  At(P, i) < At(P, j) <=> At(Q, i) < At(Q, j)
    BY <1>3, <1>4, <1>6
  <2> QED
    BY <2>1 DEF Uncrossed
<1>11. Cardinality(M) = k
  <2> DEFINE f == [i \in 1 .. k |-> <<At(P, i), At(Q, i)>>]
  <2>1. f \in Bijection(1 .. k, M)
    <3>1. f \in [1 .. k -> M]
      OBVIOUS
    <3>2. ASSUME NEW i \in 1 .. k, NEW j \in 1 .. k, f[i] = f[j] PROVE i = j
      <4>1. At(P, i) = At(P, j)
        BY <3>2
      <4>2. At(P, i) \in Nat
        <5>1. At(P, i) \in P
          BY <1>3
        <5> QED
          BY <1>0, <5>1
      <4>3. ~(At(P, i) < At(P, j)) /\ ~(At(P, j) < At(P, i))
        BY <4>1, <4>2
      <4>4. ~(i < j) /\ ~(j < i)
        BY <1>3, <4>3
      <4> QED
        BY <1>3, <4>4
    <3>3. \A m \in M : \E i \in 1 .. k : f[i] = m
      OBVIOUS
    <3> HIDE DEF f, M
    <3> QED
      BY <3>1, <3>2, <3>3 DEF Bijection, Injection, Surjection, IsInjective
  <2>2. IsFiniteSet(1 .. k) /\ Cardinality(1 .. k) = k
    <3>1. Cardinality(1 .. k) = (IF 1 > k THEN 0 ELSE k - 1 + 1) /\ IsFiniteSet(1 .. k)
      BY <1>3, FS_Interval
    <3>2. (IF 1 > k THEN 0 ELSE k - 1 + 1) = k
      BY <1>3
    <3> QED
      BY <3>1, <3>2
  <2> HIDE DEF f, M
  <2>3. ExistsBijection(1 .. k, M)
    BY <2>1 DEF ExistsBijection
  <2> QED
    BY <2>2, <2>3, FS_Bijection
<1>12. IsFiniteSet(E)
  <2>1. 0 \in Int /\ Len(before) \in Int /\ Len(after) \in Int
    BY <1>1
  <2> QED
    BY <2>1, EqualAre
<1> HIDE DEF E, M
<1>13. Cardinality(M) <= Most(E)
  BY <1>9, <1>10, <1>12, MostIs
<1> QED
  BY <1>8, <1>11, <1>13 DEF Longest, E

\* No script keeps more lines than the one Diff returns: it keeps as many as
\* the longest common subsequence has, by its definition, for every pair of
\* sequences and however often the object was used before.
THEOREM ScriptShortest == Spec => []Shortest
<1>1. IInv /\ ShortInv => Shortest
  <2> SUFFICES ASSUME IInv, ShortInv, ~running, NEW s \in Common(before, after)
               PROVE  Len(s) <= Kept(ops)
    BY DEF Shortest, Kept
  <2>1. calls = <<>> /\ Len(calls) = 0
    BY DEF IInv
  <2>2. Kept(ops) + 0 = Longest(0, Len(before), 0, Len(after))
    BY <2>1 DEF ShortInv, NothingLost
  <2>3. Kept(ops) \in Nat
    BY KeptIs DEF IInv, ScriptType
  <2>4. Len(s) <= Longest(0, Len(before), 0, Len(after))
    BY CommonFits DEF IInv, ScriptType
  <2> QED
    BY <2>2, <2>3, <2>4
<1> QED
  BY <1>1, ScriptTiled, NothingIsLost, PTL
=============================================================================
