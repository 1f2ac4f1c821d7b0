-------------------------- MODULE DiffResultProofs --------------------------
(***************************************************************************)
(* For every script, whatever its length and the algorithm it comes from,  *)
(* and every context: the hunks are exactly the surroundings of the        *)
(* changes and their headers say where, and the panes show every line      *)
(* once, in order, with placeholders in one pane at a time.                *)
(***************************************************************************)
EXTENDS DiffResult, FiniteSetTheorems, SequenceTheorems, TLAPS

-----------------------------------------------------------------------------
(* Hunks.                                                                  *)

\* What the type invariant says in numbers.
LEMMA Numbers ==
    ASSUME TypeOK
    PROVE  /\ ops \in Seq(Kind) /\ Len(ops) \in Nat /\ DOMAIN ops = 1 .. Len(ops)
           /\ at \in Nat /\ 1 <= at /\ at <= Len(ops) + 1
           /\ context \in Nat
           /\ groups \in Seq(Span) /\ Len(groups) \in Nat /\ DOMAIN groups = 1 .. Len(groups)
           /\ \A k \in DOMAIN groups : groups[k].start \in Int /\ groups[k].end \in Int
<1>1. /\ ops \in Seq(Kind) /\ groups \in Seq(Span)
      /\ at \in 1 .. Len(ops) + 1 /\ context \in Nat
  BY DEF TypeOK
<1>2. \A k \in DOMAIN groups : groups[k] \in Span
  BY <1>1
<1> QED
  BY <1>1, <1>2 DEF Span

\* A step of the grouping leaves the rows alone.
LEMMA RowsStay ==
    ASSUME IInv, task = "grouping", task' # "aligning", task' # "rows",
           UNCHANGED <<ops, rows>>
    PROVE  /\ (task = "aligning" => Laid(rows, 1, at - 1))'
           /\ (task # "aligning" /\ (rows # <<>> \/ task = "rows") => Laid(rows, 1, Len(ops)))'
<1>1. rows # <<>> => Laid(rows, 1, Len(ops))
  BY DEF IInv
<1>2. Laid(rows, 1, Len(ops))' <=> Laid(rows, 1, Len(ops))
  BY DEF Laid
<1> QED
  BY <1>1, <1>2

\* An unchanged line is passed over.
LEMMA SkipKeeps ==
    ASSUME IInv, SkipEqual
    PROVE  IInv'
<1>1. /\ task = "grouping" /\ task' = "grouping" /\ at <= Len(ops)
      /\ ops[at] = "equal" /\ at' = at + 1
      /\ ops' = ops /\ context' = context /\ groups' = groups /\ spans' = spans
      /\ headers' = headers /\ rows' = rows
  BY DEF SkipEqual
<1>2. TypeOK /\ Grouped
  BY <1>1 DEF IInv
<1>3. TypeOK'
  BY <1>1, <1>2, Numbers DEF TypeOK
<1>4. Grouped'
  <2>1. \A i : Near(i)' <=> Near(i)
    BY <1>1 DEF Near
  <2>2. \A j \in 1 .. at' - 1 : j \in 1 .. at - 1 \/ j = at
    BY <1>1, <1>2, Numbers
  <2>3. \A k \in DOMAIN groups : groups[k].end < at'
    BY <1>1, <1>2, Numbers DEF Grouped
  <2>4. Threshold' = Threshold
    BY <1>1 DEF Threshold
  <2> QED
    BY <1>1, <1>2, <2>1, <2>2, <2>3, <2>4 DEF Grouped
<1>5. SpansExact'
  BY <1>1 DEF SpansExact
<1> QED
  BY <1>1, <1>3, <1>4, <1>5, RowsStay DEF IInv

\* A change near enough to the last group extends it.
LEMMA JoinKeeps ==
    ASSUME IInv, JoinGroup
    PROVE  IInv'
<1> DEFINE n == Len(groups)
           g == [start |-> LastGroup.start, end |-> at]
<1>1. /\ task = "grouping" /\ task' = "grouping" /\ at <= Len(ops)
      /\ ops[at] # "equal" /\ at' = at + 1
      /\ groups # <<>> /\ at - 1 < LastGroup.end + Threshold
      /\ groups' = [groups EXCEPT ![n] = g]
      /\ ops' = ops /\ context' = context /\ spans' = spans
      /\ headers' = headers /\ rows' = rows
  BY DEF JoinGroup
<1>2. TypeOK /\ Grouped
  BY <1>1 DEF IInv
<1>3. /\ n \in Nat /\ n \in 1 .. n /\ DOMAIN groups = 1 .. n /\ Len(groups) = n
      /\ LastGroup = groups[n]
      /\ groups \in Seq(Span)
      /\ at \in Nat /\ context \in Nat /\ Len(ops) \in Nat /\ DOMAIN ops = 1 .. Len(ops)
      /\ LastGroup.start \in Int /\ LastGroup.end \in Int
      /\ 0 <= LastGroup.start /\ LastGroup.start < LastGroup.end /\ LastGroup.end < at
      /\ ops[LastGroup.start + 1] # "equal" /\ ops[LastGroup.end] # "equal"
      /\ \A i \in LastGroup.start + 1 .. LastGroup.end : Near(i)
  <2>1. groups \in Seq(Span) /\ n \in Nat /\ n # 0
    BY <1>1, <1>2, Numbers
  <2>2. n \in 1 .. n /\ LastGroup = groups[n]
    BY <2>1 DEF LastGroup
  <2> QED
    BY <1>2, <2>1, <2>2, Numbers DEF Grouped
<1>4. g \in Span /\ g.start = LastGroup.start /\ g.end = at
  BY <1>3 DEF Span
<1> HIDE DEF g, n
<1>5. /\ groups' \in Seq(Span) /\ Len(groups') = n /\ DOMAIN groups' = 1 .. n
      /\ \A k \in 1 .. n : groups'[k] = IF k = n THEN g ELSE groups[k]
  BY <1>1, <1>3, <1>4, ExceptSeq
<1>6. TypeOK'
  BY <1>1, <1>2, <1>3, <1>5 DEF TypeOK
<1>7. Grouped'
  <2>1. \A i : Near(i)' <=> Near(i)
    BY <1>1 DEF Near
  <2>2. Threshold' = Threshold /\ Threshold = context * 2 + 1
    BY <1>1 DEF Threshold
  <2>3. ASSUME NEW i \in LastGroup.start + 1 .. at PROVE Near(i)
    <3>1. CASE i <= LastGroup.end
      BY <1>3, <3>1
    <3>2. CASE i > LastGroup.end /\ i - LastGroup.end <= context
      <4>1. LastGroup.end \in DOMAIN ops
        BY <1>1, <1>3
      <4>2. LastGroup.end - context <= i /\ i <= LastGroup.end + context
        BY <1>3, <3>2
      <4> QED
        BY <1>3, <4>1, <4>2 DEF Near
    <3>3. CASE i - LastGroup.end > context
      <4>1. at \in DOMAIN ops
        BY <1>1, <1>3
      <4>2. at - context <= i /\ i <= at + context
        BY <1>1, <1>3, <2>2, <3>3, SMTT(30)
      <4> QED
        BY <1>1, <4>1, <4>2 DEF Near
    <3> QED
      BY <1>3, <3>1, <3>2, <3>3
  <2>4. ASSUME NEW k \in 1 .. n
        PROVE  /\ 0 <= groups'[k].start /\ groups'[k].start < groups'[k].end
               /\ groups'[k].end < at'
               /\ ops[groups'[k].start + 1] # "equal" /\ ops[groups'[k].end] # "equal"
               /\ \A i \in groups'[k].start + 1 .. groups'[k].end : Near(i)
    <3>1. CASE k = n
      BY <1>1, <1>3, <1>4, <1>5, <2>3, <3>1
    <3>2. CASE k # n
      <4>1. groups'[k] = groups[k] /\ k \in DOMAIN groups
        BY <1>3, <1>5, <3>2
      <4>2. groups[k].end \in Int /\ groups[k].end < at
        BY <1>2, <4>1, Numbers DEF Grouped
      <4>3. groups[k].end < at'
        BY <1>1, <1>3, <4>2
      <4>4. /\ 0 <= groups[k].start /\ groups[k].start < groups[k].end
            /\ ops[groups[k].start + 1] # "equal" /\ ops[groups[k].end] # "equal"
            /\ \A i \in groups[k].start + 1 .. groups[k].end : Near(i)
        BY <1>2, <4>1 DEF Grouped
      <4> QED
        BY <4>1, <4>3, <4>4
    <3> QED
      BY <3>1, <3>2
  <2>5. ASSUME NEW k \in 1 .. n - 1
        PROVE  groups'[k].end + Threshold <= groups'[k + 1].start
    <3>1. k \in 1 .. n /\ k # n /\ k + 1 \in 1 .. n
      BY <1>3
    <3>2. groups'[k] = groups[k] /\ groups'[k + 1].start = groups[k + 1].start
      BY <1>3, <1>4, <1>5, <3>1
    <3>3. groups[k].end + Threshold <= groups[k + 1].start
      BY <1>2, <1>3 DEF Grouped
    <3> QED
      BY <3>2, <3>3
  <2>6. ASSUME NEW j \in 1 .. at, ops[j] # "equal"
        PROVE  \E k \in 1 .. n : groups'[k].start < j /\ j <= groups'[k].end
    <3>1. CASE j = at
      BY <1>3, <1>4, <1>5, <3>1
    <3>2. CASE j # at
      <4>1. PICK k \in 1 .. n : groups[k].start < j /\ j <= groups[k].end
        <5>1. j \in 1 .. at - 1
          BY <1>3, <3>2
        <5> QED
          BY <1>2, <1>3, <2>6, <5>1 DEF Grouped
      <4>2. CASE k = n
        BY <1>3, <1>4, <1>5, <4>1, <4>2
      <4>3. CASE k # n
        BY <1>5, <4>1, <4>3
      <4> QED
        BY <4>2, <4>3
    <3> QED
      BY <3>1, <3>2
  <2>7. at' - 1 = at
    BY <1>1, <1>3
  <2> QED
    BY <1>1, <1>5, <2>1, <2>2, <2>4, <2>5, <2>6, <2>7 DEF Grouped
<1>8. SpansExact'
  BY <1>1 DEF SpansExact
<1> QED
  BY <1>1, <1>6, <1>7, <1>8, RowsStay DEF IInv

\* A change too far from the last group opens one.
LEMMA OpenKeeps ==
    ASSUME IInv, OpenGroup
    PROVE  IInv'
<1> DEFINE n == Len(groups)
           g == [start |-> at - 1, end |-> at]
<1>1. /\ task = "grouping" /\ task' = "grouping" /\ at <= Len(ops)
      /\ ops[at] # "equal" /\ at' = at + 1
      /\ groups # <<>> => at - 1 >= LastGroup.end + Threshold
      /\ groups' = Append(groups, g)
      /\ ops' = ops /\ context' = context /\ spans' = spans
      /\ headers' = headers /\ rows' = rows
  BY DEF OpenGroup
<1>2. TypeOK /\ Grouped
  BY <1>1 DEF IInv
<1>3. /\ n \in Nat /\ DOMAIN groups = 1 .. n /\ Len(groups) = n
      /\ n > 0 => groups # <<>> /\ LastGroup = groups[n]
      /\ groups \in Seq(Span)
      /\ at \in Nat /\ 1 <= at /\ context \in Nat /\ Len(ops) \in Nat
      /\ DOMAIN ops = 1 .. Len(ops)
      /\ \A k \in 1 .. n : groups[k].start \in Int /\ groups[k].end \in Int
  BY <1>2, Numbers DEF LastGroup
<1>4. g \in Span /\ g.start = at - 1 /\ g.end = at
  BY <1>3 DEF Span
<1> HIDE DEF g, n
<1>5. /\ groups' \in Seq(Span) /\ Len(groups') = n + 1 /\ DOMAIN groups' = 1 .. n + 1
      /\ \A k \in 1 .. n : groups'[k] = groups[k]
      /\ groups'[n + 1] = g
  BY <1>1, <1>3, <1>4, AppendProperties
<1>6. TypeOK'
  BY <1>1, <1>2, <1>3, <1>5 DEF TypeOK
<1>7. Grouped'
  <2>1. \A i : Near(i)' <=> Near(i)
    BY <1>1 DEF Near
  <2>2. Threshold' = Threshold
    BY <1>1 DEF Threshold
  <2>3. ASSUME NEW k \in 1 .. n + 1
        PROVE  /\ 0 <= groups'[k].start /\ groups'[k].start < groups'[k].end
               /\ groups'[k].end < at'
               /\ ops[groups'[k].start + 1] # "equal" /\ ops[groups'[k].end] # "equal"
               /\ \A i \in groups'[k].start + 1 .. groups'[k].end : Near(i)
    <3>1. CASE k = n + 1
      <4>1. Near(at)
        <5>1. at \in DOMAIN ops /\ at - context <= at /\ at <= at + context
          BY <1>1, <1>3
        <5> QED
          BY <1>1, <5>1 DEF Near
      <4>2. groups'[k].start = at - 1 /\ groups'[k].end = at
        BY <1>4, <1>5, <3>1
      <4>3. at - 1 + 1 = at /\ at - 1 + 1 .. at = {at} /\ at < at + 1 /\ at - 1 < at /\ 0 <= at - 1
        BY <1>3
      <4> QED
        BY <1>1, <4>1, <4>2, <4>3
    <3>2. CASE k \in 1 .. n
      <4>1. groups'[k] = groups[k] /\ k \in DOMAIN groups
        BY <1>3, <1>5, <3>2
      <4>2. groups[k].end < at
        BY <1>2, <4>1 DEF Grouped
      <4>3. groups[k].end < at'
        BY <1>1, <1>3, <3>2, <4>2
      <4>4. /\ 0 <= groups[k].start /\ groups[k].start < groups[k].end
            /\ ops[groups[k].start + 1] # "equal" /\ ops[groups[k].end] # "equal"
            /\ \A i \in groups[k].start + 1 .. groups[k].end : Near(i)
        BY <1>2, <4>1 DEF Grouped
      <4> QED
        BY <4>1, <4>3, <4>4
    <3> QED
      BY <1>3, <3>1, <3>2
  <2>4. ASSUME NEW k \in 1 .. n
        PROVE  groups'[k].end + Threshold <= groups'[k + 1].start
    <3>1. CASE k = n
      <4>1. /\ groups'[k].end = LastGroup.end /\ groups'[k + 1].start = at - 1
            /\ groups # <<>> /\ LastGroup.end \in Int
        BY <1>3, <1>4, <1>5, <3>1
      <4>2. Threshold \in Int
        BY <1>3 DEF Threshold
      <4> QED
        BY <1>1, <1>3, <4>1, <4>2
    <3>2. CASE k # n
      <4>1. k \in 1 .. n - 1 /\ k + 1 \in 1 .. n
        BY <1>3, <3>2
      <4>2. groups'[k] = groups[k] /\ groups'[k + 1] = groups[k + 1]
        BY <1>5, <4>1
      <4> QED
        BY <1>2, <1>3, <4>1, <4>2 DEF Grouped
    <3> QED
      BY <3>1, <3>2
  <2>5. ASSUME NEW j \in 1 .. at, ops[j] # "equal"
        PROVE  \E k \in 1 .. n + 1 : groups'[k].start < j /\ j <= groups'[k].end
    <3>1. CASE j = at
      <4>1. n + 1 \in 1 .. n + 1 /\ groups'[n + 1].start = at - 1 /\ groups'[n + 1].end = at
        BY <1>3, <1>4, <1>5
      <4>2. at - 1 < j /\ j <= at
        BY <1>3, <3>1
      <4> QED
        BY <4>1, <4>2
    <3>2. CASE j # at
      <4>1. j \in 1 .. at - 1
        BY <1>3, <3>2
      <4>2. PICK k \in 1 .. n : groups[k].start < j /\ j <= groups[k].end
        BY <1>2, <1>3, <2>5, <4>1 DEF Grouped
      <4>3. k \in 1 .. n + 1 /\ groups'[k] = groups[k]
        BY <1>3, <1>5
      <4> QED
        BY <4>2, <4>3
    <3> QED
      BY <3>1, <3>2
  <2>6. at' - 1 = at /\ Len(groups') - 1 = n
    BY <1>1, <1>3, <1>5
  <2> QED
    BY <1>1, <1>5, <2>1, <2>2, <2>3, <2>4, <2>5, <2>6 DEF Grouped
<1>8. SpansExact'
  BY <1>1 DEF SpansExact
<1> QED
  BY <1>1, <1>6, <1>7, <1>8, RowsStay DEF IInv

\* Groups that were far enough apart have hunks with a line between them, and
\* what surrounds a change is in the hunk of its group.
LEMMA ShowKeeps ==
    ASSUME IInv, ShowHunks
    PROVE  IInv'
<1> DEFINE n == Len(groups)
<1>1. /\ task = "grouping" /\ task' = "hunks" /\ at > Len(ops)
      /\ spans' = [k \in DOMAIN groups |-> Shown(groups[k])]
      /\ DOMAIN headers' = DOMAIN groups
      /\ ops' = ops /\ at' = at /\ context' = context /\ groups' = groups /\ rows' = rows
  BY DEF ShowHunks
<1>2. TypeOK /\ Grouped
  BY <1>1 DEF IInv
<1>3. /\ n \in Nat /\ DOMAIN groups = 1 .. n /\ Len(groups) = n
      /\ at = Len(ops) + 1 /\ context \in Nat /\ Len(ops) \in Nat
      /\ DOMAIN ops = 1 .. Len(ops)
      /\ \A k \in 1 .. n : groups[k].start \in Int /\ groups[k].end \in Int
  BY <1>1, <1>2, Numbers
<1> HIDE DEF n
<1>4. ASSUME NEW k \in 1 .. n
      PROVE  /\ spans'[k] \in [start : 0 .. Len(ops), end : 0 .. Len(ops)]
             /\ spans'[k].start <= groups[k].start /\ groups[k].end <= spans'[k].end
             /\ spans'[k].start >= groups[k].start - context
             /\ spans'[k].end <= groups[k].end + context
             /\ \A i \in 1 .. Len(ops) : groups[k].start - context < i => spans'[k].start < i
             /\ \A i \in 1 .. Len(ops) : i <= groups[k].end + context => i <= spans'[k].end
  <2>1. spans'[k] = Shown(groups[k])
    BY <1>1, <1>3
  <2>2. /\ groups[k].start \in Int /\ groups[k].end \in Int
        /\ 0 <= groups[k].start /\ groups[k].start < groups[k].end /\ groups[k].end <= Len(ops)
    <3>1. 0 <= groups[k].start /\ groups[k].start < groups[k].end /\ groups[k].end < at
      BY <1>2, <1>3 DEF Grouped
    <3> QED
      BY <1>3, <3>1
  <2> QED
    BY <1>3, <2>1, <2>2, SMTT(30) DEF Shown
<1>5. /\ spans' \in Seq([start : 0 .. Len(ops), end : 0 .. Len(ops)])
      /\ Len(spans') = n /\ DOMAIN spans' = 1 .. n
  <2>1. DOMAIN spans' = 1 .. n /\ spans' = [k \in 1 .. n |-> spans'[k]]
    BY <1>1, <1>3
  <2>2. \A k \in 1 .. n : spans'[k] \in [start : 0 .. Len(ops), end : 0 .. Len(ops)]
    BY <1>4
  <2>3. n \in Nat
    BY <1>3
  <2> DEFINE s == spans'
             S == [start : 0 .. Len(ops), end : 0 .. Len(ops)]
  <2> HIDE DEF s, S
  <2>4. s = [k \in 1 .. n |-> s[k]] /\ \A k \in 1 .. n : s[k] \in S
    BY <2>1, <2>2 DEF s, S
  <2>5. s \in Seq(S) /\ Len(s) = n /\ DOMAIN s = 1 .. n
    BY <2>3, <2>4
  <2> QED
    BY <2>5 DEF s, S
<1>6. TypeOK'
  BY <1>1, <1>2, <1>3, <1>5 DEF TypeOK, Task
<1>7. SpansExact'
  <2>1. \A i : Near(i)' <=> Near(i)
    BY <1>1 DEF Near
  <2>2. ASSUME NEW i \in 1 .. Len(ops), Near(i)
        PROVE  \E k \in 1 .. n : spans'[k].start < i /\ i <= spans'[k].end
    <3>1. PICK j \in 1 .. Len(ops) : ops[j] # "equal" /\ j - context <= i /\ i <= j + context
      BY <1>3, <2>2 DEF Near
    <3>2. PICK k \in 1 .. n : groups[k].start < j /\ j <= groups[k].end
      <4>1. j \in 1 .. at - 1
        BY <1>3
      <4> QED
        BY <1>2, <1>3, <3>1, <4>1 DEF Grouped
    <3>3. groups[k].start - context < i /\ i <= groups[k].end + context
      BY <1>3, <3>1, <3>2
    <3> QED
      BY <1>4, <3>3
  <2>3. ASSUME NEW i \in 1 .. Len(ops), NEW k \in 1 .. n,
               spans'[k].start < i, i <= spans'[k].end
        PROVE  Near(i)
    <3>1. /\ groups[k].start \in Int /\ groups[k].end \in Int
          /\ 0 <= groups[k].start /\ groups[k].start < groups[k].end /\ groups[k].end < at
          /\ ops[groups[k].start + 1] # "equal" /\ ops[groups[k].end] # "equal"
          /\ \A h \in groups[k].start + 1 .. groups[k].end : Near(h)
      BY <1>2, <1>3 DEF Grouped
    <3>2. groups[k].start - context < i /\ i <= groups[k].end + context
      <4>1. spans'[k].start \in Int /\ spans'[k].end \in Int
        BY <1>4
      <4>2. groups[k].start - context <= spans'[k].start
        BY <1>4
      <4>3. spans'[k].end <= groups[k].end + context
        BY <1>4
      <4> DEFINE lo == groups[k].start
                 hi == groups[k].end
                 x == spans'[k].start
                 y == spans'[k].end
      <4>4. /\ lo \in Int /\ hi \in Int /\ x \in Int /\ y \in Int /\ context \in Int /\ i \in Int
            /\ lo - context <= x /\ x < i /\ i <= y /\ y <= hi + context
        BY <1>3, <2>3, <3>1, <4>1, <4>2, <4>3
      <4> HIDE DEF lo, hi, x, y
      <4>5. lo - context < i /\ i <= hi + context
        BY <4>4
      <4> QED
        BY <4>5 DEF lo, hi
    <3>3. groups[k].start + 1 \in DOMAIN ops /\ groups[k].end \in DOMAIN ops
      BY <1>3, <3>1
    <3>4. CASE i <= groups[k].start
      <4> DEFINE j == groups[k].start + 1
      <4>1. j - context <= i /\ i <= j + context
        BY <1>3, <3>1, <3>2, <3>4, SMTT(30)
      <4>2. j \in DOMAIN ops /\ ops[j] # "equal"
        BY <3>1, <3>3
      <4> HIDE DEF j
      <4> QED
        BY <4>1, <4>2 DEF Near
    <3>5. CASE i > groups[k].end
      <4>1. groups[k].end - context <= i /\ i <= groups[k].end + context
        BY <1>3, <3>1, <3>2, <3>5
      <4> QED
        BY <3>1, <3>3, <4>1 DEF Near
    <3>6. CASE groups[k].start < i /\ i <= groups[k].end
      BY <3>1, <3>6
    <3> QED
      BY <3>1, <3>4, <3>5, <3>6
  <2>4. ASSUME NEW k \in 1 .. n - 1 PROVE spans'[k].end < spans'[k + 1].start
    <3>1. k \in 1 .. n /\ k + 1 \in 1 .. n
      BY <1>3
    <3>2. groups[k].end + Threshold <= groups[k + 1].start
      BY <1>2, <1>3 DEF Grouped
    <3>3. /\ spans'[k].end <= groups[k].end + context
          /\ groups[k + 1].start - context <= spans'[k + 1].start
          /\ spans'[k].end \in Int /\ spans'[k + 1].start \in Int
          /\ groups[k].end \in Int /\ groups[k + 1].start \in Int
      BY <1>3, <1>4, <3>1
    <3>4. context \in Nat /\ Threshold = context * 2 + 1
      BY <1>3 DEF Threshold
    <3>5. spans'[k].end + context + 1 <= groups[k + 1].start
      BY <3>2, <3>3, <3>4
    <3> QED
      BY <3>3, <3>4, <3>5
  <2> QED
    BY <1>1, <1>3, <1>5, <2>1, <2>2, <2>3, <2>4 DEF SpansExact
<1> QED
  BY <1>1, <1>6, <1>7, RowsStay DEF IInv

\* A call of Hunks begins with no group, which groups all before its first line.
LEMMA HunksKeeps ==
    ASSUME IInv, NEW c \in Context, Hunks(c)
    PROVE  IInv'
<1>1. /\ ~Busy /\ task' = "grouping" /\ at' = 1 /\ groups' = <<>>
      /\ context' = IF c > 0 THEN c ELSE 0
      /\ ops' = ops /\ spans' = spans /\ headers' = headers /\ rows' = rows
  BY DEF Hunks
<1>2. TypeOK'
  <2>1. context' \in Nat
    BY <1>1, DiffAssumption
  <2>2. /\ groups' \in Seq(Span) /\ task' \in Task /\ at' \in 1 .. Len(ops) + 1
        /\ TypeOK
    BY <1>1 DEF IInv, TypeOK, Task
  <2> QED
    BY <1>1, <2>1, <2>2 DEF TypeOK
<1>3. Grouped'
  <2>1. DOMAIN groups' = {} /\ 1 .. Len(groups') - 1 = {} /\ 1 .. at' - 1 = {}
    BY <1>1
  <2> QED
    BY <2>1 DEF Grouped
<1>4. rows # <<>> => Laid(rows, 1, Len(ops))
  BY <1>1 DEF IInv, Busy
<1>5. Laid(rows, 1, Len(ops))' <=> Laid(rows, 1, Len(ops))
  BY <1>1 DEF Laid
<1> QED
  BY <1>1, <1>2, <1>3, <1>4, <1>5 DEF IInv, SpansExact

-----------------------------------------------------------------------------
(* The rows.                                                               *)

\* Rows of some operations followed by rows of the next ones.
LEMMA LaidOn ==
    ASSUME NEW r \in Seq(Row), NEW b \in Seq(Row),
           NEW lo \in Nat \ {0}, NEW mid \in Nat, NEW hi \in Nat, lo <= mid + 1, mid <= hi,
           Laid(r, lo, mid), Laid(b, mid + 1, hi)
    PROVE  r \o b \in Seq(Row) /\ Laid(r \o b, lo, hi)
<1> DEFINE s == r \o b
<1>1. /\ Len(r) \in Nat /\ Len(b) \in Nat
      /\ DOMAIN r = 1 .. Len(r) /\ DOMAIN b = 1 .. Len(b)
      /\ s \in Seq(Row) /\ DOMAIN s = 1 .. Len(r) + Len(b)
      /\ \A k \in 1 .. Len(r) + Len(b) : s[k] = IF k <= Len(r) THEN r[k] ELSE b[k - Len(r)]
  BY ConcatProperties, LenProperties
<1>2. /\ \A k \in 1 .. Len(r) : k \in DOMAIN s /\ s[k] = r[k]
      /\ \A k \in 1 .. Len(b) : Len(r) + k \in DOMAIN s /\ s[Len(r) + k] = b[k]
      /\ \A k \in DOMAIN s : k \in 1 .. Len(r) \/ \E h \in 1 .. Len(b) : k = Len(r) + h
  <2>1. ASSUME NEW k \in 1 .. Len(r) PROVE k \in DOMAIN s /\ s[k] = r[k]
    BY <1>1
  <2>2. ASSUME NEW k \in 1 .. Len(b) PROVE Len(r) + k \in DOMAIN s /\ s[Len(r) + k] = b[k]
    <3>1. /\ Len(r) + k \in 1 .. Len(r) + Len(b) /\ ~(Len(r) + k <= Len(r))
          /\ Len(r) + k - Len(r) = k
      BY <1>1
    <3> QED
      BY <1>1, <3>1
  <2>3. ASSUME NEW k \in DOMAIN s
        PROVE  k \in 1 .. Len(r) \/ \E h \in 1 .. Len(b) : k = Len(r) + h
    <3>1. CASE k > Len(r)
      <4>1. k - Len(r) \in 1 .. Len(b) /\ k = Len(r) + (k - Len(r))
        BY <1>1, <3>1
      <4> QED
        BY <4>1
    <3> QED
      BY <1>1, <3>1
  <2> QED
    BY <2>1, <2>2, <2>3
<1>3. /\ \A k \in DOMAIN r : r[k].before \in Nat /\ r[k].after \in Nat
      /\ \A k \in DOMAIN b : b[k].before \in Nat /\ b[k].after \in Nat
  <2>1. (\A k \in DOMAIN r : r[k] \in Row) /\ (\A k \in DOMAIN b : b[k] \in Row)
    OBVIOUS
  <2> QED
    BY <2>1 DEF Row
<1> HIDE DEF s
<1>4. ASSUME NEW k \in DOMAIN s
      PROVE  /\ s[k].before # 0 => s[k].before \in lo .. hi /\ ops[s[k].before] # "insert"
             /\ s[k].after # 0 => s[k].after \in lo .. hi /\ ops[s[k].after] # "delete"
  <2>1. CASE k \in 1 .. Len(r)
    BY <1>1, <1>2, <1>3, <2>1 DEF Laid
  <2>2. CASE \E h \in 1 .. Len(b) : k = Len(r) + h
    <3>1. PICK h \in 1 .. Len(b) : k = Len(r) + h
      BY <2>2
    <3>2. s[k] = b[h] /\ h \in DOMAIN b
      BY <1>1, <1>2, <3>1
    <3>3. /\ b[h].before # 0 => b[h].before \in mid + 1 .. hi /\ ops[b[h].before] # "insert"
          /\ b[h].after # 0 => b[h].after \in mid + 1 .. hi /\ ops[b[h].after] # "delete"
      BY <3>2 DEF Laid
    <3>4. mid + 1 .. hi \subseteq lo .. hi
      OBVIOUS
    <3> QED
      BY <3>2, <3>3, <3>4
  <2> QED
    BY <1>2, <2>1, <2>2
<1>5. ASSUME NEW i \in lo .. hi
      PROVE  /\ ops[i] # "insert" => \E k \in DOMAIN s : s[k].before = i
             /\ ops[i] # "delete" => \E k \in DOMAIN s : s[k].after = i
             /\ ops[i] = "equal" => \E k \in DOMAIN s : s[k].before = i /\ s[k].after = i
  <2>1. CASE i <= mid
    <3>1. i \in lo .. mid
      BY <2>1
    <3>2. /\ ops[i] # "insert" => \E k \in DOMAIN r : r[k].before = i
          /\ ops[i] # "delete" => \E k \in DOMAIN r : r[k].after = i
          /\ ops[i] = "equal" => \E k \in DOMAIN r : r[k].before = i /\ r[k].after = i
      BY <3>1 DEF Laid
    <3> QED
      BY <1>1, <1>2, <3>2
  <2>2. CASE i > mid
    <3>1. i \in mid + 1 .. hi
      BY <2>2
    <3>2. /\ ops[i] # "insert" => \E k \in DOMAIN b : b[k].before = i
          /\ ops[i] # "delete" => \E k \in DOMAIN b : b[k].after = i
          /\ ops[i] = "equal" => \E k \in DOMAIN b : b[k].before = i /\ b[k].after = i
      BY <3>1 DEF Laid
    <3>3. ASSUME NEW h \in DOMAIN b PROVE \E k \in DOMAIN s : s[k] = b[h]
      <4>1. Len(r) + h \in DOMAIN s /\ s[Len(r) + h] = b[h]
        BY <1>1, <1>2
      <4> QED
        BY <4>1
    <3> QED
      BY <3>2, <3>3, Zenon
  <2> QED
    BY <2>1, <2>2
<1>6. ASSUME NEW k \in DOMAIN s, NEW l \in DOMAIN s, k < l
      PROVE  /\ s[k].before # 0 /\ s[l].before # 0 => s[k].before < s[l].before
             /\ s[k].after # 0 /\ s[l].after # 0 => s[k].after < s[l].after
  <2>1. CASE k \in 1 .. Len(r) /\ l \in 1 .. Len(r)
    BY <1>1, <1>2, <1>6, <2>1 DEF Laid
  <2>2. CASE k \in 1 .. Len(r) /\ \E h \in 1 .. Len(b) : l = Len(r) + h
    <3>1. PICK h \in 1 .. Len(b) : l = Len(r) + h
      BY <2>2
    <3>2. s[k] = r[k] /\ k \in DOMAIN r /\ s[l] = b[h] /\ h \in DOMAIN b
      BY <1>1, <1>2, <2>2, <3>1
    <3>3. /\ r[k].before # 0 => r[k].before \in lo .. mid
          /\ r[k].after # 0 => r[k].after \in lo .. mid
          /\ b[h].before # 0 => b[h].before \in mid + 1 .. hi
          /\ b[h].after # 0 => b[h].after \in mid + 1 .. hi
      BY <3>2 DEF Laid
    <3> QED
      BY <3>2, <3>3
  <2>3. CASE \E g, h \in 1 .. Len(b) : k = Len(r) + g /\ l = Len(r) + h
    <3>1. PICK g, h \in 1 .. Len(b) : k = Len(r) + g /\ l = Len(r) + h
      BY <2>3
    <3>2. s[k] = b[g] /\ s[l] = b[h] /\ g \in DOMAIN b /\ h \in DOMAIN b /\ g < h
      BY <1>1, <1>2, <1>6, <3>1
    <3> QED
      BY <3>2 DEF Laid
  <2>4. ~(l \in 1 .. Len(r) /\ \E h \in 1 .. Len(b) : k = Len(r) + h)
    BY <1>1, <1>6
  <2> QED
    BY <1>2, <2>1, <2>2, <2>3, <2>4
<1>7. Laid(s, lo, hi)
  BY <1>4, <1>5, <1>6 DEF Laid
<1> QED
  BY <1>1, <1>7 DEF s

\* A step of the layout that emits rows for the n operations it passes.
LEMMA EmitKeeps ==
    ASSUME IInv, task = "aligning", NEW b \in Seq(Row), NEW n \in Nat,
           at + n <= Len(ops) + 1, Laid(b, at, at + n - 1), Emit(b, n)
    PROVE  IInv'
<1>1. /\ task' = "aligning" /\ at' = at + n /\ rows' = rows \o b
      /\ ops' = ops /\ context' = context /\ groups' = groups /\ spans' = spans
      /\ headers' = headers
  BY DEF Emit
<1>2. /\ TypeOK /\ Laid(rows, 1, at - 1) /\ rows \in Seq(Row)
      /\ at \in Nat /\ 1 <= at /\ Len(ops) \in Nat
  BY Numbers DEF IInv, TypeOK
<1>3. rows \o b \in Seq(Row) /\ Laid(rows \o b, 1, at + n - 1)
  <2> DEFINE mid == at - 1
             hi == at + n - 1
  <2>1. /\ 1 \in Nat \ {0} /\ mid \in Nat /\ hi \in Nat /\ 1 <= mid + 1 /\ mid <= hi
        /\ mid + 1 = at
    BY <1>2
  <2>2. Laid(rows, 1, mid) /\ Laid(b, mid + 1, hi)
    BY <1>2, <2>1
  <2> HIDE DEF mid, hi
  <2>3. rows \o b \in Seq(Row) /\ Laid(rows \o b, 1, hi)
    BY <1>2, <2>1, <2>2, LaidOn
  <2> QED
    BY <2>3 DEF hi
<1>4. TypeOK'
  <2>1. at' \in 1 .. Len(ops) + 1
    BY <1>1, <1>2
  <2> QED
    BY <1>1, <1>2, <1>3, <2>1 DEF TypeOK
<1>5. Laid(rows, 1, at - 1)'
  <2> DEFINE hi == at + n - 1
  <2>1. at' - 1 = hi
    BY <1>1, <1>2
  <2>2. Laid(rows \o b, 1, hi)
    BY <1>3
  <2> HIDE DEF hi
  <2>3. Laid(rows', 1, at' - 1)
    BY <1>1, <2>1, <2>2
  <2> QED
    BY <1>1, <2>3 DEF Laid
<1> QED
  BY <1>1, <1>4, <1>5 DEF IInv, SpansExact

\* The layout starts with no rows.
LEMMA AlignRowsKeeps ==
    ASSUME IInv, AlignRows
    PROVE  IInv'
<1>1. /\ task' = "aligning" /\ at' = 1 /\ rows' = <<>> /\ rows = <<>>
      /\ ops' = ops /\ context' = context /\ groups' = groups /\ spans' = spans
      /\ headers' = headers
  BY DEF AlignRows
<1>2. TypeOK
  BY DEF IInv
<1>3. TypeOK'
  BY <1>1, <1>2, Numbers DEF TypeOK, Task
<1>4. Laid(rows, 1, at - 1)'
  <2>1. DOMAIN rows' = {} /\ 1 .. at' - 1 = {}
    BY <1>1
  <2> QED
    BY <2>1 DEF Laid
<1> QED
  BY <1>1, <1>3, <1>4 DEF IInv, SpansExact

\* A line, or a line beside itself, is laid out by one row.
LEMMA AlignEqualKeeps ==
    ASSUME IInv, AlignEqual
    PROVE  IInv'
<1> DEFINE b == <<[before |-> at, after |-> at]>>
<1>1. task = "aligning" /\ at <= Len(ops) /\ ops[at] = "equal" /\ Emit(b, 1)
  BY DEF AlignEqual
<1>2. at \in Nat /\ 1 <= at /\ Len(ops) \in Nat /\ at + 1 - 1 = at
  BY Numbers DEF IInv
<1>3. /\ b \in Seq(Row) /\ DOMAIN b = {1} /\ b[1].before = at /\ b[1].after = at
  BY <1>2 DEF Row
<1> HIDE DEF b
<1>4. Laid(b, at, at + 1 - 1)
  <2>1. at .. at + 1 - 1 = {at} /\ at \in at .. at + 1 - 1
    BY <1>2
  <2> QED
    BY <1>1, <1>3, <2>1 DEF Laid
<1> QED
  BY <1>1, <1>2, <1>3, <1>4, EmitKeeps

\* An insertion alone has a row with a placeholder.
LEMMA AlignInsertKeeps ==
    ASSUME IInv, AlignInsert
    PROVE  IInv'
<1> DEFINE b == <<[before |-> 0, after |-> at]>>
<1>1. task = "aligning" /\ at <= Len(ops) /\ ops[at] = "insert" /\ Emit(b, 1)
  BY DEF AlignInsert
<1>2. at \in Nat /\ 1 <= at /\ Len(ops) \in Nat /\ at + 1 - 1 = at
  BY Numbers DEF IInv
<1>3. /\ b \in Seq(Row) /\ DOMAIN b = {1} /\ b[1].before = 0 /\ b[1].after = at
  BY <1>2 DEF Row
<1> HIDE DEF b
<1>4. Laid(b, at, at + 1 - 1)
  <2>1. at .. at + 1 - 1 = {at} /\ at \in at .. at + 1 - 1
    BY <1>2
  <2> QED
    BY <1>1, <1>3, <2>1 DEF Laid
<1> QED
  BY <1>1, <1>2, <1>3, <1>4, EmitKeeps

\* d deletions beside n insertions lay out the d + n operations they are.
LEMMA PairsLaid ==
    ASSUME NEW d \in Nat, NEW n \in Nat, at \in Nat, 1 <= at,
           \A j \in at .. at + d - 1 : ops[j] = "delete",
           \A j \in at + d .. at + d + n - 1 : ops[j] = "insert"
    PROVE  Pairs(d, n) \in Seq(Row) /\ Laid(Pairs(d, n), at, at + d + n - 1)
<1> DEFINE m == IF d > n THEN d ELSE n
           b == Pairs(d, n)
<1>1. m \in Nat /\ d <= m /\ n <= m
  OBVIOUS
<1>2. /\ DOMAIN b = 1 .. m
      /\ \A k \in 1 .. m : b[k] = [before |-> IF k <= d THEN at + k - 1 ELSE 0,
                                   after |-> IF k <= n THEN at + d + k - 1 ELSE 0]
      /\ b = [k \in 1 .. m |-> b[k]]
  BY DEF Pairs
<1> HIDE DEF b, m
<1>3. \A k \in 1 .. m :
         /\ b[k].before = IF k <= d THEN at + k - 1 ELSE 0
         /\ b[k].after = IF k <= n THEN at + d + k - 1 ELSE 0
  BY <1>2
<1>4. \A k \in 1 .. m : b[k] \in Row
  <2> SUFFICES ASSUME NEW k \in 1 .. m PROVE b[k] \in Row
    OBVIOUS
  <2>1. /\ (IF k <= d THEN at + k - 1 ELSE 0) \in Nat
        /\ (IF k <= n THEN at + d + k - 1 ELSE 0) \in Nat
    BY <1>1
  <2> QED
    BY <1>2, <2>1 DEF Row
<1>5. b \in Seq(Row)
  <2>1. b = [k \in 1 .. m |-> b[k]]
    BY <1>2
  <2> QED
    BY <1>1, <1>4, <2>1, SMTT(30)
<1>6. ASSUME NEW k \in 1 .. m
      PROVE  /\ b[k].before # 0 => b[k].before \in at .. at + d + n - 1 /\ ops[b[k].before] # "insert"
             /\ b[k].after # 0 => b[k].after \in at .. at + d + n - 1 /\ ops[b[k].after] # "delete"
  <2>1. k <= d => at + k - 1 \in at .. at + d - 1 /\ at + k - 1 \in at .. at + d + n - 1
    BY <1>1
  <2>2. k <= n => at + d + k - 1 \in at + d .. at + d + n - 1
                  /\ at + d + k - 1 \in at .. at + d + n - 1
    BY <1>1
  <2>3. k <= d => ops[at + k - 1] = "delete"
    BY <2>1
  <2>4. k <= n => ops[at + d + k - 1] = "insert"
    BY <2>2
  <2> QED
    BY <1>3, <2>1, <2>2, <2>3, <2>4
<1>7. ASSUME NEW i \in at .. at + d + n - 1
      PROVE  /\ ops[i] # "insert" => \E k \in 1 .. m : b[k].before = i
             /\ ops[i] # "delete" => \E k \in 1 .. m : b[k].after = i
             /\ ops[i] # "equal"
  <2>1. CASE i < at + d
    <3>1. i \in at .. at + d - 1 /\ i - at + 1 \in 1 .. m /\ i - at + 1 <= d
          /\ at + (i - at + 1) - 1 = i
      BY <1>1, <2>1
    <3>2. ops[i] = "delete"
      BY <3>1
    <3>3. b[i - at + 1].before = i
      BY <1>3, <3>1
    <3> QED
      BY <3>1, <3>2, <3>3
  <2>2. CASE i >= at + d
    <3>1. i \in at + d .. at + d + n - 1 /\ i - at - d + 1 \in 1 .. m /\ i - at - d + 1 <= n
          /\ at + d + (i - at - d + 1) - 1 = i
      BY <1>1, <2>2
    <3>2. ops[i] = "insert"
      BY <3>1
    <3>3. b[i - at - d + 1].after = i
      BY <1>3, <3>1
    <3> QED
      BY <3>1, <3>2, <3>3
  <2> QED
    BY <2>1, <2>2
<1>8. ASSUME NEW k \in 1 .. m, NEW l \in 1 .. m, k < l
      PROVE  /\ b[k].before # 0 /\ b[l].before # 0 => b[k].before < b[l].before
             /\ b[k].after # 0 /\ b[l].after # 0 => b[k].after < b[l].after
  BY <1>1, <1>3, <1>8
<1>9. Laid(b, at, at + d + n - 1)
  BY <1>2, <1>6, <1>7, <1>8 DEF Laid
<1> QED
  BY <1>5, <1>9 DEF b

\* A run of deletions goes with the insertions after it.
LEMMA AlignDeletesKeeps ==
    ASSUME IInv, AlignDeletes
    PROVE  IInv'
<1>1. PICK d, n \in 0 .. Len(ops) :
         /\ Consecutive(at, "delete", d)
         /\ Consecutive(at + d, "insert", n)
         /\ Emit(Pairs(d, n), d + n)
  BY DEF AlignDeletes
<1>2. task = "aligning"
  BY DEF AlignDeletes
<1>3. at \in Nat /\ 1 <= at /\ Len(ops) \in Nat
  BY Numbers DEF IInv
<1>4. d \in Nat /\ n \in Nat /\ d + n \in Nat
  BY <1>3
<1>5. /\ \A j \in at .. at + d - 1 : ops[j] = "delete"
      /\ \A j \in at + d .. at + d + n - 1 : ops[j] = "insert"
      /\ at + d + n <= Len(ops) + 1
  BY <1>1 DEF Consecutive
<1>6. Pairs(d, n) \in Seq(Row) /\ Laid(Pairs(d, n), at, at + d + n - 1)
  BY <1>3, <1>4, <1>5, PairsLaid
<1> DEFINE b == Pairs(d, n)
           m == d + n
<1>7. at + m <= Len(ops) + 1 /\ at + m - 1 = at + d + n - 1
  BY <1>3, <1>4, <1>5
<1>8. b \in Seq(Row) /\ m \in Nat /\ Laid(b, at, at + m - 1) /\ Emit(b, m)
  BY <1>1, <1>4, <1>6, <1>7
<1> HIDE DEF b, m
<1> QED
  BY <1>2, <1>7, <1>8, EmitKeeps

\* At the end of the script the rows are those of all of it.
LEMMA RowsDoneKeeps ==
    ASSUME IInv, RowsDone
    PROVE  IInv'
<1>1. /\ task = "aligning" /\ at > Len(ops) /\ task' = "rows"
      /\ at' = at /\ rows' = rows
      /\ ops' = ops /\ context' = context /\ groups' = groups /\ spans' = spans
      /\ headers' = headers
  BY DEF RowsDone
<1>2. TypeOK /\ Laid(rows, 1, at - 1)
  BY <1>1 DEF IInv
<1>3. at - 1 = Len(ops)
  BY <1>1, <1>2, Numbers
<1>4. Laid(rows, 1, Len(ops))'
  BY <1>1, <1>2, <1>3 DEF Laid
<1>5. TypeOK'
  BY <1>1, <1>2 DEF TypeOK, Task
<1> QED
  BY <1>1, <1>4, <1>5 DEF IInv, SpansExact

-----------------------------------------------------------------------------
(* Placeholders.                                                           *)

\* Where the rows of two sequences are in both together.
LEMMA Beside ==
    ASSUME NEW r \in Seq(Row), NEW b \in Seq(Row)
    PROVE  /\ \A k \in DOMAIN r : k \in DOMAIN (r \o b) /\ (r \o b)[k] = r[k] /\ k <= Len(r)
           /\ \A k \in DOMAIN b : Len(r) + k \in DOMAIN (r \o b) /\ (r \o b)[Len(r) + k] = b[k]
           /\ \A k \in DOMAIN (r \o b) :
                 k \in DOMAIN r \/ \E h \in DOMAIN b : k = Len(r) + h
<1> DEFINE s == r \o b
<1>1. /\ Len(r) \in Nat /\ Len(b) \in Nat
      /\ DOMAIN r = 1 .. Len(r) /\ DOMAIN b = 1 .. Len(b)
      /\ DOMAIN s = 1 .. Len(r) + Len(b)
      /\ \A k \in 1 .. Len(r) + Len(b) : s[k] = IF k <= Len(r) THEN r[k] ELSE b[k - Len(r)]
  BY ConcatProperties, LenProperties
<1> HIDE DEF s
<1>2. ASSUME NEW k \in DOMAIN r PROVE k \in DOMAIN s /\ s[k] = r[k] /\ k <= Len(r)
  BY <1>1
<1>3. ASSUME NEW k \in DOMAIN b PROVE Len(r) + k \in DOMAIN s /\ s[Len(r) + k] = b[k]
  <2>1. /\ Len(r) + k \in 1 .. Len(r) + Len(b) /\ ~(Len(r) + k <= Len(r))
        /\ Len(r) + k - Len(r) = k
    BY <1>1
  <2> QED
    BY <1>1, <2>1
<1>4. ASSUME NEW k \in DOMAIN s PROVE k \in DOMAIN r \/ \E h \in DOMAIN b : k = Len(r) + h
  <2>1. CASE k > Len(r)
    <3>1. k - Len(r) \in DOMAIN b /\ k = Len(r) + (k - Len(r))
      BY <1>1, <2>1
    <3> QED
      BY <3>1
  <2> QED
    BY <1>1, <2>1
<1> QED
  BY <1>2, <1>3, <1>4 DEF s

\* Rows with placeholders in one pane only may follow those that are behind an
\* unchanged line on the other side.
LEMMA TightOn ==
    ASSUME NEW r \in Seq(Row), NEW b \in Seq(Row), Tight(r),
           \A g, h \in DOMAIN b : ~(b[g].before = 0 /\ b[h].after = 0),
           \A k \in DOMAIN r, h \in DOMAIN b :
              (r[k].before = 0 /\ b[h].after = 0) \/ (r[k].after = 0 /\ b[h].before = 0) =>
                 \E m \in DOMAIN r : k < m /\ r[m].before = r[m].after
    PROVE  Tight(r \o b)
<1> DEFINE s == r \o b
<1>1. /\ \A k \in DOMAIN r : k \in DOMAIN s /\ s[k] = r[k] /\ k <= Len(r)
      /\ \A k \in DOMAIN b : Len(r) + k \in DOMAIN s /\ s[Len(r) + k] = b[k]
      /\ \A k \in DOMAIN s : k \in DOMAIN r \/ \E h \in DOMAIN b : k = Len(r) + h
  BY Beside
<1>2. Len(r) \in Nat /\ DOMAIN r = 1 .. Len(r) /\ Len(b) \in Nat /\ DOMAIN b = 1 .. Len(b)
  BY LenProperties
<1> HIDE DEF s
<1> SUFFICES ASSUME NEW k \in DOMAIN s, NEW l \in DOMAIN s, s[k].before = 0, s[l].after = 0
             PROVE  \E m \in DOMAIN s :
                       /\ (k < m /\ m < l) \/ (l < m /\ m < k)
                       /\ s[m].before = s[m].after
  BY DEF Tight, s
<1>3. CASE k \in DOMAIN r /\ l \in DOMAIN r
  <2>1. PICK m \in DOMAIN r :
           /\ (k < m /\ m < l) \/ (l < m /\ m < k)
           /\ r[m].before = r[m].after
    <3>1. r[k].before = 0 /\ r[l].after = 0
      BY <1>1, <1>3
    <3> QED
      BY <1>3, <3>1 DEF Tight
  <2> QED
    BY <1>1, <2>1
<1>4. CASE k \in DOMAIN r /\ \E h \in DOMAIN b : l = Len(r) + h
  <2>1. PICK h \in DOMAIN b : l = Len(r) + h
    BY <1>4
  <2>2. r[k].before = 0 /\ b[h].after = 0
    BY <1>1, <1>4, <2>1
  <2>3. PICK m \in DOMAIN r : k < m /\ r[m].before = r[m].after
    BY <1>4, <2>2
  <2>4. m < l
    BY <1>2, <2>1
  <2> QED
    BY <1>1, <2>3, <2>4
<1>5. CASE l \in DOMAIN r /\ \E h \in DOMAIN b : k = Len(r) + h
  <2>1. PICK h \in DOMAIN b : k = Len(r) + h
    BY <1>5
  <2>2. r[l].after = 0 /\ b[h].before = 0
    BY <1>1, <1>5, <2>1
  <2>3. PICK m \in DOMAIN r : l < m /\ r[m].before = r[m].after
    BY <1>5, <2>2
  <2>4. m < k
    BY <1>2, <2>1
  <2> QED
    BY <1>1, <2>3, <2>4
<1>6. CASE \E g, h \in DOMAIN b : k = Len(r) + g /\ l = Len(r) + h
  BY <1>1, <1>6
<1> QED
  BY <1>1, <1>3, <1>4, <1>5, <1>6

\* An unchanged line settles every placeholder before it.
LEMMA EqualTight ==
    ASSUME TypeOK, TightInv, AlignEqual
    PROVE  TightInv'
<1> DEFINE b == <<[before |-> at, after |-> at]>>
<1>1. /\ task = "aligning" /\ at <= Len(ops) /\ ops[at] = "equal"
      /\ rows' = rows \o b /\ ops' = ops /\ task' = "aligning"
  BY DEF AlignEqual, Emit
<1>2. at \in Nat /\ 1 <= at /\ rows \in Seq(Row)
  BY Numbers DEF TypeOK
<1>3. b \in Seq(Row) /\ DOMAIN b = {1} /\ b[1].before = at /\ b[1].after = at
  BY <1>2 DEF Row
<1> HIDE DEF b
<1> SUFFICES ASSUME DeletesFirst PROVE TightInv'
  BY <1>1 DEF TightInv, DeletesFirst
<1>4. Tight(rows \o b)
  <2>1. Tight(rows)
    BY DEF TightInv
  <2>2. \A h \in DOMAIN b : b[h].before # 0 /\ b[h].after # 0
    BY <1>2, <1>3
  <2> QED
    BY <1>2, <1>3, <2>1, <2>2, TightOn
<1>5. Settled(rows \o b, ops'[at'])
  <2>1. /\ \A k \in DOMAIN rows : (rows \o b)[k] = rows[k] /\ k <= Len(rows)
        /\ Len(rows) + 1 \in DOMAIN (rows \o b) /\ (rows \o b)[Len(rows) + 1] = b[1]
        /\ \A k \in DOMAIN (rows \o b) : k \in DOMAIN rows \/ k = Len(rows) + 1
    BY <1>2, <1>3, Beside
  <2>2. Len(rows) \in Nat /\ DOMAIN rows = 1 .. Len(rows)
    BY <1>2, LenProperties
  <2> DEFINE s == rows \o b
             n == Len(rows) + 1
  <2>3. /\ n \in DOMAIN s /\ s[n].before = s[n].after /\ s[n].before # 0
        /\ \A k \in DOMAIN s : k < n \/ k = n
    BY <1>2, <1>3, <2>1, <2>2
  <2> HIDE DEF s, n
  <2>4. Settled(s, ops'[at'])
    BY <2>3 DEF Settled
  <2> QED
    BY <2>4 DEF s
<1> QED
  BY <1>1, <1>4, <1>5 DEF TightInv

\* An insertion that follows no deletion comes after an unchanged line, or
\* after one that does.
LEMMA InsertTight ==
    ASSUME TypeOK, TightInv, AlignInsert
    PROVE  TightInv'
<1> DEFINE b == <<[before |-> 0, after |-> at]>>
<1>1. /\ task = "aligning" /\ at <= Len(ops) /\ ops[at] = "insert" /\ at' = at + 1
      /\ rows' = rows \o b /\ ops' = ops /\ task' = "aligning"
  BY DEF AlignInsert, Emit
<1>2. /\ at \in Nat /\ 1 <= at /\ rows \in Seq(Row) /\ ops \in Seq(Kind) /\ Len(ops) \in Nat
  BY Numbers DEF TypeOK
<1>3. b \in Seq(Row) /\ DOMAIN b = {1} /\ b[1].before = 0 /\ b[1].after = at
  BY <1>2 DEF Row
<1> HIDE DEF b
<1> SUFFICES ASSUME DeletesFirst PROVE TightInv'
  BY <1>1 DEF TightInv, DeletesFirst
<1>4. Tight(rows) /\ Settled(rows, ops[at])
  BY <1>1 DEF TightInv
<1>5. \A k \in DOMAIN rows : rows[k].after = 0 =>
         \E m \in DOMAIN rows : k < m /\ rows[m].before = rows[m].after
  BY <1>1, <1>4 DEF Settled
<1>6. Tight(rows \o b)
  <2>1. \A h \in DOMAIN b : b[h].after # 0
    BY <1>2, <1>3
  <2> QED
    BY <1>2, <1>3, <1>4, <1>5, <2>1, TightOn
<1>7. ASSUME at' <= Len(ops) PROVE Settled(rows \o b, ops[at'])
  <2>1. ops[at'] # "delete"
    <3>1. at \in 1 .. Len(ops) - 1
      BY <1>1, <1>2, <1>7
    <3> QED
      BY <1>1, <3>1 DEF DeletesFirst
  <2>2. /\ \A k \in DOMAIN rows : k \in DOMAIN (rows \o b) /\ (rows \o b)[k] = rows[k]
        /\ (rows \o b)[Len(rows) + 1] = b[1]
        /\ \A k \in DOMAIN (rows \o b) : k \in DOMAIN rows \/ k = Len(rows) + 1
    BY <1>2, <1>3, Beside
  <2> DEFINE s == rows \o b
             n == Len(rows) + 1
  <2>3. /\ \A k \in DOMAIN rows : k \in DOMAIN s /\ s[k] = rows[k]
        /\ \A k \in DOMAIN s : k \in DOMAIN rows \/ k = n
        /\ s[n].after # 0
    BY <1>2, <1>3, <2>2
  <2> HIDE DEF s, n
  <2>4. ASSUME NEW k \in DOMAIN s, s[k].after = 0
        PROVE  \E m \in DOMAIN s : k < m /\ s[m].before = s[m].after
    <3>1. k \in DOMAIN rows /\ rows[k].after = 0
      BY <2>3, <2>4
    <3>2. PICK m \in DOMAIN rows : k < m /\ rows[m].before = rows[m].after
      BY <1>5, <3>1
    <3> QED
      BY <2>3, <3>2
  <2>5. Settled(s, ops[at'])
    BY <2>1, <2>4 DEF Settled
  <2> QED
    BY <2>5 DEF s
<1> QED
  BY <1>1, <1>6, <1>7 DEF TightInv

\* Deletions and their insertions have placeholders in one pane, and an
\* unchanged line or the end comes next.
LEMMA DeletesTight ==
    ASSUME TypeOK, TightInv, AlignDeletes
    PROVE  TightInv'
<1>1. PICK d, n \in 0 .. Len(ops) :
         /\ Consecutive(at, "delete", d)
         /\ Consecutive(at + d, "insert", n)
         /\ Emit(Pairs(d, n), d + n)
  BY DEF AlignDeletes
<1>2. /\ task = "aligning" /\ at <= Len(ops) /\ ops[at] = "delete"
      /\ rows' = rows \o Pairs(d, n) /\ ops' = ops /\ task' = "aligning"
      /\ at' = at + (d + n)
  BY <1>1 DEF AlignDeletes, Emit
<1>3. /\ at \in Nat /\ 1 <= at /\ rows \in Seq(Row) /\ ops \in Seq(Kind) /\ Len(ops) \in Nat
      /\ d \in Nat /\ n \in Nat
  BY Numbers DEF TypeOK
<1>4. /\ \A j \in at .. at + d - 1 : ops[j] = "delete"
      /\ \A j \in at + d .. at + d + n - 1 : ops[j] = "insert"
      /\ at + d <= Len(ops) => ops[at + d] # "delete"
      /\ at + d + n <= Len(ops) => ops[at + d + n] # "insert"
  BY <1>1 DEF Consecutive
<1> DEFINE b == Pairs(d, n)
           m == IF d > n THEN d ELSE n
<1>5. b \in Seq(Row)
  BY <1>3, <1>4, PairsLaid
<1>6. /\ DOMAIN b = 1 .. m
      /\ \A k \in 1 .. m : /\ b[k].before = IF k <= d THEN at + k - 1 ELSE 0
                           /\ b[k].after = IF k <= n THEN at + d + k - 1 ELSE 0
  BY DEF Pairs
<1> HIDE DEF b
<1> SUFFICES ASSUME DeletesFirst PROVE TightInv'
  BY <1>2 DEF TightInv, DeletesFirst
<1>7. Tight(rows) /\ Settled(rows, ops[at])
  BY <1>2 DEF TightInv
<1>8. \A k \in DOMAIN rows : rows[k].before = 0 \/ rows[k].after = 0 =>
         \E i \in DOMAIN rows : k < i /\ rows[i].before = rows[i].after
  BY <1>2, <1>7 DEF Settled
<1>9. Tight(rows \o b)
  <2>1. ASSUME NEW g \in DOMAIN b, NEW h \in DOMAIN b, b[g].before = 0, b[h].after = 0
        PROVE  FALSE
    <3>1. g \in 1 .. m /\ h \in 1 .. m /\ m \in Nat
      BY <1>3, <1>6
    <3>2. ~(g <= d) /\ ~(h <= n)
      BY <1>3, <1>6, <2>1, <3>1
    <3> QED
      BY <1>3, <3>1, <3>2
  <2> QED
    BY <1>3, <1>5, <1>7, <1>8, <2>1, TightOn
<1>10. ASSUME at' <= Len(ops) PROVE Settled(rows \o b, ops[at'])
  <2>1. at' = at + d + n
    BY <1>2, <1>3
  <2>2. ops[at'] # "insert"
    BY <1>4, <1>10, <2>1
  <2>3. ops[at'] # "delete"
    <3>1. CASE n = 0
      BY <1>3, <1>4, <1>10, <2>1, <3>1
    <3>2. CASE n # 0
      <4>1. PICK j \in 1 .. Len(ops) - 1 : j + 1 = at' /\ j \in at + d .. at + d + n - 1
        <5>1. /\ at + d + n - 1 \in 1 .. Len(ops) - 1
              /\ at + d + n - 1 + 1 = at'
              /\ at + d + n - 1 \in at + d .. at + d + n - 1
          BY <1>3, <1>10, <2>1, <3>2
        <5> QED
          BY <5>1
      <4> QED
        BY <1>4, <4>1 DEF DeletesFirst
    <3> QED
      BY <3>1, <3>2
  <2>4. ops[at'] = "equal"
    <3>1. at' \in 1 .. Len(ops)
      BY <1>3, <1>10, <2>1
    <3>2. ops[at'] \in Kind
      BY <1>3, <3>1
    <3> QED
      BY <2>2, <2>3, <3>2 DEF Kind
  <2> QED
    BY <2>4 DEF Settled
<1> QED
  BY <1>2, <1>9, <1>10 DEF TightInv, b

\* The other steps emit no rows, or drop them all.
LEMMA TightKeeps == TypeOK /\ TightInv /\ [Next]_vars => TightInv'
<1> SUFFICES ASSUME TypeOK, TightInv, [Next]_vars PROVE TightInv'
  OBVIOUS
<1>1. ASSUME ops' = ops, rows' = rows, task' # "aligning"
      PROVE  TightInv'
  BY <1>1 DEF TightInv, DeletesFirst, Tight
<1>2. ASSUME NEW c \in Context, Hunks(c) PROVE TightInv'
  BY <1>1, <1>2 DEF Hunks
<1>3. CASE SkipEqual
  BY <1>1, <1>3 DEF SkipEqual
<1>4. CASE JoinGroup
  BY <1>1, <1>4 DEF JoinGroup
<1>5. CASE OpenGroup
  BY <1>1, <1>5 DEF OpenGroup
<1>6. CASE ShowHunks
  BY <1>1, <1>6 DEF ShowHunks
<1>7. CASE AlignRows
  <2>1. DOMAIN rows' = {}
    BY <1>7 DEF AlignRows
  <2> QED
    BY <2>1 DEF TightInv, Tight, Settled
<1>8. CASE AlignEqual
  BY <1>8, EqualTight
<1>9. CASE AlignDeletes
  BY <1>9, DeletesTight
<1>10. CASE AlignInsert
  BY <1>10, InsertTight
<1>11. CASE RowsDone
  BY <1>1, <1>11 DEF RowsDone
<1>12. CASE UNCHANGED vars
  <2>1. ops' = ops /\ rows' = rows /\ task' = task /\ at' = at
    BY <1>12 DEF vars
  <2> QED
    BY <2>1 DEF TightInv, DeletesFirst, Tight, Settled
<1> QED
  BY <1>2, <1>3, <1>4, <1>5, <1>6, <1>7, <1>8, <1>9, <1>10, <1>11, <1>12 DEF Next

-----------------------------------------------------------------------------
(* Hunk headers.                                                           *)

\* A bounded set of natural numbers has a least member: of the intervals from
\* 0 to its members, which are finite, one contains no other.
LEMMA Least ==
    ASSUME NEW n \in Nat, NEW X, X \subseteq 0 .. n, X # {}
    PROVE  \E m \in X : \A k \in X : m <= k
<1> DEFINE U == 0 .. n
           T == {0 .. i : i \in X}
<1>1. IsFiniteSet(U)
  BY FS_Interval
<1>2. FiniteSubsetsOf(U) = SUBSET U
  BY <1>1, FS_FiniteSubsetsOfFinite
<1>3. IsWellFoundedOn(StrictSubsetOrdering(U), SUBSET U)
  BY <1>2, FS_StrictSubsetOrderingWellFounded
<1>4. T \subseteq SUBSET U /\ T # {}
  <2>1. ASSUME NEW i \in X PROVE 0 .. i \subseteq U
    OBVIOUS
  <2> QED
    BY <2>1
<1> HIDE DEF T
<1>5. PICK x \in T : \A y \in T : ~ (<<y, x>> \in StrictSubsetOrdering(U))
  BY <1>3, <1>4, WFMin
<1>6. PICK m \in X : x = 0 .. m
  BY <1>5 DEF T
<1>7. ASSUME NEW k \in X, k < m PROVE FALSE
  <2>1. 0 .. k \in T /\ 0 .. k \in SUBSET U /\ 0 .. m \in SUBSET U
    BY <1>4, <1>5, <1>6 DEF T
  <2>2. 0 .. k \subseteq 0 .. m /\ 0 .. k # 0 .. m
    <3>1. m \in Nat /\ k \in Nat
      OBVIOUS
    <3>2. m \in 0 .. m /\ m \notin 0 .. k
      BY <1>7, <3>1
    <3> QED
      BY <1>7, <3>1, <3>2
  <2>3. <<0 .. k, 0 .. m>> \in StrictSubsetOrdering(U)
    BY <2>1, <2>2 DEF StrictSubsetOrdering
  <2> QED
    BY <1>5, <1>6, <2>1, <2>3
<1> QED
  BY <1>7

\* What holds of 0 and passes from each number to the next holds up to n.
LEMMA Upward ==
    ASSUME NEW n \in Nat, NEW Y, 0 \in Y, \A i \in 0 .. n - 1 : i \in Y => i + 1 \in Y
    PROVE  0 .. n \subseteq Y
<1> SUFFICES ASSUME 0 .. n \ Y # {} PROVE FALSE
  OBVIOUS
<1>1. PICK m \in 0 .. n \ Y : \A k \in 0 .. n \ Y : m <= k
  BY Least
<1>2. m # 0 /\ m \in Nat /\ m <= n
  OBVIOUS
<1>3. m - 1 \in 0 .. n - 1 /\ m - 1 \in 0 .. n /\ m - 1 + 1 = m
  BY <1>2
<1>4. m - 1 \in Y
  BY <1>1, <1>2, <1>3
<1> QED
  BY <1>3, <1>4

\* Counting the lines of a side one operation further.
LEMMA LinesNext ==
    ASSUME NEW i \in Nat, i >= 1, NEW other
    PROVE  /\ Lines(1 .. i, other) \in Nat
           /\ Lines(1 .. i, other) = Lines(1 .. i - 1, other) + IF ops[i] = other THEN 0 ELSE 1
<1> DEFINE S == {j \in 1 .. i : ops[j] # other}
           T == {j \in 1 .. i - 1 : ops[j] # other}
<1>1. 1 .. i = (1 .. i - 1) \cup {i} /\ i \notin 1 .. i - 1
  OBVIOUS
<1>2. S = IF ops[i] = other THEN T ELSE T \cup {i}
  BY <1>1
<1>3. i \notin T
  OBVIOUS
<1>4. IsFiniteSet(T)
  <2>1. IsFiniteSet(1 .. i - 1)
    BY FS_Interval
  <2>2. T \in SUBSET (1 .. i - 1)
    OBVIOUS
  <2> HIDE DEF T
  <2> QED
    BY <2>1, <2>2, FS_Subset
<1> HIDE DEF S, T
<1>5. Cardinality(T) \in Nat /\ Cardinality(T \cup {i}) = Cardinality(T) + 1
  BY <1>3, <1>4, FS_CardinalityType, FS_AddElement
<1>6. Cardinality(S) \in Nat /\ Cardinality(S) = Cardinality(T) + IF ops[i] = other THEN 0 ELSE 1
  BY <1>2, <1>5
<1>7. Lines(1 .. i, other) = Cardinality(S) /\ Lines(1 .. i - 1, other) = Cardinality(T)
  BY Zenon DEF Lines, S, T
<1> QED
  BY <1>6, <1>7

\* Before the first operation there are none.
LEMMA LinesNone ==
    ASSUME NEW other
    PROVE  Lines(1 .. 0, other) = 0
<1>1. {j \in 1 .. 0 : ops[j] # other} = {}
  OBVIOUS
<1> QED
  BY <1>1, FS_EmptySet DEF Lines

\* The lines of a span are those up to its end without those before it.
LEMMA LinesOfSpan ==
    ASSUME NEW a \in Nat, NEW b \in Nat, a <= b, NEW other
    PROVE  /\ Lines(1 .. a, other) \in Nat /\ Lines(1 .. b, other) \in Nat
           /\ Lines(a + 1 .. b, other) \in Nat
           /\ Lines(1 .. b, other) - Lines(1 .. a, other) = Lines(a + 1 .. b, other)
           /\ Lines(a + 1 .. b, other) = 0 <=> \A i \in a + 1 .. b : ops[i] = other
<1> DEFINE S == {j \in 1 .. b : ops[j] # other}
           T == {j \in 1 .. a : ops[j] # other}
           U == {j \in a + 1 .. b : ops[j] # other}
<1>1. IsFiniteSet(S)
  <2>1. IsFiniteSet(1 .. b)
    BY FS_Interval
  <2>2. S \in SUBSET (1 .. b)
    OBVIOUS
  <2> HIDE DEF S
  <2> QED
    BY <2>1, <2>2, FS_Subset
<1>2. 1 .. b = (1 .. a) \cup (a + 1 .. b) /\ (1 .. a) \cap (a + 1 .. b) = {}
  OBVIOUS
<1>3. T \subseteq S /\ U = S \ T /\ S \cap T = T
  BY <1>2
<1>4. U = {} <=> \A i \in a + 1 .. b : ops[i] = other
  OBVIOUS
<1>5. /\ Lines(1 .. b, other) = Cardinality(S) /\ Lines(1 .. a, other) = Cardinality(T)
      /\ Lines(a + 1 .. b, other) = Cardinality(U)
  BY Zenon DEF Lines, S, T, U
<1> HIDE DEF S, T, U
<1>6. IsFiniteSet(T) /\ IsFiniteSet(U) /\ Cardinality(U) = Cardinality(S) - Cardinality(T)
  <2>1. T \in SUBSET S
    BY <1>3
  <2>2. IsFiniteSet(T)
    BY <1>1, <2>1, FS_Subset
  <2>3. IsFiniteSet(S \ T) /\ Cardinality(S \ T) = Cardinality(S) - Cardinality(S \cap T)
    BY <1>1, FS_Difference
  <2> QED
    BY <1>3, <2>2, <2>3
<1>7. Cardinality(S) \in Nat /\ Cardinality(T) \in Nat /\ Cardinality(U) \in Nat
  BY <1>1, <1>6, FS_CardinalityType
<1>8. Cardinality(U) = 0 <=> U = {}
  BY <1>6, FS_EmptySet
<1> QED
  BY <1>4, <1>5, <1>6, <1>7, <1>8

\* What the loop of PrefixSums computes.
AreSums(f, other) ==
    f = [i \in 0 .. Len(ops) |->
            IF i = 0 THEN 0 ELSE f[i - 1] + IF ops[i] = other THEN 0 ELSE 1]

\* The sums are the numbers of lines up to each operation.
LEMMA SumsCount ==
    ASSUME Len(ops) \in Nat, NEW other
    PROVE  \A i \in 0 .. Len(ops) : PrefixSums(other)[i] = Lines(1 .. i, other)
<1> DEFINE n == Len(ops)
           count == [i \in 0 .. n |-> Lines(1 .. i, other)]
           sums == CHOOSE f : AreSums(f, other)
<1>1. PrefixSums(other) = sums
  BY Zenon DEF PrefixSums, AreSums
<1>2. AreSums(count, other)
  <2>1. ASSUME NEW i \in 0 .. n
        PROVE  Lines(1 .. i, other) =
                  IF i = 0 THEN 0 ELSE count[i - 1] + IF ops[i] = other THEN 0 ELSE 1
    <3>1. CASE i = 0
      <4>1. Lines(1 .. 0, other) = 0
        BY LinesNone
      <4> QED
        BY <3>1, <4>1
    <3>2. CASE i # 0
      <4>1. i \in Nat /\ i >= 1 /\ i - 1 \in 0 .. n
        BY <3>2
      <4>2. count[i - 1] = Lines(1 .. i - 1, other)
        BY <4>1
      <4>3. Lines(1 .. i, other) = Lines(1 .. i - 1, other) + IF ops[i] = other THEN 0 ELSE 1
        BY <4>1, LinesNext
      <4> HIDE DEF count
      <4> QED
        BY <3>2, <4>2, <4>3
    <3> QED
      BY <3>1, <3>2
  <2> DEFINE next(i) == IF i = 0 THEN 0 ELSE count[i - 1] + IF ops[i] = other THEN 0 ELSE 1
  <2>2. \A i \in 0 .. n : Lines(1 .. i, other) = next(i)
    BY <2>1
  <2>3. count = [i \in 0 .. n |-> next(i)]
    <3> HIDE DEF next
    <3> QED
      BY <2>2
  <2> HIDE DEF count
  <2> QED
    BY <2>3 DEF AreSums
<1>3. AreSums(sums, other)
  BY <1>2
<1> HIDE DEF sums, count
<1> DEFINE Y == {i \in 0 .. n : sums[i] = Lines(1 .. i, other)}
<1>4. \A i \in 0 .. n :
         sums[i] = IF i = 0 THEN 0 ELSE sums[i - 1] + IF ops[i] = other THEN 0 ELSE 1
  BY <1>3 DEF AreSums
<1>5. 0 \in Y
  <2>1. 0 \in 0 .. n /\ sums[0] = 0
    BY <1>4
  <2>2. Lines(1 .. 0, other) = 0
    BY LinesNone
  <2> QED
    BY <2>1, <2>2
<1>6. ASSUME NEW i \in 0 .. n - 1, i \in Y PROVE i + 1 \in Y
  <2> DEFINE j == i + 1
  <2>1. j \in Nat /\ j >= 1 /\ j \in 0 .. n /\ j # 0 /\ j - 1 = i
    OBVIOUS
  <2>2. sums[j - 1] = Lines(1 .. j - 1, other)
    BY <1>6, <2>1
  <2> HIDE DEF j
  <2>3. sums[j] = sums[j - 1] + IF ops[j] = other THEN 0 ELSE 1
    BY <1>4, <2>1
  <2>4. Lines(1 .. j, other) = Lines(1 .. j - 1, other) + IF ops[j] = other THEN 0 ELSE 1
    BY <2>1, LinesNext
  <2>5. j \in Y
    BY <2>1, <2>2, <2>3, <2>4
  <2> QED
    BY <2>5 DEF j
<1>7. 0 .. n \subseteq Y
  <2> HIDE DEF Y
  <2> QED
    BY <1>5, <1>6, Upward
<1> QED
  BY <1>1, <1>7

\* A side of a header reads right where it has a line, or none before it.
LEMMA PrintedReads ==
    ASSUME Len(ops) \in Nat, NEW span, NEW other,
           span.start \in Nat, span.end \in Nat, span.start <= span.end, span.end <= Len(ops),
           span.start > 0 => \E i \in span.start + 1 .. span.end : ops[i] # other
    PROVE  Reads(Printed(PrefixSums(other)[span.start] + 1,
                         PrefixSums(other)[span.end] - PrefixSums(other)[span.start]),
                 span, other)
<1> DEFINE a == span.start
           b == span.end
           lines == Lines(a + 1 .. b, other)
           before == Lines(1 .. a, other)
           side == Printed(before + 1, lines)
<1>1. /\ a \in Nat /\ b \in Nat /\ a <= b
      /\ a \in 0 .. Len(ops) /\ b \in 0 .. Len(ops)
  OBVIOUS
<1>2. PrefixSums(other)[a] = Lines(1 .. a, other) /\ PrefixSums(other)[b] = Lines(1 .. b, other)
  BY <1>1, SumsCount
<1>3. /\ before \in Nat /\ lines \in Nat
      /\ Lines(1 .. b, other) - Lines(1 .. a, other) = lines
      /\ lines = 0 <=> \A i \in a + 1 .. b : ops[i] = other
  <2> HIDE DEF a, b
  <2>1. a \in Nat /\ b \in Nat /\ a <= b
    BY <1>1
  <2>2. /\ Lines(1 .. a, other) \in Nat
        /\ Lines(a + 1 .. b, other) \in Nat
        /\ Lines(1 .. b, other) - Lines(1 .. a, other) = Lines(a + 1 .. b, other)
    BY <2>1, LinesOfSpan, SMTT(30)
  <2>3. Lines(a + 1 .. b, other) = 0 <=> \A i \in a + 1 .. b : ops[i] = other
    BY <2>1, LinesOfSpan, ZenonT(30)
  <2> QED
    BY <2>2, <2>3
<1>4. lines = 0 => before = 0
  <2> SUFFICES ASSUME lines = 0 PROVE before = 0
    OBVIOUS
  <2>1. a = 0
    BY <1>1, <1>3
  <2> QED
    BY <2>1, LinesNone
<1>5. side = Printed(PrefixSums(other)[a] + 1, PrefixSums(other)[b] - PrefixSums(other)[a])
  BY <1>2, <1>3
<1> HIDE DEF a, b, lines, before
<1>6. /\ lines > 1 => side = <<before + 1, lines>>
      /\ lines = 0 => side = <<0, 0>>
      /\ lines = 1 => side = <<before + 1>>
  BY <1>3, <1>4 DEF Printed
<1> HIDE DEF side
<1>7. /\ (IF Len(side) = 2 THEN side[2] ELSE 1) = lines
      /\ side[1] = IF lines = 0 THEN before ELSE before + 1
  <2>1. CASE lines > 1
    <3>1. side = <<before + 1, lines>>
      BY <1>6, <2>1
    <3> QED
      BY <1>3, <2>1, <3>1
  <2>2. CASE lines = 0
    <3>1. side = <<0, 0>>
      BY <1>6, <2>2
    <3> QED
      BY <1>4, <2>2, <3>1
  <2>3. CASE lines = 1
    <3>1. side = <<before + 1>>
      BY <1>6, <2>3
    <3> QED
      BY <2>3, <3>1
  <2> QED
    BY <1>3, <2>1, <2>2, <2>3
<1>8. Reads(side, span, other)
  BY <1>7, Zenon DEF Reads, a, b, lines, before
<1> QED
  BY <1>5, <1>8 DEF a, b

\* The hunk of a group has a line on both sides, or begins the script.
LEMMA HeadRead ==
    ASSUME TypeOK, NEW g, g.start \in Int, g.end \in Int,
           0 <= g.start, g.start < g.end, g.end <= Len(ops), context > 0,
           g.start > 0 => ops[g.start] = "equal"
    PROVE  /\ Reads(Header(Shown(g)).from, Shown(g), "insert")
           /\ Reads(Header(Shown(g)).to, Shown(g), "delete")
<1> DEFINE span == Shown(g)
<1>1. Len(ops) \in Nat /\ context \in Nat
  BY Numbers
<1>2. /\ span.start = IF g.start - context < 0 THEN 0 ELSE g.start - context
      /\ span.end = IF g.end + context > Len(ops) THEN Len(ops) ELSE g.end + context
  BY DEF Shown
<1> HIDE DEF span
<1>3. /\ span.start \in Nat /\ span.end \in Nat
      /\ span.start <= span.end /\ span.end <= Len(ops)
  BY <1>1, <1>2
<1>4. span.start > 0 => g.start \in span.start + 1 .. span.end /\ ops[g.start] = "equal"
  BY <1>1, <1>2
<1>5. ASSUME NEW other \in {"insert", "delete"}
      PROVE  Reads(Printed(PrefixSums(other)[span.start] + 1,
                           PrefixSums(other)[span.end] - PrefixSums(other)[span.start]),
                   span, other)
  <2>1. span.start > 0 => \E i \in span.start + 1 .. span.end : ops[i] # other
    BY <1>4
  <2> QED
    BY <1>1, <1>3, <2>1, PrintedReads
<1>6. /\ Header(span).from =
            Printed(PrefixSums("insert")[span.start] + 1,
                    PrefixSums("insert")[span.end] - PrefixSums("insert")[span.start])
      /\ Header(span).to =
            Printed(PrefixSums("delete")[span.start] + 1,
                    PrefixSums("delete")[span.end] - PrefixSums("delete")[span.start])
  BY DEF Header
<1> QED
  BY <1>5, <1>6 DEF span

\* Hunks heads what it returns so that both sides can be found.
LEMMA ShowHeads ==
    ASSUME IInv, HeadInv, ShowHunks
    PROVE  HeadInv'
<1>1. /\ task = "grouping" /\ task' = "hunks" /\ at > Len(ops)
      /\ spans' = [k \in DOMAIN groups |-> Shown(groups[k])]
      /\ headers' = [k \in DOMAIN groups |-> Header(Shown(groups[k]))]
      /\ ops' = ops /\ context' = context /\ groups' = groups
  BY DEF ShowHunks
<1>2. TypeOK /\ Grouped
  BY <1>1 DEF IInv
<1>3. ASSUME NEW k \in DOMAIN groups, context > 0
      PROVE  /\ Reads(headers'[k].from, spans'[k], "insert")
             /\ Reads(headers'[k].to, spans'[k], "delete")
  <2> DEFINE g == groups[k]
  <2>1. g.start \in Int /\ g.end \in Int /\ g.end < at /\ 0 <= g.start /\ g.start < g.end
    BY <1>2, Numbers DEF Grouped
  <2>2. g.end <= Len(ops)
    BY <1>1, <1>2, <2>1, Numbers
  <2>3. g.start > 0 => ops[g.start] = "equal"
    BY <1>1 DEF HeadInv
  <2>4. headers'[k] = Header(Shown(g)) /\ spans'[k] = Shown(g)
    BY <1>1
  <2> HIDE DEF g
  <2> QED
    BY <1>2, <1>3, <2>1, <2>2, <2>3, <2>4, HeadRead
<1>4. \A side, span, other : Reads(side, span, other)' <=> Reads(side, span, other)
  BY <1>1 DEF Reads, Lines
<1>5. HeadersRead'
  BY <1>1, <1>3, <1>4 DEF HeadersRead
<1> QED
  BY <1>1, <1>5 DEF HeadInv

\* A group opens after a line that no group has, or at the start.
LEMMA OpenHeads ==
    ASSUME IInv, HeadInv, OpenGroup
    PROVE  HeadInv'
<1> DEFINE n == Len(groups)
           g == [start |-> at - 1, end |-> at]
<1>1. /\ task = "grouping" /\ task' = "grouping" /\ at <= Len(ops)
      /\ groups # <<>> => at - 1 >= LastGroup.end + Threshold
      /\ groups' = Append(groups, g) /\ ops' = ops
  BY DEF OpenGroup
<1>2. TypeOK /\ Grouped
  BY <1>1 DEF IInv
<1>3. /\ n \in Nat /\ DOMAIN groups = 1 .. n /\ groups \in Seq(Span)
      /\ n > 0 => groups # <<>> /\ LastGroup = groups[n]
      /\ at \in Nat /\ 1 <= at /\ context \in Nat /\ Len(ops) \in Nat
      /\ DOMAIN ops = 1 .. Len(ops) /\ ops \in Seq(Kind)
      /\ \A k \in 1 .. n : groups[k].start \in Int /\ groups[k].end \in Int
  BY <1>2, Numbers DEF LastGroup
<1>4. Threshold \in Nat /\ Threshold >= 1
  BY <1>3 DEF Threshold
<1>5. ASSUME at - 1 > 0 PROVE ops[at - 1] = "equal"
  <2> SUFFICES ASSUME ops[at - 1] # "equal" PROVE FALSE
    OBVIOUS
  <2> DEFINE j == at - 1
  <2>1. j \in 1 .. at - 1 /\ ops[j] # "equal"
    BY <1>3, <1>5
  <2>2. PICK k \in DOMAIN groups : groups[k].start < j /\ j <= groups[k].end
    BY <1>2, <2>1 DEF Grouped
  <2>3. groups[k].end < at /\ groups[k].end \in Int
    BY <1>2, <1>3 DEF Grouped
  <2>4. groups[k].end = at - 1
    BY <1>3, <2>2, <2>3
  <2>5. CASE k = n
    BY <1>1, <1>3, <1>4, <2>4, <2>5
  <2>6. CASE k # n
    <3>1. k \in 1 .. n - 1 /\ k + 1 \in 1 .. n
      BY <1>3, <2>6
    <3>2. groups[k].end + Threshold <= groups[k + 1].start
      BY <1>2, <3>1 DEF Grouped
    <3>3. /\ groups[k + 1].start < groups[k + 1].end /\ groups[k + 1].end < at
          /\ groups[k + 1].start \in Int /\ groups[k + 1].end \in Int
      BY <1>2, <1>3, <3>1 DEF Grouped
    <3> QED
      BY <1>3, <1>4, <2>4, <3>2, <3>3
  <2> QED
    BY <2>5, <2>6
<1>6. g \in Span /\ g.start = at - 1
  BY <1>3 DEF Span
<1> HIDE DEF g, n
<1>7. /\ DOMAIN groups' = 1 .. n + 1
      /\ \A k \in 1 .. n : groups'[k] = groups[k]
      /\ groups'[n + 1] = g
  BY <1>1, <1>3, <1>6, AppendProperties DEF n
<1>8. ASSUME NEW k \in DOMAIN groups', groups'[k].start > 0
      PROVE  ops[groups'[k].start] = "equal"
  <2>1. CASE k \in 1 .. n
    BY <1>1, <1>3, <1>7, <1>8, <2>1 DEF HeadInv
  <2>2. CASE k = n + 1
    BY <1>5, <1>6, <1>7, <1>8, <2>2
  <2> QED
    BY <1>3, <1>7, <2>1, <2>2
<1> QED
  BY <1>1, <1>8 DEF HeadInv, HeadersRead

\* A group that is joined begins where it did.
LEMMA JoinHeads ==
    ASSUME IInv, HeadInv, JoinGroup
    PROVE  HeadInv'
<1> DEFINE n == Len(groups)
           g == [start |-> LastGroup.start, end |-> at]
<1>1. /\ task = "grouping" /\ task' = "grouping" /\ groups # <<>>
      /\ groups' = [groups EXCEPT ![n] = g] /\ ops' = ops
  BY DEF JoinGroup
<1>2. TypeOK /\ groups \in Seq(Span) /\ n \in Nat /\ DOMAIN groups = 1 .. n
  BY <1>1, Numbers DEF IInv
<1>3. n \in DOMAIN groups /\ LastGroup = groups[n]
  BY <1>1, <1>2 DEF LastGroup
<1>4. g.start = groups[n].start
  BY <1>3
<1> HIDE DEF g, n
<1>5. /\ DOMAIN groups' = DOMAIN groups
      /\ \A k \in DOMAIN groups : groups'[k] = IF k = n THEN g ELSE groups[k]
  BY <1>1, <1>2
<1>6. \A k \in DOMAIN groups : groups'[k].start = groups[k].start
  BY <1>4, <1>5
<1> QED
  BY <1>1, <1>5, <1>6 DEF HeadInv, HeadersRead

\* The other steps leave the groups and the headers, or the groups go.
LEMMA HeadKeeps == IInv /\ HeadInv /\ [Next]_vars => HeadInv'
<1> SUFFICES ASSUME IInv, HeadInv, [Next]_vars PROVE HeadInv'
  OBVIOUS
<1>1. ASSUME task' \notin {"hunks", "grouping"} PROVE HeadInv'
  BY <1>1 DEF HeadInv, HeadersRead
<1>2. ASSUME NEW c \in Context, Hunks(c) PROVE HeadInv'
  <2>1. task' = "grouping" /\ DOMAIN groups' = {}
    BY <1>2 DEF Hunks
  <2> QED
    BY <2>1 DEF HeadInv, HeadersRead
<1>3. CASE SkipEqual
  <2>1. task' = "grouping" /\ task = "grouping" /\ groups' = groups /\ ops' = ops
    BY <1>3 DEF SkipEqual
  <2> QED
    BY <2>1 DEF HeadInv, HeadersRead
<1>4. CASE JoinGroup
  BY <1>4, JoinHeads
<1>5. CASE OpenGroup
  BY <1>5, OpenHeads
<1>6. CASE ShowHunks
  BY <1>6, ShowHeads
<1>7. CASE AlignRows
  BY <1>1, <1>7 DEF AlignRows
<1>8. CASE AlignEqual
  BY <1>1, <1>8 DEF AlignEqual, Emit
<1>9. CASE AlignDeletes
  BY <1>1, <1>9 DEF AlignDeletes, Emit
<1>10. CASE AlignInsert
  BY <1>1, <1>10 DEF AlignInsert, Emit
<1>11. CASE RowsDone
  BY <1>1, <1>11 DEF RowsDone
<1>12. CASE UNCHANGED vars
  <2>1. /\ ops' = ops /\ task' = task /\ groups' = groups /\ context' = context
        /\ spans' = spans /\ headers' = headers
    BY <1>12 DEF vars
  <2>2. \A side, span, other : Reads(side, span, other)' <=> Reads(side, span, other)
    BY <2>1 DEF Reads, Lines
  <2> QED
    BY <2>1, <2>2 DEF HeadInv, HeadersRead
<1> QED
  BY <1>2, <1>3, <1>4, <1>5, <1>6, <1>7, <1>8, <1>9, <1>10, <1>11, <1>12 DEF Next

-----------------------------------------------------------------------------
(* The specification.                                                      *)

\* A new result has neither hunks nor rows.
LEMMA InitEstablishes == Init => IInv
<1> SUFFICES ASSUME Init PROVE IInv
  OBVIOUS
<1>1. /\ ops \in Seq(Kind) /\ task = "none" /\ at = 1 /\ context = 0
      /\ groups = <<>> /\ spans = <<>> /\ headers = <<>> /\ rows = <<>>
  BY DiffAssumption DEF Init
<1>2. TypeOK
  BY <1>1 DEF TypeOK, Task
<1> QED
  BY <1>1, <1>2 DEF IInv, SpansExact

\* Nothing changes when nothing is called.
LEMMA StutterKeeps ==
    ASSUME IInv, UNCHANGED vars
    PROVE  IInv'
<1>1. /\ ops' = ops /\ task' = task /\ at' = at /\ context' = context
      /\ groups' = groups /\ spans' = spans /\ headers' = headers /\ rows' = rows
  BY DEF vars
<1>2. /\ TypeOK' <=> TypeOK
      /\ SpansExact' <=> SpansExact
      /\ Grouped' <=> Grouped
  BY <1>1 DEF TypeOK, SpansExact, Grouped, Near, Threshold
<1>3. /\ Laid(rows, 1, at - 1)' <=> Laid(rows, 1, at - 1)
      /\ Laid(rows, 1, Len(ops))' <=> Laid(rows, 1, Len(ops))
  BY <1>1 DEF Laid
<1> QED
  BY <1>1, <1>2, <1>3 DEF IInv

\* Each step of the specification keeps the inductive invariant.
LEMMA StepKeeps == IInv /\ [Next]_vars => IInv'
<1> SUFFICES ASSUME IInv, [Next]_vars PROVE IInv'
  OBVIOUS
<1>1. ASSUME NEW c \in Context, Hunks(c) PROVE IInv'
  BY <1>1, HunksKeeps
<1>2. CASE SkipEqual
  BY <1>2, SkipKeeps
<1>3. CASE JoinGroup
  BY <1>3, JoinKeeps
<1>4. CASE OpenGroup
  BY <1>4, OpenKeeps
<1>5. CASE ShowHunks
  BY <1>5, ShowKeeps
<1>6. CASE AlignRows
  BY <1>6, AlignRowsKeeps
<1>7. CASE AlignEqual
  BY <1>7, AlignEqualKeeps
<1>8. CASE AlignDeletes
  BY <1>8, AlignDeletesKeeps
<1>9. CASE AlignInsert
  BY <1>9, AlignInsertKeeps
<1>10. CASE RowsDone
  BY <1>10, RowsDoneKeeps
<1>11. CASE UNCHANGED vars
  BY <1>11, StutterKeeps
<1> QED
  BY <1>1, <1>2, <1>3, <1>4, <1>5, <1>6, <1>7, <1>8, <1>9, <1>10, <1>11 DEF Next

\* The inductive invariant holds throughout.
LEMMA Invariance == Spec => []IInv
<1>1. Init => IInv
  BY InitEstablishes
<1>2. IInv /\ [Next]_vars => IInv'
  BY StepKeeps
<1> QED
  BY <1>1, <1>2, PTL DEF Spec

\* The loops stay inside the script: no span leaves it, and no index does.
THEOREM ResultTyped == Spec => []TypeOK
<1>1. IInv => TypeOK
  BY DEF IInv
<1> QED
  BY <1>1, Invariance, PTL

\* Hunks shows exactly the lines within context of a change, and never splits
\* what one hunk could show.
THEOREM HunksRight == Spec => []SpansExact
<1>1. IInv => SpansExact
  BY DEF IInv
<1> QED
  BY <1>1, Invariance, PTL

\* Before and After show every line on its side once, in order, and unchanged
\* lines side by side.
THEOREM PanesRight == Spec => []PanesFaithful
<1>1. IInv => PanesFaithful
  <2> SUFFICES ASSUME IInv, task = "rows" PROVE PanesFaithful
    BY DEF PanesFaithful
  <2>1. TypeOK /\ Laid(rows, 1, Len(ops))
    BY DEF IInv
  <2>2. ops \in Seq(Kind) /\ Len(ops) \in Nat /\ DOMAIN ops = 1 .. Len(ops)
    BY <2>1, Numbers
  <2>3. \A k \in DOMAIN rows : rows[k] \in Row
    BY <2>1 DEF TypeOK
  <2>4. ASSUME NEW i \in DOMAIN ops
        PROVE  /\ ops[i] # "insert" <=> \E k \in DOMAIN rows : rows[k].before = i
               /\ ops[i] # "delete" <=> \E k \in DOMAIN rows : rows[k].after = i
    <3>1. i \in 1 .. Len(ops) /\ i # 0
      BY <2>2
    <3> QED
      BY <2>1, <3>1 DEF Laid
  <2>5. ASSUME NEW i \in DOMAIN ops
        PROVE  ops[i] = "equal" <=> \E k \in DOMAIN rows : rows[k] = [before |-> i, after |-> i]
    <3>1. i \in 1 .. Len(ops) /\ i # 0 /\ ops[i] \in Kind
      BY <2>2
    <3>2. ASSUME ops[i] = "equal"
          PROVE  \E k \in DOMAIN rows : rows[k] = [before |-> i, after |-> i]
      <4>1. PICK k \in DOMAIN rows : rows[k].before = i /\ rows[k].after = i
        BY <2>1, <3>1, <3>2 DEF Laid
      <4> QED
        BY <2>3, <4>1 DEF Row
    <3>3. ASSUME NEW k \in DOMAIN rows, rows[k] = [before |-> i, after |-> i]
          PROVE  ops[i] = "equal"
      <4>1. rows[k].before = i /\ rows[k].after = i
        BY <3>3
      <4>2. ops[i] # "insert" /\ ops[i] # "delete"
        BY <2>4, <4>1
      <4> QED
        BY <3>1, <4>2 DEF Kind
    <3> QED
      BY <3>2, <3>3
  <2>6. ASSUME NEW k \in DOMAIN rows, NEW l \in DOMAIN rows, k < l
        PROVE  /\ rows[k].before # 0 /\ rows[l].before # 0 => rows[k].before < rows[l].before
               /\ rows[k].after # 0 /\ rows[l].after # 0 => rows[k].after < rows[l].after
    BY <2>1, <2>6 DEF Laid
  <2> QED
    BY <2>4, <2>5, <2>6 DEF PanesFaithful
<1> QED
  BY <1>1, Invariance, PTL

\* With deletions first, as the default algorithm has them, no placeholder
\* stands opposite one of the other pane without an unchanged line between.
THEOREM PanesAreTight == Spec => []PanesTight
<1>1. Init => TightInv
  BY DEF Init, TightInv, Tight
<1>2. IInv => TypeOK
  BY DEF IInv
<1>3. TypeOK /\ TightInv /\ [Next]_vars => TightInv'
  BY TightKeeps
<1>4. TightInv => PanesTight
  BY DEF TightInv, PanesTight
<1> QED
  BY <1>1, <1>2, <1>3, <1>4, Invariance, PTL DEF Spec

\* With any context at all, both sides of every header say where the lines of
\* its hunk begin and how many they are.
THEOREM HeadersReadRight == Spec => []HeadersRead
<1>1. Init => HeadInv
  BY DEF Init, HeadInv, HeadersRead
<1>2. IInv /\ HeadInv /\ [Next]_vars => HeadInv'
  BY HeadKeeps
<1>3. HeadInv => HeadersRead
  BY DEF HeadInv
<1> QED
  BY <1>1, <1>2, <1>3, Invariance, PTL DEF Spec
=============================================================================
