----------------------------- MODULE ViewportProofs -----------------------------
(***************************************************************************)
(* Whatever the documents, the terms, the sizes and the length of the      *)
(* history: what a viewport shows, matches and highlights is that of its   *)
(* revision, modes and term, after any sequence of calls.                  *)
(*                                                                         *)
(* The invariant says that all derived state is what rerender would make   *)
(* of the rest.  An operation keeps it because rerender, done again, makes *)
(* the same; each property is then one of what rerender makes.             *)
(***************************************************************************)
EXTENDS Viewport, FiniteSetTheorems, TLAPS

\* A search whose matches can be counted.
IsSearch(s) == s \in [matches : SUBSET Match, index : Int] /\ IsFiniteSet(s.matches)

\* The matches before one.
Ahead(s, m) == {n \in s.matches : Precedes(n, m)}

-----------------------------------------------------------------------------
(* The current match.                                                      *)

\* A match has fewer matches before it than one that comes later.
LEMMA AheadGrows ==
    ASSUME NEW s, IsSearch(s), NEW m \in s.matches, NEW n \in s.matches, Precedes(m, n)
    PROVE  Cardinality(Ahead(s, m)) < Cardinality(Ahead(s, n))
<1>1. s.matches \subseteq Match /\ IsFiniteSet(s.matches)
  BY DEF IsSearch
<1>2. \A k \in s.matches : k.row \in Nat /\ k.inLeft \in BOOLEAN
  BY <1>1 DEF Match
<1>3. Ahead(s, m) \subseteq Ahead(s, n)
  BY <1>2 DEF Ahead, Precedes
<1>4. m \in Ahead(s, n) /\ m \notin Ahead(s, m)
  BY <1>2 DEF Ahead, Precedes
<1>5. IsFiniteSet(Ahead(s, n))
  BY <1>1, FS_Subset DEF Ahead
<1>6. /\ IsFiniteSet(Ahead(s, m))
      /\ Cardinality(Ahead(s, m)) <= Cardinality(Ahead(s, n))
      /\ Cardinality(Ahead(s, m)) # Cardinality(Ahead(s, n))
  BY <1>3, <1>4, <1>5, FS_Subset
<1>7. Cardinality(Ahead(s, m)) \in Nat /\ Cardinality(Ahead(s, n)) \in Nat
  BY <1>5, <1>6, FS_CardinalityType
<1> QED
  BY <1>6, <1>7

\* So no two have equally many.
LEMMA AheadDiffers ==
    ASSUME NEW s, IsSearch(s), NEW m \in s.matches, NEW n \in s.matches,
           Cardinality(Ahead(s, m)) = Cardinality(Ahead(s, n))
    PROVE  m = n
<1>1. m \in Match /\ n \in Match
  BY DEF IsSearch
<1>2. /\ m = [row |-> m.row, inLeft |-> m.inLeft] /\ n = [row |-> n.row, inLeft |-> n.inLeft]
      /\ m.row \in Nat /\ n.row \in Nat /\ m.inLeft \in BOOLEAN /\ n.inLeft \in BOOLEAN
  BY <1>1 DEF Match
<1>3. m.row = n.row /\ m.inLeft = n.inLeft => m = n
  BY <1>2
<1>4. Precedes(m, n) \/ Precedes(n, m) \/ m = n
  BY <1>2, <1>3 DEF Precedes
<1>5. /\ IsFiniteSet(Ahead(s, m)) /\ Cardinality(Ahead(s, m)) \in Nat
  BY FS_Subset, FS_CardinalityType DEF IsSearch, Ahead
<1> QED
  BY <1>4, <1>5, AheadGrows

\* The current match is a match.
LEMMA CurrentTyped ==
    ASSUME NEW s, IsSearch(s), NEW m \in Current(s)
    PROVE  m \in s.matches /\ m \in Match /\ m.row \in Nat /\ m.row > 0 /\ m.inLeft \in BOOLEAN
<1>1. m \in s.matches /\ m \in Match
  BY DEF Current, IsSearch
<1> QED
  BY <1>1 DEF Match

\* At most one match is the current one.
LEMMA CurrentUnique ==
    ASSUME NEW s, IsSearch(s), NEW m \in Current(s), NEW n \in Current(s)
    PROVE  m = n
<1>1. /\ m \in s.matches /\ Cardinality(Ahead(s, m)) = s.index
      /\ n \in s.matches /\ Cardinality(Ahead(s, n)) = s.index
  BY DEF Current, Ahead
<1> QED
  BY <1>1, AheadDiffers

\* There is one for each index there can be: as many counts as matches, and no
\* two matches share one.
LEMMA CurrentExists ==
    ASSUME NEW s, IsSearch(s), s.index \in 0 .. Cardinality(s.matches) - 1
    PROVE  Current(s) # {}
<1> DEFINE n == Cardinality(s.matches)
           rest == (0 .. n - 1) \ {s.index}
           f == [m \in s.matches |-> Cardinality(Ahead(s, m))]
<1>1. IsFiniteSet(s.matches) /\ n \in Nat /\ s.matches \subseteq Match
  BY FS_CardinalityType DEF IsSearch
<1>2. ASSUME NEW m \in s.matches PROVE f[m] \in 0 .. n - 1
  <2>1. m.row \in Nat /\ m.inLeft \in BOOLEAN
    BY <1>1 DEF Match
  <2>2. Ahead(s, m) \subseteq s.matches /\ m \notin Ahead(s, m)
    BY <2>1 DEF Ahead, Precedes
  <2>3. /\ IsFiniteSet(Ahead(s, m)) /\ Cardinality(Ahead(s, m)) <= n
        /\ Cardinality(Ahead(s, m)) # n
    BY <1>1, <2>2, FS_Subset
  <2>4. Cardinality(Ahead(s, m)) \in Nat
    BY <2>3, FS_CardinalityType
  <2> QED
    BY <1>1, <2>3, <2>4
<1>3. SUFFICES ASSUME Current(s) = {} PROVE FALSE
  OBVIOUS
<1>4. \A m \in s.matches : f[m] # s.index
  BY <1>3 DEF Current, Ahead
<1>5. f \in [s.matches -> rest]
  BY <1>2, <1>4
<1>6. IsFiniteSet(0 .. n - 1) /\ Cardinality(0 .. n - 1) = n
  BY <1>1, FS_Interval
<1>7. IsFiniteSet(rest) /\ Cardinality(rest) = n - 1
  BY <1>6, FS_RemoveElement
<1>8. Cardinality(rest) < Cardinality(s.matches)
  BY <1>1, <1>7
<1> HIDE DEF f, rest
<1>9. \E x, y \in s.matches : x # y /\ f[x] = f[y]
  BY <1>1, <1>5, <1>7, <1>8, FS_PigeonHole
<1> QED
  BY <1>9, AheadDiffers DEF f

-----------------------------------------------------------------------------
(* Documents and their diffs.                                              *)

\* An operation that counts is counted.
LEMMA CountsItself ==
    ASSUME NEW kind, NEW ops, NEW n \in Nat, NEW k \in 1 .. n, ops[k].kind # kind
    PROVE  CountBut(kind, ops, k) \in 1 .. CountBut(kind, ops, n)
<1> DEFINE upto(j) == {i \in 1 .. j : ops[i].kind # kind}
<1>1. IsFiniteSet(1 .. n) /\ upto(n) \subseteq 1 .. n
  BY FS_Interval
<1>2. IsFiniteSet(upto(n))
  BY <1>1, FS_Subset
<1>3. upto(k) \subseteq upto(n) /\ k \in upto(k)
  OBVIOUS
<1>4. IsFiniteSet(upto(k)) /\ Cardinality(upto(k)) <= Cardinality(upto(n))
  BY <1>2, <1>3, FS_Subset
<1>5. Cardinality(upto(k)) \in Nat /\ Cardinality(upto(n)) \in Nat
  BY <1>2, <1>4, FS_CardinalityType
<1>6. Cardinality(upto(k)) # 0
  BY <1>3, <1>4, FS_EmptySet
<1> HIDE DEF upto
<1>7. Cardinality(upto(k)) \in 1 .. Cardinality(upto(n))
  BY <1>4, <1>5, <1>6
<1> QED
  BY <1>7 DEF CountBut, upto

\* The operations of a diff have the numbers of lines there are.
LEMMA ScriptTyped ==
    ASSUME NEW a \in Sources, NEW b \in Sources
    PROVE  /\ Script[<<a, b>>] \in Seq([kind : Kind, index : Nat])
           /\ Len(Script[<<a, b>>]) \in Nat
           /\ DOMAIN Script[<<a, b>>] = 1 .. Len(Script[<<a, b>>])
           /\ \A k \in DOMAIN Script[<<a, b>>] :
                 /\ Script[<<a, b>>][k].kind \in Kind
                 /\ Script[<<a, b>>][k].index \in
                       IF Script[<<a, b>>][k].kind = "delete" THEN DOMAIN a ELSE DOMAIN b
<1> DEFINE ops == Script[<<a, b>>]
<1>1. IsScript(ops, a, b)
  BY ScriptAssumption
<1> HIDE DEF ops
<1>2. a \in Seq(Texts) /\ b \in Seq(Texts)
  BY ViewportAssumption
<1>3. /\ ops \in Seq([kind : Kind, index : Nat])
      /\ Len(ops) \in Nat /\ DOMAIN ops = 1 .. Len(ops)
      /\ DOMAIN a = 1 .. Len(a) /\ DOMAIN b = 1 .. Len(b)
  BY <1>1, <1>2 DEF IsScript
<1>4. ASSUME NEW k \in DOMAIN ops
      PROVE  /\ ops[k].kind \in Kind
             /\ ops[k].index \in IF ops[k].kind = "delete" THEN DOMAIN a ELSE DOMAIN b
  <2> DEFINE op == [kind : Kind, index : Nat]
  <2>1. ops \in Seq(op) /\ k \in 1 .. Len(ops)
    BY <1>3
  <2> HIDE DEF op
  <2>2. ops[k] \in op
    BY <2>1
  <2>3. ops[k].kind \in Kind /\ ops[k].index \in Nat
    BY <2>2 DEF op
  <2>4. CASE ops[k].kind = "delete"
    <3>1. CountBut("insert", ops, k) \in 1 .. CountBut("insert", ops, Len(ops))
      BY <1>3, <2>1, <2>4, CountsItself
    <3> QED
      BY <1>1, <1>3, <2>1, <2>3, <2>4, <3>1 DEF IsScript
  <2>5. CASE ops[k].kind # "delete"
    <3>1. CountBut("delete", ops, k) \in 1 .. CountBut("delete", ops, Len(ops))
      BY <1>3, <2>1, <2>5, CountsItself
    <3> QED
      BY <1>1, <1>3, <2>1, <2>3, <2>5, <3>1 DEF IsScript
  <2> QED
    BY <2>4, <2>5
<1> QED
  BY <1>3, <1>4 DEF ops

\* What the calls ask for, and the overlays of its revisions.
IsView(c) == c \in Choice /\ c.cur \in IF c.revs = <<>> THEN {0} ELSE DOMAIN c.revs
IsPaint(c, p) ==
    /\ DOMAIN p = DOMAIN c.revs /\ p = [i \in DOMAIN p |-> p[i]]
    /\ \A i \in DOMAIN p : p[i] \in [DOMAIN c.revs[i] -> Mark]

\* A revision pointed to is a document.
LEMMA RevisionShown ==
    ASSUME NEW c, IsView(c), c.cur # 0
    PROVE  /\ c.cur \in DOMAIN c.revs /\ c.cur \in Nat /\ c.cur > 0
           /\ c.revs[c.cur] \in Sources /\ c.revs[c.cur] \in Seq(Texts)
           /\ c.revs[c.cur] # <<>>
           /\ Len(c.revs[c.cur]) \in Nat
           /\ DOMAIN c.revs[c.cur] = 1 .. Len(c.revs[c.cur])
<1>1. c.revs \in Seq(Sources) /\ c.cur \in DOMAIN c.revs
  BY DEF IsView, Choice
<1>2. c.revs[c.cur] \in Sources /\ c.cur \in 1 .. Len(c.revs) /\ Len(c.revs) \in Nat
  BY <1>1
<1> QED
  BY <1>1, <1>2, ViewportAssumption

\* The revision a diff starts from is there, and an earlier one.
LEMMA BaseShown ==
    ASSUME NEW c, IsView(c), NeedsDiff(c)
    PROVE  /\ c.cur # 0
           /\ Base(c) \in DOMAIN c.revs /\ Base(c) \in Nat /\ Base(c) # c.cur
           /\ c.revs[Base(c)] \in Sources /\ c.revs[Base(c)] \in Seq(Texts)
<1>1. c.revs \in Seq(Sources) /\ c.cur > 1 /\ c.cur \in DOMAIN c.revs
  BY DEF IsView, Choice, NeedsDiff
<1>2. Len(c.revs) \in Nat /\ DOMAIN c.revs = 1 .. Len(c.revs)
  BY <1>1
<1>3. Base(c) \in 1 .. Len(c.revs) /\ Base(c) # c.cur
  BY <1>1, <1>2 DEF Base
<1>4. c.revs[Base(c)] \in Sources
  BY <1>1, <1>2, <1>3
<1> QED
  BY <1>1, <1>2, <1>3, <1>4, ViewportAssumption

Line == [text : Texts \cup {Blank}, flag : {"default", "deleted", "inserted"}]

\* What is asked of the diff of two revisions of a view.
IsDiff(c, d) == c.revs[d.base] \in Sources /\ c.revs[d.after] \in Sources

\* An operation shows a line of its document, with the flag of its kind.
LEMMA OpLineTyped ==
    ASSUME NEW c, NEW d, IsDiff(c, d), NEW k \in DOMAIN Ops(c, d)
    PROVE  /\ OpLine(c, d, Ops(c, d)[k]) \in Line
           /\ OpLine(c, d, Ops(c, d)[k]).text \in Texts
           /\ OpLine(c, d, Ops(c, d)[k]).flag = FlagOf[Ops(c, d)[k].kind]
           /\ Ops(c, d)[k].kind \in Kind
<1> DEFINE a == c.revs[d.base]  b == c.revs[d.after]  op == Ops(c, d)[k]
<1>1. a \in Sources /\ b \in Sources /\ a \in Seq(Texts) /\ b \in Seq(Texts)
  BY ViewportAssumption DEF IsDiff
<1>2. op.kind \in Kind /\ op.index \in IF op.kind = "delete" THEN DOMAIN a ELSE DOMAIN b
  BY <1>1, ScriptTyped DEF Ops
<1>3. \A i \in DOMAIN a : a[i] \in Texts
  BY <1>1
<1>4. \A i \in DOMAIN b : b[i] \in Texts
  BY <1>1
<1> DEFINE t == (IF op.kind = "delete" THEN a ELSE b)[op.index]
<1>5. t \in Texts
  BY <1>2, <1>3, <1>4
<1>6. FlagOf[op.kind] \in {"default", "deleted", "inserted"}
  BY <1>2 DEF FlagOf, Kind
<1>7. OpLine(c, d, op) = [text |-> t, flag |-> FlagOf[op.kind]]
  BY DEF OpLine
<1> HIDE DEF t, op
<1>8. OpLine(c, d, op) \in Line /\ OpLine(c, d, op).text = t /\ OpLine(c, d, op).flag = FlagOf[op.kind]
  BY <1>5, <1>6, <1>7 DEF Line
<1> QED
  BY <1>2, <1>5, <1>8 DEF op

-----------------------------------------------------------------------------
(* Panes.                                                                  *)

\* The lines of a pane are numbered from 1.
IsPane(q) ==
    /\ q = Pane(q.rev, q.lines, q.marks)
    /\ q.lines \in Seq(Line)
    /\ DOMAIN q.lines = 1 .. Len(q.lines) /\ Len(q.lines) \in Nat

\* A unified diff has a line for each operation.
LEMMA UnifiedTyped ==
    ASSUME NEW c, NEW d, IsDiff(c, d)
    PROVE  /\ IsPane(Unified(c, d)) /\ Unified(c, d).rev = 0
           /\ Len(Unified(c, d).lines) = Len(Ops(c, d))
           /\ DOMAIN Unified(c, d).lines = DOMAIN Ops(c, d)
           /\ \A k \in DOMAIN Ops(c, d) :
                 Unified(c, d).lines[k] = OpLine(c, d, Ops(c, d)[k])
<1> DEFINE ops == Ops(c, d)  n == Len(ops)  f == [k \in DOMAIN ops |-> OpLine(c, d, ops[k])]
<1>1. n \in Nat /\ DOMAIN ops = 1 .. n
  BY ScriptTyped DEF IsDiff, Ops
<1>2. \A k \in DOMAIN ops : OpLine(c, d, ops[k]) \in Line
  BY OpLineTyped
<1>3. Unified(c, d).lines = f /\ Unified(c, d).rev = 0
      /\ Unified(c, d) = Pane(Unified(c, d).rev, Unified(c, d).lines, Unified(c, d).marks)
  BY DEF Unified, Pane
<1>4. DOMAIN f = DOMAIN ops /\ \A k \in DOMAIN ops : f[k] = OpLine(c, d, ops[k])
  OBVIOUS
<1>5. f \in [1 .. n -> Line]
  BY <1>1, <1>2
<1> HIDE DEF f, n, ops
<1>6. f \in Seq(Line) /\ Len(f) = n
  BY <1>1, <1>5
<1> QED
  BY <1>1, <1>3, <1>4, <1>6 DEF IsPane, ops, n

\* A document without a diff has its lines.
LEMMA WholeTyped ==
    ASSUME NEW c, IsView(c), c.cur # 0
    PROVE  /\ IsPane(Whole(c)) /\ Whole(c).rev = c.cur
           /\ Len(Whole(c).lines) = Len(c.revs[c.cur])
           /\ DOMAIN Whole(c).lines = DOMAIN c.revs[c.cur]
           /\ \A k \in DOMAIN c.revs[c.cur] :
                 /\ Whole(c).lines[k].text = c.revs[c.cur][k]
                 /\ Whole(c).lines[k].text \in Texts
                 /\ Whole(c).lines[k].flag = "default"
<1> DEFINE a == c.revs[c.cur]  n == Len(a)
           f == [k \in DOMAIN a |-> [text |-> a[k], flag |-> "default"]]
<1>1. a \in Seq(Texts) /\ n \in Nat /\ DOMAIN a = 1 .. n
  BY RevisionShown
<1>2. \A k \in DOMAIN a : [text |-> a[k], flag |-> "default"] \in Line /\ a[k] \in Texts
  BY <1>1 DEF Line
<1>3. Whole(c).lines = f /\ Whole(c).rev = c.cur
      /\ Whole(c) = Pane(Whole(c).rev, Whole(c).lines, Whole(c).marks)
  BY DEF Whole, Pane
<1>4. DOMAIN f = DOMAIN a
  OBVIOUS
<1>5. \A k \in DOMAIN a : f[k].text = a[k] /\ f[k].flag = "default"
  OBVIOUS
<1>6. f \in [1 .. n -> Line]
  BY <1>1, <1>2
<1> HIDE DEF f, n
<1>7. f \in Seq(Line) /\ Len(f) = n
  BY <1>1, <1>6
<1> QED
  BY <1>1, <1>2, <1>3, <1>4, <1>5, <1>7 DEF IsPane, n

\* A pane of a diff has a line for each of its cells.
LEMMA SideTyped ==
    ASSUME NEW c, NEW d, IsDiff(c, d), NEW cells \in Seq(0 .. Len(Ops(c, d)))
    PROVE  /\ IsPane(Side(c, d, cells)) /\ Side(c, d, cells).rev = 0
           /\ Len(Side(c, d, cells).lines) = Len(cells)
           /\ DOMAIN Side(c, d, cells).lines = DOMAIN cells
           /\ \A k \in DOMAIN cells :
                 /\ cells[k] = 0 =>
                       Side(c, d, cells).lines[k] = [text |-> Blank, flag |-> "default"]
                 /\ cells[k] # 0 =>
                       /\ cells[k] \in DOMAIN Ops(c, d)
                       /\ Side(c, d, cells).lines[k] = OpLine(c, d, Ops(c, d)[cells[k]])
<1> DEFINE ops == Ops(c, d)  n == Len(cells)
           blank == [text |-> Blank, flag |-> "default"]
           line(k) == IF cells[k] = 0 THEN blank ELSE OpLine(c, d, ops[cells[k]])
           f == [k \in DOMAIN cells |-> line(k)]
<1>10. Len(ops) \in Nat /\ DOMAIN ops = 1 .. Len(ops)
  BY ScriptTyped DEF IsDiff, Ops
<1>1. /\ Len(ops) \in Nat /\ DOMAIN ops = 1 .. Len(ops)
      /\ n \in Nat /\ DOMAIN cells = 1 .. n
      /\ \A k \in DOMAIN cells : cells[k] \in 0 .. Len(ops)
  BY <1>10
<1>2. \A k \in DOMAIN cells : cells[k] # 0 => cells[k] \in DOMAIN ops
  BY <1>1
<1>3. \A k \in DOMAIN ops : OpLine(c, d, ops[k]) \in Line
  BY OpLineTyped
<1>4. blank \in Line
  BY DEF Line
<1>5. Side(c, d, cells).lines = f /\ Side(c, d, cells).rev = 0
      /\ Side(c, d, cells) = Pane(Side(c, d, cells).rev, Side(c, d, cells).lines, Side(c, d, cells).marks)
  BY DEF Side, Pane
<1>6. \A k \in DOMAIN cells : line(k) \in Line
  BY <1>2, <1>3, <1>4
<1>7. DOMAIN f = DOMAIN cells /\ \A k \in DOMAIN cells : f[k] = line(k)
  OBVIOUS
<1>8. f \in [1 .. n -> Line]
  BY <1>1, <1>6, <1>7
<1> HIDE DEF f, n
<1>9. f \in Seq(Line) /\ Len(f) = n
  BY <1>1, <1>8
<1> QED
  BY <1>1, <1>2, <1>5, <1>7, <1>9 DEF IsPane, n

\* The rows of a diff, as cells.
LEMMA LayoutTyped ==
    ASSUME NEW c, NEW d, IsDiff(c, d)
    PROVE  /\ Layout(c, d).before \in Seq(0 .. Len(Ops(c, d)))
           /\ Layout(c, d).after \in Seq(0 .. Len(Ops(c, d)))
           /\ Len(Layout(c, d).before) = Len(Layout(c, d).after)
           /\ IsAligned(Layout(c, d).before, Layout(c, d).after, Ops(c, d))
<1>1. IsAligned(Layout(c, d).before, Layout(c, d).after, Ops(c, d))
  BY ScriptAssumption DEF IsDiff, Layout, Ops
<1> QED
  BY <1>1 DEF IsAligned

-----------------------------------------------------------------------------
(* Searching.                                                              *)

\* The lines with the term are lines, and can be counted.
LEMMA HitsCounted ==
    ASSUME NEW c, NEW q, IsPane(q)
    PROVE  IsFiniteSet(Hits(c, q)) /\ Hits(c, q) \subseteq DOMAIN q.lines
           /\ Hits(c, q) \subseteq Nat \ {0}
<1>1. Hits(c, q) \subseteq DOMAIN q.lines /\ Len(q.lines) \in Nat
      /\ DOMAIN q.lines = 1 .. Len(q.lines)
  BY DEF Hits, IsPane
<1>2. IsFiniteSet(1 .. Len(q.lines))
  BY <1>1, FS_Interval
<1> QED
  BY <1>1, <1>2, FS_Subset

\* The matches of some lines of a pane.
MatchesAt(rows, side) == {[row |-> k, inLeft |-> side] : k \in rows}

\* A match is at a line and on a side.
LEMMA MatchAt ==
    ASSUME NEW rows, NEW side
    PROVE  /\ \A k \in rows : [row |-> k, inLeft |-> side] \in MatchesAt(rows, side)
           /\ \A m \in MatchesAt(rows, side) :
                 m.row \in rows /\ m.inLeft = side /\ m = [row |-> m.row, inLeft |-> side]
<1> QED
  BY DEF MatchesAt

\* As many matches as lines.
LEMMA MatchesOf ==
    ASSUME NEW rows, IsFiniteSet(rows), NEW side
    PROVE  /\ IsFiniteSet(MatchesAt(rows, side))
           /\ Cardinality(MatchesAt(rows, side)) = Cardinality(rows)
<1> DEFINE ms == MatchesAt(rows, side)
           f == [k \in rows |-> [row |-> k, inLeft |-> side]]
<1>1. f \in [rows -> ms] /\ \A m \in ms : \E k \in rows : f[k] = m
  BY DEF MatchesAt
<1>2. \A j, k \in rows : f[j] = f[k] => j = k
  <2>1. \A k \in rows : f[k].row = k
    OBVIOUS
  <2> QED
    BY <2>1
<1> HIDE DEF f
<1>3. f \in Bijection(rows, ms)
  BY <1>1, <1>2 DEF Bijection, Injection, Surjection, IsInjective
<1>4. ExistsBijection(rows, ms)
  BY <1>3 DEF ExistsBijection
<1> QED
  BY <1>4, FS_Bijection

\* Whose rows are these lines.
LEMMA RowsOf ==
    ASSUME NEW rows, NEW side
    PROVE  {m.row : m \in MatchesAt(rows, side)} = rows
<1> DEFINE ms == MatchesAt(rows, side)
<1>1. \A k \in rows : [row |-> k, inLeft |-> side].row = k
  OBVIOUS
<1>2. /\ \A k \in rows : [row |-> k, inLeft |-> side] \in ms
      /\ \A m \in ms : m.row \in rows
  BY MatchAt
<1> HIDE DEF ms
<1>3. \A k \in rows : \E m \in ms : m.row = k
  BY <1>1, <1>2
<1>4. {m.row : m \in ms} = rows
  BY <1>2, <1>3
<1> QED
  BY <1>4 DEF ms

\* They are matches.
LEMMA MatchesTyped ==
    ASSUME NEW rows, rows \subseteq Nat \ {0}, NEW side \in BOOLEAN
    PROVE  MatchesAt(rows, side) \subseteq Match
<1> SUFFICES ASSUME NEW m \in MatchesAt(rows, side) PROVE m \in Match
  OBVIOUS
<1>1. m.row \in Nat \ {0} /\ m = [row |-> m.row, inLeft |-> side]
  BY MatchAt
<1> QED
  BY <1>1 DEF Match

\* What a search in one pane comes to.
LEMMA SearchedIs ==
    ASSUME NEW c, NEW q, NEW s
    PROVE  Searched(c, q, s) =
              IF c.term = NoTerm THEN [matches |-> {}, index |-> s.index]
              ELSE [matches |-> MatchesAt(Hits(c, q), FALSE),
                    index |-> Settled(s.index, MatchesAt(Hits(c, q), FALSE))]
<1> QED
  BY DEF Searched, NoMatches, MatchesAt

\* What a search in two panes comes to.
LEMMA SearchedBothIs ==
    ASSUME NEW c, NEW l, NEW r, NEW s
    PROVE  SearchedBoth(c, l, r, s) =
              IF c.term = NoTerm THEN [matches |-> {}, index |-> s.index]
              ELSE [matches |-> Combined(l, Hits(c, l), Hits(c, r)),
                    index |-> Settled(s.index, Combined(l, Hits(c, l), Hits(c, r)))]
<1> QED
  BY DEF SearchedBoth, NoMatches

\* A search that is over has no matches, one with matches has them counted.
LEMMA SearchMade ==
    ASSUME NEW ms \in SUBSET Match, IsFiniteSet(ms), NEW i \in Int
    PROVE  /\ IsSearch([matches |-> {}, index |-> i])
           /\ IsSearch([matches |-> ms, index |-> Settled(i, ms)])
<1>1. Cardinality(ms) \in Nat /\ IsFiniteSet({})
  BY FS_CardinalityType, FS_EmptySet
<1>2. Settled(i, ms) \in Int
  BY <1>1 DEF Settled
<1> QED
  BY <1>1, <1>2 DEF IsSearch

\* The matches of one pane.
LEMMA SearchedTyped ==
    ASSUME NEW c, NEW q, IsPane(q), NEW s, IsSearch(s)
    PROVE  /\ IsSearch(Searched(c, q, s))
           /\ IsFiniteSet(MatchesAt(Hits(c, q), FALSE))
<1> DEFINE ms == MatchesAt(Hits(c, q), FALSE)
<1>1. ms \in SUBSET Match
  BY HitsCounted, MatchesTyped
<1>2. IsFiniteSet(ms)
  BY HitsCounted, MatchesOf
<1>3. s.index \in Int
  BY DEF IsSearch
<1> QED
  BY <1>1, <1>2, <1>3, SearchMade, SearchedIs

\* The lines of the right pane that are not the unchanged ones of the left.
OnlyRight(l, inLeft, inRight) ==
    {j \in inRight : ~(j \in inLeft /\ l.lines[j].flag = "default")}

\* The matches of two panes are those of the left and the others of the right.
LEMMA CombinedIs ==
    ASSUME NEW l, NEW inLeft, NEW inRight
    PROVE  Combined(l, inLeft, inRight) =
              MatchesAt(inLeft, TRUE) \cup MatchesAt(OnlyRight(l, inLeft, inRight), FALSE)
<1> QED
  BY DEF Combined, MatchesAt, OnlyRight

\* The matches of two panes.
LEMMA SearchedBothTyped ==
    ASSUME NEW c, NEW l, IsPane(l), NEW r, IsPane(r), NEW s, IsSearch(s)
    PROVE  /\ IsSearch(SearchedBoth(c, l, r, s))
           /\ IsFiniteSet(Combined(l, Hits(c, l), Hits(c, r)))
<1> DEFINE ms == Combined(l, Hits(c, l), Hits(c, r))
           inR == OnlyRight(l, Hits(c, l), Hits(c, r))
<1>1. IsFiniteSet(Hits(c, l)) /\ IsFiniteSet(Hits(c, r)) /\ inR \subseteq Hits(c, r)
      /\ Hits(c, l) \subseteq Nat \ {0} /\ Hits(c, r) \subseteq Nat \ {0}
  BY HitsCounted DEF OnlyRight
<1>2. IsFiniteSet(inR) /\ inR \subseteq Nat \ {0}
  BY <1>1, FS_Subset
<1> HIDE DEF inR
<1>3. IsFiniteSet(MatchesAt(Hits(c, l), TRUE)) /\ IsFiniteSet(MatchesAt(inR, FALSE))
  BY <1>1, <1>2, MatchesOf
<1>4. MatchesAt(Hits(c, l), TRUE) \subseteq Match /\ MatchesAt(inR, FALSE) \subseteq Match
  BY <1>1, <1>2, MatchesTyped
<1>5. ms = MatchesAt(Hits(c, l), TRUE) \cup MatchesAt(inR, FALSE)
  BY CombinedIs DEF inR
<1> HIDE DEF ms
<1>6. IsFiniteSet(ms)
  BY <1>3, <1>5, FS_Union
<1>7. ms \in SUBSET Match
  BY <1>4, <1>5
<1>8. s.index \in Int
  BY DEF IsSearch
<1>9. IsSearch([matches |-> {}, index |-> s.index])
      /\ IsSearch([matches |-> ms, index |-> Settled(s.index, ms)])
  BY <1>6, <1>7, <1>8, SearchMade
<1> QED
  BY <1>6, <1>9, SearchedBothIs DEF ms

\* An index settles among the matches, and one that is among them stays.
LEMMA SettledInRange ==
    ASSUME NEW ms, IsFiniteSet(ms), NEW i \in Int
    PROVE  /\ Settled(i, ms) \in IF ms = {} THEN {-1} ELSE 0 .. Cardinality(ms) - 1
           /\ ms # {} /\ i \in 0 .. Cardinality(ms) - 1 => Settled(i, ms) = i
           /\ Settled(Settled(i, ms), ms) = Settled(i, ms)
<1>1. Cardinality(ms) \in Nat /\ (ms # {} => Cardinality(ms) > 0)
  BY FS_CardinalityType, FS_EmptySet
<1> QED
  BY <1>1 DEF Settled

\* A search done again finds the same.
LEMMA SearchedTwice ==
    ASSUME NEW c, NEW q, IsPane(q), NEW s, IsSearch(s)
    PROVE  Searched(c, q, Searched(c, q, s)) = Searched(c, q, s)
<1> DEFINE ms == MatchesAt(Hits(c, q), FALSE)
<1>1. IsFiniteSet(ms)
  BY SearchedTyped
<1>2. s.index \in Int
  BY DEF IsSearch
<1>3. \A t : Searched(c, q, t) = IF c.term = NoTerm THEN [matches |-> {}, index |-> t.index]
                                 ELSE [matches |-> ms, index |-> Settled(t.index, ms)]
  BY SearchedIs
<1> HIDE DEF ms
<1>4. Settled(Settled(s.index, ms), ms) = Settled(s.index, ms)
  BY <1>1, <1>2, SettledInRange
<1>5. Searched(c, q, s).index = IF c.term = NoTerm THEN s.index ELSE Settled(s.index, ms)
  BY <1>3
<1> QED
  BY <1>3, <1>4, <1>5

\* In two panes, too.
LEMMA SearchedBothTwice ==
    ASSUME NEW c, NEW l, IsPane(l), NEW r, IsPane(r), NEW s, IsSearch(s)
    PROVE  SearchedBoth(c, l, r, SearchedBoth(c, l, r, s)) = SearchedBoth(c, l, r, s)
<1> DEFINE ms == Combined(l, Hits(c, l), Hits(c, r))
<1>1. IsFiniteSet(ms)
  BY SearchedBothTyped
<1>2. s.index \in Int
  BY DEF IsSearch
<1>3. \A t : SearchedBoth(c, l, r, t) = IF c.term = NoTerm THEN [matches |-> {}, index |-> t.index]
                                        ELSE [matches |-> ms, index |-> Settled(t.index, ms)]
  BY SearchedBothIs
<1> HIDE DEF ms
<1>4. Settled(Settled(s.index, ms), ms) = Settled(s.index, ms)
  BY <1>1, <1>2, SettledInRange
<1>5. SearchedBoth(c, l, r, s).index = IF c.term = NoTerm THEN s.index ELSE Settled(s.index, ms)
  BY <1>3
<1> QED
  BY <1>3, <1>4, <1>5

-----------------------------------------------------------------------------
(* What rerender makes.                                                    *)

\* A pane with other overlays is otherwise the same.
LEMMA Remarked ==
    ASSUME NEW q, IsPane(q), NEW marks
    PROVE  /\ [q EXCEPT !.marks = marks] = Pane(q.rev, q.lines, marks)
           /\ [q EXCEPT !.marks = marks].lines = q.lines
           /\ [q EXCEPT !.marks = marks].rev = q.rev
           /\ [q EXCEPT !.marks = marks].marks = marks
           /\ IsPane([q EXCEPT !.marks = marks])
<1>1. q = [rev |-> q.rev, lines |-> q.lines, marks |-> q.marks]
  BY DEF IsPane, Pane
<1>2. [q EXCEPT !.marks = marks] = [rev |-> q.rev, lines |-> q.lines, marks |-> marks]
  BY <1>1
<1> QED
  BY <1>2 DEF IsPane, Pane

\* A line of a pane has one overlay.
LEMMA OverlaidTyped ==
    ASSUME NEW q, NEW s
    PROVE  Overlaid(q, s) \in [DOMAIN q.lines -> Mark]
<1> QED
  BY DEF Overlaid, Mark

\* Whether two panes are shown.
IsSplit(c) == NeedsDiff(c) /\ c.viewMode = "sideBySide"

\* The one pane, if not.
OnePane(c, p) == IF NeedsDiff(c) THEN Unified(c, FreshDiff(c, p)) ELSE Whole(c)

\* The two panes, without a search.
LeftOf(c, p) == Side(c, FreshDiff(c, p), Layout(c, FreshDiff(c, p)).before)
RightOf(c, p) == Side(c, FreshDiff(c, p), Layout(c, FreshDiff(c, p)).after)

\* There is nothing, one pane or two.
LEMMA ShownCases ==
    ASSUME NEW c, IsView(c), NEW p, NEW s
    PROVE  /\ c.cur = 0 => Shown(c, p, s) = ShowNothing(p, s)
           /\ c.cur # 0 /\ ~IsSplit(c) => Shown(c, p, s) = ShowOne(c, OnePane(c, p), p, s)
           /\ IsSplit(c) => Shown(c, p, s) = ShowPanes(c, FreshDiff(c, p), p, s)
           /\ IsSplit(c) => c.cur # 0
<1>1. NeedsDiff(c) => c.cur # 0
  BY BaseShown
<1> QED
  BY <1>1 DEF Shown, IsSplit, OnePane

\* A diff is one of revisions.
LEMMA FreshTyped ==
    ASSUME NEW c, IsView(c), NeedsDiff(c), NEW p
    PROVE  /\ IsDiff(c, FreshDiff(c, p))
           /\ FreshDiff(c, p).base = Base(c) /\ FreshDiff(c, p).after = c.cur
<1>1. c.revs[Base(c)] \in Sources /\ c.revs[c.cur] \in Sources
  BY BaseShown, RevisionShown
<1> QED
  BY <1>1 DEF FreshDiff, IsDiff

\* One pane has lines, and is that of the revision if there is no diff.
LEMMA OnePaneTyped ==
    ASSUME NEW c, IsView(c), c.cur # 0, NEW p
    PROVE  /\ IsPane(OnePane(c, p))
           /\ OnePane(c, p).rev = IF NeedsDiff(c) THEN 0 ELSE c.cur
           /\ ~NeedsDiff(c) => DOMAIN OnePane(c, p).lines = DOMAIN c.revs[c.cur]
<1> QED
  BY FreshTyped, UnifiedTyped, WholeTyped DEF OnePane

\* Two panes have as many lines.
LEMMA TwoPanesTyped ==
    ASSUME NEW c, IsView(c), NeedsDiff(c), NEW p
    PROVE  /\ IsPane(LeftOf(c, p)) /\ LeftOf(c, p).rev = 0
           /\ IsPane(RightOf(c, p)) /\ RightOf(c, p).rev = 0
           /\ Len(LeftOf(c, p).lines) = Len(RightOf(c, p).lines)
           /\ DOMAIN LeftOf(c, p).lines = DOMAIN RightOf(c, p).lines
<1>1. IsDiff(c, FreshDiff(c, p))
  BY FreshTyped
<1>2. /\ IsPane(LeftOf(c, p)) /\ LeftOf(c, p).rev = 0
      /\ IsPane(RightOf(c, p)) /\ RightOf(c, p).rev = 0
      /\ Len(LeftOf(c, p).lines) = Len(RightOf(c, p).lines)
  BY <1>1, SideTyped, LayoutTyped DEF LeftOf, RightOf
<1> QED
  BY <1>2 DEF IsPane

\* What one pane comes to.
LEMMA ShowOneIs ==
    ASSUME NEW c, NEW q, NEW p, NEW s
    PROVE  ShowOne(c, q, p, s) =
              IF q.rev = 0
              THEN [left |-> [q EXCEPT !.marks = Overlaid(q, Searched(c, q, s))], right |-> Nil,
                    search |-> Searched(c, q, s), paint |-> p]
              ELSE [left |-> q, right |-> Nil, search |-> Searched(c, q, s),
                    paint |-> [p EXCEPT ![q.rev] = Overlaid(q, Searched(c, q, s))]]
<1> QED
  BY DEF ShowOne

BothMarks(c, l, r, s) == IF c.term = NoTerm THEN <<l.marks, r.marks>> ELSE BothOverlaid(c, l, r, s)

\* What two panes come to.
LEMMA ShowPanesIs ==
    ASSUME NEW c, NEW p, NEW s, NEW l, l = LeftOf(c, p), NEW r, r = RightOf(c, p),
           NEW found, found = SearchedBoth(c, l, r, s)
    PROVE  ShowPanes(c, FreshDiff(c, p), p, s) =
              [left |-> [l EXCEPT !.marks = BothMarks(c, l, r, found)[1]],
               right |-> [r EXCEPT !.marks = BothMarks(c, l, r, found)[2]],
               search |-> found, paint |-> p]
<1> QED
  BY DEF ShowPanes, LeftOf, RightOf, BothMarks

\* Rerender done again makes what it has made.
LEMMA ShownTwice ==
    ASSUME NEW c, IsView(c), NEW p, IsPaint(c, p), NEW s, IsSearch(s)
    PROVE  Shown(c, Shown(c, p, s).paint, Shown(c, p, s).search) = Shown(c, p, s)
<1>1. CASE c.cur = 0
  BY <1>1, ShownCases DEF ShowNothing
<1>2. CASE c.cur # 0 /\ ~IsSplit(c)
  <2> DEFINE q == OnePane(c, p)  found == Searched(c, q, s)
  <2>1. IsPane(q) /\ q.rev = IF NeedsDiff(c) THEN 0 ELSE c.cur
    BY <1>2, OnePaneTyped
  <2>2. Searched(c, q, found) = found
    BY <2>1, SearchedTwice
  <2>3. Shown(c, p, s) = ShowOne(c, q, p, s)
    BY <1>2, ShownCases
  <2>4. \A p2 : Shown(c, p2, found) = ShowOne(c, OnePane(c, p2), p2, found)
    BY <1>2, ShownCases
  <2>5. CASE NeedsDiff(c)
    <3>1. Shown(c, p, s).paint = p /\ Shown(c, p, s).search = found
      BY <2>1, <2>3, <2>5, ShowOneIs
    <3>2. Shown(c, p, found) = ShowOne(c, q, p, found)
      BY <2>4
    <3> QED
      BY <2>2, <2>3, <3>1, <3>2, ShowOneIs
  <2>6. CASE ~NeedsDiff(c)
    <3> DEFINE marks == Overlaid(q, found)  p2 == [p EXCEPT ![q.rev] = marks]
    <3>1. q.rev # 0
      BY <1>2, <2>1, <2>6
    <3>2. Shown(c, p, s) = [left |-> q, right |-> Nil, search |-> found, paint |-> p2]
      BY <2>3, <3>1, ShowOneIs
    <3>3. OnePane(c, p2) = q
      BY <2>6 DEF OnePane
    <3>4. [p2 EXCEPT ![q.rev] = marks] = p2
      OBVIOUS
    <3> HIDE DEF q, found, p2
    <3>5. Shown(c, p2, found) = [left |-> q, right |-> Nil, search |-> found,
                                 paint |-> [p2 EXCEPT ![q.rev] = Overlaid(q, found)]]
      BY <2>2, <2>4, <3>1, <3>3, ShowOneIs
    <3> QED
      BY <3>2, <3>4, <3>5
  <2> QED
    BY <2>5, <2>6
<1>3. CASE IsSplit(c)
  <2> DEFINE l == LeftOf(c, p)  r == RightOf(c, p)  found == SearchedBoth(c, l, r, s)
  <2>1. IsPane(l) /\ IsPane(r)
    BY <1>3, TwoPanesTyped DEF IsSplit
  <2>2. SearchedBoth(c, l, r, found) = found
    BY <2>1, SearchedBothTwice
  <2> HIDE DEF found, l, r
  <2>3. Shown(c, p, s) = [left |-> [l EXCEPT !.marks = BothMarks(c, l, r, found)[1]],
                          right |-> [r EXCEPT !.marks = BothMarks(c, l, r, found)[2]],
                          search |-> found, paint |-> p]
    BY <1>3, ShownCases, ShowPanesIs DEF found, l, r
  <2>4. Shown(c, p, found) = [left |-> [l EXCEPT !.marks = BothMarks(c, l, r, found)[1]],
                              right |-> [r EXCEPT !.marks = BothMarks(c, l, r, found)[2]],
                              search |-> found, paint |-> p]
    BY <1>3, <2>2, ShownCases, ShowPanesIs DEF l, r
  <2> QED
    BY <2>3, <2>4
<1> QED
  BY <1>1, <1>2, <1>3

\* What it makes is typed, and is what is stored.
LEMMA ShownTyped ==
    ASSUME NEW c, IsView(c), NEW p, IsPaint(c, p), NEW s, IsSearch(s),
           NEW shown, shown = Shown(c, p, s)
    PROVE  /\ shown = [left |-> shown.left, right |-> shown.right, search |-> shown.search,
                       paint |-> shown.paint]
           /\ IsPane(shown.left)
           /\ IsSearch(shown.search)
           /\ IsPaint(c, shown.paint)
           /\ NeedsDiff(c) => shown.paint = p
<1>1. IsPane(Nil)
  <2>1. Nil.lines = <<>> /\ Nil = Pane(Nil.rev, Nil.lines, Nil.marks)
    BY DEF Nil, Pane
  <2>2. <<>> \in Seq(Line) /\ Len(<<>>) = 0 /\ DOMAIN <<>> = 1 .. 0
    OBVIOUS
  <2> QED
    BY <2>1, <2>2 DEF IsPane
<1>2. CASE c.cur = 0
  <2>1. shown = [left |-> Nil, right |-> Nil, search |-> s, paint |-> p]
    BY <1>2, ShownCases DEF ShowNothing
  <2> QED
    BY <1>1, <2>1
<1>3. CASE c.cur # 0 /\ ~IsSplit(c)
  <2> DEFINE q == OnePane(c, p)  found == Searched(c, q, s)  marks == Overlaid(q, found)
  <2>1. /\ IsPane(q) /\ q.rev = IF NeedsDiff(c) THEN 0 ELSE c.cur
        /\ ~NeedsDiff(c) => DOMAIN q.lines = DOMAIN c.revs[c.cur]
    BY <1>3, OnePaneTyped
  <2>2. IsSearch(found)
    BY <2>1, SearchedTyped
  <2>3. marks \in [DOMAIN q.lines -> Mark]
    BY OverlaidTyped
  <2>4. c.cur \in DOMAIN c.revs
    BY <1>3, RevisionShown
  <2>5. shown = ShowOne(c, q, p, s)
    BY <1>3, ShownCases
  <2> HIDE DEF q, found, marks
  <2>6. shown = IF q.rev = 0
                THEN [left |-> [q EXCEPT !.marks = marks], right |-> Nil, search |-> found, paint |-> p]
                ELSE [left |-> q, right |-> Nil, search |-> found,
                      paint |-> [p EXCEPT ![q.rev] = marks]]
    BY <2>5, ShowOneIs DEF found, marks
  <2>7. CASE NeedsDiff(c)
    <3>1. IsPane([q EXCEPT !.marks = marks])
      BY <2>1, Remarked
    <3>2. shown = [left |-> [q EXCEPT !.marks = marks], right |-> Nil, search |-> found, paint |-> p]
      BY <2>1, <2>6, <2>7
    <3> QED
      BY <2>2, <3>1, <3>2
  <2>8. CASE ~NeedsDiff(c)
    <3>1. shown = [left |-> q, right |-> Nil, search |-> found,
                   paint |-> [p EXCEPT ![c.cur] = marks]]
      BY <1>3, <2>1, <2>6, <2>8
    <3>2. IsPaint(c, [p EXCEPT ![c.cur] = marks])
      BY <2>1, <2>3, <2>4, <2>8 DEF IsPaint
    <3> QED
      BY <2>1, <2>2, <2>8, <3>1, <3>2
  <2> QED
    BY <2>7, <2>8
<1>4. CASE IsSplit(c)
  <2> DEFINE l == LeftOf(c, p)  r == RightOf(c, p)  found == SearchedBoth(c, l, r, s)
             marks == BothMarks(c, l, r, found)
  <2>1. IsPane(l) /\ IsPane(r)
    BY <1>4, TwoPanesTyped DEF IsSplit
  <2>2. IsSearch(found)
    BY <2>1, SearchedBothTyped
  <2>3. shown = [left |-> [l EXCEPT !.marks = marks[1]], right |-> [r EXCEPT !.marks = marks[2]],
                 search |-> found, paint |-> p]
    BY <1>4, ShownCases, ShowPanesIs
  <2>4. IsPane([l EXCEPT !.marks = marks[1]])
    BY <2>1, Remarked
  <2> HIDE DEF l, r, found, marks
  <2> QED
    BY <2>2, <2>3, <2>4
<1> QED
  BY <1>2, <1>3, <1>4

-----------------------------------------------------------------------------
(* The invariant.                                                          *)

\* What scrolling and the printer keep.
Scalars ==
    /\ yOffset \in Nat /\ height \in Nat /\ width \in Nat /\ hunkContext \in Nat
    /\ wrapEnabled \in BOOLEAN
    /\ printer \in [width : Nat, wrap : BOOLEAN]

ViewInv ==
    /\ IsView(view) /\ Len(view.revs) <= MaxRevisions
    /\ IsPaint(view, paint) /\ IsSearch(search)
    /\ Scalars
    /\ RedrawStable
    /\ diffResult = IF NeedsDiff(view) THEN FreshDiff(view, paint) ELSE NoDiff

\* Nothing is shown at first.
LEMMA InitEstablishes ==
    ASSUME Init
    PROVE  ViewInv
<1>1. /\ view = [revs |-> <<>>, cur |-> 0, diffMode |-> "adjacent", viewMode |-> "full",
                 term |-> NoTerm]
      /\ paint = <<>> /\ diffResult = NoDiff /\ left = Nil /\ right = Nil
      /\ search = [matches |-> {}, index |-> -1]
  BY DEF Init
<1>2. IsView(view) /\ Len(view.revs) = 0 /\ view.cur = 0
  BY <1>1 DEF IsView, Choice, DiffModes, ViewModes
<1>3. IsPaint(view, paint)
  BY <1>1 DEF IsPaint
<1>4. IsSearch(search)
  BY <1>1, FS_EmptySet DEF IsSearch
<1>5. Scalars
  BY DEF Init, Scalars
<1>6. RedrawStable
  BY <1>1, <1>2, ShownCases DEF RedrawStable, ShowNothing
<1>7. ~NeedsDiff(view)
  BY <1>2 DEF NeedsDiff
<1> QED
  BY <1>1, <1>2, <1>3, <1>4, <1>5, <1>6, <1>7, ViewportAssumption DEF ViewInv

\* Rerender makes a typed state.
LEMMA RerenderMakes ==
    ASSUME NEW c, IsView(c), NEW p, IsPaint(c, p), NEW s, IsSearch(s), Rerender(c, p, s)
    PROVE  /\ view' = c
           /\ IsPane(left') /\ IsSearch(search') /\ IsPaint(c, paint')
           /\ Shown(c, p, s) = [left |-> left', right |-> right', search |-> search',
                                paint |-> paint']
           /\ NeedsDiff(c) => paint' = p
           /\ diffResult' = IF NeedsDiff(c) THEN FreshDiff(c, p) ELSE NoDiff
<1> DEFINE shown == Shown(c, p, s)
<1>1. /\ view' = c /\ left' = shown.left /\ right' = shown.right
      /\ search' = shown.search /\ paint' = shown.paint
      /\ diffResult' = IF NeedsDiff(c) THEN FreshDiff(c, p) ELSE NoDiff
  BY DEF Rerender
<1> QED
  BY <1>1, ShownTyped

\* It establishes the invariant, whatever the state before.
LEMMA RerenderKeeps ==
    ASSUME NEW c, IsView(c), Len(c.revs) <= MaxRevisions, NEW p, IsPaint(c, p),
           NEW s, IsSearch(s), Rerender(c, p, s), Scalars'
    PROVE  ViewInv'
<1>1. /\ view' = c
      /\ IsPane(left') /\ IsSearch(search') /\ IsPaint(c, paint')
      /\ Shown(c, p, s) = [left |-> left', right |-> right', search |-> search',
                           paint |-> paint']
      /\ NeedsDiff(c) => paint' = p
      /\ diffResult' = IF NeedsDiff(c) THEN FreshDiff(c, p) ELSE NoDiff
  BY RerenderMakes
<1>2. Shown(c, paint', search') = Shown(c, p, s)
  <2>1. Shown(c, p, s).paint = paint' /\ Shown(c, p, s).search = search'
    BY <1>1
  <2> QED
    BY <2>1, ShownTwice
<1>3. RedrawStable'
  BY <1>1, <1>2 DEF RedrawStable
<1> QED
  BY <1>1, <1>3 DEF ViewInv

\* An offset that is clamped is one, and not beyond the last.
LEMMA ClampedInside ==
    ASSUME NEW n \in Int, NEW max \in Nat
    PROVE  Clamped(n, max) \in 0 .. max
<1> QED
  BY DEF Clamped, AtLeast0

\* There is a last offset.
LEMMA LastOffset ==
    ASSUME NEW q, IsPane(q), NEW h \in Nat
    PROVE  AtLeast0(Len(q.lines) - h) \in Nat
<1>1. Len(q.lines) \in Nat
  BY DEF IsPane
<1> QED
  BY <1>1 DEF AtLeast0

\* Half the screen is less than the screen.
LEMMA HalfInside ==
    ASSUME height \in Nat
    PROVE  Half \in Nat /\ (height > 0 => Half <= height - 1)
<1> QED
  BY DEF Half, AtLeast0

\* A search scrolls to an offset.
LEMMA ScrollTyped ==
    ASSUME yOffset \in Nat, height \in Nat, height' \in Nat, IsPane(left'), IsSearch(search'),
           ScrollToMatch
    PROVE  yOffset' \in Nat
<1>1. CASE Current(search') = {}
  BY <1>1 DEF ScrollToMatch
<1>2. CASE Current(search') # {}
  <2> DEFINE m == CHOOSE m \in Current(search') : TRUE
  <2>1. m \in Current(search')
    BY <1>2
  <2>2. yOffset' = Clamped(m.row - 1 - Half, MaxYOffset')
    BY <1>2 DEF ScrollToMatch
  <2> HIDE DEF m
  <2>3. m.row \in Nat
    BY <2>1, CurrentTyped
  <2> DEFINE n == m.row - 1 - Half  last == MaxYOffset'
  <2>4. last \in Nat
    BY LastOffset DEF MaxYOffset
  <2>5. n \in Int
    BY <2>3, HalfInside
  <2> HIDE DEF n, last
  <2>6. Clamped(n, last) \in 0 .. last
    BY <2>4, <2>5, ClampedInside
  <2> QED
    BY <2>2, <2>4, <2>6 DEF n, last
<1> QED
  BY <1>1, <1>2

-----------------------------------------------------------------------------
(* Scrolling keeps the invariant.                                          *)

\* Scrolling, drawing, and sizes.
Settings == Scalars' /\ UNCHANGED <<view, paint, diffResult, left, right, search>>

\* An offset, a height or a printer does not matter to what is shown.
LEMMA ScalarsKeep ==
    ASSUME ViewInv, Scalars', UNCHANGED <<view, paint, diffResult, left, right, search>>
    PROVE  ViewInv'
<1> QED
  BY DEF ViewInv, RedrawStable

\* The pane that is shown has lines.
LEMMA LeftTyped ==
    ASSUME ViewInv
    PROVE  IsPane(left)
<1>1. Shown(view, paint, search).left = left
  BY DEF ViewInv, RedrawStable
<1> QED
  BY <1>1, ShownTyped DEF ViewInv

\* SetYOffset, to wherever.
LEMMA SetYOffsetSets ==
    ASSUME ViewInv, NEW n \in Int, SetYOffset(n)
    PROVE  Settings
<1>1. /\ yOffset' = Clamped(n, MaxYOffset)
      /\ UNCHANGED <<view, paint, diffResult, left, right, search>>
      /\ UNCHANGED <<height, width, hunkContext, wrapEnabled, printer>>
  BY DEF SetYOffset, Others
<1>2. MaxYOffset \in Nat
  BY LeftTyped, LastOffset DEF ViewInv, Scalars, MaxYOffset
<1>3. Scalars'
  BY <1>1, <1>2, ClampedInside DEF ViewInv, Scalars
<1> QED
  BY <1>1, <1>3 DEF Settings

\* ScrollDown and ScrollUp, by however much.
LEMMA ScrollSets ==
    ASSUME ViewInv, NEW n \in Int, ScrollDown(n) \/ ScrollUp(n)
    PROVE  Settings
<1>1. yOffset + n \in Int /\ yOffset - n \in Int
  BY DEF ViewInv, Scalars
<1> QED
  BY <1>1, SetYOffsetSets DEF ScrollDown, ScrollUp

\* GotoTop, GotoBottom and the others.
LEMMA GotoSets ==
    ASSUME ViewInv, Goto
    PROVE  Settings
<1>1. MaxYOffset \in Nat
  BY LeftTyped, LastOffset DEF ViewInv, Scalars, MaxYOffset
<1> QED
  BY <1>1, SetYOffsetSets DEF Goto

\* A height, a context, and a draw, which narrows the printer.
LEMMA PrintingSets ==
    ASSUME ViewInv,
           \/ \E h \in Heights : SetHeight(h)
           \/ \E n \in Contexts : SetHunkContext(n)
           \/ View
    PROVE  Settings
<1>1. ASSUME NEW h \in Heights, SetHeight(h) PROVE Settings
  <2>1. h \in Nat
    BY ViewportAssumption
  <2>2. Scalars' /\ UNCHANGED <<view, paint, diffResult, left, right, search>>
    BY <1>1, <2>1 DEF ViewInv, Scalars, SetHeight
  <2> QED
    BY <2>2 DEF Settings
<1>2. ASSUME NEW n \in Contexts, SetHunkContext(n) PROVE Settings
  <2>1. AtLeast0(n) \in Nat
    BY ViewportAssumption DEF AtLeast0
  <2>2. Scalars' /\ UNCHANGED <<view, paint, diffResult, left, right, search>>
    BY <1>2, <2>1 DEF ViewInv, Scalars, SetHunkContext
  <2> QED
    BY <2>2 DEF Settings
<1>3. ASSUME View PROVE Settings
  <2>1. width \in Nat /\ wrapEnabled \in BOOLEAN /\ PaneWidth >= 1
    BY <1>3 DEF ViewInv, Scalars, View
  <2>2. PaneWidth \in Nat
    BY <2>1 DEF PaneWidth, SeparatorWidth
  <2>3. printer' = [width |-> PaneWidth, wrap |-> wrapEnabled]
    BY <1>3 DEF View
  <2>4. printer' \in [width : Nat, wrap : BOOLEAN]
    BY <2>1, <2>2, <2>3
  <2>5. Scalars' /\ UNCHANGED <<view, paint, diffResult, left, right, search>>
    BY <1>3, <2>4 DEF ViewInv, Scalars, View
  <2> QED
    BY <2>5 DEF Settings
<1> QED
  BY <1>1, <1>2, <1>3

-----------------------------------------------------------------------------
(* Revisions and modes.                                                    *)

\* A view with other modes, or at another revision, is one.
LEMMA ViewChanged ==
    ASSUME NEW c, IsView(c)
    PROVE  /\ \A i \in DOMAIN c.revs : IsView([c EXCEPT !.cur = i])
           /\ \A m \in DiffModes : IsView([c EXCEPT !.diffMode = m])
           /\ \A m \in ViewModes : IsView([c EXCEPT !.viewMode = m])
           /\ \A t \in Terms \cup {NoTerm} : IsView([c EXCEPT !.term = t])
           /\ \A i : [c EXCEPT !.cur = i].revs = c.revs
           /\ \A m : [c EXCEPT !.diffMode = m].revs = c.revs
           /\ \A m : [c EXCEPT !.viewMode = m].revs = c.revs
           /\ \A t : [c EXCEPT !.term = t].revs = c.revs
<1>1. c \in Choice /\ c.cur \in IF c.revs = <<>> THEN {0} ELSE DOMAIN c.revs
  BY DEF IsView
<1>2. DOMAIN c.revs \subseteq Nat
  BY <1>1 DEF Choice
<1>3. ASSUME NEW i \in DOMAIN c.revs PROVE IsView([c EXCEPT !.cur = i])
  <2>1. c.revs # <<>>
    OBVIOUS
  <2> QED
    BY <1>1, <1>2, <2>1 DEF IsView, Choice
<1>4. \A m \in DiffModes : IsView([c EXCEPT !.diffMode = m])
  BY <1>1 DEF IsView, Choice
<1>5. \A m \in ViewModes : IsView([c EXCEPT !.viewMode = m])
  BY <1>1 DEF IsView, Choice
<1>6. \A t \in Terms \cup {NoTerm} : IsView([c EXCEPT !.term = t])
  BY <1>1 DEF IsView, Choice
<1>7. /\ \A i : [c EXCEPT !.cur = i].revs = c.revs
      /\ \A m : [c EXCEPT !.diffMode = m].revs = c.revs
      /\ \A m : [c EXCEPT !.viewMode = m].revs = c.revs
      /\ \A t : [c EXCEPT !.term = t].revs = c.revs
  BY <1>1 DEF Choice
<1> QED
  BY <1>3, <1>4, <1>5, <1>6, <1>7

\* A view with one more revision, shown.
LEMMA ViewGrown ==
    ASSUME NEW c, IsView(c), NEW s \in Sources, NEW p, IsPaint(c, p),
           NEW d, d = [c EXCEPT !.revs = Append(c.revs, s), !.cur = Len(c.revs) + 1]
    PROVE  IsView(d) /\ Len(d.revs) = Len(c.revs) + 1 /\ IsPaint(d, Append(p, Unmarked(s)))
<1> DEFINE n == Len(c.revs)  revs == Append(c.revs, s)
<1>1. c \in Choice /\ c.revs \in Seq(Sources)
  BY DEF IsView, Choice
<1>2. /\ n \in Nat /\ DOMAIN c.revs = 1 .. n
      /\ revs \in Seq(Sources) /\ Len(revs) = n + 1 /\ DOMAIN revs = 1 .. n + 1
      /\ \A i \in 1 .. n : revs[i] = c.revs[i]
      /\ revs[n + 1] = s
  BY <1>1
<1>3. revs # <<>>
  BY <1>2
<1> HIDE DEF revs
<1>4. d.revs = revs /\ d.cur = n + 1 /\ d \in Choice
  <2>1. n + 1 \in Nat /\ d = [c EXCEPT !.revs = revs, !.cur = n + 1]
    BY <1>2 DEF revs
  <2> HIDE DEF n
  <2> QED
    BY <1>1, <1>2, <2>1 DEF Choice
<1> HIDE DEF n
<1>5. IsView(d)
  BY <1>2, <1>3, <1>4 DEF IsView
<1>6. IsPaint(d, Append(p, Unmarked(s)))
  <2>1. DOMAIN p = 1 .. n /\ \A i \in 1 .. n : p[i] \in [DOMAIN c.revs[i] -> Mark]
    BY <1>2 DEF IsPaint
  <2> DEFINE all == UNION {[DOMAIN a -> Mark] : a \in Sources}  q == Append(p, Unmarked(s))
  <2>2. Unmarked(s) \in [DOMAIN s -> Mark]
    BY DEF Unmarked, Mark
  <2>3. \A i \in 1 .. n : c.revs[i] \in Sources
    BY <1>1, <1>2
  <2>4. Unmarked(s) \in all /\ \A i \in 1 .. n : p[i] \in all
    BY <2>1, <2>2, <2>3
  <2> HIDE DEF all
  <2>5. p = [i \in DOMAIN p |-> p[i]]
    BY DEF IsPaint
  <2>6. p \in [1 .. n -> all]
    BY <2>1, <2>4, <2>5
  <2>7. p \in Seq(all) /\ Len(p) = n /\ n \in Nat
    BY <1>2, <2>6
  <2>8. /\ q \in Seq(all) /\ DOMAIN q = 1 .. n + 1 /\ q[n + 1] = Unmarked(s)
        /\ \A i \in 1 .. n : q[i] = p[i]
    BY <2>4, <2>7
  <2> HIDE DEF q
  <2>9. q = [i \in DOMAIN q |-> q[i]]
    <3>1. q \in [1 .. Len(q) -> all]
      BY <2>8
    <3> QED
      BY <3>1
  <2>10. \A i \in 1 .. n + 1 : i \in 1 .. n \/ i = n + 1
    BY <1>2
  <2>11. \A i \in DOMAIN q : q[i] \in [DOMAIN d.revs[i] -> Mark]
    BY <1>2, <1>4, <2>1, <2>2, <2>8, <2>10
  <2> QED
    BY <1>2, <1>4, <2>8, <2>9, <2>11 DEF IsPaint, q
<1> QED
  BY <1>2, <1>4, <1>5, <1>6

\* The offset a revision is shown from is clamped.
LEMMA ClampedTyped ==
    ASSUME IsPane(left'), height' \in Nat, yOffset \in Nat, yOffset' = Clamped(yOffset, MaxYOffset')
    PROVE  yOffset' \in Nat /\ yOffset' <= MaxYOffset'
<1> DEFINE last == MaxYOffset'
<1>1. last \in Nat
  BY LastOffset DEF MaxYOffset
<1> HIDE DEF last
<1>2. yOffset \in Int
  OBVIOUS
<1>3. Clamped(yOffset, last) \in 0 .. last
  BY <1>1, <1>2, ClampedInside
<1>4. yOffset' = Clamped(yOffset, last)
  BY DEF last
<1> QED
  BY <1>1, <1>3, <1>4 DEF last

\* AddRevision, of any document.
LEMMA AddRevisionKeeps ==
    ASSUME ViewInv, NEW s \in Sources, AddRevision(s)
    PROVE  ViewInv'
<1> DEFINE d == [view EXCEPT !.revs = Append(view.revs, s), !.cur = Len(view.revs) + 1]
           p == Append(paint, Unmarked(s))
<1>1. /\ Len(view.revs) < MaxRevisions /\ Rerender(d, p, search)
      /\ UNCHANGED <<height, width, hunkContext, wrapEnabled, printer>>
      /\ yOffset' = Clamped(yOffset, MaxYOffset')
  BY DEF AddRevision, Others
<1>2. /\ IsView(view) /\ IsPaint(view, paint) /\ IsSearch(search) /\ Scalars
      /\ MaxRevisions \in Nat /\ Len(view.revs) \in Nat
  BY ViewportAssumption DEF ViewInv, IsView, Choice
<1>3. IsView(d) /\ Len(d.revs) = Len(view.revs) + 1 /\ IsPaint(d, p)
  BY <1>2, ViewGrown
<1> HIDE DEF d, p
<1>4. Len(d.revs) <= MaxRevisions
  BY <1>1, <1>2, <1>3
<1>5. IsPane(left')
  BY <1>1, <1>2, <1>3, RerenderMakes
<1>6. Scalars'
  BY <1>1, <1>2, <1>5, ClampedTyped DEF Scalars
<1> QED
  BY <1>1, <1>2, <1>3, <1>4, <1>6, RerenderKeeps

\* ClearRevisions keeps what was searched for, and what was found.
LEMMA ClearRevisionsKeeps ==
    ASSUME ViewInv, ClearRevisions
    PROVE  ViewInv'
<1> DEFINE d == [view EXCEPT !.revs = <<>>, !.cur = 0]
<1>1. /\ Rerender(d, <<>>, search)
      /\ UNCHANGED <<yOffset, height, width, hunkContext, wrapEnabled, printer>>
  BY DEF ClearRevisions, Others
<1>2. /\ IsView(view) /\ IsSearch(search) /\ Scalars /\ MaxRevisions \in Nat
  BY ViewportAssumption DEF ViewInv
<1>3. IsView(d) /\ d.revs = <<>>
  <2>1. view \in Choice
    BY <1>2 DEF IsView
  <2>2. <<>> \in Seq(Sources) /\ 0 \in Nat
    OBVIOUS
  <2>3. d \in Choice /\ d.revs = <<>> /\ d.cur = 0
    BY <2>1, <2>2 DEF Choice
  <2> QED
    BY <2>3 DEF IsView
<1>4. IsPaint(d, <<>>)
  BY <1>3 DEF IsPaint
<1>5. Len(d.revs) <= MaxRevisions
  BY <1>2, <1>3
<1> HIDE DEF d
<1>6. Scalars'
  BY <1>1, <1>2 DEF Scalars
<1> QED
  BY <1>1, <1>2, <1>3, <1>4, <1>5, <1>6, RerenderKeeps

\* SetTokens, to any document.
LEMMA SetTokensKeeps ==
    ASSUME ViewInv, NEW s \in Sources, SetTokens(s)
    PROVE  ViewInv'
<1> DEFINE d == [view EXCEPT !.revs = <<s>>, !.cur = 1]
           p == <<Unmarked(s)>>
<1>1. /\ Rerender(d, p, search)
      /\ UNCHANGED <<height, width, hunkContext, wrapEnabled, printer>>
      /\ yOffset' = Clamped(yOffset, MaxYOffset')
  BY DEF SetTokens, Others
<1>2. /\ IsView(view) /\ IsSearch(search) /\ Scalars /\ MaxRevisions \in Nat /\ MaxRevisions >= 1
  BY ViewportAssumption DEF ViewInv
<1>3. d.revs = <<s>> /\ d.cur = 1 /\ d \in Choice
  <2>1. view \in Choice
    BY <1>2 DEF IsView
  <2>2. <<s>> \in Seq(Sources) /\ 1 \in Nat
    OBVIOUS
  <2> QED
    BY <2>1, <2>2 DEF Choice
<1>4. IsView(d)
  BY <1>3 DEF IsView
<1>5. IsPaint(d, p)
  <2>1. Unmarked(s) \in [DOMAIN s -> Mark]
    BY DEF Unmarked, Mark
  <2> QED
    BY <1>3, <2>1 DEF IsPaint
<1>6. Len(d.revs) <= MaxRevisions
  BY <1>2, <1>3
<1> HIDE DEF d, p
<1>7. IsPane(left')
  BY <1>1, <1>2, <1>4, <1>5, RerenderMakes
<1>8. Scalars'
  BY <1>1, <1>2, <1>7, ClampedTyped DEF Scalars
<1> QED
  BY <1>1, <1>2, <1>4, <1>5, <1>6, <1>8, RerenderKeeps

\* The revisions stay as they are, with their overlays, and something is shown of
\* them.
LEMMA ChoiceKeeps ==
    ASSUME ViewInv, NEW c, IsView(c), c.revs = view.revs, NEW s, IsSearch(s),
           Rerender(c, paint, s), Scalars'
    PROVE  ViewInv'
<1>1. IsPaint(c, paint) /\ Len(c.revs) <= MaxRevisions
  BY DEF ViewInv, IsPaint
<1> QED
  BY <1>1, RerenderKeeps

\* GoToRevision, NextRevision and PrevRevision.
LEMMA GoToRevisionKeeps ==
    ASSUME ViewInv, NEW i, GoToRevision(i)
    PROVE  ViewInv'
<1>1. /\ i \in DOMAIN view.revs /\ Rerender([view EXCEPT !.cur = i], paint, search)
      /\ yOffset' = 0 /\ UNCHANGED <<height, width, hunkContext, wrapEnabled, printer>>
  BY DEF GoToRevision, Others
<1>2. IsView(view) /\ IsSearch(search) /\ Scalars
  BY DEF ViewInv
<1>3. IsView([view EXCEPT !.cur = i]) /\ [view EXCEPT !.cur = i].revs = view.revs
  BY <1>1, <1>2, ViewChanged
<1>4. Scalars'
  BY <1>1, <1>2 DEF Scalars
<1> QED
  BY <1>1, <1>2, <1>3, <1>4, ChoiceKeeps

\* SetDiffMode and SetViewMode.
LEMMA SetModeKeeps ==
    ASSUME ViewInv, (\E m \in DiffModes : SetDiffMode(m)) \/ (\E m \in ViewModes : SetViewMode(m))
    PROVE  ViewInv'
<1>1. IsView(view) /\ IsSearch(search) /\ Scalars
  BY DEF ViewInv
<1>2. ASSUME NEW m \in DiffModes, SetDiffMode(m) PROVE ViewInv'
  <2>1. /\ Rerender([view EXCEPT !.diffMode = m], paint, search)
        /\ UNCHANGED <<yOffset, height, width, hunkContext, wrapEnabled, printer>>
    BY <1>2 DEF SetDiffMode, Others
  <2>2. IsView([view EXCEPT !.diffMode = m]) /\ [view EXCEPT !.diffMode = m].revs = view.revs
    BY <1>1, ViewChanged
  <2>3. Scalars'
    BY <1>1, <2>1 DEF Scalars
  <2> QED
    BY <1>1, <2>1, <2>2, <2>3, ChoiceKeeps
<1>3. ASSUME NEW m \in ViewModes, SetViewMode(m) PROVE ViewInv'
  <2>1. /\ Rerender([view EXCEPT !.viewMode = m], paint, search)
        /\ UNCHANGED <<yOffset, height, width, hunkContext, wrapEnabled, printer>>
    BY <1>3 DEF SetViewMode, Others
  <2>2. IsView([view EXCEPT !.viewMode = m]) /\ [view EXCEPT !.viewMode = m].revs = view.revs
    BY <1>1, ViewChanged
  <2>3. Scalars'
    BY <1>1, <2>1 DEF Scalars
  <2> QED
    BY <1>1, <2>1, <2>2, <2>3, ChoiceKeeps
<1> QED
  BY <1>2, <1>3

\* A search for a term, or for none.
LEMMA SetSearchTermKeeps ==
    ASSUME ViewInv, NEW t \in Terms \cup {NoTerm}, SetSearchTerm(t)
    PROVE  ViewInv'
<1> DEFINE c == [view EXCEPT !.term = t]
<1>1. /\ Rerender(c, paint, search) /\ ScrollToMatch
      /\ UNCHANGED <<height, width, hunkContext, wrapEnabled, printer>>
  BY DEF SetSearchTerm, Others
<1>2. IsView(view) /\ IsSearch(search) /\ Scalars /\ IsPaint(view, paint)
  BY DEF ViewInv
<1>3. IsView(c) /\ c.revs = view.revs
  BY <1>2, ViewChanged
<1> HIDE DEF c
<1>4. IsPane(left') /\ IsSearch(search')
  <2>1. IsPaint(c, paint)
    BY <1>2, <1>3 DEF IsPaint
  <2> QED
    BY <1>1, <1>2, <1>3, <2>1, RerenderMakes
<1>5. Scalars'
  <2>1. yOffset' \in Nat
    BY <1>1, <1>2, <1>4, ScrollTyped DEF Scalars
  <2> QED
    BY <1>1, <1>2, <2>1 DEF Scalars
<1> QED
  BY <1>1, <1>2, <1>3, <1>5, ChoiceKeeps

\* ClearSearch forgets the index, too.
LEMMA ClearSearchKeeps ==
    ASSUME ViewInv, ClearSearch
    PROVE  ViewInv'
<1> DEFINE c == [view EXCEPT !.term = NoTerm]  s == [search EXCEPT !.matches = {}, !.index = -1]
<1>1. /\ Rerender(c, paint, s)
      /\ UNCHANGED <<yOffset, height, width, hunkContext, wrapEnabled, printer>>
  BY DEF ClearSearch, Others
<1>2. IsView(view) /\ IsSearch(search) /\ Scalars
  BY DEF ViewInv
<1>3. IsView(c) /\ c.revs = view.revs
  BY <1>2, ViewChanged
<1>4. IsSearch(s)
  <2>1. {} \in SUBSET Match /\ IsFiniteSet({}) /\ -1 \in Int
    BY FS_EmptySet
  <2>2. search \in [matches : SUBSET Match, index : Int]
    BY <1>2 DEF IsSearch
  <2>3. s \in [matches : SUBSET Match, index : Int] /\ s.matches = {}
    BY <2>1, <2>2
  <2> HIDE DEF s
  <2> QED
    BY <2>1, <2>3 DEF IsSearch
<1>5. Scalars'
  BY <1>1, <1>2 DEF Scalars
<1> HIDE DEF c, s
<1> QED
  BY <1>1, <1>3, <1>4, <1>5, ChoiceKeeps

-----------------------------------------------------------------------------
(* The printer.                                                            *)

\* A width for the printer, which is shown at once if lines are wrapped to it.
LEMMA WidenKeeps ==
    ASSUME ViewInv, NEW w \in Nat, Widen(w), yOffset' \in Nat, height' \in Nat,
           UNCHANGED <<hunkContext, wrapEnabled>>
    PROVE  ViewInv'
<1>1. IsView(view) /\ IsSearch(search) /\ Scalars
  BY DEF ViewInv
<1>2. width' = w /\ printer' = IF w = width THEN printer ELSE [printer EXCEPT !.width = w]
  BY DEF Widen
<1>3. printer' \in [width : Nat, wrap : BOOLEAN]
  BY <1>1, <1>2 DEF Scalars
<1>4. Scalars'
  BY <1>1, <1>2, <1>3 DEF Scalars
<1>5. CASE Rerender(view, paint, search)
  BY <1>1, <1>4, <1>5, ChoiceKeeps
<1>6. CASE UNCHANGED <<view, paint, diffResult, left, right, search>>
  BY <1>4, <1>6, ScalarsKeep
<1> QED
  BY <1>5, <1>6 DEF Widen

\* A new printer.
LEMMA SetPrinterKeeps ==
    ASSUME ViewInv, SetPrinter
    PROVE  ViewInv'
<1>1. IsView(view) /\ IsSearch(search) /\ Scalars
  BY DEF ViewInv
<1>2. Rerender(view, paint, search)
  BY DEF SetPrinter
<1>3. Scalars'
  BY <1>1 DEF Scalars, SetPrinter
<1> QED
  BY <1>1, <1>2, <1>3, ChoiceKeeps

\* The word wrap.
LEMMA ToggleWordWrapKeeps ==
    ASSUME ViewInv, ToggleWordWrap
    PROVE  ViewInv'
<1>1. IsView(view) /\ IsSearch(search) /\ Scalars
  BY DEF ViewInv
<1>2. Rerender(view, paint, search)
  BY DEF ToggleWordWrap
<1>3. Scalars'
  <2>1. wrapEnabled' \in BOOLEAN /\ printer' = [printer EXCEPT !.wrap = wrapEnabled']
    BY DEF ToggleWordWrap
  <2>2. printer' \in [width : Nat, wrap : BOOLEAN]
    BY <1>1, <2>1 DEF Scalars
  <2> QED
    BY <1>1, <2>1, <2>2 DEF Scalars, ToggleWordWrap
<1> QED
  BY <1>1, <1>2, <1>3, ChoiceKeeps

-----------------------------------------------------------------------------
(* SearchNext and SearchPrevious, which paint without a rerender.           *)

\* Overlays depend on the lines of a pane, not on its overlays.
LEMMA OverlaidByLines ==
    ASSUME NEW c, NEW s, NEW q, NEW l, NEW r,
           NEW q2, q2.lines = q.lines, NEW l2, l2.lines = l.lines, NEW r2, r2.lines = r.lines
    PROVE  /\ Overlaid(q2, s) = Overlaid(q, s)
           /\ Hits(c, q2) = Hits(c, q)
           /\ BothOverlaid(c, l2, r2, s) = BothOverlaid(c, l, r, s)
<1>1. Overlaid(q2, s) = Overlaid(q, s)
  BY DEF Overlaid
<1>2. Hits(c, q2) = Hits(c, q) /\ Hits(c, l2) = Hits(c, l) /\ Hits(c, r2) = Hits(c, r)
  BY DEF Hits
<1>3. Unmarked(l2.lines) = Unmarked(l.lines) /\ Unmarked(r2.lines) = Unmarked(r.lines)
  BY DEF Unmarked
<1>4. \A hits, row, shown : /\ PaneOverlaid(l2, hits, row, shown) = PaneOverlaid(l, hits, row, shown)
                           /\ PaneOverlaid(r2, hits, row, shown) = PaneOverlaid(r, hits, row, shown)
  BY DEF PaneOverlaid
<1>5. BothOverlaid(c, l2, r2, s) = BothOverlaid(c, l, r, s)
  BY <1>2, <1>3, <1>4 DEF BothOverlaid
<1> QED
  BY <1>1, <1>2, <1>5

\* The index moves in a circle.
LEMMA IndexMoves ==
    ASSUME NEW s, IsSearch(s), s.matches # {}, NEW delta \in Int,
           NEW n, n = Cardinality(s.matches), NEW i, i = (s.index + delta + n) % n,
           NEW t, t = [s EXCEPT !.index = i]
    PROVE  /\ t = [matches |-> s.matches, index |-> i] /\ IsSearch(t)
           /\ i \in 0 .. Cardinality(t.matches) - 1
<1>1. n \in Nat /\ n > 0
  BY FS_CardinalityType, FS_EmptySet DEF IsSearch
<1>2. s.index \in Int /\ s.matches \in SUBSET Match /\ IsFiniteSet(s.matches)
  BY DEF IsSearch
<1>3. i \in 0 .. n - 1
  BY <1>1, <1>2
<1>4. t = [matches |-> s.matches, index |-> i]
  BY DEF IsSearch
<1>5. i \in Int
  BY <1>1, <1>3
<1> QED
  BY <1>2, <1>3, <1>4, <1>5 DEF IsSearch

\* What navigating paints is what rerender would paint of the index it moves to.
LEMMA NavigateShows ==
    ASSUME ViewInv, NEW delta \in Int, Navigate(delta)
    PROVE  /\ IsSearch(search') /\ IsPaint(view, paint')
           /\ NeedsDiff(view) => paint' = paint
           /\ Shown(view, paint', search') = [left |-> left', right |-> right', search |-> search',
                                             paint |-> paint']
<1> DEFINE n == Cardinality(search.matches)
           t == search'
           i == (search.index + delta + n) % n
<1>1. search.matches # {} /\ t = [search EXCEPT !.index = i] /\ view' = view
  BY DEF Navigate
<1>2. IsView(view) /\ IsPaint(view, paint) /\ IsSearch(search)
      /\ Shown(view, paint, search) = [left |-> left, right |-> right, search |-> search,
                                       paint |-> paint]
  BY DEF ViewInv, RedrawStable
<1>3. /\ t = [matches |-> search.matches, index |-> i] /\ IsSearch(t)
      /\ i \in 0 .. Cardinality(t.matches) - 1
  BY <1>1, <1>2, IndexMoves
<1>4. t.matches = search.matches /\ t.index = i /\ t.index \in Int /\ IsFiniteSet(t.matches)
  BY <1>3 DEF IsSearch
<1>5. Settled(t.index, t.matches) = t.index
  BY <1>1, <1>3, <1>4, SettledInRange
<1>6. t = [matches |-> t.matches, index |-> t.index]
  BY <1>3, <1>4
<1> HIDE DEF t, i, n
<1>7. CASE view.cur = 0
  <2>1. Shown(view, paint, search) = [left |-> Nil, right |-> Nil, search |-> search, paint |-> paint]
    BY <1>2, <1>7, ShownCases DEF ShowNothing
  <2>2. left = Nil /\ right = Nil /\ left.rev = -1
    BY <1>2, <2>1 DEF Nil, Pane
  <2>3. left' = left /\ paint' = paint /\ right' = right
    BY <2>2 DEF Navigate
  <2>4. Shown(view, paint, t) = [left |-> Nil, right |-> Nil, search |-> t, paint |-> paint]
    BY <1>2, <1>7, ShownCases DEF ShowNothing
  <2> QED
    BY <1>2, <1>3, <2>2, <2>3, <2>4 DEF t
<1>8. CASE view.cur # 0 /\ ~IsSplit(view)
  <2> DEFINE q == OnePane(view, paint)  ms == MatchesAt(Hits(view, q), FALSE)
             marks == Overlaid(q, t)
  <2>1. /\ IsPane(q) /\ q.rev = IF NeedsDiff(view) THEN 0 ELSE view.cur
        /\ ~NeedsDiff(view) => DOMAIN q.lines = DOMAIN view.revs[view.cur]
    BY <1>2, <1>8, OnePaneTyped
  <2>2. Shown(view, paint, search) = ShowOne(view, q, paint, search)
    BY <1>2, <1>8, ShownCases
  <2>3. right = Nil /\ search = Searched(view, q, search)
    BY <1>2, <2>2, ShowOneIs
  <2>4. view.term # NoTerm /\ search.matches = ms
    <3>1. search = IF view.term = NoTerm THEN [matches |-> {}, index |-> search.index]
                   ELSE [matches |-> ms, index |-> Settled(search.index, ms)]
      BY <2>3, SearchedIs
    <3> HIDE DEF ms
    <3> QED
      BY <1>1, <3>1
  <2>5. Searched(view, q, t) = t
    BY <1>4, <1>5, <1>6, <2>4, SearchedIs
  <2>6. /\ left' = IF left.rev = 0 THEN [left EXCEPT !.marks = Overlaid(left, t)] ELSE left
        /\ paint' = IF left.rev > 0 THEN [paint EXCEPT ![left.rev] = Overlaid(left, t)] ELSE paint
        /\ right' = right
    BY <2>3 DEF Navigate, t
  <2>7. \A p : Shown(view, p, t) = ShowOne(view, OnePane(view, p), p, t)
    BY <1>2, <1>8, ShownCases
  <2>8. view.cur \in Nat /\ view.cur > 0 /\ view.cur \in DOMAIN view.revs
    BY <1>2, <1>8, RevisionShown
  <2>9. CASE NeedsDiff(view)
    <3> DEFINE old == Overlaid(q, search)
    <3>1. left = [q EXCEPT !.marks = old]
      BY <1>2, <2>1, <2>2, <2>3, <2>9, ShowOneIs
    <3> HIDE DEF q, old
    <3>2. left = Pane(q.rev, q.lines, old) /\ left.lines = q.lines /\ left.rev = 0
      BY <2>1, <2>9, <3>1, Remarked
    <3>3. Overlaid(left, t) = marks
      BY <3>2, OverlaidByLines
    <3>4. left' = [left EXCEPT !.marks = marks] /\ paint' = paint
      BY <2>6, <3>2, <3>3
    <3>5. left' = Pane(q.rev, q.lines, marks)
      BY <3>2, <3>4 DEF Pane
    <3>6. left' = [q EXCEPT !.marks = marks]
      BY <2>1, <3>5, Remarked
    <3>7. Shown(view, paint, t) = [left |-> [q EXCEPT !.marks = marks], right |-> Nil, search |-> t,
                                   paint |-> paint]
      BY <2>1, <2>5, <2>7, <2>9, ShowOneIs DEF q
    <3> QED
      BY <1>2, <1>3, <2>3, <2>6, <3>4, <3>6, <3>7 DEF t
  <2>10. CASE ~NeedsDiff(view)
    <3>1. left = q
      BY <1>2, <1>8, <2>1, <2>2, <2>10, ShowOneIs
    <3>2. q.rev = view.cur /\ left.rev # 0 /\ left.rev > 0
      BY <2>1, <2>8, <2>10, <3>1
    <3>3. left' = q /\ paint' = [paint EXCEPT ![q.rev] = marks] /\ right' = Nil
      BY <2>3, <2>6, <3>1, <3>2
    <3>4. \A p : OnePane(view, p) = q
      BY <2>10 DEF OnePane
    <3>5. marks \in [DOMAIN view.revs[view.cur] -> Mark]
      BY <2>1, <2>10, OverlaidTyped
    <3> HIDE DEF q, marks
    <3>6. IsPaint(view, paint')
      BY <1>2, <2>8, <3>2, <3>3, <3>5 DEF IsPaint
    <3>7. [paint' EXCEPT ![q.rev] = marks] = paint'
      BY <3>3
    <3>8. Shown(view, paint', t) = [left |-> q, right |-> Nil, search |-> t,
                                    paint |-> [paint' EXCEPT ![q.rev] = marks]]
      BY <1>8, <2>5, <2>7, <3>2, <3>4, ShowOneIs DEF marks
    <3> QED
      BY <1>3, <2>10, <3>3, <3>6, <3>7, <3>8 DEF t
  <2> QED
    BY <2>9, <2>10
<1>9. CASE IsSplit(view)
  <2> DEFINE l == LeftOf(view, paint)  r == RightOf(view, paint)
             old == BothMarks(view, l, r, search)  marks == BothOverlaid(view, l, r, t)
             ms == Combined(l, Hits(view, l), Hits(view, r))
  <2>1. IsPane(l) /\ IsPane(r) /\ l.rev = 0 /\ r.rev = 0
    BY <1>2, <1>9, TwoPanesTyped DEF IsSplit
  <2>2. \A s : Shown(view, paint, s) = ShowPanes(view, FreshDiff(view, paint), paint, s)
    BY <1>2, <1>9, ShownCases
  <2>3. search = SearchedBoth(view, l, r, search)
    BY <1>2, <2>2, ShowPanesIs
  <2>4. view.term # NoTerm /\ search.matches = ms
    BY <1>1, <2>3, SearchedBothIs
  <2>5. SearchedBoth(view, l, r, t) = t
    BY <1>4, <1>5, <1>6, <2>4, SearchedBothIs
  <2>6. left = [l EXCEPT !.marks = old[1]] /\ right = [r EXCEPT !.marks = old[2]]
    BY <1>2, <2>2, <2>3, ShowPanesIs
  <2>7. Shown(view, paint, t) = [left |-> [l EXCEPT !.marks = BothMarks(view, l, r, t)[1]],
                                 right |-> [r EXCEPT !.marks = BothMarks(view, l, r, t)[2]],
                                 search |-> t, paint |-> paint]
    BY <2>2, <2>5, ShowPanesIs
  <2> HIDE DEF l, r, old, ms
  <2>8. BothMarks(view, l, r, t) = marks
    BY <2>4 DEF BothMarks
  <2>9. /\ left = Pane(0, l.lines, old[1]) /\ left.lines = l.lines
        /\ right = Pane(0, r.lines, old[2]) /\ right.lines = r.lines /\ right.rev = 0
    BY <2>1, <2>6, Remarked
  <2>10. right # Nil
    BY <2>9 DEF Nil, Pane
  <2>11. BothOverlaid(view, left, right, t) = marks
    BY <2>9, OverlaidByLines
  <2>12. view.viewMode = "sideBySide" /\ NeedsDiff(view)
    BY <1>9 DEF IsSplit
  <2>13. /\ left' = [left EXCEPT !.marks = marks[1]] /\ right' = [right EXCEPT !.marks = marks[2]]
         /\ paint' = paint
    BY <2>10, <2>11, <2>12 DEF Navigate, t
  <2> HIDE DEF marks
  <2>14. left' = Pane(0, l.lines, marks[1]) /\ right' = Pane(0, r.lines, marks[2])
    BY <2>9, <2>13 DEF Pane
  <2>15. left' = [l EXCEPT !.marks = marks[1]] /\ right' = [r EXCEPT !.marks = marks[2]]
    BY <2>1, <2>14, Remarked
  <2> QED
    BY <1>2, <1>3, <2>7, <2>8, <2>13, <2>15 DEF t
<1> QED
  BY <1>7, <1>8, <1>9

\* SearchNext, SearchPrevious, and steps of any other size.
LEMMA NavigateKeeps ==
    ASSUME ViewInv, NEW delta \in Int, Navigate(delta)
    PROVE  ViewInv'
<1>1. /\ view' = view /\ diffResult' = diffResult /\ ScrollToMatch
      /\ UNCHANGED <<height, width, hunkContext, wrapEnabled, printer>>
  BY DEF Navigate, Others
<1>2. IsView(view) /\ IsPaint(view, paint) /\ Len(view.revs) <= MaxRevisions /\ Scalars
  BY DEF ViewInv
<1>3. /\ IsSearch(search') /\ IsPaint(view, paint')
      /\ NeedsDiff(view) => paint' = paint
      /\ Shown(view, paint', search') = [left |-> left', right |-> right', search |-> search',
                                        paint |-> paint']
  BY NavigateShows
<1>4. IsPane(left')
  <2>1. Shown(view, paint', search').left = left'
    BY <1>3
  <2> QED
    BY <1>2, <1>3, <2>1, ShownTyped
<1>5. Scalars'
  <2>1. yOffset' \in Nat
    BY <1>1, <1>2, <1>3, <1>4, ScrollTyped DEF Scalars
  <2> QED
    BY <1>1, <1>2, <2>1 DEF Scalars
<1>6. RedrawStable'
  BY <1>1, <1>3 DEF RedrawStable
<1>7. diffResult' = IF NeedsDiff(view) THEN FreshDiff(view, paint') ELSE NoDiff
  <2>1. diffResult = IF NeedsDiff(view) THEN FreshDiff(view, paint) ELSE NoDiff
    BY DEF ViewInv
  <2> QED
    BY <1>1, <1>3, <2>1
<1> QED
  BY <1>1, <1>2, <1>3, <1>5, <1>6, <1>7 DEF ViewInv

\* A call, with whatever its caller has a right to give it.
Call ==
    \/ Settings
    \/ \E s \in Sources : AddRevision(s) \/ SetTokens(s)
    \/ ClearRevisions
    \/ \E i : GoToRevision(i)
    \/ \E m \in DiffModes : SetDiffMode(m)
    \/ \E m \in ViewModes : SetViewMode(m)
    \/ \E t \in Terms : SetSearchTerm(t)
    \/ ClearSearch
    \/ \E delta \in Int : Navigate(delta)
    \/ \E w \in Nat : /\ Widen(w) /\ yOffset' \in Nat /\ height' \in Nat
                      /\ UNCHANGED <<hunkContext, wrapEnabled>>
    \/ SetPrinter \/ ToggleWordWrap

\* Every call keeps the invariant.
LEMMA CallKeeps ==
    ASSUME ViewInv, Call
    PROVE  ViewInv'
<1>1. CASE Settings
  BY <1>1, ScalarsKeep DEF Settings
<1>2. CASE (\E s \in Sources : AddRevision(s) \/ SetTokens(s)) \/ ClearRevisions
  BY <1>2, AddRevisionKeeps, SetTokensKeeps, ClearRevisionsKeeps
<1>3. CASE \E i : GoToRevision(i)
  BY <1>3, GoToRevisionKeeps
<1>4. CASE (\E m \in DiffModes : SetDiffMode(m)) \/ (\E m \in ViewModes : SetViewMode(m))
  BY <1>4, SetModeKeeps
<1>5. CASE (\E t \in Terms : SetSearchTerm(t)) \/ ClearSearch
  BY <1>5, SetSearchTermKeeps, ClearSearchKeeps
<1>6. CASE \E delta \in Int : Navigate(delta)
  BY <1>6, NavigateKeeps
<1>7. CASE \E w \in Nat : /\ Widen(w) /\ yOffset' \in Nat /\ height' \in Nat
                          /\ UNCHANGED <<hunkContext, wrapEnabled>>
  BY <1>7, WidenKeeps
<1>8. CASE SetPrinter \/ ToggleWordWrap
  BY <1>8, SetPrinterKeeps, ToggleWordWrapKeeps
<1> QED
  BY <1>1, <1>2, <1>3, <1>4, <1>5, <1>6, <1>7, <1>8 DEF Call

\* Every step is one.
LEMMA StepIsCall ==
    ASSUME ViewInv, [Next]_vars
    PROVE  Call
<1>1. CASE Browse
  <2>1. CASE Navigate(1) \/ Navigate(-1)
    <3>1. 1 \in Int /\ -1 \in Int
      OBVIOUS
    <3> QED
      BY <2>1, <3>1 DEF Call
  <2>2. CASE \E n \in {1, height, height \div 2} : ScrollDown(n) \/ ScrollUp(n)
    <3>1. \A n \in {1, height, height \div 2} : n \in Int
      BY DEF ViewInv, Scalars
    <3>2. Settings
      BY <2>2, <3>1, ScrollSets
    <3> QED
      BY <3>2 DEF Call
  <2>3. CASE Goto
    <3>1. Settings
      BY <2>3, GotoSets
    <3> QED
      BY <3>1 DEF Call
  <2>4. CASE (\E n \in Contexts : SetHunkContext(n)) \/ (\E h \in Heights : SetHeight(h))
    <3>1. Settings
      BY <2>4, PrintingSets
    <3> QED
      BY <3>1 DEF Call
  <2> QED
    BY <1>1, <2>1, <2>2, <2>3, <2>4 DEF Browse, Call
<1>2. CASE Printing
  <2>1. ASSUME NEW w \in Widths, SetWidth(w) PROVE Call
    <3>1. w \in Nat
      BY ViewportAssumption
    <3>2. /\ Widen(w) /\ yOffset' \in Nat /\ height' \in Nat
          /\ UNCHANGED <<hunkContext, wrapEnabled>>
      BY <2>1 DEF SetWidth, ViewInv, Scalars
    <3> QED
      BY <3>1, <3>2 DEF Call
  <2>2. CASE View
    <3>1. Settings
      BY <2>2, PrintingSets
    <3> QED
      BY <3>1 DEF Call
  <2> QED
    BY <1>2, <2>1, <2>2 DEF Printing, Call
<1>3. CASE UNCHANGED vars
  BY <1>3 DEF vars, ViewInv, Scalars, Settings, Call
<1> QED
  BY <1>1, <1>2, <1>3 DEF Next

-----------------------------------------------------------------------------
(* What the invariant says of the panes.                                   *)

\* Without a revision there is nothing.
LEMMA NothingShown ==
    ASSUME ViewInv, view.cur = 0
    PROVE  left = Nil /\ right = Nil
<1>1. Shown(view, paint, search) = ShowNothing(paint, search)
  BY ShownCases DEF ViewInv
<1> QED
  BY <1>1 DEF ViewInv, RedrawStable, ShowNothing

\* One pane, with the overlays of its search.
LEMMA OneShown ==
    ASSUME ViewInv, view.cur # 0, ~IsSplit(view), NEW q, q = OnePane(view, paint)
    PROVE  /\ IsPane(q) /\ IsPane(left) /\ right = Nil /\ left # Nil
           /\ left.lines = q.lines /\ Marks(left) = Overlaid(q, search)
           /\ search = Searched(view, q, search)
<1>1. /\ IsView(view) /\ IsPaint(view, paint)
      /\ Shown(view, paint, search) = [left |-> left, right |-> right, search |-> search,
                                       paint |-> paint]
  BY DEF ViewInv, RedrawStable
<1>2. IsPane(q) /\ q.rev = IF NeedsDiff(view) THEN 0 ELSE view.cur
  BY <1>1, OnePaneTyped
<1>3. Shown(view, paint, search) = ShowOne(view, q, paint, search)
  BY <1>1, ShownCases
<1>4. right = Nil /\ search = Searched(view, q, search)
  BY <1>1, <1>3, ShowOneIs
<1>5. view.cur \in Nat /\ view.cur > 0 /\ view.cur \in DOMAIN paint
  BY <1>1, RevisionShown DEF IsPaint
<1>6. left.lines = q.lines /\ left.rev = q.rev /\ Marks(left) = Overlaid(q, search)
  <2>1. CASE NeedsDiff(view)
    <3>1. left = [q EXCEPT !.marks = Overlaid(q, search)]
      BY <1>1, <1>2, <1>3, <1>4, <2>1, ShowOneIs
    <3>2. left.lines = q.lines /\ left.rev = 0 /\ left.marks = Overlaid(q, search)
      BY <1>2, <2>1, <3>1, Remarked
    <3> QED
      BY <1>2, <2>1, <3>2 DEF Marks
  <2>2. CASE ~NeedsDiff(view)
    <3>1. left = q /\ paint = [paint EXCEPT ![q.rev] = Overlaid(q, search)]
      BY <1>1, <1>2, <1>3, <1>4, <2>2, ShowOneIs
    <3>2. paint[view.cur] = Overlaid(q, search)
      BY <1>2, <1>5, <2>2, <3>1
    <3> QED
      BY <1>2, <1>5, <2>2, <3>1, <3>2 DEF Marks
  <2> QED
    BY <2>1, <2>2
<1>7. left.rev >= 0
  BY <1>2, <1>5, <1>6
<1>8. left # Nil
  BY <1>7 DEF Nil, Pane
<1> QED
  BY <1>2, <1>4, <1>6, <1>8, LeftTyped

\* Two panes, with as many lines and the overlays of their search.
LEMMA TwoShown ==
    ASSUME ViewInv, IsSplit(view), NEW l, l = LeftOf(view, paint), NEW r, r = RightOf(view, paint)
    PROVE  /\ IsPane(l) /\ IsPane(r) /\ DOMAIN l.lines = DOMAIN r.lines
           /\ IsPane(left) /\ left # Nil /\ right # Nil
           /\ left.lines = l.lines /\ right.lines = r.lines
           /\ Marks(left) = BothMarks(view, l, r, search)[1]
           /\ Marks(right) = BothMarks(view, l, r, search)[2]
           /\ search = SearchedBoth(view, l, r, search)
<1>1. /\ IsView(view)
      /\ Shown(view, paint, search) = [left |-> left, right |-> right, search |-> search,
                                       paint |-> paint]
  BY DEF ViewInv, RedrawStable
<1>2. /\ IsPane(l) /\ l.rev = 0 /\ IsPane(r) /\ r.rev = 0
      /\ DOMAIN l.lines = DOMAIN r.lines
  BY <1>1, TwoPanesTyped DEF IsSplit
<1>3. Shown(view, paint, search) = ShowPanes(view, FreshDiff(view, paint), paint, search)
  BY <1>1, ShownCases
<1>4. search = SearchedBoth(view, l, r, search)
  BY <1>1, <1>3, ShowPanesIs
<1> DEFINE marks == BothMarks(view, l, r, search)
<1>5. left = [l EXCEPT !.marks = marks[1]] /\ right = [r EXCEPT !.marks = marks[2]]
  BY <1>1, <1>3, <1>4, ShowPanesIs
<1> HIDE DEF marks
<1>6. /\ left.lines = l.lines /\ left.rev = 0 /\ left.marks = marks[1]
      /\ right.lines = r.lines /\ right.rev = 0 /\ right.marks = marks[2]
  BY <1>2, <1>5, Remarked
<1>7. left # Nil /\ right # Nil
  BY <1>6 DEF Nil, Pane
<1>8. Marks(left) = marks[1] /\ Marks(right) = marks[2]
  BY <1>6 DEF Marks
<1> QED
  BY <1>2, <1>4, <1>6, <1>7, <1>8, LeftTyped DEF marks

\* A match is at a line that is shown.
LEMMA MatchInPane ==
    ASSUME ViewInv, left # Nil, NEW m \in search.matches
    PROVE  m.row \in 1 .. Len(left.lines) /\ Len(left.lines) \in Nat
<1>1. view.cur # 0
  BY NothingShown
<1>2. CASE ~IsSplit(view)
  <2> DEFINE q == OnePane(view, paint)
  <2>1. IsPane(q) /\ left.lines = q.lines /\ search = Searched(view, q, search)
    BY <1>1, <1>2, OneShown
  <2> HIDE DEF q
  <2>2. search.matches = {} \/ search.matches = MatchesAt(Hits(view, q), FALSE)
    <3> DEFINE ms == MatchesAt(Hits(view, q), FALSE)
    <3>1. search = IF view.term = NoTerm THEN [matches |-> {}, index |-> search.index]
                   ELSE [matches |-> ms, index |-> Settled(search.index, ms)]
      BY <2>1, SearchedIs
    <3> HIDE DEF ms
    <3>2. search.matches = {} \/ search.matches = ms
      BY <3>1
    <3> QED
      BY <3>2 DEF ms
  <2>3. m.row \in Hits(view, q)
    <3> DEFINE rows == Hits(view, q)
    <3>1. m \in MatchesAt(rows, FALSE)
      BY <2>2
    <3> HIDE DEF rows
    <3>2. m.row \in rows
      BY <3>1, MatchAt
    <3> QED
      BY <3>2 DEF rows
  <2>4. m.row \in DOMAIN q.lines
    BY <2>1, <2>3, HitsCounted
  <2> QED
    BY <2>1, <2>4 DEF IsPane
<1>3. CASE IsSplit(view)
  <2> DEFINE l == LeftOf(view, paint)  r == RightOf(view, paint)
             inR == OnlyRight(l, Hits(view, l), Hits(view, r))
  <2>1. /\ IsPane(l) /\ IsPane(r) /\ DOMAIN l.lines = DOMAIN r.lines
        /\ left.lines = l.lines /\ search = SearchedBoth(view, l, r, search)
    BY <1>3, TwoShown
  <2>2. search.matches = {} \/ search.matches = MatchesAt(Hits(view, l), TRUE) \cup MatchesAt(inR, FALSE)
    <3> DEFINE ms == Combined(l, Hits(view, l), Hits(view, r))
    <3>1. search = IF view.term = NoTerm THEN [matches |-> {}, index |-> search.index]
                   ELSE [matches |-> ms, index |-> Settled(search.index, ms)]
      BY <2>1, SearchedBothIs
    <3>2. ms = MatchesAt(Hits(view, l), TRUE) \cup MatchesAt(inR, FALSE)
      BY CombinedIs
    <3> HIDE DEF ms, inR, l, r
    <3>3. search.matches = {} \/ search.matches = ms
      BY <3>1
    <3> QED
      BY <3>2, <3>3
  <2>3. inR \subseteq Hits(view, r)
    BY DEF OnlyRight
  <2> HIDE DEF l, r, inR
  <2>4. m.row \in Hits(view, l) \/ m.row \in Hits(view, r)
    BY <2>2, <2>3, MatchAt
  <2>5. m.row \in DOMAIN l.lines
    BY <2>1, <2>4, HitsCounted
  <2> QED
    BY <2>1, <2>5 DEF IsPane
<1> QED
  BY <1>2, <1>3

\* The matches are at lines that are shown.
MatchesInPane ==
    left # Nil => \A m \in search.matches :
                      m.row \in 1 .. Len(left.lines) /\ Len(left.lines) \in Nat

\* So they are in the state after a call, too.
LEMMA MatchesInPaneNext == ViewInv' => MatchesInPane'
<1>1. ViewInv => MatchesInPane
  BY MatchInPane DEF MatchesInPane
<1> QED
  BY <1>1, PTL

\* And there is a pane to scroll.
LEMMA LeftTypedNext == ViewInv' => IsPane(left)'
<1>1. ViewInv => IsPane(left)
  BY LeftTyped
<1> QED
  BY <1>1, PTL

-----------------------------------------------------------------------------
(* What is highlighted.                                                    *)

\* The matches of a search that is up to date: in one pane,
LEMMA MatchesOfOne ==
    ASSUME NEW c, NEW q, IsPane(q), NEW s, IsSearch(s), s = Searched(c, q, s)
    PROVE  /\ s.matches = IF c.term = NoTerm THEN {} ELSE MatchesAt(Hits(c, q), FALSE)
           /\ c.term # NoTerm => s.index = Settled(s.index, s.matches)
<1> DEFINE ms == MatchesAt(Hits(c, q), FALSE)
<1>1. s = IF c.term = NoTerm THEN [matches |-> {}, index |-> s.index]
          ELSE [matches |-> ms, index |-> Settled(s.index, ms)]
  BY SearchedIs
<1> HIDE DEF ms
<1>2. CASE c.term = NoTerm
  BY <1>1, <1>2
<1>3. CASE c.term # NoTerm
  <2>1. s.matches = ms /\ s.index = Settled(s.index, ms)
    BY <1>1, <1>3
  <2> QED
    BY <1>3, <2>1 DEF ms
<1> QED
  BY <1>2, <1>3

\* and in two.
LEMMA MatchesOfTwo ==
    ASSUME NEW c, NEW l, NEW r, NEW s, s = SearchedBoth(c, l, r, s)
    PROVE  /\ s.matches = IF c.term = NoTerm THEN {} ELSE Combined(l, Hits(c, l), Hits(c, r))
           /\ c.term # NoTerm => s.index = Settled(s.index, s.matches)
<1> DEFINE ms == Combined(l, Hits(c, l), Hits(c, r))
<1>1. s = IF c.term = NoTerm THEN [matches |-> {}, index |-> s.index]
          ELSE [matches |-> ms, index |-> Settled(s.index, ms)]
  BY SearchedBothIs
<1> HIDE DEF ms
<1>2. CASE c.term = NoTerm
  BY <1>1, <1>2
<1>3. CASE c.term # NoTerm
  <2>1. s.matches = ms /\ s.index = Settled(s.index, ms)
    BY <1>1, <1>3
  <2> QED
    BY <1>3, <2>1 DEF ms
<1> QED
  BY <1>2, <1>3

\* An index that has settled is that of a match.
LEMMA IndexInRange ==
    ASSUME NEW s, IsSearch(s), s.index = Settled(s.index, s.matches)
    PROVE  s.index \in IF s.matches = {} THEN {-1} ELSE 0 .. Cardinality(s.matches) - 1
<1> DEFINE i == Settled(s.index, s.matches)
           range == IF s.matches = {} THEN {-1} ELSE 0 .. Cardinality(s.matches) - 1
<1>1. IsFiniteSet(s.matches) /\ s.index \in Int
  BY DEF IsSearch
<1>2. i \in range
  BY <1>1, SettledInRange
<1>3. s.index = i
  OBVIOUS
<1> HIDE DEF i, range
<1>4. s.index \in range
  BY <1>2, <1>3
<1> QED
  BY <1>4 DEF range

\* A search with matches has one current match, one without has none.
LEMMA OneCurrent ==
    ASSUME NEW s, IsSearch(s), s.matches # {} => s.index = Settled(s.index, s.matches)
    PROVE  /\ s.matches = {} => Current(s) = {}
           /\ s.matches # {} => /\ Current(s) = {CHOOSE m \in Current(s) : TRUE}
                                /\ (CHOOSE m \in Current(s) : TRUE) \in s.matches
<1>1. s.matches = {} => Current(s) = {}
  BY DEF Current
<1>2. ASSUME s.matches # {}
      PROVE  /\ Current(s) = {CHOOSE m \in Current(s) : TRUE}
             /\ (CHOOSE m \in Current(s) : TRUE) \in s.matches
  <2>1. IsFiniteSet(s.matches) /\ s.index \in Int
    BY DEF IsSearch
  <2>2. s.index \in 0 .. Cardinality(s.matches) - 1
    BY <1>2, <2>1, SettledInRange
  <2>3. Current(s) # {}
    BY <2>2, CurrentExists
  <2> DEFINE m == CHOOSE k \in Current(s) : TRUE
  <2>4. m \in Current(s)
    BY <2>3
  <2> HIDE DEF m
  <2>5. Current(s) = {m}
    BY <2>4, CurrentUnique
  <2> QED
    BY <2>4, <2>5, CurrentTyped DEF m
<1> QED
  BY <1>1, <1>2

\* One pane: the lines with the term, and of these the current match.
LEMMA OneHighlighted ==
    ASSUME NEW c, NEW q, IsPane(q), NEW s, IsSearch(s), s = Searched(c, q, s),
           NEW marks, marks = Overlaid(q, s)
    PROVE  /\ \A k \in DOMAIN q.lines :
                 marks[k] # "none" <=> c.term # NoTerm /\ q.lines[k].text \in Contains[c.term]
           /\ Cardinality({k \in DOMAIN q.lines : marks[k] = "current"}) =
                 IF s.matches = {} THEN 0 ELSE 1
           /\ \A m \in Current(s) : marks[m.row] = "current"
<1> DEFINE rows == {m.row : m \in s.matches}
           current == {m.row : m \in Current(s)}
           lit == {k \in DOMAIN q.lines : marks[k] = "current"}
<1>1. s.matches = IF c.term = NoTerm THEN {} ELSE MatchesAt(Hits(c, q), FALSE)
  BY MatchesOfOne
<1>2. c.term # NoTerm => s.index = Settled(s.index, s.matches)
  BY MatchesOfOne
<1>3. rows = IF c.term = NoTerm THEN {} ELSE Hits(c, q)
  <2>1. CASE c.term = NoTerm
    BY <1>1, <2>1
  <2>2. CASE c.term # NoTerm
    <3>1. s.matches = MatchesAt(Hits(c, q), FALSE)
      BY <1>1, <2>2
    <3> QED
      BY <2>2, <3>1, RowsOf
  <2> QED
    BY <2>1, <2>2
<1>4. rows \subseteq DOMAIN q.lines
  BY <1>3 DEF Hits
<1>5. Current(s) \subseteq s.matches
  BY DEF Current
<1>6. current \subseteq rows
  BY <1>5
<1>7. marks = [k \in DOMAIN q.lines |->
                  IF k \in current THEN "current" ELSE IF k \in rows THEN "dim" ELSE "none"]
  BY DEF Overlaid
<1> HIDE DEF rows, current
<1>8. \A k \in DOMAIN q.lines : marks[k] # "none" <=> k \in rows
  BY <1>6, <1>7
<1>9. \A k \in DOMAIN q.lines : k \in Hits(c, q) <=> q.lines[k].text \in Contains[c.term]
  BY DEF Hits
<1>10. lit = current
  BY <1>4, <1>6, <1>7
<1>11. Cardinality(current) = IF s.matches = {} THEN 0 ELSE 1
  <2>1. CASE s.matches = {}
    <3>1. current = {}
      BY <1>5, <2>1 DEF current
    <3> QED
      BY <2>1, <3>1, FS_EmptySet
  <2>2. CASE s.matches # {}
    <3> DEFINE m == CHOOSE k \in Current(s) : TRUE
    <3>1. Current(s) = {m}
      BY <1>1, <1>2, <2>2, OneCurrent
    <3> HIDE DEF m
    <3>2. current = {m.row}
      BY <3>1 DEF current
    <3> QED
      BY <2>2, <3>2, FS_Singleton
  <2> QED
    BY <2>1, <2>2
<1>12. \A m \in Current(s) : m.row \in current
  BY DEF current
<1>13. \A m \in Current(s) : marks[m.row] = "current"
  BY <1>4, <1>6, <1>7, <1>12
<1> QED
  BY <1>3, <1>8, <1>9, <1>10, <1>11, <1>13

\* The columns of a diff have no operation twice.
LEMMA CellUnique ==
    ASSUME NEW before, NEW after, NEW ops, IsAligned(before, after, ops), Len(ops) \in Nat
    PROVE  /\ DOMAIN before = 1 .. Len(before) /\ DOMAIN after = DOMAIN before
           /\ Len(before) \in Nat
           /\ \A k \in DOMAIN before : before[k] \in 0 .. Len(ops) /\ after[k] \in 0 .. Len(ops)
           /\ \A j, k \in DOMAIN before : before[j] = before[k] /\ before[k] # 0 => j = k
           /\ \A j, k \in DOMAIN before : after[j] = after[k] /\ after[k] # 0 => j = k
<1>1. /\ before \in Seq(0 .. Len(ops)) /\ after \in Seq(0 .. Len(ops)) /\ Len(before) = Len(after)
  BY DEF IsAligned
<1>2. DOMAIN before = 1 .. Len(before) /\ DOMAIN after = 1 .. Len(before) /\ Len(before) \in Nat
  BY <1>1
<1>3. \A k \in DOMAIN before : before[k] \in 0 .. Len(ops) /\ after[k] \in 0 .. Len(ops)
  BY <1>1, <1>2
<1>4. \A j, k \in DOMAIN before : j < k =>
         /\ before[j] # 0 /\ before[k] # 0 => before[j] < before[k]
         /\ after[j] # 0 /\ after[k] # 0 => after[j] < after[k]
  BY DEF IsAligned
<1>5. \A j, k \in DOMAIN before : j \in Nat /\ k \in Nat
  BY <1>2
<1> QED
  BY <1>2, <1>3, <1>4, <1>5, SMTT(30)

\* An unchanged line is beside itself.
LEMMA EqualBeside ==
    ASSUME NEW before, NEW after, NEW ops, IsAligned(before, after, ops),
           Len(ops) \in Nat, DOMAIN ops = 1 .. Len(ops),
           NEW k \in DOMAIN before,
           \/ before[k] # 0 /\ ops[before[k]].kind = "equal"
           \/ after[k] # 0 /\ ops[after[k]].kind = "equal"
    PROVE  after[k] = before[k]
<1>1. /\ \A j \in DOMAIN before : before[j] \in 0 .. Len(ops) /\ after[j] \in 0 .. Len(ops)
      /\ \A i, j \in DOMAIN before : before[i] = before[j] /\ before[j] # 0 => i = j
      /\ \A i, j \in DOMAIN before : after[i] = after[j] /\ after[j] # 0 => i = j
  BY CellUnique
<1>2. \A i \in DOMAIN ops : ops[i].kind = "equal" =>
         \E j \in DOMAIN before : before[j] = i /\ after[j] = i
  BY DEF IsAligned
<1>3. CASE before[k] # 0 /\ ops[before[k]].kind = "equal"
  <2>1. before[k] \in DOMAIN ops
    BY <1>1, <1>3
  <2>2. PICK j \in DOMAIN before : before[j] = before[k] /\ after[j] = before[k]
    BY <1>2, <1>3, <2>1
  <2> QED
    BY <1>1, <1>3, <2>2
<1>4. CASE after[k] # 0 /\ ops[after[k]].kind = "equal"
  <2>1. after[k] \in DOMAIN ops
    BY <1>1, <1>4
  <2>2. PICK j \in DOMAIN before : before[j] = after[k] /\ after[j] = after[k]
    BY <1>2, <1>4, <2>1
  <2> QED
    BY <1>1, <1>4, <2>2
<1> QED
  BY <1>3, <1>4

\* The panes of a diff, cell by cell.
LEMMA SidesAre ==
    ASSUME NEW c, IsView(c), NeedsDiff(c), NEW p, NEW d, d = FreshDiff(c, p),
           NEW ops, ops = Ops(c, d),
           NEW before, before = Layout(c, d).before, NEW after, after = Layout(c, d).after,
           NEW l, l = LeftOf(c, p), NEW r, r = RightOf(c, p)
    PROVE  /\ IsAligned(before, after, ops)
           /\ Len(ops) \in Nat /\ DOMAIN ops = 1 .. Len(ops)
           /\ DOMAIN l.lines = DOMAIN before /\ DOMAIN r.lines = DOMAIN before
           /\ \A k \in DOMAIN before :
                 /\ before[k] = 0 => l.lines[k] = [text |-> Blank, flag |-> "default"]
                 /\ before[k] # 0 => /\ before[k] \in DOMAIN ops
                                     /\ l.lines[k] = OpLine(c, d, ops[before[k]])
                 /\ after[k] = 0 => r.lines[k] = [text |-> Blank, flag |-> "default"]
                 /\ after[k] # 0 => /\ after[k] \in DOMAIN ops
                                    /\ r.lines[k] = OpLine(c, d, ops[after[k]])
           /\ \A k \in DOMAIN ops : /\ OpLine(c, d, ops[k]).text \in Texts
                                    /\ OpLine(c, d, ops[k]).flag = FlagOf[ops[k].kind]
                                    /\ ops[k].kind \in Kind
<1>1. IsDiff(c, d)
  BY FreshTyped
<1>2. /\ before \in Seq(0 .. Len(ops)) /\ after \in Seq(0 .. Len(ops))
      /\ IsAligned(before, after, ops)
  BY <1>1, LayoutTyped
<1>3. Len(ops) \in Nat /\ DOMAIN ops = 1 .. Len(ops)
  BY <1>1, ScriptTyped DEF IsDiff, Ops
<1>4. DOMAIN after = DOMAIN before
  BY <1>2, <1>3, CellUnique
<1>5. /\ DOMAIN l.lines = DOMAIN before
      /\ \A k \in DOMAIN before :
            /\ before[k] = 0 => l.lines[k] = [text |-> Blank, flag |-> "default"]
            /\ before[k] # 0 => before[k] \in DOMAIN ops /\ l.lines[k] = OpLine(c, d, ops[before[k]])
  BY <1>1, <1>2, SideTyped DEF LeftOf
<1>6. /\ DOMAIN r.lines = DOMAIN after
      /\ \A k \in DOMAIN after :
            /\ after[k] = 0 => r.lines[k] = [text |-> Blank, flag |-> "default"]
            /\ after[k] # 0 => after[k] \in DOMAIN ops /\ r.lines[k] = OpLine(c, d, ops[after[k]])
  BY <1>1, <1>2, SideTyped DEF RightOf
<1>7. \A k \in DOMAIN ops : /\ OpLine(c, d, ops[k]).text \in Texts
                            /\ OpLine(c, d, ops[k]).flag = FlagOf[ops[k].kind]
                            /\ ops[k].kind \in Kind
  BY <1>1, OpLineTyped
<1> QED
  BY <1>2, <1>3, <1>4, <1>5, <1>6, <1>7

\* A line with the term is that of an operation, in either pane, and one that is
\* unchanged is in both.
LEMMA HitsAre ==
    ASSUME NEW c, IsView(c), NeedsDiff(c), NEW p, NEW d, d = FreshDiff(c, p),
           NEW ops, ops = Ops(c, d),
           NEW before, before = Layout(c, d).before, NEW after, after = Layout(c, d).after,
           NEW l, l = LeftOf(c, p), NEW r, r = RightOf(c, p), c.term \in Terms,
           NEW found, found = {k \in DOMAIN ops : OpLine(c, d, ops[k]).text \in Contains[c.term]}
    PROVE  /\ Hits(c, l) = {k \in DOMAIN before : before[k] \in found}
           /\ Hits(c, r) = {k \in DOMAIN before : after[k] \in found}
           /\ \A k \in Hits(c, l) : l.lines[k].flag = "default" <=> ops[before[k]].kind = "equal"
           /\ 0 \notin found /\ found \subseteq DOMAIN ops
<1>1. /\ DOMAIN l.lines = DOMAIN before /\ DOMAIN r.lines = DOMAIN before
      /\ DOMAIN ops = 1 .. Len(ops) /\ Len(ops) \in Nat
      /\ \A k \in DOMAIN before :
            /\ before[k] = 0 => l.lines[k] = [text |-> Blank, flag |-> "default"]
            /\ before[k] # 0 => before[k] \in DOMAIN ops /\ l.lines[k] = OpLine(c, d, ops[before[k]])
            /\ after[k] = 0 => r.lines[k] = [text |-> Blank, flag |-> "default"]
            /\ after[k] # 0 => after[k] \in DOMAIN ops /\ r.lines[k] = OpLine(c, d, ops[after[k]])
      /\ \A k \in DOMAIN ops : /\ OpLine(c, d, ops[k]).flag = FlagOf[ops[k].kind]
                               /\ ops[k].kind \in Kind
  BY SidesAre
<1>2. Blank \notin Contains[c.term]
  BY ViewportAssumption
<1>3. 0 \notin found /\ found \subseteq DOMAIN ops
  BY <1>1
<1>4. \A k \in DOMAIN before : l.lines[k].text \in Contains[c.term] <=> before[k] \in found
  BY <1>1, <1>2, <1>3
<1>5. \A k \in DOMAIN before : r.lines[k].text \in Contains[c.term] <=> after[k] \in found
  BY <1>1, <1>2, <1>3
<1>6. Hits(c, l) = {k \in DOMAIN before : before[k] \in found}
  BY <1>1, <1>4 DEF Hits
<1>7. Hits(c, r) = {k \in DOMAIN before : after[k] \in found}
  BY <1>1, <1>5 DEF Hits
<1>8. \A k \in DOMAIN ops : FlagOf[ops[k].kind] = "default" <=> ops[k].kind = "equal"
  BY <1>1 DEF FlagOf, Kind
<1>9. \A k \in Hits(c, l) : l.lines[k].flag = "default" <=> ops[before[k]].kind = "equal"
  BY <1>1, <1>3, <1>6, <1>8
<1> QED
  BY <1>3, <1>6, <1>7, <1>9

\* So a line with the term that is unchanged in the left pane is in the right one.
LEMMA EqualOnBoth ==
    ASSUME NEW c, IsView(c), NeedsDiff(c), NEW p, NEW l, l = LeftOf(c, p), NEW r, r = RightOf(c, p),
           c.term \in Terms, NEW k \in Hits(c, l), l.lines[k].flag = "default"
    PROVE  k \in Hits(c, r)
<1> DEFINE d == FreshDiff(c, p)  ops == Ops(c, d)
           before == Layout(c, d).before  after == Layout(c, d).after
           found == {j \in DOMAIN ops : OpLine(c, d, ops[j]).text \in Contains[c.term]}
<1>1. /\ Hits(c, l) = {j \in DOMAIN before : before[j] \in found}
      /\ Hits(c, r) = {j \in DOMAIN before : after[j] \in found}
      /\ \A j \in Hits(c, l) : l.lines[j].flag = "default" <=> ops[before[j]].kind = "equal"
      /\ 0 \notin found
  <2>1. /\ d = FreshDiff(c, p) /\ ops = Ops(c, d)
        /\ before = Layout(c, d).before /\ after = Layout(c, d).after
        /\ found = {j \in DOMAIN ops : OpLine(c, d, ops[j]).text \in Contains[c.term]}
    OBVIOUS
  <2> HIDE DEF d, ops, before, after, found
  <2>2. /\ Hits(c, l) = {j \in DOMAIN before : before[j] \in found}
        /\ Hits(c, r) = {j \in DOMAIN before : after[j] \in found}
        /\ \A j \in Hits(c, l) : l.lines[j].flag = "default" <=> ops[before[j]].kind = "equal"
        /\ 0 \notin found /\ found \subseteq DOMAIN ops
    BY <2>1, HitsAre, SMTT(30)
  <2> QED
    BY <2>2
<1>2. IsAligned(before, after, ops) /\ Len(ops) \in Nat /\ DOMAIN ops = 1 .. Len(ops)
  BY SidesAre
<1> HIDE DEF d, ops, before, after, found
<1>3. k \in DOMAIN before /\ before[k] # 0 /\ ops[before[k]].kind = "equal"
  BY <1>1
<1>4. after[k] = before[k]
  BY <1>2, <1>3, EqualBeside
<1> QED
  BY <1>1, <1>4

\* The matches of two panes are as many as the operations with the term.
LEMMA TwoCounted ==
    ASSUME NEW c, IsView(c), NeedsDiff(c), NEW p, NEW d, d = FreshDiff(c, p),
           NEW l, l = LeftOf(c, p), NEW r, r = RightOf(c, p), c.term \in Terms,
           NEW ms, ms = Combined(l, Hits(c, l), Hits(c, r)), IsFiniteSet(ms),
           NEW found,
           found = {k \in DOMAIN Ops(c, d) : OpLine(c, d, Ops(c, d)[k]).text \in Contains[c.term]}
    PROVE  Cardinality(ms) = Cardinality(found)
<1> DEFINE ops == Ops(c, d)  before == Layout(c, d).before  after == Layout(c, d).after
           hl == Hits(c, l)  only == OnlyRight(l, hl, Hits(c, r))
           inL == MatchesAt(hl, TRUE)  inR == MatchesAt(only, FALSE)
           f == [m \in ms |-> IF m.inLeft THEN before[m.row] ELSE after[m.row]]
<1>1. /\ hl = {k \in DOMAIN before : before[k] \in found}
      /\ Hits(c, r) = {k \in DOMAIN before : after[k] \in found}
      /\ \A k \in hl : l.lines[k].flag = "default" <=> ops[before[k]].kind = "equal"
      /\ 0 \notin found /\ found \subseteq DOMAIN ops
  BY HitsAre
<1>2. /\ IsAligned(before, after, ops) /\ Len(ops) \in Nat /\ DOMAIN ops = 1 .. Len(ops)
      /\ \A k \in DOMAIN ops : ops[k].kind \in Kind
  BY SidesAre
<1>3. only = {k \in Hits(c, r) : ~(k \in hl /\ l.lines[k].flag = "default")}
  BY DEF OnlyRight
<1>4. ms = inL \cup inR
  BY CombinedIs
<1>5. /\ \A m \in inL : m.row \in hl /\ m.inLeft = TRUE /\ m = [row |-> m.row, inLeft |-> TRUE]
      /\ \A k \in hl : [row |-> k, inLeft |-> TRUE] \in inL
  BY MatchAt
<1>6. /\ \A m \in inR : m.row \in only /\ m.inLeft = FALSE /\ m = [row |-> m.row, inLeft |-> FALSE]
      /\ \A k \in only : [row |-> k, inLeft |-> FALSE] \in inR
  BY MatchAt
<1> HIDE DEF ops, before, after, hl, only, inL, inR
<1>7. /\ \A k \in hl : k \in DOMAIN before /\ before[k] \in found
      /\ \A k \in only : k \in DOMAIN before /\ after[k] \in found
  BY <1>1, <1>3
<1>8. \A m \in inL : m \in ms /\ f[m] = before[m.row]
  BY <1>4, <1>5
<1>9. \A m \in inR : m \in ms /\ f[m] = after[m.row]
  BY <1>4, <1>6
<1>10. f \in [ms -> found]
  <2>1. \A m \in ms : f[m] \in found
    BY <1>4, <1>5, <1>6, <1>7, <1>8, <1>9
  <2> QED
    BY <2>1
<1> HIDE DEF f
<1>11. /\ \A j, k \in DOMAIN before : before[j] = before[k] /\ before[k] # 0 => j = k
       /\ \A j, k \in DOMAIN before : after[j] = after[k] /\ after[k] # 0 => j = k
  BY <1>2, CellUnique
<1>12. /\ \A i \in found : ops[i].kind # "insert" => \E k \in DOMAIN before : before[k] = i
       /\ \A i \in found : ops[i].kind # "delete" => \E k \in DOMAIN before : after[k] = i
       /\ \A k \in DOMAIN before : before[k] \in found => ops[before[k]].kind # "insert"
       /\ \A k \in DOMAIN before : after[k] \in found => ops[after[k]].kind # "delete"
  <2>1. DOMAIN after = DOMAIN before
    BY <1>2, CellUnique
  <2>2. \A i \in DOMAIN ops :
           /\ ops[i].kind # "insert" <=> \E k \in DOMAIN before : before[k] = i
           /\ ops[i].kind # "delete" <=> \E k \in DOMAIN after : after[k] = i
    BY <1>2 DEF IsAligned
  <2> QED
    BY <1>1, <2>1, <2>2
<1>13. \A k \in DOMAIN before :
          \/ before[k] \in found /\ ops[before[k]].kind = "equal"
          \/ after[k] \in found /\ ops[after[k]].kind = "equal"
          => after[k] = before[k]
  BY <1>1, <1>2, EqualBeside
<1>14. \A j \in only : \A k \in hl : after[j] # before[k]
  <2> SUFFICES ASSUME NEW j \in only, NEW k \in hl, after[j] = before[k] PROVE FALSE
    OBVIOUS
  <2>1. before[k] \in found /\ ops[before[k]].kind = "equal"
    BY <1>1, <1>2, <1>7, <1>12 DEF Kind
  <2>2. after[k] = before[k]
    BY <1>7, <1>13, <2>1
  <2>3. j = k
    BY <1>1, <1>7, <1>11, <2>1, <2>2
  <2> QED
    BY <1>1, <1>3, <2>1, <2>3
<1>15. \A m, n \in ms : f[m] = f[n] => m = n
  <2> SUFFICES ASSUME NEW m \in ms, NEW n \in ms, f[m] = f[n] PROVE m = n
    OBVIOUS
  <2>1. CASE m \in inL /\ n \in inL
    <3>1. m.row = n.row
      BY <1>1, <1>5, <1>7, <1>8, <1>11, <2>1
    <3> QED
      BY <1>5, <2>1, <3>1
  <2>2. CASE m \in inR /\ n \in inR
    <3>1. m.row = n.row
      BY <1>1, <1>6, <1>7, <1>9, <1>11, <2>2
    <3> QED
      BY <1>6, <2>2, <3>1
  <2>3. CASE (m \in inL /\ n \in inR) \/ (m \in inR /\ n \in inL)
    BY <1>5, <1>6, <1>8, <1>9, <1>14, <2>3
  <2> QED
    BY <1>4, <2>1, <2>2, <2>3
<1>16. \A i \in found : \E m \in ms : f[m] = i
  <2> SUFFICES ASSUME NEW i \in found PROVE \E m \in ms : f[m] = i
    OBVIOUS
  <2>1. CASE ops[i].kind # "insert"
    <3>1. PICK k \in DOMAIN before : before[k] = i
      BY <1>12, <2>1
    <3>2. k \in hl
      BY <1>1, <3>1
    <3> DEFINE m == [row |-> k, inLeft |-> TRUE]
    <3>3. m \in inL /\ m.row = k
      BY <1>5, <3>2
    <3> HIDE DEF m
    <3> QED
      BY <1>8, <3>1, <3>3
  <2>2. CASE ops[i].kind = "insert"
    <3>1. PICK k \in DOMAIN before : after[k] = i
      BY <1>12, <2>2
    <3>2. ~(k \in hl /\ ops[before[k]].kind = "equal")
      BY <1>1, <1>12, <1>13, <2>2, <3>1
    <3>3. k \in only
      BY <1>1, <1>3, <3>1, <3>2
    <3> DEFINE m == [row |-> k, inLeft |-> FALSE]
    <3>4. m \in inR /\ m.row = k
      BY <1>6, <3>3
    <3> HIDE DEF m
    <3> QED
      BY <1>9, <3>1, <3>4
  <2> QED
    BY <2>1, <2>2
<1>17. f \in Bijection(ms, found)
  BY <1>10, <1>15, <1>16 DEF Bijection, Injection, Surjection, IsInjective
<1>18. ExistsBijection(ms, found)
  BY <1>17 DEF ExistsBijection
<1> QED
  BY <1>18, FS_Bijection

\* The overlays lm and rm of two panes are those of the search s.
BothRight(c, l, r, s, lm, rm) ==
    /\ \A k \in DOMAIN l.lines : lm[k] # "none" <=> k \in Hits(c, l)
    /\ \A k \in DOMAIN l.lines : rm[k] # "none" <=> k \in Hits(c, r)
    /\ Cardinality({k \in DOMAIN l.lines : lm[k] = "current" \/ rm[k] = "current"}) =
          IF s.matches = {} THEN 0 ELSE 1
    /\ \A m \in Current(s) : (IF m.inLeft THEN lm ELSE rm)[m.row] = "current"
    /\ \A k \in DOMAIN l.lines : lm[k] = "current" \/ rm[k] = "current" =>
          (lm[k] = "current" /\ rm[k] = "current"
           <=> lm[k] # "none" /\ l.lines[k].flag = "default")

\* Two panes: the lines with the term in each, and the current match where it is.
LEMMA TwoHighlighted ==
    ASSUME NEW c, IsView(c), NeedsDiff(c), NEW p, NEW l, l = LeftOf(c, p), NEW r, r = RightOf(c, p),
           c.term \in Terms, NEW s, IsSearch(s), s = SearchedBoth(c, l, r, s),
           NEW lm, lm = BothOverlaid(c, l, r, s)[1], NEW rm, rm = BothOverlaid(c, l, r, s)[2]
    PROVE  BothRight(c, l, r, s, lm, rm)
<1> DEFINE hl == Hits(c, l)  hr == Hits(c, r)  only == OnlyRight(l, hl, hr)
           lit == {k \in DOMAIN l.lines : lm[k] = "current" \/ rm[k] = "current"}
<1>1. /\ IsPane(l) /\ IsPane(r) /\ DOMAIN l.lines = DOMAIN r.lines
  BY TwoPanesTyped
<1>2. hl \subseteq DOMAIN l.lines /\ hr \subseteq DOMAIN l.lines
  BY <1>1, HitsCounted
<1>3. \A k \in hl : l.lines[k].flag = "default" => k \in hr
  BY EqualOnBoth
<1>4. c.term # NoTerm
  BY ViewportAssumption
<1>5. s.matches = Combined(l, hl, hr) /\ s.index = Settled(s.index, s.matches)
  BY <1>4, MatchesOfTwo
<1>6. s.matches = MatchesAt(hl, TRUE) \cup MatchesAt(only, FALSE)
  BY <1>5, CombinedIs
<1>7. only = {j \in hr : ~(j \in hl /\ l.lines[j].flag = "default")}
  BY DEF OnlyRight
<1>8. CASE s.matches = {}
  <2>1. hl = {} /\ only = {}
    <3> HIDE DEF hl, only
    <3>1. MatchesAt(hl, TRUE) = {} /\ MatchesAt(only, FALSE) = {}
      BY <1>6, <1>8
    <3>2. \A side : /\ {m.row : m \in MatchesAt(hl, side)} = hl
                    /\ {m.row : m \in MatchesAt(only, side)} = only
      BY RowsOf
    <3>3. hl = {m.row : m \in MatchesAt(hl, TRUE)} /\ only = {m.row : m \in MatchesAt(only, FALSE)}
      BY <3>2
    <3> QED
      BY <3>1, <3>3
  <2>2. hr = {}
    BY <1>7, <2>1
  <2>3. lm = Unmarked(l.lines) /\ rm = Unmarked(r.lines)
    BY <1>8 DEF BothOverlaid
  <2>4. \A k \in DOMAIN l.lines : lm[k] = "none" /\ rm[k] = "none"
    BY <1>1, <2>3 DEF Unmarked
  <2>5. lit = {}
    BY <2>4
  <2>6. Current(s) = {}
    BY <1>8 DEF Current
  <2>7. Cardinality(lit) = 0
    BY <2>5, FS_EmptySet
  <2> HIDE DEF hl, hr, only, lit
  <2>8. /\ \A k \in DOMAIN l.lines : lm[k] # "none" <=> k \in hl
        /\ \A k \in DOMAIN l.lines : rm[k] # "none" <=> k \in hr
        /\ Cardinality(lit) = IF s.matches = {} THEN 0 ELSE 1
    BY <1>8, <2>1, <2>2, <2>4, <2>7
  <2> QED
    BY <2>4, <2>6, <2>8 DEF BothRight, hl, hr, lit
<1>9. CASE s.matches # {}
  <2> DEFINE m == CHOOSE k \in Current(s) : TRUE
             eq == l.lines[m.row].flag = "default"
  <2>1. Current(s) = {m} /\ m \in s.matches
    BY <1>5, <1>9, OneCurrent
  <2>2. /\ lm = PaneOverlaid(l, hl, m.row, m.inLeft \/ eq)
        /\ rm = PaneOverlaid(r, hr, m.row, ~m.inLeft \/ eq)
    BY <1>9 DEF BothOverlaid
  <2> HIDE DEF hl, hr, only, m
  <2>3. (m.inLeft = TRUE /\ m.row \in hl) \/ (m.inLeft = FALSE /\ m.row \in only)
    <3>1. CASE m \in MatchesAt(hl, TRUE)
      BY <3>1, MatchAt
    <3>2. CASE m \in MatchesAt(only, FALSE)
      BY <3>2, MatchAt
    <3> QED
      BY <1>6, <2>1, <3>1, <3>2
  <2>4. \A k \in DOMAIN l.lines :
           /\ lm[k] # "none" <=> k \in hl
           /\ lm[k] = "current" <=> k \in hl /\ k = m.row /\ (m.inLeft \/ eq)
    BY <2>2 DEF PaneOverlaid
  <2>5. \A k \in DOMAIN l.lines :
           /\ rm[k] # "none" <=> k \in hr
           /\ rm[k] = "current" <=> k \in hr /\ k = m.row /\ (~m.inLeft \/ eq)
    BY <1>1, <2>2 DEF PaneOverlaid
  <2> HIDE DEF eq
  <2>6. m.row \in DOMAIN l.lines
    BY <1>2, <1>7, <2>3
  <2>7. IF m.inLeft THEN lm[m.row] = "current" ELSE rm[m.row] = "current"
    BY <1>7, <2>3, <2>4, <2>5, <2>6
  <2>8. lit = {m.row}
    BY <2>4, <2>5, <2>6, <2>7
  <2>9. Cardinality(lit) = 1
    BY <2>8, FS_Singleton
  <2>10. ASSUME NEW k \in DOMAIN l.lines, lm[k] = "current" \/ rm[k] = "current"
         PROVE  lm[k] = "current" /\ rm[k] = "current"
                <=> lm[k] # "none" /\ l.lines[k].flag = "default"
    <3>1. k = m.row
      BY <2>4, <2>5, <2>10
    <3>2. eq <=> l.lines[k].flag = "default"
      BY <3>1 DEF eq
    <3>3. m.inLeft \in BOOLEAN
      BY <2>3
    <3>4. k \in hl /\ eq => k \in hr
      BY <1>3, <3>2 DEF hl, hr
    <3> QED
      BY <2>4, <2>5, <3>1, <3>2, <3>3, <3>4
  <2>11. \A k \in Current(s) : (IF k.inLeft THEN lm ELSE rm)[k.row] = "current"
    BY <2>1, <2>7
  <2>12. Cardinality(lit) = IF s.matches = {} THEN 0 ELSE 1
    BY <1>9, <2>9
  <2> HIDE DEF lit
  <2>13. /\ \A k \in DOMAIN l.lines : lm[k] # "none" <=> k \in hl
         /\ \A k \in DOMAIN l.lines : rm[k] # "none" <=> k \in hr
    BY <2>4, <2>5
  <2> QED
    BY <2>10, <2>11, <2>12, <2>13 DEF BothRight, lit, hl, hr
<1> QED
  BY <1>8, <1>9

\* Both together, for the panes that are shown.
LEMMA Highlighted ==
    ASSUME ViewInv, view.cur # 0, right = Nil \/ view.term # NoTerm
    PROVE  SearchHighlighted(IF right = Nil THEN {left} ELSE {left, right})
<1> DEFINE panes == IF right = Nil THEN {left} ELSE {left, right}
           rows == {k \in DOMAIN left.lines : \E pane \in panes : Marks(pane)[k] = "current"}
<1> USE DEF SearchHighlighted
<1>1. SUFFICES
             /\ \A pane \in panes : \A k \in DOMAIN pane.lines :
                    Marks(pane)[k] # "none" <=>
                        view.term # NoTerm /\ pane.lines[k].text \in Contains[view.term]
             /\ Cardinality(rows) = IF search.matches = {} THEN 0 ELSE 1
             /\ \A m \in Current(search) :
                    Marks(IF m.inLeft \/ right = Nil THEN left ELSE right)[m.row] = "current"
             /\ \A k \in rows : right # Nil =>
                    (Marks(left)[k] = "current" /\ Marks(right)[k] = "current"
                     <=> Marks(left)[k] # "none" /\ left.lines[k].flag = "default")
  OBVIOUS
<1>2. IsView(view) /\ IsSearch(search) /\ view.term \in Terms \cup {NoTerm}
  BY DEF ViewInv, IsView, Choice
<1>3. CASE ~IsSplit(view)
  <2> DEFINE q == OnePane(view, paint)  marks == Overlaid(q, search)
             lit == {k \in DOMAIN q.lines : marks[k] = "current"}
  <2>1. /\ IsPane(q) /\ right = Nil /\ left.lines = q.lines /\ Marks(left) = marks
        /\ search = Searched(view, q, search)
    BY <1>1, <1>3, OneShown
  <2>2. /\ \A k \in DOMAIN q.lines :
               marks[k] # "none" <=> view.term # NoTerm /\ q.lines[k].text \in Contains[view.term]
        /\ Cardinality(lit) = IF search.matches = {} THEN 0 ELSE 1
        /\ \A m \in Current(search) : marks[m.row] = "current"
    BY <1>2, <2>1, OneHighlighted
  <2> HIDE DEF q, marks
  <2>3. panes = {left}
    BY <2>1
  <2>4. rows = lit
    BY <2>1, <2>3
  <2> HIDE DEF lit, rows
  <2>5. Cardinality(rows) = IF search.matches = {} THEN 0 ELSE 1
    BY <2>2, <2>4
  <2> QED
    BY <2>1, <2>2, <2>3, <2>5 DEF rows
<1>4. CASE IsSplit(view)
  <2> DEFINE l == LeftOf(view, paint)  r == RightOf(view, paint)
             lm == BothOverlaid(view, l, r, search)[1]  rm == BothOverlaid(view, l, r, search)[2]
             lit == {k \in DOMAIN l.lines : lm[k] = "current" \/ rm[k] = "current"}
  <2>1. NeedsDiff(view)
    BY <1>4 DEF IsSplit
  <2>2. /\ DOMAIN l.lines = DOMAIN r.lines /\ right # Nil
        /\ left.lines = l.lines /\ right.lines = r.lines
        /\ search = SearchedBoth(view, l, r, search)
    BY <1>4, TwoShown
  <2>3. view.term # NoTerm /\ view.term \in Terms
    BY <1>1, <1>2, <2>2
  <2>4. Marks(left) = lm /\ Marks(right) = rm
    BY <1>4, <2>3, TwoShown DEF BothMarks
  <2>14. /\ l = LeftOf(view, paint) /\ r = RightOf(view, paint)
         /\ lm = BothOverlaid(view, l, r, search)[1] /\ rm = BothOverlaid(view, l, r, search)[2]
    OBVIOUS
  <2> HIDE DEF l, r, lm, rm
  <2>5. /\ \A k \in DOMAIN l.lines : lm[k] # "none" <=> k \in Hits(view, l)
        /\ \A k \in DOMAIN l.lines : rm[k] # "none" <=> k \in Hits(view, r)
        /\ Cardinality(lit) = IF search.matches = {} THEN 0 ELSE 1
        /\ \A m \in Current(search) : (IF m.inLeft THEN lm ELSE rm)[m.row] = "current"
        /\ \A k \in DOMAIN l.lines : lm[k] = "current" \/ rm[k] = "current" =>
               (lm[k] = "current" /\ rm[k] = "current"
                <=> lm[k] # "none" /\ l.lines[k].flag = "default")
    <3>1. BothRight(view, l, r, search, lm, rm)
      BY <1>2, <2>1, <2>2, <2>3, <2>14, TwoHighlighted
    <3> QED
      BY <3>1 DEF BothRight
  <2>6. /\ \A k \in DOMAIN l.lines : k \in Hits(view, l) <=> l.lines[k].text \in Contains[view.term]
        /\ \A k \in DOMAIN r.lines : k \in Hits(view, r) <=> r.lines[k].text \in Contains[view.term]
    BY DEF Hits
  <2>7. panes = {left, right}
    BY <2>2
  <2>8. rows = lit
    BY <2>2, <2>4, <2>7
  <2>9. Cardinality(rows) = IF search.matches = {} THEN 0 ELSE 1
    BY <2>5, <2>8
  <2>10. \A pane \in panes : \A k \in DOMAIN pane.lines :
             Marks(pane)[k] # "none" <=>
                 view.term # NoTerm /\ pane.lines[k].text \in Contains[view.term]
    BY <2>2, <2>3, <2>4, <2>5, <2>6, <2>7
  <2>11. \A m \in Current(search) :
             Marks(IF m.inLeft \/ right = Nil THEN left ELSE right)[m.row] = "current"
    BY <2>2, <2>4, <2>5
  <2>12. \A k \in rows :
             (Marks(left)[k] = "current" /\ Marks(right)[k] = "current"
              <=> Marks(left)[k] # "none" /\ left.lines[k].flag = "default")
    BY <2>2, <2>4, <2>5, <2>8
  <2> HIDE DEF rows, panes
  <2> QED
    BY <2>9, <2>10, <2>11, <2>12
<1> QED
  BY <1>3, <1>4

\* What View prints is the panes, or the hunks of a diff as it would be made now.
LEMMA PrintedRight ==
    ASSUME ViewInv
    PROVE  HighlightsRight
<1>1. SUFFICES ASSUME view.cur # 0
      PROVE  /\ ~HunksShown /\ (right = Nil \/ view.term # NoTerm) => SearchHighlighted(Printed)
             /\ HunksShown => \A pane \in Printed :
                    pane.marks = Unified(view, FreshDiff(view, paint)).marks
  BY DEF HighlightsRight
<1>2. ASSUME ~HunksShown, right = Nil \/ view.term # NoTerm PROVE SearchHighlighted(Printed)
  <2>1. Printed = IF right = Nil THEN {left} ELSE {left, right}
    BY <1>2 DEF Printed
  <2>2. SearchHighlighted(IF right = Nil THEN {left} ELSE {left, right})
    BY <1>1, <1>2, Highlighted
  <2> QED
    BY <2>1, <2>2
<1>3. ASSUME HunksShown PROVE \A pane \in Printed :
          pane.marks = Unified(view, FreshDiff(view, paint)).marks
  <2>1. Printed = {Unified(view, diffResult)}
    BY <1>3 DEF Printed
  <2>2. diffResult = FreshDiff(view, paint)
    BY <1>3 DEF ViewInv, HunksShown
  <2> QED
    BY <2>1, <2>2
<1> QED
  BY <1>2, <1>3

-----------------------------------------------------------------------------
(* What is counted.                                                        *)

\* A search that is over has neither matches nor an index.
NoSearch == [matches |-> {}, index |-> -1]
Cleared == view.term = NoTerm => search = NoSearch

\* To show everything again does not start a search.
LEMMA RerenderCleared ==
    ASSUME ViewInv', NEW c, NEW p, NEW s, Rerender(c, p, s), c.term = NoTerm => s = NoSearch
    PROVE  Cleared'
<1>1. view' = c /\ search' = Shown(c, p, s).search
  BY DEF Rerender
<1>2. IsView(c)
  BY <1>1 DEF ViewInv
<1> SUFFICES ASSUME c.term = NoTerm PROVE search' = NoSearch
  BY <1>1 DEF Cleared
<1>3. s.matches = {} /\ s.index = -1 /\ s = NoSearch
  BY DEF NoSearch
<1>4. \A q : Searched(c, q, s) = NoSearch
  BY <1>3 DEF Searched, NoMatches, NoSearch
<1>5. \A l, r : SearchedBoth(c, l, r, s) = NoSearch
  BY <1>3 DEF SearchedBoth, NoMatches, NoSearch
<1>6. CASE c.cur = 0
  BY <1>1, <1>2, <1>3, <1>6, ShownCases DEF ShowNothing
<1>7. CASE c.cur # 0 /\ ~IsSplit(c)
  BY <1>1, <1>2, <1>4, <1>7, ShownCases DEF ShowOne
<1>8. CASE IsSplit(c)
  BY <1>1, <1>2, <1>5, <1>8, ShownCases DEF ShowPanes
<1> QED
  BY <1>6, <1>7, <1>8

\* No call starts a search but that of SetSearchTerm.
LEMMA ClearedKeeps ==
    ASSUME ViewInv, ViewInv', Cleared, Call
    PROVE  Cleared'
<1>1. view \in Choice /\ search = [matches |-> search.matches, index |-> search.index]
  BY DEF ViewInv, IsView, IsSearch
<1>2. /\ \A r, i : [view EXCEPT !.revs = r, !.cur = i].term = view.term
      /\ \A i : [view EXCEPT !.cur = i].term = view.term
      /\ \A m : [view EXCEPT !.diffMode = m].term = view.term
      /\ \A m : [view EXCEPT !.viewMode = m].term = view.term
      /\ \A t : [view EXCEPT !.term = t].term = t
  BY <1>1 DEF Choice
<1>3. ASSUME NEW c, NEW p, Rerender(c, p, search), c.term = view.term PROVE Cleared'
  BY <1>3, RerenderCleared DEF Cleared
<1>4. CASE UNCHANGED <<view, search>>
  BY <1>4 DEF Cleared
<1>13. CASE Settings
  BY <1>4, <1>13 DEF Settings
<1>5. ASSUME NEW s \in Sources, AddRevision(s) \/ SetTokens(s) PROVE Cleared'
  <2>1. \E r, i, p : Rerender([view EXCEPT !.revs = r, !.cur = i], p, search)
    BY <1>5, Zenon DEF AddRevision, SetTokens
  <2>2. PICK r, i, p : Rerender([view EXCEPT !.revs = r, !.cur = i], p, search)
    BY <2>1
  <2> DEFINE c == [view EXCEPT !.revs = r, !.cur = i]
  <2>3. c.term = view.term
    BY <1>2
  <2> HIDE DEF c
  <2> QED
    BY <1>3, <2>2, <2>3 DEF c
<1>6. CASE ClearRevisions \/ \E i : GoToRevision(i)
  BY <1>2, <1>3, <1>6 DEF ClearRevisions, GoToRevision
<1>7. CASE \E m : SetDiffMode(m) \/ SetViewMode(m)
  <2>1. CASE \E m : SetDiffMode(m)
    BY <1>2, <1>3, <2>1 DEF SetDiffMode
  <2>2. CASE \E m : SetViewMode(m)
    BY <1>2, <1>3, <2>2 DEF SetViewMode
  <2> QED
    BY <1>7, <2>1, <2>2
<1>8. ASSUME NEW t \in Terms, SetSearchTerm(t) PROVE Cleared'
  <2>1. Rerender([view EXCEPT !.term = t], paint, search) /\ t # NoTerm
    BY <1>8, ViewportAssumption DEF SetSearchTerm
  <2> QED
    BY <1>2, <2>1, RerenderCleared
<1>9. CASE ClearSearch
  <2> DEFINE s == [search EXCEPT !.matches = {}, !.index = -1]
  <2>1. s = NoSearch
    <3>1. search \in [matches : SUBSET Match, index : Int]
      BY DEF ViewInv, IsSearch
    <3>2. s \in [matches : {{}}, index : {-1}]
      BY <3>1
    <3> HIDE DEF s
    <3>3. s = [matches |-> {}, index |-> -1]
      BY <3>2
    <3> QED
      BY <3>3 DEF NoSearch
  <2>2. Rerender([view EXCEPT !.term = NoTerm], paint, s)
    BY <1>9 DEF ClearSearch
  <2> HIDE DEF s
  <2> QED
    BY <2>1, <2>2, RerenderCleared
<1>10. ASSUME NEW n, Navigate(n) PROVE Cleared'
  <2>1. search.matches # {} /\ view' = view
    BY <1>10 DEF Navigate
  <2>2. view.term # NoTerm
    BY <2>1 DEF Cleared, NoSearch
  <2> QED
    BY <2>1, <2>2 DEF Cleared
<1>11. ASSUME NEW w, Widen(w) PROVE Cleared'
  <2>1. Rerender(view, paint, search) \/ UNCHANGED <<view, search>>
    BY <1>11 DEF Widen
  <2> QED
    BY <1>3, <1>4, <2>1
<1>12. CASE SetPrinter \/ ToggleWordWrap
  BY <1>3, <1>12 DEF SetPrinter, ToggleWordWrap
<1> QED
  BY <1>5, <1>6, <1>7, <1>8, <1>9, <1>10, <1>11, <1>12, <1>13 DEF Call

\* One match for each line of the document or the diff that has the term.
LEMMA Counted ==
    ASSUME ViewInv, Cleared
    PROVE  SearchCurrent
<1> DEFINE found == {k \in DOMAIN Searchable : Searchable[k] \in Contains[view.term]}
           count == Cardinality(search.matches)
<1> SUFFICES ASSUME view.cur # 0
    PROVE  /\ count = IF view.term = NoTerm THEN 0 ELSE Cardinality(found)
           /\ search.index \in IF search.matches = {} THEN {-1} ELSE 0 .. count - 1
  BY DEF SearchCurrent
<1>1. /\ IsView(view) /\ IsSearch(search) /\ view.term \in Terms \cup {NoTerm}
      /\ IsFiniteSet(search.matches) /\ search.index \in Int
  BY DEF ViewInv, IsView, Choice, IsSearch
<1>2. CASE view.term = NoTerm
  <2>1. search.matches = {} /\ search.index = -1
    BY <1>2 DEF Cleared, NoSearch
  <2> QED
    BY <1>2, <2>1, FS_EmptySet
<1>3. CASE view.term # NoTerm /\ ~IsSplit(view)
  <2> DEFINE q == OnePane(view, paint)
  <2>1. IsPane(q) /\ search = Searched(view, q, search)
    BY <1>3, OneShown
  <2>2. Hits(view, q) = found
    <3>1. CASE ~NeedsDiff(view)
      <4>1. Searchable = view.revs[view.cur] /\ q = Whole(view)
        BY <3>1 DEF Searchable, OnePane
      <4> QED
        BY <1>1, <4>1, WholeTyped DEF Hits
    <3>2. CASE NeedsDiff(view)
      <4> DEFINE d == FreshDiff(view, paint)  ops == Ops(view, d)
      <4>1. /\ q = Unified(view, d)
            /\ Searchable = [k \in DOMAIN ops |-> OpLine(view, d, ops[k]).text]
        BY <3>2 DEF Searchable, OnePane
      <4>2. IsDiff(view, d)
        BY <1>1, <3>2, FreshTyped
      <4>3. /\ DOMAIN q.lines = DOMAIN ops
            /\ \A k \in DOMAIN ops : q.lines[k] = OpLine(view, d, ops[k])
        BY <4>1, <4>2, UnifiedTyped
      <4> HIDE DEF q, d, ops
      <4> QED
        BY <4>1, <4>3 DEF Hits
    <3> QED
      BY <3>1, <3>2
  <2> HIDE DEF q, found
  <2>3. /\ search.matches = MatchesAt(Hits(view, q), FALSE)
        /\ search.index = Settled(search.index, search.matches)
    BY <1>1, <1>3, <2>1, MatchesOfOne
  <2>4. count = Cardinality(found)
    BY <2>1, <2>2, <2>3, HitsCounted, MatchesOf
  <2>5. search.index \in IF search.matches = {} THEN {-1} ELSE 0 .. count - 1
    BY <1>1, <2>3, IndexInRange
  <2> HIDE DEF count
  <2> QED
    BY <1>3, <2>4, <2>5
<1>4. CASE view.term # NoTerm /\ IsSplit(view)
  <2> DEFINE d == FreshDiff(view, paint)  l == LeftOf(view, paint)  r == RightOf(view, paint)
  <2>1. NeedsDiff(view) /\ view.term \in Terms
    BY <1>1, <1>4 DEF IsSplit
  <2>2. search = SearchedBoth(view, l, r, search)
    BY <1>4, TwoShown
  <2>3. /\ d = FreshDiff(view, paint) /\ l = LeftOf(view, paint) /\ r = RightOf(view, paint)
    OBVIOUS
  <2>4. found = {k \in DOMAIN Ops(view, d) :
                    OpLine(view, d, Ops(view, d)[k]).text \in Contains[view.term]}
    BY <2>1 DEF Searchable
  <2> HIDE DEF d, l, r, found
  <2>5. /\ search.matches = Combined(l, Hits(view, l), Hits(view, r))
        /\ search.index = Settled(search.index, search.matches)
    BY <1>4, <2>2, MatchesOfTwo
  <2>6. count = Cardinality(found)
    BY <1>1, <2>1, <2>3, <2>4, <2>5, TwoCounted
  <2>7. search.index \in IF search.matches = {} THEN {-1} ELSE 0 .. count - 1
    BY <1>1, <2>5, IndexInRange
  <2> HIDE DEF count
  <2> QED
    BY <1>4, <2>6, <2>7
<1> QED
  BY <1>2, <1>3, <1>4

-----------------------------------------------------------------------------
(* What is read.                                                           *)

\* The text of an operation is the line with as many operations up to it, of
\* either document it has a line of.
LEMMA TextOf ==
    ASSUME NEW c, NEW d, IsDiff(c, d), NEW ops, ops = Ops(c, d), NEW k \in DOMAIN ops
    PROVE  /\ ops[k].kind # "insert" =>
                 OpLine(c, d, ops[k]).text = c.revs[d.base][CountBut("insert", ops, k)]
           /\ ops[k].kind # "delete" =>
                 OpLine(c, d, ops[k]).text = c.revs[d.after][CountBut("delete", ops, k)]
<1> DEFINE a == c.revs[d.base]  b == c.revs[d.after]  op == ops[k]
<1>1. IsScript(ops, a, b)
  BY ScriptAssumption DEF IsDiff, Ops
<1>2. op.kind \in Kind
  BY OpLineTyped
<1>3. /\ op.kind = "delete" => op.index = CountBut("insert", ops, k)
      /\ op.kind # "delete" => op.index = CountBut("delete", ops, k)
      /\ op.kind = "equal" => a[CountBut("insert", ops, k)] = b[op.index]
  BY <1>1 DEF IsScript
<1>4. OpLine(c, d, op).text = IF op.kind = "delete" THEN a[op.index] ELSE b[op.index]
  BY DEF OpLine
<1> HIDE DEF a, b, op
<1> DEFINE t == OpLine(c, d, op).text
<1>5. op.kind # "insert" => t = a[CountBut("insert", ops, k)]
  BY <1>2, <1>3, <1>4 DEF Kind
<1>6. op.kind # "delete" => t = b[CountBut("delete", ops, k)]
  BY <1>2, <1>3, <1>4 DEF Kind
<1> QED
  BY <1>5, <1>6 DEF a, b, op

\* A document without a diff reads as it is.
LEMMA WholeReads ==
    ASSUME NEW c, IsView(c), c.cur # 0
    PROVE  Reads(Whole(c), "deleted", c.revs[c.cur])
<1> DEFINE q == Whole(c)  a == c.revs[c.cur]
           kept == {k \in DOMAIN q.lines : q.lines[k].flag # "deleted" /\ q.lines[k].text # Blank}
<1>1. /\ DOMAIN q.lines = DOMAIN a
      /\ \A k \in DOMAIN a : /\ q.lines[k].text = a[k] /\ q.lines[k].text \in Texts
                             /\ q.lines[k].flag = "default"
  BY WholeTyped
<1>2. DOMAIN a = 1 .. Len(a) /\ Len(a) \in Nat
  BY RevisionShown
<1>3. Blank \notin Texts
  BY ViewportAssumption
<1>7. \A k \in DOMAIN a : q.lines[k].flag # "deleted" /\ q.lines[k].text # Blank
  BY <1>1, <1>3
<1> HIDE DEF q, a
<1>4. kept = 1 .. Len(a)
  BY <1>1, <1>2, <1>7
<1> HIDE DEF kept
<1>5. Cardinality(kept) = Len(a)
  <2>1. Cardinality(1 .. Len(a)) = Len(a)
    <3> DEFINE n == Len(a)
    <3>1. n \in Nat
      BY <1>2
    <3> HIDE DEF n
    <3>2. Cardinality(1 .. n) = n
      BY <3>1, FS_Interval
    <3> QED
      BY <3>2 DEF n
  <2> QED
    BY <1>4, <2>1
<1>6. ASSUME NEW k \in kept PROVE q.lines[k].text = a[Cardinality({j \in kept : j <= k})]
  <2>1. k \in Nat /\ k \in DOMAIN a
    BY <1>2, <1>4, <1>6
  <2>2. {j \in kept : j <= k} = 1 .. k
    BY <1>2, <1>4, <1>6
  <2>3. Cardinality(1 .. k) = k
    BY <2>1, FS_Interval
  <2> QED
    BY <1>1, <2>1, <2>2, <2>3
<1> QED
  BY <1>5, <1>6 DEF Reads, q, a, kept

\* A unified diff reads as either document, without the lines of the other alone.
LEMMA UnifiedReads ==
    ASSUME NEW c, NEW d, IsDiff(c, d)
    PROVE  /\ Reads(Unified(c, d), "inserted", c.revs[d.base])
           /\ Reads(Unified(c, d), "deleted", c.revs[d.after])
<1> DEFINE q == Unified(c, d)  ops == Ops(c, d)  a == c.revs[d.base]  b == c.revs[d.after]
           kept(flag) == {k \in DOMAIN q.lines : q.lines[k].flag # flag /\ q.lines[k].text # Blank}
           but(kind, n) == {i \in 1 .. n : ops[i].kind # kind}
<1>1. /\ DOMAIN q.lines = DOMAIN ops
      /\ \A k \in DOMAIN ops : q.lines[k] = OpLine(c, d, ops[k])
  BY UnifiedTyped
<1>2. \A k \in DOMAIN ops : /\ OpLine(c, d, ops[k]).text \in Texts
                            /\ OpLine(c, d, ops[k]).flag = FlagOf[ops[k].kind]
                            /\ ops[k].kind \in Kind
  BY OpLineTyped
<1>3. Len(ops) \in Nat /\ DOMAIN ops = 1 .. Len(ops)
  BY ScriptTyped DEF IsDiff, Ops
<1>4. /\ CountBut("insert", ops, Len(ops)) = Len(a)
      /\ CountBut("delete", ops, Len(ops)) = Len(b)
  BY ScriptAssumption DEF IsDiff, Ops, IsScript
<1>5. \A k \in DOMAIN ops :
         /\ ops[k].kind # "insert" => OpLine(c, d, ops[k]).text = a[CountBut("insert", ops, k)]
         /\ ops[k].kind # "delete" => OpLine(c, d, ops[k]).text = b[CountBut("delete", ops, k)]
  BY TextOf
<1>6. Blank \notin Texts
  BY ViewportAssumption
<1>7. \A k \in DOMAIN ops : /\ FlagOf[ops[k].kind] = "inserted" <=> ops[k].kind = "insert"
                            /\ FlagOf[ops[k].kind] = "deleted" <=> ops[k].kind = "delete"
  BY <1>2 DEF FlagOf, Kind
<1> HIDE DEF q, ops, a, b
<1>8. /\ kept("inserted") = but("insert", Len(ops))
      /\ kept("deleted") = but("delete", Len(ops))
  BY <1>1, <1>2, <1>3, <1>6, <1>7
<1>9. \A kind, n : CountBut(kind, ops, n) = Cardinality(but(kind, n))
  BY DEF CountBut
<1>10. \A k \in 1 .. Len(ops) :
          /\ {j \in but("insert", Len(ops)) : j <= k} = but("insert", k)
          /\ {j \in but("delete", Len(ops)) : j <= k} = but("delete", k)
  BY <1>3
<1>11. Reads(q, "inserted", a)
  <2>1. Cardinality(kept("inserted")) = Len(a)
    BY <1>4, <1>8, <1>9
  <2>2. ASSUME NEW k \in kept("inserted")
        PROVE  q.lines[k].text = a[Cardinality({j \in kept("inserted") : j <= k})]
    <3>1. k \in 1 .. Len(ops) /\ ops[k].kind # "insert"
      BY <1>8, <2>2
    <3>2. {j \in kept("inserted") : j <= k} = but("insert", k)
      BY <1>8, <1>10, <3>1
    <3> QED
      BY <1>1, <1>3, <1>5, <1>9, <3>1, <3>2
  <2> QED
    BY <2>1, <2>2 DEF Reads
<1>12. Reads(q, "deleted", b)
  <2>1. Cardinality(kept("deleted")) = Len(b)
    BY <1>4, <1>8, <1>9
  <2>2. ASSUME NEW k \in kept("deleted")
        PROVE  q.lines[k].text = b[Cardinality({j \in kept("deleted") : j <= k})]
    <3>1. k \in 1 .. Len(ops) /\ ops[k].kind # "delete"
      BY <1>8, <2>2
    <3>2. {j \in kept("deleted") : j <= k} = but("delete", k)
      BY <1>8, <1>10, <3>1
    <3> QED
      BY <1>1, <1>3, <1>5, <1>9, <3>1, <3>2
  <2> QED
    BY <2>1, <2>2 DEF Reads
<1> QED
  BY <1>11, <1>12 DEF q, a, b

\* The cells of a column are the operations with a line on its side, in order.
IsColumn(cells, kind, ops) ==
    /\ DOMAIN cells = 1 .. Len(cells) /\ Len(cells) \in Nat /\ Len(ops) \in Nat
    /\ \A k \in DOMAIN cells : cells[k] \in 0 .. Len(ops)
    /\ \A j, k \in DOMAIN cells :
          j < k /\ cells[j] # 0 /\ cells[k] # 0 => cells[j] < cells[k]
    /\ \A i \in 1 .. Len(ops) : ops[i].kind # kind <=> \E k \in DOMAIN cells : cells[k] = i

\* A pane has the lines of a document at these cells, and placeholders elsewhere.
HasColumn(q, flag, cells, kind, ops, source) ==
    /\ DOMAIN q.lines = DOMAIN cells
    /\ \A k \in DOMAIN cells :
          cells[k] # 0 <=> q.lines[k].flag # flag /\ q.lines[k].text # Blank
    /\ \A k \in DOMAIN cells :
          cells[k] # 0 => q.lines[k].text = source[CountBut(kind, ops, cells[k])]
    /\ CountBut(kind, ops, Len(ops)) = Len(source)

UpTo(cells, h) == {k \in DOMAIN cells : cells[k] # 0 /\ cells[k] <= h}

\* The rows of a column up to an operation are as many as the operations up to it.
LEMMA CellsUpTo ==
    ASSUME NEW cells, NEW kind, NEW ops, IsColumn(cells, kind, ops), NEW h \in 0 .. Len(ops)
    PROVE  Cardinality(UpTo(cells, h)) = CountBut(kind, ops, h)
<1> DEFINE m == Len(cells)  n == Len(ops)
           S == {k \in DOMAIN cells : cells[k] # 0 /\ cells[k] <= h}
           T == {i \in 1 .. h : ops[i].kind # kind}
           f == [k \in S |-> cells[k]]
<1>10. /\ DOMAIN cells = 1 .. m /\ m \in Nat /\ n \in Nat
       /\ \A k \in DOMAIN cells : cells[k] \in 0 .. n
       /\ \A i \in 1 .. n : ops[i].kind # kind <=> \E k \in DOMAIN cells : cells[k] = i
       /\ \A j, k \in DOMAIN cells :
              j < k /\ cells[j] # 0 /\ cells[k] # 0 => cells[j] < cells[k]
  BY DEF IsColumn
<1>11. \A j, k \in DOMAIN cells : j < k \/ j = k \/ k < j
  BY <1>10
<1>12. \A j, k \in DOMAIN cells : cells[j] = cells[k] /\ cells[k] # 0 => j = k
  BY <1>10, <1>11
<1> HIDE DEF m, n
<1>1. \A k \in S : k \in DOMAIN cells /\ cells[k] \in 1 .. n /\ cells[k] \in T
  BY <1>10
<1>2. \A i \in T : i \in 1 .. n /\ \E k \in S : cells[k] = i
  BY <1>10 DEF n
<1>3. f \in [S -> T] /\ \A k \in S : f[k] = cells[k]
  BY <1>1
<1>4. \A j, k \in S : f[j] = f[k] => j = k
  BY <1>3, <1>12
<1>5. IsFiniteSet(S)
  <2>1. IsFiniteSet(1 .. m) /\ S \subseteq 1 .. m
    BY <1>10, FS_Interval
  <2> QED
    BY <2>1, FS_Subset
<1>6. \A i \in T : \E k \in S : f[k] = i
  BY <1>2, <1>3
<1> HIDE DEF f, S, T
<1>7. f \in Bijection(S, T)
  BY <1>3, <1>4, <1>6 DEF Bijection, Injection, Surjection, IsInjective
<1>8. ExistsBijection(S, T)
  BY <1>7 DEF ExistsBijection
<1>9. Cardinality(S) = Cardinality(T)
  BY <1>5, <1>8, FS_Bijection
<1> QED
  BY <1>9 DEF S, T, UpTo, CountBut

\* A pane of cells reads as a document, if its cells are the operations with a
\* line of that document.
LEMMA CellsRead ==
    ASSUME NEW q, NEW flag, NEW cells, NEW kind, NEW ops, NEW source,
           IsColumn(cells, kind, ops), HasColumn(q, flag, cells, kind, ops, source)
    PROVE  Reads(q, flag, source)
<1> DEFINE kept == {k \in DOMAIN q.lines : q.lines[k].flag # flag /\ q.lines[k].text # Blank}
           n == Len(ops)
<1>1. /\ DOMAIN cells = 1 .. Len(cells) /\ n \in Nat
      /\ \A k \in DOMAIN cells : cells[k] \in 0 .. n
      /\ \A j, k \in DOMAIN cells :
            j < k /\ cells[j] # 0 /\ cells[k] # 0 => cells[j] < cells[k]
  BY DEF IsColumn
<1>2. /\ DOMAIN q.lines = DOMAIN cells
      /\ \A k \in DOMAIN cells : /\ cells[k] # 0 <=> q.lines[k].flag # flag /\ q.lines[k].text # Blank
                                 /\ cells[k] # 0 => q.lines[k].text = source[CountBut(kind, ops, cells[k])]
      /\ CountBut(kind, ops, n) = Len(source)
  BY DEF HasColumn
<1>3. \A h \in 0 .. n : Cardinality(UpTo(cells, h)) = CountBut(kind, ops, h)
  BY CellsUpTo
<1>4. kept = {k \in DOMAIN cells : cells[k] # 0}
  BY <1>2
<1>5. Cardinality(kept) = Len(source)
  <2>1. kept = UpTo(cells, n)
    BY <1>1, <1>4 DEF UpTo
  <2>2. n \in 0 .. n
    BY <1>1
  <2> HIDE DEF kept, n
  <2> QED
    BY <1>2, <1>3, <2>1, <2>2
<1>6. ASSUME NEW k \in kept PROVE q.lines[k].text = source[Cardinality({j \in kept : j <= k})]
  <2>1. k \in DOMAIN cells /\ cells[k] # 0 /\ cells[k] \in 0 .. n
    BY <1>1, <1>4, <1>6
  <2>2. ASSUME NEW j \in DOMAIN cells, cells[j] # 0
        PROVE  j <= k <=> cells[j] <= cells[k]
    <3>1. j < k \/ j = k \/ k < j
      BY <1>1, <2>1
    <3> QED
      BY <1>1, <2>1, <2>2, <3>1
  <2>3. {j \in kept : j <= k} = UpTo(cells, cells[k])
    BY <1>4, <2>2 DEF UpTo
  <2> QED
    BY <1>2, <1>3, <2>1, <2>3
<1> HIDE DEF kept
<1> QED
  BY <1>5, <1>6 DEF Reads, kept

\* The panes of a diff read as one document each.
LEMMA SidesRead ==
    ASSUME NEW c, IsView(c), NeedsDiff(c), NEW p, NEW l, l = LeftOf(c, p), NEW r, r = RightOf(c, p)
    PROVE  /\ Reads(l, "inserted", c.revs[Base(c)])
           /\ Reads(r, "deleted", c.revs[c.cur])
<1> DEFINE d == FreshDiff(c, p)  ops == Ops(c, d)
           before == Layout(c, d).before  after == Layout(c, d).after
           a == c.revs[Base(c)]  b == c.revs[c.cur]
<1>1. /\ IsDiff(c, d) /\ d.base = Base(c) /\ d.after = c.cur
  BY FreshTyped
<1>2. /\ IsAligned(before, after, ops)
      /\ Len(ops) \in Nat /\ DOMAIN ops = 1 .. Len(ops)
      /\ DOMAIN l.lines = DOMAIN before /\ DOMAIN r.lines = DOMAIN before
      /\ \A k \in DOMAIN before :
            /\ before[k] = 0 => l.lines[k] = [text |-> Blank, flag |-> "default"]
            /\ before[k] # 0 => /\ before[k] \in DOMAIN ops
                                /\ l.lines[k] = OpLine(c, d, ops[before[k]])
            /\ after[k] = 0 => r.lines[k] = [text |-> Blank, flag |-> "default"]
            /\ after[k] # 0 => /\ after[k] \in DOMAIN ops
                               /\ r.lines[k] = OpLine(c, d, ops[after[k]])
      /\ \A k \in DOMAIN ops : /\ OpLine(c, d, ops[k]).text \in Texts
                               /\ OpLine(c, d, ops[k]).flag = FlagOf[ops[k].kind]
                               /\ ops[k].kind \in Kind
  BY SidesAre
<1>3. \A k \in DOMAIN ops :
         /\ ops[k].kind # "insert" => OpLine(c, d, ops[k]).text = a[CountBut("insert", ops, k)]
         /\ ops[k].kind # "delete" => OpLine(c, d, ops[k]).text = b[CountBut("delete", ops, k)]
  BY <1>1, TextOf
<1>4. /\ CountBut("insert", ops, Len(ops)) = Len(a)
      /\ CountBut("delete", ops, Len(ops)) = Len(b)
  BY <1>1, ScriptAssumption DEF IsDiff, Ops, IsScript
<1>5. Blank \notin Texts
  BY ViewportAssumption
<1> HIDE DEF d, ops, before, after, a, b
<1>6. /\ DOMAIN before = 1 .. Len(before) /\ DOMAIN after = DOMAIN before
      /\ Len(before) \in Nat
      /\ \A k \in DOMAIN before : before[k] \in 0 .. Len(ops) /\ after[k] \in 0 .. Len(ops)
  BY <1>2, CellUnique
<1>7. /\ \A i \in DOMAIN ops :
            /\ ops[i].kind # "insert" <=> \E k \in DOMAIN before : before[k] = i
            /\ ops[i].kind # "delete" <=> \E k \in DOMAIN before : after[k] = i
      /\ \A j, k \in DOMAIN before : j < k =>
            /\ before[j] # 0 /\ before[k] # 0 => before[j] < before[k]
            /\ after[j] # 0 /\ after[k] # 0 => after[j] < after[k]
  BY <1>2, <1>6 DEF IsAligned
<1>8. \A k \in DOMAIN ops : /\ FlagOf[ops[k].kind] = "inserted" <=> ops[k].kind = "insert"
                            /\ FlagOf[ops[k].kind] = "deleted" <=> ops[k].kind = "delete"
  BY <1>2 DEF FlagOf, Kind
<1>9. Reads(l, "inserted", a)
  <2>1. \A k \in DOMAIN before : before[k] # 0 => ops[before[k]].kind # "insert"
    BY <1>2, <1>7
  <2>2. \A k \in DOMAIN before :
           before[k] # 0 <=> l.lines[k].flag # "inserted" /\ l.lines[k].text # Blank
    BY <1>2, <1>5, <1>8, <2>1
  <2>3. \A k \in DOMAIN before :
           before[k] # 0 => l.lines[k].text = a[CountBut("insert", ops, before[k])]
    BY <1>2, <1>3, <2>1
  <2>4. /\ \A k \in DOMAIN before : before[k] \in 0 .. Len(ops)
        /\ \A j, k \in DOMAIN before :
              j < k /\ before[j] # 0 /\ before[k] # 0 => before[j] < before[k]
        /\ \A i \in 1 .. Len(ops) :
              ops[i].kind # "insert" <=> \E k \in DOMAIN before : before[k] = i
    BY <1>2, <1>6, <1>7
  <2>5. IsColumn(before, "insert", ops)
    BY <1>2, <1>6, <2>4 DEF IsColumn
  <2>6. HasColumn(l, "inserted", before, "insert", ops, a)
    BY <1>2, <1>4, <2>2, <2>3 DEF HasColumn
  <2> QED
    BY <2>5, <2>6, CellsRead
<1>10. Reads(r, "deleted", b)
  <2>1. \A k \in DOMAIN before : after[k] # 0 => ops[after[k]].kind # "delete"
    BY <1>2, <1>7
  <2>2. \A k \in DOMAIN after :
           after[k] # 0 <=> r.lines[k].flag # "deleted" /\ r.lines[k].text # Blank
    BY <1>2, <1>5, <1>6, <1>8, <2>1
  <2>3. \A k \in DOMAIN after :
           after[k] # 0 => r.lines[k].text = b[CountBut("delete", ops, after[k])]
    BY <1>2, <1>3, <1>6, <2>1
  <2>4. /\ \A k \in DOMAIN after : after[k] \in 0 .. Len(ops)
        /\ \A j, k \in DOMAIN after :
              j < k /\ after[j] # 0 /\ after[k] # 0 => after[j] < after[k]
        /\ \A i \in 1 .. Len(ops) :
              ops[i].kind # "delete" <=> \E k \in DOMAIN after : after[k] = i
        /\ DOMAIN after = 1 .. Len(before) /\ DOMAIN r.lines = DOMAIN after
    BY <1>2, <1>6, <1>7
  <2>5. Len(after) = Len(before)
    BY <1>2 DEF IsAligned
  <2>6. IsColumn(after, "delete", ops)
    BY <1>2, <1>6, <2>4, <2>5 DEF IsColumn
  <2>7. HasColumn(r, "deleted", after, "delete", ops, b)
    BY <1>4, <2>2, <2>3, <2>4 DEF HasColumn
  <2> QED
    BY <2>6, <2>7, CellsRead
<1> QED
  BY <1>9, <1>10 DEF a, b

\* Panes with the same lines read the same.
LEMMA ReadsLines ==
    ASSUME NEW q, NEW r, q.lines = r.lines, NEW flag, NEW source, Reads(r, flag, source)
    PROVE  Reads(q, flag, source)
<1> QED
  BY DEF Reads

\* What is shown reads as the revision, and its base.
LEMMA Shows ==
    ASSUME ViewInv
    PROVE  ShowsRevisions
<1>1. /\ IsView(view)
      /\ diffResult = IF NeedsDiff(view) THEN FreshDiff(view, paint) ELSE NoDiff
  BY DEF ViewInv
<1>2. CASE view.cur = 0
  <2>1. left = Nil /\ right = Nil
    BY <1>2, NothingShown
  <2>2. ~NeedsDiff(view)
    BY <1>2 DEF NeedsDiff
  <2> QED
    BY <1>1, <1>2, <2>1, <2>2 DEF ShowsRevisions
<1>3. CASE view.cur # 0 /\ ~NeedsDiff(view)
  <2>1. ~IsSplit(view)
    BY <1>3 DEF IsSplit
  <2> DEFINE q == OnePane(view, paint)
  <2>2. left.lines = q.lines /\ left # Nil /\ right = Nil
    BY <1>3, <2>1, OneShown
  <2>3. Reads(q, "deleted", view.revs[view.cur])
    BY <1>1, <1>3, WholeReads DEF OnePane
  <2> HIDE DEF q
  <2>4. Reads(left, "deleted", view.revs[view.cur])
    BY <2>2, <2>3, ReadsLines
  <2> QED
    BY <1>1, <1>3, <2>2, <2>4 DEF ShowsRevisions
<1>4. CASE NeedsDiff(view)
  <2> DEFINE d == FreshDiff(view, paint)
  <2>1. IsDiff(view, d) /\ d.base = Base(view) /\ d.after = view.cur /\ view.cur # 0
    BY <1>1, <1>4, FreshTyped, BaseShown
  <2>2. diffResult.base = Base(view) /\ diffResult.after = view.cur
    BY <1>1, <1>4, <2>1
  <2>3. CASE ~IsSplit(view)
    <3> DEFINE q == OnePane(view, paint)
    <3>1. left.lines = q.lines /\ left # Nil /\ right = Nil
      BY <2>1, <2>3, OneShown
    <3>2. q = Unified(view, d) /\ view.viewMode # "sideBySide"
      BY <1>4, <2>3 DEF OnePane, IsSplit
    <3> HIDE DEF q, d
    <3>3. /\ Reads(q, "inserted", view.revs[Base(view)])
          /\ Reads(q, "deleted", view.revs[view.cur])
      BY <2>1, <3>2, UnifiedReads
    <3>4. /\ Reads(left, "inserted", view.revs[Base(view)])
          /\ Reads(left, "deleted", view.revs[view.cur])
      BY <3>1, <3>3, ReadsLines
    <3> QED
      BY <1>4, <2>1, <2>2, <3>1, <3>2, <3>4 DEF ShowsRevisions
  <2>4. CASE IsSplit(view)
    <3> DEFINE l == LeftOf(view, paint)  r == RightOf(view, paint)
    <3>1. left.lines = l.lines /\ right.lines = r.lines /\ left # Nil /\ right # Nil
      BY <2>4, TwoShown
    <3>2. Reads(l, "inserted", view.revs[Base(view)]) /\ Reads(r, "deleted", view.revs[view.cur])
      BY <1>1, <1>4, SidesRead
    <3> HIDE DEF l, r
    <3>3. /\ Reads(left, "inserted", view.revs[Base(view)])
          /\ Reads(right, "deleted", view.revs[view.cur])
      BY <3>1, <3>2, ReadsLines
    <3> QED
      BY <1>4, <2>1, <2>2, <2>4, <3>1, <3>3 DEF ShowsRevisions, IsSplit
  <2> QED
    BY <2>3, <2>4
<1> QED
  BY <1>2, <1>3, <1>4

-----------------------------------------------------------------------------
(* Where a call scrolls to.                                                *)

\* Centred on a match, and clamped, the screen shows it.
LEMMA CentredShows ==
    ASSUME NEW n \in Nat, NEW row \in 1 .. n, NEW h \in Nat, h > 0,
           NEW half \in Nat, half <= h - 1,
           NEW offset, offset = Clamped(row - 1 - half, AtLeast0(n - h))
    PROVE  row \in offset + 1 .. offset + h
<1> QED
  BY DEF Clamped, AtLeast0

\* A search that scrolls to its match has it on the screen.
LEMMA ScrollShows ==
    ASSUME ViewInv, ViewInv', height' = height, ScrollToMatch,
           left' # Nil, height > 0, NEW m \in Current(search')
    PROVE  m.row \in yOffset' + 1 .. yOffset' + height
<1>1. IsSearch(search') /\ height \in Nat
  BY DEF ViewInv, Scalars
<1>2. m = CHOOSE k \in Current(search') : TRUE
  <2>1. (CHOOSE k \in Current(search') : TRUE) \in Current(search')
    OBVIOUS
  <2> QED
    BY <1>1, <2>1, CurrentUnique
<1>3. yOffset' = Clamped(m.row - 1 - Half, AtLeast0(Len(left'.lines) - height))
  BY <1>2 DEF ScrollToMatch, MaxYOffset
<1>4. m.row \in 1 .. Len(left'.lines) /\ Len(left'.lines) \in Nat
  <2>1. m \in search'.matches
    BY <1>1, CurrentTyped
  <2> QED
    BY <2>1, MatchesInPaneNext DEF MatchesInPane
<1>5. Half \in Nat /\ Half <= height - 1
  BY <1>1, HalfInside
<1> QED
  BY <1>1, <1>3, <1>4, <1>5, CentredShows

\* A match behind the offset and within the height is on the screen.
LEMMA WindowHasMatch ==
    ASSUME ViewInv, ViewInv', height' = height, view'.viewMode # "hunks",
           NEW m \in Current(search'), left' # Nil, m.row \in yOffset' + 1 .. yOffset' + height
    PROVE  m.row \in Window'
<1>1. IsSearch(search') /\ height' \in Nat /\ yOffset' \in Nat
  BY DEF ViewInv, Scalars
<1>2. m.row \in 1 .. Len(left'.lines) /\ Len(left'.lines) \in Nat /\ IsPane(left')
  <2>1. m \in search'.matches
    BY <1>1, CurrentTyped
  <2> QED
    BY <2>1, MatchesInPaneNext, LeftTypedNext DEF MatchesInPane
<1>3. m.row \in DOMAIN left'.lines
  BY <1>2 DEF IsPane
<1> QED
  BY <1>1, <1>2, <1>3 DEF Window, HunksShown

\* Searching keeps the height and scrolls.
LEMMA SearchesScroll ==
    ASSUME Searches
    PROVE  height' = height /\ ScrollToMatch
<1>1. ASSUME NEW t \in Terms, SetSearchTerm(t) PROVE height' = height /\ ScrollToMatch
  BY <1>1 DEF SetSearchTerm, Others
<1>2. ASSUME NEW delta, Navigate(delta) PROVE height' = height /\ ScrollToMatch
  BY <1>2 DEF Navigate, Others
<1> QED
  BY <1>1, <1>2 DEF Searches

\* Calls other than those that choose a revision keep to theirs.
LEMMA CurStays ==
    ASSUME ViewInv, Call, view'.cur # view.cur
    PROVE  \/ \E s \in Sources : AddRevision(s) \/ SetTokens(s)
           \/ ClearRevisions
           \/ \E i : GoToRevision(i)
<1>1. view \in Choice
  BY DEF ViewInv, IsView
<1>2. view' # view
  OBVIOUS
<1>3. /\ \A m : [view EXCEPT !.diffMode = m].cur = view.cur
      /\ \A m : [view EXCEPT !.viewMode = m].cur = view.cur
      /\ \A t : [view EXCEPT !.term = t].cur = view.cur
  BY <1>1 DEF Choice
<1>4. ASSUME NEW m, SetDiffMode(m) PROVE FALSE
  <2>1. view' = [view EXCEPT !.diffMode = m]
    BY <1>4 DEF SetDiffMode, Rerender
  <2> QED
    BY <1>3, <2>1
<1>5. ASSUME NEW m, SetViewMode(m) PROVE FALSE
  <2>1. view' = [view EXCEPT !.viewMode = m]
    BY <1>5 DEF SetViewMode, Rerender
  <2> QED
    BY <1>3, <2>1
<1>6. ASSUME NEW t, SetSearchTerm(t) \/ ClearSearch PROVE FALSE
  <2>1. \E u : view' = [view EXCEPT !.term = u]
    BY <1>6 DEF SetSearchTerm, ClearSearch, Rerender
  <2> QED
    BY <1>3, <2>1
<1>7. ~ClearSearch
  BY <1>6
<1>8. ~Settings /\ ~\E delta : Navigate(delta)
  BY <1>2 DEF Settings, Navigate
<1>9. ~(\E w : Widen(w)) /\ ~SetPrinter /\ ~ToggleWordWrap
  BY <1>2 DEF Widen, SetPrinter, ToggleWordWrap, Rerender
<1> QED
  BY <1>4, <1>5, <1>6, <1>7, <1>8, <1>9 DEF Call

\* A call that chooses a revision scrolls no further than its end.
LEMMA RevisionLandsInside ==
    ASSUME ViewInv, ViewInv', Call, view'.cur # view.cur, view'.cur # 0
    PROVE  yOffset' <= MaxYOffset'
<1>1. yOffset \in Nat /\ height \in Nat /\ height' \in Nat
  BY DEF ViewInv, Scalars
<1>2. IsPane(left')
  BY LeftTypedNext
<1>3. ASSUME NEW s \in Sources, AddRevision(s) \/ SetTokens(s) PROVE yOffset' <= MaxYOffset'
  <2>1. yOffset' = Clamped(yOffset, MaxYOffset')
    BY <1>3 DEF AddRevision, SetTokens
  <2> QED
    BY <1>1, <1>2, <2>1, ClampedTyped
<1>4. ASSUME ClearRevisions PROVE FALSE
  <2>1. view' = [view EXCEPT !.revs = <<>>, !.cur = 0] /\ view \in Choice
    BY <1>4 DEF ClearRevisions, Rerender, ViewInv, IsView
  <2>2. view'.cur = 0
    BY <2>1 DEF Choice
  <2> QED
    BY <2>2
<1>5. ASSUME NEW i, GoToRevision(i) PROVE yOffset' <= MaxYOffset'
  <2>1. yOffset' = 0
    BY <1>5 DEF GoToRevision
  <2>2. MaxYOffset' = AtLeast0(Len(left'.lines) - height')
    BY DEF MaxYOffset
  <2>3. AtLeast0(Len(left'.lines) - height') \in Nat
    BY <1>1, <1>2, LastOffset
  <2> QED
    BY <2>1, <2>2, <2>3
<1> QED
  BY <1>3, <1>4, <1>5, CurStays

-----------------------------------------------------------------------------
(* Theorems.                                                               *)

\* All derived state is what rerender makes of the rest, in every reachable state.
THEOREM Invariance == Spec => []ViewInv
<1>1. ViewInv /\ [Next]_vars => ViewInv'
  BY StepIsCall, CallKeeps
<1> QED
  BY <1>1, InitEstablishes, PTL DEF Spec

\* The state is typed, for every set of documents and terms.
THEOREM ViewTyped == Spec => []TypeOK
<1>1. ViewInv => TypeOK
  BY DEF ViewInv, IsView, IsPaint, IsSearch, Scalars, TypeOK
<1> QED
  BY <1>1, Invariance, PTL

\* A redraw shows nothing new, in every reachable state.
THEOREM RedrawsAgree == Spec => []RedrawStable
<1>1. ViewInv => RedrawStable
  BY DEF ViewInv
<1> QED
  BY <1>1, Invariance, PTL

\* Another revision, or a new one, is never shown from below its end, whatever
\* the length of the documents and the height of the window.
THEOREM RevisionsLandInside == Spec => LandsInside
<1>1. ViewInv /\ ViewInv' /\ [Next]_vars =>
          [view'.cur # view.cur /\ view'.cur # 0 => yOffset' <= MaxYOffset']_vars
  BY StepIsCall, RevisionLandsInside
<1> QED
  BY <1>1, Invariance, PTL DEF Spec, LandsInside

\* SetSearchTerm, SearchNext and SearchPrevious leave their match on the screen,
\* whatever the height and wherever the match is, but for the hunks view.
THEOREM MatchesVisible == Spec => MatchVisible
<1> DEFINE seen == left' # Nil /\ height > 0 /\ view'.viewMode # "hunks" =>
                       \A m \in Current(search') : m.row \in Window'
<1>1. ASSUME ViewInv, ViewInv', Searches PROVE seen
  <2> SUFFICES ASSUME left' # Nil, height > 0, view'.viewMode # "hunks",
                      NEW m \in Current(search')
               PROVE  m.row \in Window'
    OBVIOUS
  <2>1. height' = height /\ ScrollToMatch
    BY <1>1, SearchesScroll
  <2>2. m.row \in yOffset' + 1 .. yOffset' + height
    BY <1>1, <2>1, ScrollShows
  <2> QED
    BY <1>1, <2>1, <2>2, WindowHasMatch
<1>2. ViewInv /\ ViewInv' /\ [Next]_vars => [seen \/ ~Searches]_vars
  BY <1>1
<1> QED
  BY <1>2, Invariance, PTL DEF Spec, MatchVisible

\* What View prints has the lines with the term highlighted and no others, and the
\* match the index counts up to as the current one, in every reachable state; the
\* hunks of a diff have the highlights of their revisions instead.
THEOREM HighlightsFollow == Spec => []HighlightsRight
<1> QED
  BY PrintedRight, Invariance, PTL

\* A search is over all of the document or the diff, counts no line twice, and
\* has its index among the matches, in every reachable state.
THEOREM SearchesCount == Spec => []SearchCurrent
<1>1. Init => Cleared
  BY DEF Init, Cleared, NoSearch
<1>2. ViewInv /\ ViewInv' /\ Cleared /\ [Next]_vars => Cleared'
  BY StepIsCall, ClearedKeeps
<1>3. ViewInv /\ Cleared => SearchCurrent
  BY Counted
<1> QED
  BY <1>1, <1>2, <1>3, Invariance, PTL DEF Spec

\* What is shown is the revision the history points to and, in a diff, the one it
\* is compared with, line by line, in every reachable state.
THEOREM RevisionsShown == Spec => []ShowsRevisions
<1> QED
  BY Shows, Invariance, PTL
=============================================================================
