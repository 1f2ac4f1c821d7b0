----------------------------- MODULE DiffResult -----------------------------
(***************************************************************************)
(* niceyaml.DiffResult: what is shown of an edit script.  Hunks collects   *)
(* the changes, groups those whose contexts meet, and heads each hunk with *)
(* line numbers and counts; getAlignedRows lays the script out in rows for *)
(* two panes, once.  A step is one iteration of the loop it models.        *)
(*                                                                         *)
(* A line is known by the position of its operation in the script, from 1; *)
(* a span covers the operations start + 1 .. end, as Go's half-open spans  *)
(* do when counted from 0.                                                 *)
(***************************************************************************)
EXTENDS Integers, Sequences, FiniteSets

CONSTANTS
    Script,    \* the edit scripts an algorithm returns, as sequences of kinds
    Context    \* the contexts asked for; negative ones count as 0

Kind == {"equal", "delete", "insert"}

ASSUME DiffAssumption ==
    /\ Script \subseteq Seq(Kind)
    /\ Context \subseteq Int

VARIABLES
    ops,       \* r.ops
    task,      \* what is being computed
    at,        \* the operation its loop has come to
    context,   \* of the last Hunks call
    groups,    \* GroupIndices' spans so far
    spans,     \* what Hunks returned
    headers,   \* the annotations above its hunks
    rows       \* r.alignedRows

vars == <<ops, task, at, context, groups, spans, headers, rows>>

\* After "hunks" and "rows" the result stands until the next call.
Task == {"none", "grouping", "hunks", "aligning", "rows"}

Span == [start : Int, end : Int]

\* A DiffResult as Diff returns it, whatever script its algorithm has found.
Init ==
    /\ ops \in Script
    /\ task = "none"
    /\ at = 1
    /\ context = 0
    /\ groups = <<>>
    /\ spans = <<>>
    /\ headers = <<>>
    /\ rows = <<>>

Busy == task \in {"grouping", "aligning"}

-----------------------------------------------------------------------------
(* Hunks.                                                                  *)

\* Hunks with the context as it was given.
HunksNegative(c) ==
    /\ ~Busy
    /\ task' = "grouping"
    /\ at' = 1
    /\ context' = c
    /\ groups' = <<>>
    /\ UNCHANGED <<ops, spans, headers, rows>>

Hunks(c) ==
    /\ ~Busy
    /\ task' = "grouping"
    /\ at' = 1
    /\ context' = IF c > 0 THEN c ELSE 0
    /\ groups' = <<>>
    /\ UNCHANGED <<ops, spans, headers, rows>>

\* A threshold that lets the contexts of two hunks touch.
ThresholdLow == context * 2

\* How far a change may be from the last group and still join it.
Threshold == context * 2 + 1

LastGroup == groups[Len(groups)]

SkipEqual ==
    /\ task = "grouping"
    /\ at <= Len(ops)
    /\ ops[at] = "equal"
    /\ at' = at + 1
    /\ UNCHANGED <<ops, task, context, groups, spans, headers, rows>>

JoinGroup ==
    /\ task = "grouping"
    /\ at <= Len(ops)
    /\ ops[at] # "equal"
    /\ groups # <<>>
    /\ at - 1 < LastGroup.end + Threshold
    /\ groups' = [groups EXCEPT ![Len(groups)] = [start |-> LastGroup.start, end |-> at]]
    /\ at' = at + 1
    /\ UNCHANGED <<ops, task, context, spans, headers, rows>>

OpenGroup ==
    /\ task = "grouping"
    /\ at <= Len(ops)
    /\ ops[at] # "equal"
    /\ groups # <<>> => at - 1 >= LastGroup.end + Threshold
    /\ groups' = Append(groups, [start |-> at - 1, end |-> at])
    /\ at' = at + 1
    /\ UNCHANGED <<ops, task, context, spans, headers, rows>>

\* Expand and Clamp.
Shown(g) ==
    [start |-> IF g.start - context < 0 THEN 0 ELSE g.start - context,
     end |-> IF g.end + context > Len(ops) THEN Len(ops) ELSE g.end + context]

\* PrefixSums of the lines an operation counts for on one side; other is the
\* kind that does not count.
PrefixSums(other) ==
    LET sums[i \in 0 .. Len(ops)] ==
            IF i = 0 THEN 0 ELSE sums[i - 1] + IF ops[i] = other THEN 0 ELSE 1
    IN  sums

\* A header without the special case.
PrintedPlain(first, count) == IF count > 1 THEN <<first, count>> ELSE <<first>>

\* One side of a hunk header: "first,count", "0,0", or "first" alone.
Printed(first, count) ==
    CASE count > 1 -> <<first, count>>
      [] first = 1 /\ count = 0 -> <<0, 0>>
      [] ~(count > 1) /\ ~(first = 1 /\ count = 0) -> <<first>>

\* formatHunkHeader.
Header(span) ==
    LET before == PrefixSums("insert")
        after == PrefixSums("delete")
    IN  [from |-> Printed(before[span.start] + 1, before[span.end] - before[span.start]),
         to |-> Printed(after[span.start] + 1, after[span.end] - after[span.start])]

\* The groups are expanded, clamped and headed, and Hunks returns.
ShowHunks ==
    /\ task = "grouping"
    /\ at > Len(ops)
    /\ task' = "hunks"
    /\ spans' = [k \in DOMAIN groups |-> Shown(groups[k])]
    /\ headers' = [k \in DOMAIN groups |-> Header(Shown(groups[k]))]
    /\ UNCHANGED <<ops, at, context, groups, rows>>

-----------------------------------------------------------------------------
(* getAlignedRows, for Before and After.  A row has a line or a            *)
(* placeholder, 0, on each side.                                           *)

Row == [before : Nat, after : Nat]

\* The first of Before and After computes the rows, r.alignedOnce; rows with
\* nothing in them may as well be computed again.
AlignRows ==
    /\ ~Busy
    /\ rows = <<>>
    /\ task' = "aligning"
    /\ at' = 1
    /\ UNCHANGED <<ops, context, groups, spans, headers, rows>>

Emit(block, n) ==
    /\ rows' = rows \o block
    /\ at' = at + n
    /\ UNCHANGED <<ops, task, context, groups, spans, headers>>

AlignEqual ==
    /\ task = "aligning"
    /\ at <= Len(ops)
    /\ ops[at] = "equal"
    /\ Emit(<<[before |-> at, after |-> at]>>, 1)

\* collectConsecutive: n operations of the kind from i on, as many as there are.
Consecutive(i, kind, n) ==
    /\ i + n <= Len(ops) + 1
    /\ \A j \in i .. i + n - 1 : ops[j] = kind
    /\ i + n <= Len(ops) => ops[i + n] # kind

\* As many rows as there are deletions.
PairsDeletes(d, n) ==
    [j \in 1 .. d |-> [before |-> at + j - 1, after |-> IF j <= n THEN at + d + j - 1 ELSE 0]]

\* d deletions beside the n insertions that follow them.
Pairs(d, n) ==
    [j \in 1 .. IF d > n THEN d ELSE n |->
        [before |-> IF j <= d THEN at + j - 1 ELSE 0,
         after |-> IF j <= n THEN at + d + j - 1 ELSE 0]]

\* Deletions laid out before the insertions that follow them.
AlignDeletesAlone ==
    /\ task = "aligning"
    /\ at <= Len(ops)
    /\ ops[at] = "delete"
    /\ Emit(Pairs(1, 0), 1)

AlignDeletes ==
    /\ task = "aligning"
    /\ at <= Len(ops)
    /\ ops[at] = "delete"
    /\ \E d, n \in 0 .. Len(ops) :
          /\ Consecutive(at, "delete", d)
          /\ Consecutive(at + d, "insert", n)
          /\ Emit(Pairs(d, n), d + n)

\* An insertion that follows no deletion.
AlignInsert ==
    /\ task = "aligning"
    /\ at <= Len(ops)
    /\ ops[at] = "insert"
    /\ Emit(<<[before |-> 0, after |-> at]>>, 1)

RowsDone ==
    /\ task = "aligning"
    /\ at > Len(ops)
    /\ task' = "rows"
    /\ UNCHANGED <<ops, at, context, groups, spans, headers, rows>>

Next ==
    \/ \E c \in Context : Hunks(c)
    \/ SkipEqual \/ JoinGroup \/ OpenGroup \/ ShowHunks
    \/ AlignRows \/ AlignEqual \/ AlignDeletes \/ AlignInsert \/ RowsDone

Spec == Init /\ [][Next]_vars

-----------------------------------------------------------------------------
(* Properties.                                                             *)

TypeOK ==
    /\ ops \in Seq(Kind)
    /\ task \in Task
    /\ at \in 1 .. Len(ops) + 1
    /\ context \in Nat
    /\ groups \in Seq(Span)
    /\ spans \in Seq([start : 0 .. Len(ops), end : 0 .. Len(ops)])
    /\ DOMAIN headers = DOMAIN spans
    /\ rows \in Seq(Row)

\* The lines on one side among the operations of a set.
Lines(set, other) == Cardinality({i \in set : ops[i] # other})

\* The operation is within the context of some change.
Near(i) ==
    \E j \in DOMAIN ops : ops[j] # "equal" /\ j - context <= i /\ i <= j + context

\* Hunks shows exactly the lines within context of a change, each in one
\* hunk; two hunks have a line between them that is left out, so no two could
\* be one.
SpansExact ==
    task = "hunks" =>
        /\ \A i \in DOMAIN ops :
              Near(i) <=> \E k \in DOMAIN spans : spans[k].start < i /\ i <= spans[k].end
        /\ \A k \in 1 .. Len(spans) - 1 : spans[k].end < spans[k + 1].start

\* How a unified diff is read: a side without a count has one line, and a side
\* with none counts from the line before.
Reads(side, span, other) ==
    LET count == IF Len(side) = 2 THEN side[2] ELSE 1
        lines == Lines(span.start + 1 .. span.end, other)
        before == Lines(1 .. span.start, other)
    IN  count = lines /\ side[1] = IF lines = 0 THEN before ELSE before + 1

\* Whoever reads a header finds the hunk's lines on both sides, whatever is
\* missing from either.  Without context a side may be empty in the middle of
\* a file, and the header then claims a line on it.
HeadersRead ==
    task = "hunks" /\ context > 0 => \A k \in DOMAIN spans :
        Reads(headers[k].from, spans[k], "insert") /\ Reads(headers[k].to, spans[k], "delete")

\* The panes leave no line out and show none twice or out of order: a row is
\* before another on both sides, and an unchanged line is beside itself.
PanesFaithful ==
    task = "rows" =>
        /\ \A i \in DOMAIN ops :
              /\ ops[i] # "insert" <=> \E k \in DOMAIN rows : rows[k].before = i
              /\ ops[i] # "delete" <=> \E k \in DOMAIN rows : rows[k].after = i
              /\ ops[i] = "equal" <=> \E k \in DOMAIN rows : rows[k] = [before |-> i, after |-> i]
        /\ \A k, l \in DOMAIN rows : k < l =>
              /\ rows[k].before # 0 /\ rows[l].before # 0 => rows[k].before < rows[l].before
              /\ rows[k].after # 0 /\ rows[l].after # 0 => rows[k].after < rows[l].after

\* No deletion follows an insertion directly, as in every script of the default
\* algorithm.
DeletesFirst == \A i \in 1 .. Len(ops) - 1 : ~(ops[i] = "insert" /\ ops[i + 1] = "delete")

\* Between a placeholder in one pane and one in the other is an unchanged line.
Tight(r) ==
    \A k, l \in DOMAIN r : r[k].before = 0 /\ r[l].after = 0 =>
        \E m \in DOMAIN r :
            /\ (k < m /\ m < l) \/ (l < m /\ m < k)
            /\ r[m].before = r[m].after

\* With deletions first only one pane has placeholders between two unchanged
\* lines, as replaced lines stand beside their replacements.
PanesTight == task = "rows" /\ DeletesFirst => Tight(rows)

-----------------------------------------------------------------------------
(* The inductive invariant.                                                *)

\* The groups so far: each from a change to a change with nothing far from a
\* change in between, apart from each other, and no change left out.
Grouped ==
    /\ \A k \in DOMAIN groups :
          /\ 0 <= groups[k].start /\ groups[k].start < groups[k].end /\ groups[k].end < at
          /\ ops[groups[k].start + 1] # "equal" /\ ops[groups[k].end] # "equal"
          /\ \A i \in groups[k].start + 1 .. groups[k].end : Near(i)
    /\ \A k \in 1 .. Len(groups) - 1 : groups[k].end + Threshold <= groups[k + 1].start
    /\ \A j \in 1 .. at - 1 : ops[j] # "equal" =>
          \E k \in DOMAIN groups : groups[k].start < j /\ j <= groups[k].end

\* Rows r lay out the operations lo .. hi.
Laid(r, lo, hi) ==
    /\ \A k \in DOMAIN r :
          /\ r[k].before # 0 => r[k].before \in lo .. hi /\ ops[r[k].before] # "insert"
          /\ r[k].after # 0 => r[k].after \in lo .. hi /\ ops[r[k].after] # "delete"
    /\ \A i \in lo .. hi :
          /\ ops[i] # "insert" => \E k \in DOMAIN r : r[k].before = i
          /\ ops[i] # "delete" => \E k \in DOMAIN r : r[k].after = i
          /\ ops[i] = "equal" => \E k \in DOMAIN r : r[k].before = i /\ r[k].after = i
    /\ \A k, l \in DOMAIN r : k < l =>
          /\ r[k].before # 0 /\ r[l].before # 0 => r[k].before < r[l].before
          /\ r[k].after # 0 /\ r[l].after # 0 => r[k].after < r[l].after

IInv ==
    /\ TypeOK
    /\ task = "grouping" => Grouped
    /\ SpansExact
    /\ task = "aligning" => Laid(rows, 1, at - 1)
    /\ task # "aligning" /\ (rows # <<>> \/ task = "rows") => Laid(rows, 1, Len(ops))

\* A placeholder is behind an unchanged line before the next change could put
\* one beside it in the other pane.
Settled(r, op) ==
    \A k \in DOMAIN r :
        (r[k].after = 0 /\ op # "equal") \/ (r[k].before = 0 /\ op = "delete") =>
            \E m \in DOMAIN r : k < m /\ r[m].before = r[m].after

TightInv ==
    DeletesFirst =>
        /\ Tight(rows)
        /\ task = "aligning" /\ at <= Len(ops) => Settled(rows, ops[at])

\* A group that does not begin the script follows an unchanged line, which its
\* hunk shows when there is any context.
HeadInv ==
    /\ HeadersRead
    /\ task = "grouping" => \A k \in DOMAIN groups :
          groups[k].start > 0 => ops[groups[k].start] = "equal"
=============================================================================
