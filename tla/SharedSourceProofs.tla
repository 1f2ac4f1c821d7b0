-------------------------- MODULE SharedSourceProofs --------------------------
(***************************************************************************)
(* For every program, however many goroutines and operations it has: each  *)
(* goroutine holds exactly the locks of its place, and no line changes     *)
(* while lines are handed out.  For every stream of tokens, whatever is    *)
(* marked, cleared and annotated: the lines keep each rune and each token  *)
(* once and in order, and the documents divide the stream.  Sources,       *)
(* Splits, Adding, Building and Divides say how the recursive functions of *)
(* Lines go from one argument to the next.  For every program: a printed   *)
(* line has the overlays of the operations that were painted when the lock *)
(* was taken, each as when it runs alone (MarksInv).  Last, what the       *)
(* screens of errors show (ScreensInv): the hunks are the windows around   *)
(* the marked lines, each once and in order, and every message stands at   *)
(* its line.                                                               *)
(***************************************************************************)
EXTENDS SharedSource, FiniteSetTheorems, SequenceTheorems, WellFoundedInduction, TLAPS

------------------------------------------------------------
(* The inductive invariant.                                                *)

\* Where a goroutine can be.
Pcs == {"idle", "span", "lines", "load", "build", "find", "matches", "mark", "clear", "annotate"}

\* What EXCEPT needs to know of the variables.
Shape ==
    /\ "ops" \in DOMAIN work
    /\ DOMAIN th = Threads
    /\ \A t \in Threads : {"pc", "op"} \subseteq DOMAIN th[t]

\* Where a goroutine can be in the course of which operation.  Annotations
\* come from errors with nested places only.
OpInv ==
    \A t \in Threads :
        /\ th[t].pc = "annotate" => Annotating(th[t].op)
        /\ th[t].pc = "mark" => th[t].op.op = "highlight" \/ Annotating(th[t].op)
        /\ th[t].pc \in {"load", "build", "find", "matches"} => th[t].op.op = "highlight"

\* Such an error has the Source to itself.
AloneInv ==
    \A t, u \in Threads :
        t # u /\ th[t].pc # "idle" /\ Annotating(th[t].op) => th[u].pc = "idle"

\* What every step keeps.
IInv == Shape /\ TypeOK /\ OpInv /\ AloneInv

\* A goroutine moves on and all the others stay where they are.
Moved(t, pc, op) ==
    /\ DOMAIN th' = Threads
    /\ {"pc", "op"} \subseteq DOMAIN th'[t]
    /\ th'[t].pc = pc /\ th'[t].op = op
    /\ \A u \in Threads \ {t} : th'[u] = th[u]

------------------------------------------------------------
(* A step within an operation: the goroutine goes from one place to another *)
(* and the locks follow.                                                    *)

\* The locks that go with the places.
LocksFollow ==
    /\ overlayMu' \in Lock /\ finderMu' \in Lock
    /\ overlayMu'.readers = At({"lines"})' /\ overlayMu'.waiting = At({"mark", "clear"})'
    /\ overlayMu'.writer = NoThread
    /\ finderMu'.readers = At({"matches"})' /\ finderMu'.waiting = At({"load"})'
    /\ At({"build"})' = {finderMu'.writer} \ {NoThread}

\* A goroutine with an operation moves on in it, or ends it.
LEMMA StepKeeps ==
    ASSUME IInv, NEW t \in Threads, NEW pc \in Pcs, NEW op,
           th[t].pc # "idle", Moved(t, pc, op), work' = work, loaded' \in BOOLEAN,
           op = th[t].op \/ (op = NoOp /\ pc = "idle"),
           pc = "annotate" => Annotating(th[t].op),
           pc = "mark" => th[t].op.op = "highlight" \/ Annotating(th[t].op),
           pc \in {"load", "build", "find", "matches"} => th[t].op.op = "highlight",
           LocksFollow
    PROVE  IInv'
<1>1. Shape'
  BY DEF IInv, Shape, Moved
<1>2. \A u \in Threads : th'[u].pc \in Pcs /\ th'[u].op \in work'.ops \cup {NoOp}
  BY DEF IInv, TypeOK, Moved, Pcs
<1>3. TypeOK'
  BY <1>2 DEF TypeOK, LocksFollow, Pcs
<1>4. OpInv'
  BY DEF IInv, OpInv, Moved
<1>5. AloneInv'
  <2> SUFFICES ASSUME NEW a \in Threads, NEW b \in Threads, a # b,
                      th'[a].pc # "idle", Annotating(th'[a].op)
               PROVE  th'[b].pc = "idle"
    BY DEF AloneInv, Annotating
  <2>1. th[a].pc # "idle" /\ Annotating(th[a].op)
    BY DEF Moved
  <2>2. th[b].pc = "idle"
    BY <2>1 DEF IInv, AloneInv
  <2> QED
    BY <2>2 DEF Moved
<1> QED
  BY <1>1, <1>3, <1>4, <1>5 DEF IInv

\* An operation begins, alone if it annotates.
LEMMA BeginKeeps ==
    ASSUME IInv, NEW t \in Threads, NEW op \in work.ops, NEW pc \in Pcs,
           th[t].pc = "idle", Moved(t, pc, op), loaded' \in BOOLEAN,
           "ops" \in DOMAIN work', work'.ops = work.ops,
           IF Annotating(op) THEN Alone(t)
           ELSE \A u \in Threads : th[u].pc = "idle" \/ ~Annotating(th[u].op),
           pc = "annotate" => Annotating(op),
           pc = "mark" => op.op = "highlight" \/ Annotating(op),
           pc \in {"load", "build", "find", "matches"} => op.op = "highlight",
           LocksFollow
    PROVE  IInv'
<1>1. Shape'
  BY DEF IInv, Shape, Moved
<1>2. \A u \in Threads : th'[u].pc \in Pcs /\ th'[u].op \in work'.ops \cup {NoOp}
  BY DEF IInv, TypeOK, Moved, Pcs
<1>3. TypeOK'
  BY <1>2 DEF TypeOK, LocksFollow, Pcs
<1>4. OpInv'
  BY DEF IInv, OpInv, Moved
<1>5. AloneInv'
  <2> SUFFICES ASSUME NEW a \in Threads, NEW b \in Threads, a # b,
                      th'[a].pc # "idle", Annotating(th'[a].op)
               PROVE  th'[b].pc = "idle"
    BY DEF AloneInv, Annotating
  <2>1. CASE a = t
    BY <2>1 DEF Moved, Alone
  <2>2. CASE a # t
    <3>1. th[a].pc # "idle" /\ Annotating(th[a].op)
      BY <2>2 DEF Moved
    <3>2. ~Annotating(op) => FALSE
      BY <3>1
    <3>3. Alone(t)
      BY <3>2
    <3> QED
      BY <2>2, <3>1, <3>3 DEF Alone
  <2> QED
    BY <2>1, <2>2
<1> QED
  BY <1>1, <1>3, <1>4, <1>5 DEF IInv

\* The invariant in the form that the lemmas on steps use.
LEMMA Locks ==
    ASSUME IInv
    PROVE  /\ overlayMu \in Lock /\ finderMu \in Lock
           /\ overlayMu.readers = At({"lines"}) /\ overlayMu.waiting = At({"mark", "clear"})
           /\ overlayMu.writer = NoThread
           /\ finderMu.readers = At({"matches"}) /\ finderMu.waiting = At({"load"})
           /\ At({"build"}) = {finderMu.writer} \ {NoThread}
           /\ loaded \in BOOLEAN
           /\ \A t \in Threads : th[t].pc \in Pcs
<1> QED
  BY DEF IInv, TypeOK, Pcs

\* Who stands where after a move.
LEMMA AtMoved ==
    ASSUME NEW t \in Threads, NEW pc, NEW op, Moved(t, pc, op), NEW pcs
    PROVE  /\ pc \in pcs => At(pcs)' = At(pcs) \cup {t}
           /\ pc \notin pcs => At(pcs)' = At(pcs) \ {t}
           /\ (pc \in pcs <=> th[t].pc \in pcs) => At(pcs)' = At(pcs)
<1> QED
  BY DEF At, Moved

------------------------------------------------------------
(* Printing.                                                               *)

\* The printer takes the lock for a span.
LEMMA BeginSpanKeeps ==
    ASSUME IInv, NEW t \in Threads, BeginSpan(t)
    PROVE  IInv'
<1>1. /\ th[t].pc = "span" /\ work' = work /\ loaded' = loaded
      /\ finderMu' = finderMu
      /\ overlayMu' = Read(overlayMu, t)
  BY DEF BeginSpan
<1>2. Moved(t, "lines", th[t].op)
  BY DEF IInv, Shape, Moved, BeginSpan
<1>3. /\ At({"lines"})' = At({"lines"}) \cup {t}
      /\ At({"mark", "clear"})' = At({"mark", "clear"})
      /\ At({"matches"})' = At({"matches"})
      /\ At({"load"})' = At({"load"})
      /\ At({"build"})' = At({"build"})
  BY <1>1, <1>2, AtMoved
<1>4. LocksFollow
  <2>1. /\ overlayMu' \in Lock /\ overlayMu'.readers = overlayMu.readers \cup {t}
        /\ overlayMu'.waiting = overlayMu.waiting /\ overlayMu'.writer = overlayMu.writer
    BY <1>1, Locks, SourceAssumption DEF Lock, Read
  <2> QED
    BY <1>1, <1>3, <2>1, Locks DEF LocksFollow
<1> QED
  BY <1>1, <1>2, <1>4, StepKeeps, Locks DEF Pcs, IInv, OpInv

\* It renders a line and keeps the lock.
LEMMA PrintLineKeeps ==
    ASSUME IInv, NEW t \in Threads, PrintLine(t)
    PROVE  IInv'
<1>1. /\ th[t].pc = "lines" /\ work' = work /\ loaded' = loaded
      /\ overlayMu' = overlayMu
      /\ finderMu' = finderMu
  BY DEF PrintLine
<1>2. Moved(t, "lines", th[t].op)
  BY DEF IInv, Shape, Moved, PrintLine
<1>3. /\ At({"lines"})' = At({"lines"})
      /\ At({"mark", "clear"})' = At({"mark", "clear"})
      /\ At({"matches"})' = At({"matches"})
      /\ At({"load"})' = At({"load"})
      /\ At({"build"})' = At({"build"})
  BY <1>1, <1>2, AtMoved
<1>4. LocksFollow
  BY <1>1, <1>3, Locks DEF LocksFollow
<1> QED
  BY <1>1, <1>2, <1>4, StepKeeps, Locks DEF Pcs, IInv, OpInv

\* It releases the lock behind the last line.
LEMMA EndSpanKeeps ==
    ASSUME IInv, NEW t \in Threads, EndSpan(t)
    PROVE  IInv'
<1> DEFINE pc == IF Len(th[t].todo) = 1 THEN "idle" ELSE "span"
<1>1. /\ th[t].pc = "lines" /\ work' = work /\ loaded' = loaded
      /\ finderMu' = finderMu /\ overlayMu' = Release(overlayMu, t)
  BY DEF EndSpan
<1>2. Moved(t, pc, th[t].op)
  BY DEF IInv, Shape, Moved, EndSpan
<1>3. pc \in {"idle", "span"}
  OBVIOUS
<1> HIDE DEF pc
<1>4. /\ At({"lines"})' = At({"lines"}) \ {t}
      /\ At({"mark", "clear"})' = At({"mark", "clear"})
      /\ At({"matches"})' = At({"matches"})
      /\ At({"load"})' = At({"load"})
      /\ At({"build"})' = At({"build"})
  BY <1>1, <1>2, <1>3, AtMoved
<1>5. LocksFollow
  <2>1. /\ overlayMu' \in Lock /\ overlayMu'.readers = overlayMu.readers \ {t}
        /\ overlayMu'.waiting = overlayMu.waiting /\ overlayMu'.writer = NoThread
    BY <1>1, Locks DEF Lock, Release
  <2> QED
    BY <1>1, <1>4, <2>1, Locks DEF LocksFollow
<1> QED
  BY <1>1, <1>2, <1>3, <1>5, StepKeeps, Locks DEF Pcs

\* An error annotates the lines, without a lock, and goes on to print.
LEMMA AnnotateKeeps ==
    ASSUME IInv, NEW t \in Threads, Annotate(t)
    PROVE  IInv'
<1>1. /\ th[t].pc = "annotate" /\ work' = work /\ loaded' = loaded
      /\ overlayMu' = overlayMu
      /\ finderMu' = finderMu
  BY DEF Annotate
<1>2. Moved(t, "span", th[t].op)
  BY DEF IInv, Shape, Moved, Annotate
<1>3. /\ At({"lines"})' = At({"lines"})
      /\ At({"mark", "clear"})' = At({"mark", "clear"})
      /\ At({"matches"})' = At({"matches"})
      /\ At({"load"})' = At({"load"})
      /\ At({"build"})' = At({"build"})
  BY <1>1, <1>2, AtMoved
<1>4. LocksFollow
  BY <1>1, <1>3, Locks DEF LocksFollow
<1> QED
  BY <1>1, <1>2, <1>4, StepKeeps, Locks DEF Pcs, IInv, OpInv

------------------------------------------------------------
(* Searching and marking.                                                  *)

\* Load has the finder's lock for a moment, or keeps it to build the text.
LEMMA LoadKeeps ==
    ASSUME IInv, NEW t \in Threads, Load(t)
    PROVE  IInv'
<1>1. /\ th[t].pc = "load" /\ work' = work /\ loaded' = loaded
      /\ overlayMu' = overlayMu /\ finderMu.writer = NoThread
      /\ finderMu.readers \ {t} = finderMu.readers
  BY Locks DEF Load, CanWrite
<1>2. CASE loaded
  <2>1. finderMu' = Pass(finderMu, t)
    BY <1>2 DEF Load
  <2>2. Moved(t, "find", th[t].op)
    BY <1>2 DEF IInv, Shape, Moved, Load
  <2>3. /\ At({"lines"})' = At({"lines"})
        /\ At({"mark", "clear"})' = At({"mark", "clear"})
        /\ At({"matches"})' = At({"matches"})
        /\ At({"load"})' = At({"load"}) \ {t}
        /\ At({"build"})' = At({"build"})
    BY <1>1, <2>2, AtMoved
  <2>4. /\ finderMu' \in Lock /\ finderMu'.readers = finderMu.readers \ {t}
        /\ finderMu'.waiting = finderMu.waiting \ {t} /\ finderMu'.writer = NoThread
    BY <2>1, Locks DEF Lock, Pass, Write, Release
  <2>5. LocksFollow
    BY <1>1, <2>3, <2>4, Locks DEF LocksFollow
  <2> QED
    BY <1>1, <2>2, <2>5, StepKeeps, Locks DEF Pcs, IInv, OpInv
<1>3. CASE ~loaded
  <2>1. finderMu' = Write(finderMu, t)
    BY <1>3 DEF Load
  <2>2. Moved(t, "build", th[t].op)
    BY <1>3 DEF IInv, Shape, Moved, Load
  <2>3. /\ At({"lines"})' = At({"lines"})
        /\ At({"mark", "clear"})' = At({"mark", "clear"})
        /\ At({"matches"})' = At({"matches"})
        /\ At({"load"})' = At({"load"}) \ {t}
        /\ At({"build"})' = At({"build"}) \cup {t}
    BY <1>1, <2>2, AtMoved
  <2>4. /\ finderMu' \in Lock /\ finderMu'.readers = finderMu.readers
        /\ finderMu'.waiting = finderMu.waiting \ {t} /\ finderMu'.writer = t
    BY <2>1, Locks DEF Lock, Write
  <2>5. At({"build"})' = {t} /\ t # NoThread
    BY <1>1, <2>3, Locks, SourceAssumption
  <2>6. LocksFollow
    BY <1>1, <2>3, <2>4, <2>5, Locks DEF LocksFollow
  <2> QED
    BY <1>1, <2>2, <2>6, StepKeeps, Locks DEF Pcs, IInv, OpInv
<1> QED
  BY <1>2, <1>3

\* The text is built and the finder free again.
LEMMA BuildTextKeeps ==
    ASSUME IInv, NEW t \in Threads, BuildText(t)
    PROVE  IInv'
<1>1. /\ th[t].pc = "build" /\ work' = work /\ loaded' = TRUE
      /\ overlayMu' = overlayMu
      /\ finderMu' = Release(finderMu, t)
  BY DEF BuildText
<1>2. Moved(t, "find", th[t].op)
  BY DEF IInv, Shape, Moved, BuildText
<1>3. /\ At({"lines"})' = At({"lines"})
      /\ At({"mark", "clear"})' = At({"mark", "clear"})
      /\ At({"matches"})' = At({"matches"})
      /\ At({"load"})' = At({"load"})
      /\ At({"build"})' = At({"build"}) \ {t}
  BY <1>1, <1>2, AtMoved
<1>4. LocksFollow
  <2>1. t \in At({"build"}) /\ t \notin At({"matches"})
    BY <1>1, Locks DEF At
  <2>2. /\ finderMu' \in Lock /\ finderMu'.readers = finderMu.readers
        /\ finderMu'.waiting = finderMu.waiting /\ finderMu'.writer = NoThread
        /\ At({"build"}) = {t}
    BY <1>1, <2>1, Locks, SourceAssumption, ZenonT(30) DEF Lock, Release
  <2> QED
    BY <1>1, <1>3, <2>2, Locks DEF LocksFollow
<1> QED
  BY <1>1, <1>2, <1>4, StepKeeps, Locks DEF Pcs, IInv, OpInv

\* Find takes the finder's lock for reading, if there is something to find.
LEMMA FindKeeps ==
    ASSUME IInv, NEW t \in Threads, Find(t)
    PROVE  IInv'
<1>1. th[t].pc = "find" /\ work' = work /\ loaded' = loaded
  BY DEF Find
<1>2. CASE th[t].op.term = <<>> \/ source = <<>>
  <2>1. overlayMu' = Await(overlayMu, t) /\ finderMu' = finderMu
    BY <1>2 DEF Find
  <2>2. Moved(t, "mark", th[t].op)
    BY <1>2 DEF IInv, Shape, Moved, Find
  <2>3. /\ At({"lines"})' = At({"lines"})
        /\ At({"mark", "clear"})' = At({"mark", "clear"}) \cup {t}
        /\ At({"matches"})' = At({"matches"})
        /\ At({"load"})' = At({"load"})
        /\ At({"build"})' = At({"build"})
    BY <1>1, <2>2, AtMoved
  <2>4. /\ overlayMu' \in Lock /\ overlayMu'.readers = overlayMu.readers
        /\ overlayMu'.waiting = overlayMu.waiting \cup {t} /\ overlayMu'.writer = overlayMu.writer
    BY <2>1, Locks DEF Lock, Await
  <2>5. LocksFollow
    BY <2>1, <2>3, <2>4, Locks DEF LocksFollow
  <2> QED
    BY <1>1, <2>2, <2>5, StepKeeps, Locks DEF Pcs, IInv, OpInv
<1>3. CASE ~(th[t].op.term = <<>> \/ source = <<>>)
  <2>1. finderMu' = Read(finderMu, t) /\ overlayMu' = overlayMu
    BY <1>3 DEF Find
  <2>2. Moved(t, "matches", th[t].op)
    BY <1>3 DEF IInv, Shape, Moved, Find
  <2>3. /\ At({"lines"})' = At({"lines"})
        /\ At({"mark", "clear"})' = At({"mark", "clear"})
        /\ At({"matches"})' = At({"matches"}) \cup {t}
        /\ At({"load"})' = At({"load"})
        /\ At({"build"})' = At({"build"})
    BY <1>1, <2>2, AtMoved
  <2>4. /\ finderMu' \in Lock /\ finderMu'.readers = finderMu.readers \cup {t}
        /\ finderMu'.waiting = finderMu.waiting /\ finderMu'.writer = finderMu.writer
    BY <2>1, Locks DEF Lock, Read
  <2>5. LocksFollow
    BY <2>1, <2>3, <2>4, Locks DEF LocksFollow
  <2> QED
    BY <1>1, <2>2, <2>5, StepKeeps, Locks DEF Pcs, IInv, OpInv
<1> QED
  BY <1>2, <1>3

\* A match is found.
LEMMA FindNextKeeps ==
    ASSUME IInv, NEW t \in Threads, FindNext(t)
    PROVE  IInv'
<1>1. /\ th[t].pc = "matches" /\ work' = work /\ loaded' = loaded
      /\ overlayMu' = overlayMu
      /\ finderMu' = finderMu
  BY DEF FindNext
<1>2. Moved(t, "matches", th[t].op)
  BY DEF IInv, Shape, Moved, FindNext
<1>3. /\ At({"lines"})' = At({"lines"})
      /\ At({"mark", "clear"})' = At({"mark", "clear"})
      /\ At({"matches"})' = At({"matches"})
      /\ At({"load"})' = At({"load"})
      /\ At({"build"})' = At({"build"})
  BY <1>1, <1>2, AtMoved
<1>4. LocksFollow
  BY <1>1, <1>3, Locks DEF LocksFollow
<1> QED
  BY <1>1, <1>2, <1>4, StepKeeps, Locks DEF Pcs, IInv, OpInv

\* Find lets go of the finder and waits to mark.
LEMMA FindEndKeeps ==
    ASSUME IInv, NEW t \in Threads, FindEnd(t)
    PROVE  IInv'
<1>1. /\ th[t].pc = "matches" /\ work' = work /\ loaded' = loaded
      /\ overlayMu' = Await(overlayMu, t)
      /\ finderMu' = Release(finderMu, t)
  BY DEF FindEnd
<1>2. Moved(t, "mark", th[t].op)
  BY DEF IInv, Shape, Moved, FindEnd
<1>3. /\ At({"lines"})' = At({"lines"})
      /\ At({"mark", "clear"})' = At({"mark", "clear"}) \cup {t}
      /\ At({"matches"})' = At({"matches"}) \ {t}
      /\ At({"load"})' = At({"load"})
      /\ At({"build"})' = At({"build"})
  BY <1>1, <1>2, AtMoved
<1>4. LocksFollow
  <2>1. t \notin At({"build"})
    BY <1>1, Locks DEF At
  <2>2. /\ overlayMu' \in Lock /\ overlayMu'.readers = overlayMu.readers
        /\ overlayMu'.waiting = overlayMu.waiting \cup {t} /\ overlayMu'.writer = overlayMu.writer
    BY <1>1, Locks, SourceAssumption DEF Lock, Await
  <2>3. /\ finderMu' \in Lock /\ finderMu'.readers = finderMu.readers \ {t}
        /\ finderMu'.waiting = finderMu.waiting /\ finderMu'.writer = finderMu.writer
    BY <1>1, <2>1, Locks, SourceAssumption DEF Lock, Release
  <2> QED
    BY <1>1, <1>3, <2>2, <2>3, Locks DEF LocksFollow
<1> QED
  BY <1>1, <1>2, <1>4, StepKeeps, Locks DEF Pcs, IInv, OpInv

\* Marks are set under the lock; a search ends there, an error goes on.
LEMMA MarkKeeps ==
    ASSUME IInv, NEW t \in Threads, Mark(t)
    PROVE  IInv'
<1> DEFINE pc == IF th[t].op.op = "highlight" THEN "idle" ELSE "annotate"
           op == IF th[t].op.op = "highlight" THEN NoOp ELSE th[t].op
<1>1. /\ th[t].pc = "mark" /\ work' = work /\ loaded' = loaded
      /\ finderMu' = finderMu /\ overlayMu' = Pass(overlayMu, t)
  BY DEF Mark
<1>2. Moved(t, pc, op)
  BY DEF IInv, Shape, Moved, Mark, Idle
<1>3. /\ pc \in {"idle", "annotate"}
      /\ op = th[t].op \/ (op = NoOp /\ pc = "idle")
      /\ pc = "annotate" => Annotating(th[t].op)
  BY <1>1 DEF IInv, OpInv
<1> HIDE DEF pc, op
<1>4. /\ At({"lines"})' = At({"lines"})
      /\ At({"mark", "clear"})' = At({"mark", "clear"}) \ {t}
      /\ At({"matches"})' = At({"matches"})
      /\ At({"load"})' = At({"load"})
      /\ At({"build"})' = At({"build"})
  BY <1>1, <1>2, <1>3, AtMoved
<1>5. LocksFollow
  <2>1. overlayMu.readers \ {t} = overlayMu.readers
    BY <1>1, Locks DEF At
  <2>2. /\ overlayMu' \in Lock /\ overlayMu'.readers = overlayMu.readers \ {t}
        /\ overlayMu'.waiting = overlayMu.waiting \ {t} /\ overlayMu'.writer = NoThread
    BY <1>1, Locks DEF Lock, Pass, Write, Release
  <2> QED
    BY <1>1, <1>4, <2>1, <2>2, Locks DEF LocksFollow
<1> QED
  BY <1>1, <1>2, <1>3, <1>5, StepKeeps, Locks DEF Pcs

\* Overlays are cleared under the lock.
LEMMA ClearKeeps ==
    ASSUME IInv, NEW t \in Threads, Clear(t)
    PROVE  IInv'
<1>1. /\ th[t].pc = "clear" /\ work' = work /\ loaded' = loaded
      /\ finderMu' = finderMu
      /\ overlayMu' = Pass(overlayMu, t)
  BY DEF Clear
<1>2. Moved(t, "idle", NoOp)
  BY DEF IInv, Shape, Moved, Clear, Idle
<1>3. /\ At({"lines"})' = At({"lines"})
      /\ At({"mark", "clear"})' = At({"mark", "clear"}) \ {t}
      /\ At({"matches"})' = At({"matches"})
      /\ At({"load"})' = At({"load"})
      /\ At({"build"})' = At({"build"})
  BY <1>1, <1>2, AtMoved
<1>4. LocksFollow
  <2>1. overlayMu.readers \ {t} = overlayMu.readers
    BY <1>1, Locks DEF At
  <2>2. /\ overlayMu' \in Lock /\ overlayMu'.readers = overlayMu.readers \ {t}
        /\ overlayMu'.waiting = overlayMu.waiting \ {t} /\ overlayMu'.writer = NoThread
    BY <1>1, <2>1, Locks, SourceAssumption DEF Lock, Pass, Write, Release
  <2> QED
    BY <1>1, <1>3, <2>1, <2>2, Locks DEF LocksFollow
<1> QED
  BY <1>1, <1>2, <1>4, StepKeeps, Locks DEF Pcs, IInv, OpInv

------------------------------------------------------------
(* Operations begin.                                                       *)

\* A print begins, at a span.
LEMMA StartPrintKeeps ==
    ASSUME IInv, NEW t \in Threads, NEW op \in work.ops, StartPrint(t, op)
    PROVE  IInv'
<1>1. /\ loaded' = loaded /\ op.op = "print"
      /\ overlayMu' = overlayMu
      /\ finderMu' = finderMu
  BY DEF StartPrint
<1>2. /\ th[t].pc = "idle" /\ Moved(t, "span", op)
      /\ "ops" \in DOMAIN work' /\ work'.ops = work.ops
      /\ IF Annotating(op) THEN Alone(t)
         ELSE \A u \in Threads : th[u].pc = "idle" \/ ~Annotating(th[u].op)
  BY DEF IInv, Shape, Moved, Begin, StartPrint, Idle
<1>3. /\ At({"lines"})' = At({"lines"})
      /\ At({"mark", "clear"})' = At({"mark", "clear"})
      /\ At({"matches"})' = At({"matches"})
      /\ At({"load"})' = At({"load"})
      /\ At({"build"})' = At({"build"})
  BY <1>2, AtMoved
<1>4. LocksFollow
  BY <1>1, <1>3, Locks DEF LocksFollow
<1> QED
  BY <1>1, <1>2, <1>4, BeginKeeps, Locks DEF Pcs

\* A search begins, waiting for the finder.
LEMMA StartHighlightKeeps ==
    ASSUME IInv, NEW t \in Threads, NEW op \in work.ops, StartHighlight(t, op)
    PROVE  IInv'
<1>1. /\ loaded' = loaded /\ op.op = "highlight"
      /\ overlayMu' = overlayMu
      /\ finderMu' = Await(finderMu, t)
  BY DEF StartHighlight
<1>2. /\ th[t].pc = "idle" /\ Moved(t, "load", op)
      /\ "ops" \in DOMAIN work' /\ work'.ops = work.ops
      /\ IF Annotating(op) THEN Alone(t)
         ELSE \A u \in Threads : th[u].pc = "idle" \/ ~Annotating(th[u].op)
  BY DEF IInv, Shape, Moved, Begin, StartHighlight, Idle
<1>3. /\ At({"lines"})' = At({"lines"})
      /\ At({"mark", "clear"})' = At({"mark", "clear"})
      /\ At({"matches"})' = At({"matches"})
      /\ At({"load"})' = At({"load"}) \cup {t}
      /\ At({"build"})' = At({"build"})
  BY <1>2, AtMoved
<1>4. /\ finderMu' \in Lock /\ finderMu'.readers = finderMu.readers
      /\ finderMu'.waiting = finderMu.waiting \cup {t} /\ finderMu'.writer = finderMu.writer
  BY <1>1, Locks DEF Lock, Await
<1>5. LocksFollow
  BY <1>1, <1>3, <1>4, Locks DEF LocksFollow
<1> QED
  BY <1>1, <1>2, <1>5, BeginKeeps, Locks DEF Pcs

\* A clear begins, waiting for the lock.
LEMMA StartClearKeeps ==
    ASSUME IInv, NEW t \in Threads, NEW op \in work.ops, StartClear(t, op)
    PROVE  IInv'
<1>1. /\ loaded' = loaded /\ op.op = "clear"
      /\ overlayMu' = Await(overlayMu, t)
      /\ finderMu' = finderMu
  BY DEF StartClear
<1>2. /\ th[t].pc = "idle" /\ Moved(t, "clear", op)
      /\ "ops" \in DOMAIN work' /\ work'.ops = work.ops
      /\ IF Annotating(op) THEN Alone(t)
         ELSE \A u \in Threads : th[u].pc = "idle" \/ ~Annotating(th[u].op)
  BY DEF IInv, Shape, Moved, Begin, StartClear, Idle
<1>3. /\ At({"lines"})' = At({"lines"})
      /\ At({"mark", "clear"})' = At({"mark", "clear"}) \cup {t}
      /\ At({"matches"})' = At({"matches"})
      /\ At({"load"})' = At({"load"})
      /\ At({"build"})' = At({"build"})
  BY <1>2, AtMoved
<1>4. /\ overlayMu' \in Lock /\ overlayMu'.readers = overlayMu.readers
      /\ overlayMu'.waiting = overlayMu.waiting \cup {t} /\ overlayMu'.writer = overlayMu.writer
  BY <1>1, Locks DEF Lock, Await
<1>5. LocksFollow
  BY <1>1, <1>3, <1>4, Locks DEF LocksFollow
<1> QED
  BY <1>1, <1>2, <1>5, BeginKeeps, Locks DEF Pcs

\* An error with a source of its own is printed at once.
LEMMA ShowErrorKeeps ==
    ASSUME IInv, NEW t \in Threads, NEW op \in work.ops, ShowError(t, op)
    PROVE  IInv'
<1>1. /\ loaded' = loaded /\ op.op = "error"
      /\ overlayMu' = overlayMu
      /\ finderMu' = finderMu
  BY DEF ShowError
<1>2. /\ th[t].pc = "idle" /\ Moved(t, "idle", op)
      /\ "ops" \in DOMAIN work' /\ work'.ops = work.ops
      /\ IF Annotating(op) THEN Alone(t)
         ELSE \A u \in Threads : th[u].pc = "idle" \/ ~Annotating(th[u].op)
  BY DEF IInv, Shape, Moved, Begin, ShowError, Idle
<1>3. /\ At({"lines"})' = At({"lines"})
      /\ At({"mark", "clear"})' = At({"mark", "clear"})
      /\ At({"matches"})' = At({"matches"})
      /\ At({"load"})' = At({"load"})
      /\ At({"build"})' = At({"build"})
  BY <1>2, AtMoved
<1>4. LocksFollow
  BY <1>1, <1>3, Locks DEF LocksFollow
<1> QED
  BY <1>1, <1>2, <1>4, BeginKeeps, Locks DEF Pcs

\* An error with nested places waits to mark the Source.
LEMMA StartNestedKeeps ==
    ASSUME IInv, NEW t \in Threads, NEW op \in work.ops, StartNested(t, op)
    PROVE  IInv'
<1>1. /\ loaded' = loaded /\ Annotating(op)
      /\ overlayMu' = Await(overlayMu, t)
      /\ finderMu' = finderMu
  BY DEF StartNested
<1>2. /\ th[t].pc = "idle" /\ Moved(t, "mark", op)
      /\ "ops" \in DOMAIN work' /\ work'.ops = work.ops
      /\ IF Annotating(op) THEN Alone(t)
         ELSE \A u \in Threads : th[u].pc = "idle" \/ ~Annotating(th[u].op)
  BY DEF IInv, Shape, Moved, Begin, StartNested, Idle
<1>3. /\ At({"lines"})' = At({"lines"})
      /\ At({"mark", "clear"})' = At({"mark", "clear"}) \cup {t}
      /\ At({"matches"})' = At({"matches"})
      /\ At({"load"})' = At({"load"})
      /\ At({"build"})' = At({"build"})
  BY <1>2, AtMoved
<1>4. /\ overlayMu' \in Lock /\ overlayMu'.readers = overlayMu.readers
      /\ overlayMu'.waiting = overlayMu.waiting \cup {t} /\ overlayMu'.writer = overlayMu.writer
  BY <1>1, Locks DEF Lock, Await
<1>5. LocksFollow
  BY <1>1, <1>3, <1>4, Locks DEF LocksFollow
<1> QED
  BY <1>1, <1>2, <1>5, BeginKeeps, Locks DEF Pcs

------------------------------------------------------------
(* The theorems.                                                           *)

\* Nobody has begun and nothing is locked.
LEMMA InitHolds ==
    ASSUME Init
    PROVE  IInv
<1>1. /\ "ops" \in DOMAIN work /\ loaded = FALSE
      /\ overlayMu = Free /\ finderMu = Free /\ th = [t \in Threads |-> Idle]
  BY SourceAssumption DEF Init
<1>2. Shape /\ \A t \in Threads : th[t].pc = "idle" /\ th[t].op = NoOp
  BY <1>1 DEF Shape, Idle
<1>3. \A pcs : "idle" \notin pcs => At(pcs) = {}
  BY <1>2 DEF At
<1>4. TypeOK
  <2>1. overlayMu \in Lock /\ finderMu \in Lock
    BY <1>1 DEF Lock, Free
  <2>2. /\ overlayMu.readers = {} /\ overlayMu.waiting = {} /\ overlayMu.writer = NoThread
        /\ finderMu.readers = {} /\ finderMu.waiting = {} /\ finderMu.writer = NoThread
    BY <1>1 DEF Free
  <2>3. /\ At({"lines"}) = {} /\ At({"mark", "clear"}) = {} /\ At({"matches"}) = {}
        /\ At({"load"}) = {} /\ At({"build"}) = {}
    BY <1>3
  <2> QED
    BY <1>1, <1>2, <2>1, <2>2, <2>3 DEF TypeOK
<1>5. OpInv /\ AloneInv
  BY <1>2 DEF OpInv, AloneInv
<1> QED
  BY <1>2, <1>4, <1>5 DEF IInv

\* No step breaks the invariant.
LEMMA NextKeeps ==
    ASSUME IInv, [Next]_vars
    PROVE  IInv'
<1>1. CASE UNCHANGED vars
  BY <1>1 DEF vars, IInv, Shape, TypeOK, OpInv, AloneInv, At
<1>2. ASSUME NEW t \in Threads, Start(t)
      PROVE  IInv'
  <2>1. PICK op \in work.ops :
          StartPrint(t, op) \/ StartHighlight(t, op) \/ StartClear(t, op) \/ ShowError(t, op) \/ StartNested(t, op)
    BY <1>2 DEF Start
  <2> QED
    BY <2>1, StartPrintKeeps, StartHighlightKeeps, StartClearKeeps, ShowErrorKeeps, StartNestedKeeps
<1>3. ASSUME NEW t \in Threads, Step(t)
      PROVE  IInv'
  BY <1>3, BeginSpanKeeps, PrintLineKeeps, EndSpanKeeps, LoadKeeps, BuildTextKeeps, FindKeeps,
     FindNextKeeps, FindEndKeeps, MarkKeeps, ClearKeeps, AnnotateKeeps DEF Step
<1> QED
  BY <1>1, <1>2, <1>3 DEF Next

\* The invariant holds of every program.
LEMMA Invariant == Spec => []IInv
<1>1. Init => IInv
  BY InitHolds
<1>2. IInv /\ [Next]_vars => IInv'
  BY NextKeeps
<1> QED
  BY <1>1, <1>2, PTL DEF Spec

\* Every goroutine holds the locks of the place it stands at and no others,
\* in every program (source.go:285-335, 435-450; find.go:104-130).
THEOREM LocksHeld == Spec => []TypeOK
<1>1. IInv => TypeOK
  BY DEF IInv
<1> QED
  BY <1>1, Invariant, PTL

\* Lines change in three places.
LEMMA LinesChange ==
    ASSUME Next, lines' # lines
    PROVE  \E t \in Threads : Mark(t) \/ Clear(t) \/ Annotate(t)
<1>1. PICK t \in Threads : Start(t) \/ Step(t)
  BY DEF Next
<1>2. CASE Start(t)
  BY <1>2, SMTT(30) DEF Start, StartPrint, StartHighlight, StartClear, ShowError, StartNested
<1>3. CASE Step(t)
  BY <1>3 DEF Step, BeginSpan, PrintLine, EndSpan, Load, BuildText, Find, FindNext, FindEnd
<1> QED
  BY <1>1, <1>2, <1>3

\* No line changes while lines are handed out: marks wait for the lock, and
\* annotations, which do not, are made by the only goroutine at work
\* (source.go:285-310, 435-450; error.go:475-500).
THEOREM SnapshotsTaken == Spec => SpansAreSnapshots
<1>1. IInv /\ [Next]_vars => [overlayMu.readers # {} => lines' = lines]_vars
  <2> SUFFICES ASSUME IInv, Next, overlayMu.readers # {}, lines' # lines
               PROVE  FALSE
    BY DEF vars
  <2>1. PICK t \in Threads : Mark(t) \/ Clear(t) \/ Annotate(t)
    BY LinesChange
  <2>2. CASE Mark(t) \/ Clear(t)
    BY <2>2 DEF Mark, Clear, CanWrite
  <2>3. CASE Annotate(t)
    <3>1. th[t].pc = "annotate"
      BY <2>3 DEF Annotate
    <3>2. PICK u \in Threads : th[u].pc = "lines"
      BY Locks DEF At
    <3>3. th[u].pc = "idle"
      BY <3>1, <3>2 DEF IInv, OpInv, AloneInv
    <3> QED
      BY <3>2, <3>3
  <2> QED
    BY <2>1, <2>2, <2>3
<1> QED
  BY <1>1, Invariant, PTL DEF Spec, SpansAreSnapshots

\* A bounded set of natural numbers has a least member: of the intervals from
\* 0 to its members, which are finite, one contains no other.
LEMMA Least ==
    ASSUME NEW n \in Nat, NEW X, X \subseteq 0 .. n, X # {}
    PROVE  \E m \in X : \A k \in X : m <= k
<1> DEFINE U == 0 .. n
           T == {0 .. i : i \in X}
<1>1. IsFiniteSet(U)
  BY FS_Interval
<1>2. FiniteSubsetsOf(U) = SUBSET U
  BY <1>1, FS_FiniteSubsetsOfFinite
<1>3. IsWellFoundedOn(StrictSubsetOrdering(U), SUBSET U)
  BY <1>2, FS_StrictSubsetOrderingWellFounded
<1>4. T \subseteq SUBSET U /\ T # {}
  <2>1. ASSUME NEW i \in X PROVE 0 .. i \subseteq U
    OBVIOUS
  <2> QED
    BY <2>1
<1> HIDE DEF T
<1>5. PICK x \in T : \A y \in T : ~ (<<y, x>> \in StrictSubsetOrdering(U))
  BY <1>3, <1>4, WFMin
<1>6. PICK m \in X : x = 0 .. m
  BY <1>5 DEF T
<1>7. ASSUME NEW k \in X, k < m PROVE FALSE
  <2>1. 0 .. k \in T /\ 0 .. k \in SUBSET U /\ 0 .. m \in SUBSET U
    BY <1>4, <1>5, <1>6 DEF T
  <2>2. 0 .. k \subseteq 0 .. m /\ 0 .. k # 0 .. m
    <3>1. m \in Nat /\ k \in Nat
      OBVIOUS
    <3>2. m \in 0 .. m /\ m \notin 0 .. k
      BY <1>7, <3>1
    <3> QED
      BY <1>7, <3>1, <3>2
  <2>3. <<0 .. k, 0 .. m>> \in StrictSubsetOrdering(U)
    BY <2>1, <2>2 DEF StrictSubsetOrdering
  <2> QED
    BY <1>5, <1>6, <2>1, <2>3
<1> QED
  BY <1>7

\* What holds of 0 and passes from each number to the next holds up to n.
LEMMA Upward ==
    ASSUME NEW n \in Nat, NEW Y, 0 \in Y, \A i \in 0 .. n - 1 : i \in Y => i + 1 \in Y
    PROVE  0 .. n \subseteq Y
<1> SUFFICES ASSUME 0 .. n \ Y # {} PROVE FALSE
  OBVIOUS
<1>1. PICK m \in 0 .. n \ Y : \A k \in 0 .. n \ Y : m <= k
  BY Least
<1>2. m # 0 /\ m \in Nat /\ m <= n
  OBVIOUS
<1>3. m - 1 \in 0 .. n - 1 /\ m - 1 \in 0 .. n /\ m - 1 + 1 = m
  BY <1>2
<1>4. m - 1 \in Y
  BY <1>1, <1>2, <1>3
<1> QED
  BY <1>3, <1>4

\* A function that is built up from 0, one argument at a time.
Iterates(f, n, X, x0, g) ==
    f \in [0 .. n -> X] /\ f[0] = x0 /\ \A i \in 1 .. n : f[i] = g[<<f[i - 1], i>>]

\* There is one, from every start and with every step.
LEMMA Iterate ==
    ASSUME NEW n \in Nat, NEW X, NEW x0 \in X, NEW g \in [X \X (1 .. n) -> X]
    PROVE  \E f : Iterates(f, n, X, x0, g)
<1> DEFINE Is(f, m) == f[0] = x0 /\ \A i \in 1 .. m : f[i] = g[<<f[i - 1], i>>]
           Y == {m \in 0 .. n : \E f \in [0 .. m -> X] : Is(f, m)}
<1>1. 0 \in Y
  <2>1. [i \in 0 .. 0 |-> x0] \in [0 .. 0 -> X] /\ Is([i \in 0 .. 0 |-> x0], 0)
    OBVIOUS
  <2>2. 0 \in 0 .. n
    OBVIOUS
  <2> HIDE DEF Is
  <2> QED
    BY <2>1, <2>2
<1>2. ASSUME NEW m \in 0 .. n - 1, m \in Y
      PROVE  m + 1 \in Y
  <2>1. PICK f \in [0 .. m -> X] : Is(f, m)
    BY <1>2
  <2>2. m \in Nat /\ m + 1 \in 1 .. n /\ m + 1 \in 0 .. n /\ f[m] \in X
    <3>1. m \in Nat /\ m + 1 \in 1 .. n /\ m + 1 \in 0 .. n /\ m \in 0 .. m
      OBVIOUS
    <3> HIDE DEF Is
    <3>2. f[m] \in X
      BY <2>1, <3>1
    <3> QED
      BY <3>1, <3>2
  <2>3. g[<<f[m], m + 1>>] \in X
    BY <2>2
  <2> DEFINE h == [i \in 0 .. m + 1 |-> IF i <= m THEN f[i] ELSE g[<<f[m], m + 1>>]]
  <2>4. h \in [0 .. m + 1 -> X]
    BY <2>1, <2>3
  <2>5. \A i \in 0 .. m : h[i] = f[i]
    BY <2>2
  <2>6. h[m + 1] = g[<<f[m], m + 1>>]
    BY <2>2
  <2> HIDE DEF h
  <2>7. ASSUME NEW i \in 1 .. m + 1
        PROVE  h[i] = g[<<h[i - 1], i>>]
    <3>1. CASE i = m + 1
      <4>1. i - 1 = m /\ m \in 0 .. m
        BY <2>2, <3>1
      <4>2. h[i - 1] = f[m]
        BY <2>5, <4>1
      <4> QED
        BY <2>6, <3>1, <4>2
    <3>2. CASE i # m + 1
      <4>1. i \in 1 .. m /\ i \in 0 .. m /\ i - 1 \in 0 .. m
        BY <2>2, <3>2
      <4> QED
        BY <2>1, <2>5, <4>1
    <3> QED
      BY <3>1, <3>2
  <2>8. Is(h, m + 1)
    BY <2>1, <2>2, <2>5, <2>7
  <2> QED
    BY <2>2, <2>4, <2>8
<1> HIDE DEF Y
<1>3. 0 .. n \subseteq Y
  BY <1>1, <1>2, Upward
<1>4. n \in Y
  BY <1>3
<1> QED
  BY <1>4 DEF Y, Iterates

------------------------------------------------------------
(* Sequences of sequences.                                                 *)

\* Nothing put together is nothing.
LEMMA FlattenNothing == FlattenSeq(<<>>) = <<>>
    BY DEF FlattenSeq

\* How FlattenSeq puts sequences together.
Flattens(f, s, S) ==
    /\ f \in [1 .. Len(s) -> Seq(S)]
    /\ FlattenSeq(s) = f[Len(s)] /\ f[1] = s[1]
    /\ \A i \in 2 .. Len(s) : f[i] = f[i - 1] \o s[i]

\* It does so step by step.
LEMMA FlattenSteps ==
    ASSUME NEW S, NEW s \in Seq(Seq(S)), s # <<>>
    PROVE  \E f : Flattens(f, s, S)
<1> DEFINE n == Len(s)
           X == Seq(S)
           g == [p \in X \X (1 .. n) |-> p[1] \o s[p[2]]]
           Is(f) == f = [i \in 1 .. n |-> IF i = 1 THEN s[i] ELSE f[i - 1] \o s[i]]
<1>1. n \in Nat /\ n >= 1 /\ \A i \in 1 .. n : s[i] \in X
  OBVIOUS
<1>2. g \in [X \X (1 .. n) -> X]
  <2>1. ASSUME NEW p \in X \X (1 .. n)
        PROVE  p[1] \o s[p[2]] \in X
    <3>1. p[1] \in Seq(S) /\ s[p[2]] \in Seq(S)
      BY <1>1, <2>1
    <3> QED
      BY <3>1, ConcatProperties
  <2> QED
    BY <2>1
<1>3. <<>> \in X
  OBVIOUS
<1> DEFINE x0 == <<>>
<1> HIDE DEF g, n, X
<1>4. PICK e : Iterates(e, n, X, <<>>, g)
  <2>1. x0 \in X /\ n \in Nat
    BY <1>1, <1>3
  <2> HIDE DEF x0
  <2>2. \E e : Iterates(e, n, X, x0, g)
    BY <1>2, <2>1, Iterate
  <2> QED
    BY <2>2, Zenon DEF x0
<1>u. e \in [0 .. n -> X] /\ e[0] = <<>> /\ \A i \in 1 .. n : e[i] = g[<<e[i - 1], i>>]
  BY <1>4, Zenon DEF Iterates
<1> USE DEF X
<1>5. \A i \in 1 .. n : e[i] = e[i - 1] \o s[i]
  <2> SUFFICES ASSUME NEW i \in 1 .. n PROVE e[i] = e[i - 1] \o s[i]
    OBVIOUS
  <2>1. i - 1 \in 0 .. n
    BY <1>1
  <2>2. <<e[i - 1], i>> \in X \X (1 .. n)
    BY <1>u, <2>1
  <2> QED
    BY <1>u, <2>2 DEF g
<1> DEFINE h == [i \in 1 .. n |-> e[i]]
<1>6. h \in [1 .. n -> X] /\ \A i \in 1 .. n : h[i] = e[i]
  BY <1>1, <1>u
<1>7. h[1] = s[1]
  <2>1. 1 \in 1 .. n /\ 1 - 1 = 0 /\ s[1] \in Seq(S)
    BY <1>1
  <2>2. e[1] = <<>> \o s[1]
    BY <1>u, <1>5, <2>1
  <2>3. <<>> \o s[1] = s[1]
    BY <2>1, ConcatEmptySeq
  <2> QED
    BY <1>6, <2>1, <2>2, <2>3
<1> HIDE DEF h
<1>8. \A i \in 2 .. n : h[i] = h[i - 1] \o s[i]
  <2> SUFFICES ASSUME NEW i \in 2 .. n PROVE h[i] = h[i - 1] \o s[i]
    OBVIOUS
  <2>1. i \in 1 .. n /\ i - 1 \in 1 .. n
    BY <1>1
  <2> QED
    BY <1>5, <1>6, <2>1
<1>9. Is(h)
  <2>1. \A i \in 1 .. n : h[i] = IF i = 1 THEN s[i] ELSE h[i - 1] \o s[i]
    <3> SUFFICES ASSUME NEW i \in 1 .. n PROVE h[i] = IF i = 1 THEN s[i] ELSE h[i - 1] \o s[i]
      OBVIOUS
    <3>1. CASE i = 1
      BY <1>7, <3>1
    <3>2. CASE i # 1
      <4>1. i \in 2 .. n
        BY <1>1, <3>2
      <4> QED
        BY <1>8, <3>2, <4>1
    <3> QED
      BY <3>1, <3>2
  <2> QED
    BY <1>6, <2>1
<1> DEFINE r == CHOOSE f : Is(f)
<1>10. Is(r)
  <2> HIDE DEF Is
  <2> QED
    BY <1>9
<1>11. FlattenSeq(s) = r[n]
  <2>1. Len(s) # 0
    BY <1>1 DEF n
  <2> QED
    BY <2>1, Zenon DEF FlattenSeq, n
<1> HIDE DEF r
<1>12. \A i \in 1 .. n : r[i] = IF i = 1 THEN s[i] ELSE r[i - 1] \o s[i]
  BY <1>10
<1>13. r[1] = s[1] /\ \A i \in 2 .. n : r[i] = r[i - 1] \o s[i]
  <2>1. 1 \in 1 .. n
    BY <1>1
  <2>2. \A i \in 2 .. n : i \in 1 .. n /\ i # 1
    BY <1>1
  <2> QED
    BY <1>12, <2>1, <2>2
<1>14. r = [i \in 1 .. n |-> r[i]]
  BY <1>10, Zenon
<1>15. \A i \in 1 .. n : r[i] = h[i]
  <2> DEFINE Y == {i \in 0 .. n : i = 0 \/ r[i] = h[i]}
  <2>1. 0 \in Y
    BY <1>1
  <2>2. ASSUME NEW i \in 0 .. n - 1, i \in Y
        PROVE  i + 1 \in Y
    <3>1. i + 1 \in 1 .. n /\ i + 1 \in 0 .. n
      BY <1>1
    <3>2. CASE i = 0
      BY <1>7, <1>13, <3>1, <3>2
    <3>3. CASE i # 0
      <4>1. i + 1 \in 2 .. n /\ i + 1 - 1 = i
        BY <1>1, <3>3
      <4>2. r[i] = h[i]
        BY <2>2, <3>3
      <4> DEFINE j == i + 1
      <4>3. j \in 2 .. n /\ j - 1 = i
        BY <4>1
      <4> HIDE DEF j
      <4>4. r[j] = r[i] \o s[j] /\ h[j] = h[i] \o s[j]
        BY <1>8, <1>13, <4>3
      <4> QED
        BY <3>1, <4>2, <4>4 DEF j
    <3> QED
      BY <3>2, <3>3
  <2> HIDE DEF Y
  <2>3. 0 .. n \subseteq Y
    BY <1>1, <2>1, <2>2, Upward
  <2> SUFFICES ASSUME NEW i \in 1 .. n PROVE r[i] = h[i]
    OBVIOUS
  <2>4. i \in Y /\ i # 0
    BY <1>1, <2>3
  <2> QED
    BY <2>4 DEF Y
<1>16. FlattenSeq(s) = h[n]
  BY <1>1, <1>11, <1>15
<1> QED
  BY <1>6, <1>7, <1>8, <1>16 DEF n, Flattens

\* It does not matter which two are put together first.
LEMMA Associative ==
    ASSUME NEW S, NEW a \in Seq(S), NEW b \in Seq(S), NEW c \in Seq(S)
    PROVE  (a \o b) \o c = a \o (b \o c)
  BY ConcatAssociative

\* What FlattenSeq puts together is a sequence, and one more is put behind.
LEMMA FlattenAppend ==
    ASSUME NEW S, NEW s \in Seq(Seq(S)), NEW x \in Seq(S)
    PROVE  FlattenSeq(s) \in Seq(S) /\ FlattenSeq(Append(s, x)) = FlattenSeq(s) \o x
<1> DEFINE t == Append(s, x)
           n == Len(s)
<1>1. /\ t \in Seq(Seq(S)) /\ t # <<>> /\ Len(t) = n + 1 /\ n \in Nat
      /\ (\A i \in 1 .. n : t[i] = s[i]) /\ t[n + 1] = x
  BY AppendProperties
<1> HIDE DEF t
<1>f. PICK f : Flattens(f, t, S)
  BY <1>1, FlattenSteps
<1>2. /\ f \in [1 .. Len(t) -> Seq(S)]
      /\ FlattenSeq(t) = f[Len(t)] /\ f[1] = t[1]
      /\ \A i \in 2 .. Len(t) : f[i] = f[i - 1] \o t[i]
  BY <1>f, Zenon DEF Flattens
<1>3. CASE s = <<>>
  <2>1. n = 0 /\ Len(t) = 1 /\ f[1] = x
    BY <1>1, <1>2, <1>3
  <2>2. FlattenSeq(s) = <<>> /\ <<>> \in Seq(S)
    BY <1>3, FlattenNothing
  <2>3. <<>> \o x = x
    BY ConcatEmptySeq
  <2> QED
    BY <1>2, <2>1, <2>2, <2>3 DEF t
<1>4. CASE s # <<>>
  <2>h. PICK h : Flattens(h, s, S)
    BY <1>4, FlattenSteps
  <2>1. /\ h \in [1 .. n -> Seq(S)]
        /\ FlattenSeq(s) = h[n] /\ h[1] = s[1]
        /\ \A i \in 2 .. n : h[i] = h[i - 1] \o s[i]
    BY <2>h, Zenon DEF Flattens
  <2>2. n >= 1
    BY <1>4, EmptySeq
  <2> HIDE DEF n
  <2> DEFINE Y == {i \in 0 .. n : i = 0 \/ f[i] = h[i]}
  <2>3. 0 \in Y
    BY <1>1
  <2>4. ASSUME NEW i \in 0 .. n - 1, i \in Y
        PROVE  i + 1 \in Y
    <3>1. i + 1 \in 1 .. n /\ i + 1 \in 0 .. n
      BY <1>1
    <3>2. CASE i = 0
      BY <1>1, <1>2, <2>1, <3>1, <3>2
    <3>3. CASE i # 0
      <4> DEFINE j == i + 1
      <4>1. j \in 2 .. n /\ j \in 2 .. Len(t) /\ j \in 1 .. n /\ j - 1 = i
        BY <1>1, <3>3
      <4> HIDE DEF j
      <4>2. f[i] = h[i]
        BY <2>4, <3>3
      <4>3. f[j] = f[i] \o t[j] /\ h[j] = h[i] \o s[j] /\ t[j] = s[j]
        BY <1>1, <1>2, <2>1, <4>1
      <4> QED
        BY <3>1, <4>2, <4>3 DEF j
    <3> QED
      BY <3>2, <3>3
  <2> HIDE DEF Y
  <2>5. 0 .. n \subseteq Y
    BY <1>1, <2>3, <2>4, Upward
  <2>6. f[n] = h[n]
    <3>1. n \in Y /\ n # 0
      BY <1>1, <2>2, <2>5
    <3> QED
      BY <3>1 DEF Y
  <2> DEFINE m == n + 1
  <2>7. m \in 2 .. Len(t) /\ m - 1 = n /\ n \in 1 .. n /\ m = Len(t) /\ t[m] = x
    BY <1>1, <2>2
  <2> HIDE DEF m
  <2>8. f[m] = f[n] \o x
    BY <1>2, <2>7
  <2>9. h[n] \in Seq(S)
    BY <2>1, <2>7
  <2> QED
    BY <1>2, <2>1, <2>6, <2>7, <2>8, <2>9 DEF t
<1> QED
  BY <1>3, <1>4

\* What is put together is a sequence.
LEMMA FlattenType ==
    ASSUME NEW S, NEW s \in Seq(Seq(S))
    PROVE  FlattenSeq(s) \in Seq(S)
  BY FlattenAppend, EmptySeq

\* A wider last one.
LEMMA FlattenWider ==
    ASSUME NEW S, NEW q \in Seq(Seq(S)), NEW y \in Seq(S), NEW x \in Seq(S)
    PROVE  FlattenSeq(Append(q, y \o x)) = FlattenSeq(Append(q, y)) \o x
<1> DEFINE g == FlattenSeq(q)
           z == y \o x
<1>1. g \in Seq(S) /\ z \in Seq(S)
  BY FlattenType, ConcatProperties
<1>2. FlattenSeq(Append(q, y)) = g \o y
  BY FlattenAppend
<1>3. FlattenSeq(Append(q, z)) = g \o z
  <2> HIDE DEF z
  <2> QED
    BY <1>1, FlattenAppend
<1> HIDE DEF g
<1>4. (g \o y) \o x = g \o (y \o x)
  BY <1>1, Associative
<1> QED
  BY <1>2, <1>3, <1>4

\* The last one of s is wider by x in t.
Widened(t, s, x) == t = [s EXCEPT ![Len(s)] = s[Len(s)] \o x]

\* More behind the last one is more behind all of them.
LEMMA FlattenLast ==
    ASSUME NEW S, NEW s \in Seq(Seq(S)), Len(s) > 0, NEW x \in Seq(S), NEW t, Widened(t, s, x)
    PROVE  t \in Seq(Seq(S)) /\ Len(t) = Len(s) /\ FlattenSeq(t) = FlattenSeq(s) \o x
<1>w. t = [s EXCEPT ![Len(s)] = s[Len(s)] \o x]
  BY DEF Widened
<1>1. PICK q \in Seq(Seq(S)), y \in Seq(S) : s = Append(q, y)
  <2>1. s # <<>>
    OBVIOUS
  <2> QED
    BY <2>1, SequenceEmptyOrAppend
<1> DEFINE n == Len(q)
<1>2. /\ n \in Nat /\ Len(s) = n + 1 /\ s[n + 1] = y /\ \A i \in 1 .. n : s[i] = q[i]
      /\ n + 1 \in 1 .. Len(s)
  BY <1>1, AppendProperties
<1>3. y \o x \in Seq(S)
  BY ConcatProperties
<1> DEFINE z == y \o x
           u == Append(q, z)
<1>4. z \in Seq(S) /\ t = [s EXCEPT ![n + 1] = z]
  BY <1>w, <1>2, <1>3
<1> HIDE DEF n, z
<1>5. /\ u \in Seq(Seq(S)) /\ Len(u) = n + 1 /\ u[n + 1] = z /\ \A i \in 1 .. n : u[i] = q[i]
  BY <1>4, AppendProperties DEF n
<1> HIDE DEF u
<1>6. /\ t \in Seq(Seq(S)) /\ Len(t) = Len(s)
      /\ \A j \in 1 .. Len(s) : t[j] = IF j = n + 1 THEN z ELSE s[j]
  <2> DEFINE X == Seq(S)
             i == n + 1
  <2>1. s \in Seq(X) /\ z \in X /\ i \in 1 .. Len(s) /\ t = [s EXCEPT ![i] = z]
    BY <1>2, <1>4
  <2> HIDE DEF X, i
  <2>2. /\ [s EXCEPT ![i] = z] \in Seq(X) /\ Len([s EXCEPT ![i] = z]) = Len(s)
        /\ \A j \in 1 .. Len(s) : [s EXCEPT ![i] = z][j] = IF j = i THEN z ELSE s[j]
    BY <2>1, ExceptSeq
  <2> QED
    BY <2>1, <2>2, Zenon DEF X, i
<1>7. t = u
  <2>1. \A j \in 1 .. Len(t) : t[j] = u[j]
    <3> SUFFICES ASSUME NEW j \in 1 .. Len(t) PROVE t[j] = u[j]
      OBVIOUS
    <3>1. CASE j = n + 1
      BY <1>2, <1>5, <1>6, <3>1
    <3>2. CASE j # n + 1
      <4>1. j \in 1 .. n
        BY <1>2, <1>6, <3>2
      <4> QED
        BY <1>2, <1>5, <1>6, <3>2, <4>1
    <3> QED
      BY <3>1, <3>2
  <2>2. Len(t) = Len(u)
    BY <1>2, <1>5, <1>6
  <2> QED
    BY <1>5, <1>6, <2>1, <2>2, SeqEqual
<1>8. FlattenSeq(u) = FlattenSeq(s) \o x
  <2>1. FlattenSeq(Append(q, y \o x)) = FlattenSeq(Append(q, y)) \o x
    BY <1>1, FlattenWider
  <2> QED
    BY <1>1, <2>1, Zenon DEF u, z
<1> QED
  BY <1>6, <1>7, <1>8

\* Put together rune by rune, sequence by sequence: the first k of them.
LEMMA FlattenPrefix ==
    ASSUME NEW S, NEW s \in Seq(Seq(S)), NEW k \in 1 .. Len(s)
    PROVE  /\ SubSeq(s, 1, k - 1) \in Seq(Seq(S))
           /\ FlattenSeq(SubSeq(s, 1, k - 1)) \in Seq(S) /\ s[k] \in Seq(S)
           /\ FlattenSeq(SubSeq(s, 1, k)) = FlattenSeq(SubSeq(s, 1, k - 1)) \o s[k]
<1> DEFINE q == SubSeq(s, 1, k - 1)
           x == s[k]
<1>1. q \in Seq(Seq(S)) /\ x \in Seq(S)
  <2>1. \A i \in 1 .. k - 1 : s[i] \in Seq(S)
    OBVIOUS
  <2> QED
    BY <2>1, SubSeqProperties
<1>2. SubSeq(s, 1, k) = q \o <<x>>
  <2>1. 1 \in 1 .. Len(s) /\ k \in 1 .. Len(s)
    OBVIOUS
  <2> QED
    BY <2>1, SubSeqRecursiveSecond
<1> HIDE DEF q, x
<1>3. q \o <<x>> = Append(q, x)
  <2> DEFINE X == Seq(S)
  <2>1. q \in Seq(X) /\ x \in X
    BY <1>1
  <2> HIDE DEF X
  <2> QED
    BY <2>1, AppendIsConcat
<1>4. FlattenSeq(q) \in Seq(S) /\ FlattenSeq(Append(q, x)) = FlattenSeq(q) \o x
  BY <1>1, FlattenAppend
<1> QED
  BY <1>1, <1>2, <1>3, <1>4 DEF q, x

------------------------------------------------------------
(* The tokens that segments come from.                                     *)

\* A segment is a part of a token and the number of that token.
Seg == [source : Nat, part : Tokens]

\* SourceTokens by its recursive function.
Sources(f, segs) ==
    /\ f \in [0 .. Len(segs) -> Seq(Nat)] /\ SourceTokens(segs) = f[Len(segs)]
    /\ f[0] = <<>> /\ \A n \in 1 .. Len(segs) : f[n] = AddSource(f[n - 1], segs[n])

\* A token joins the ones that were found.
LEMMA AddSourceType ==
    ASSUME NEW found \in Seq(Nat), NEW g \in Seg
    PROVE  AddSource(found, g) \in Seq(Nat)
<1>1. g.source \in Nat
  BY DEF Seg
<1> QED
  BY <1>1, AppendProperties DEF AddSource

\* SourceTokens goes from segment to segment.
LEMMA SourcesSteps ==
    ASSUME NEW segs \in Seq(Seg)
    PROVE  \E f : Sources(f, segs)
<1> DEFINE n == Len(segs)
           X == Seq(Nat)
           g == [p \in X \X (1 .. n) |-> AddSource(p[1], segs[p[2]])]
           Is(f) == f = [i \in 0 .. n |-> IF i = 0 THEN <<>> ELSE AddSource(f[i - 1], segs[i])]
           r == CHOOSE f : Is(f)
           x0 == <<>>
<1>1. n \in Nat /\ \A i \in 1 .. n : segs[i] \in Seg
  OBVIOUS
<1>2. g \in [X \X (1 .. n) -> X]
  <2> SUFFICES ASSUME NEW p \in X \X (1 .. n) PROVE AddSource(p[1], segs[p[2]]) \in X
    OBVIOUS
  <2>1. p[1] \in Seq(Nat) /\ segs[p[2]] \in Seg
    BY <1>1
  <2> QED
    BY <2>1, AddSourceType
<1>3. x0 \in X
  OBVIOUS
<1>4. \A p \in X, i \in 1 .. n : g[<<p, i>>] = AddSource(p, segs[i])
  OBVIOUS
<1> HIDE DEF n, X, g, x0
<1>5. PICK e : Iterates(e, n, X, x0, g)
  BY <1>1, <1>2, <1>3, Iterate
<1>6. e \in [0 .. n -> X] /\ e[0] = x0 /\ \A i \in 1 .. n : e[i] = g[<<e[i - 1], i>>]
  BY <1>5, Zenon DEF Iterates
<1>7. \A i \in 1 .. n : e[i] = AddSource(e[i - 1], segs[i])
  <2> SUFFICES ASSUME NEW i \in 1 .. n PROVE e[i] = AddSource(e[i - 1], segs[i])
    OBVIOUS
  <2>1. i - 1 \in 0 .. n
    BY <1>1
  <2>2. e[i - 1] \in X
    BY <1>6, <2>1
  <2> QED
    BY <1>4, <1>6, <2>2
<1>8. Is(e)
  <2>1. e = [i \in 0 .. n |-> e[i]]
    BY <1>6
  <2>2. \A i \in 0 .. n : e[i] = IF i = 0 THEN <<>> ELSE AddSource(e[i - 1], segs[i])
    <3> SUFFICES ASSUME NEW i \in 0 .. n PROVE e[i] = IF i = 0 THEN <<>> ELSE AddSource(e[i - 1], segs[i])
      OBVIOUS
    <3>1. CASE i = 0
      BY <1>6, <3>1 DEF x0
    <3>2. CASE i # 0
      <4>1. i \in 1 .. n
        BY <1>1, <3>2
      <4> QED
        BY <1>7, <3>2, <4>1
    <3> QED
      BY <3>1, <3>2
  <2> QED
    BY <2>1, <2>2
<1>9. Is(r)
  <2> HIDE DEF Is
  <2> QED
    BY <1>8
<1>10. SourceTokens(segs) = r[n]
  BY Zenon DEF SourceTokens, n
<1> HIDE DEF r
<1>11. r[0] = <<>> /\ \A i \in 1 .. n : r[i] = AddSource(r[i - 1], segs[i])
  <2>1. \A i \in 0 .. n : r[i] = IF i = 0 THEN <<>> ELSE AddSource(r[i - 1], segs[i])
    BY <1>9
  <2>2. 0 \in 0 .. n /\ \A i \in 1 .. n : i \in 0 .. n /\ i # 0
    BY <1>1
  <2> QED
    BY <2>1, <2>2
<1>12. \A i \in 0 .. n : r[i] \in Seq(Nat)
  <2> DEFINE Y == {i \in 0 .. n : r[i] \in Seq(Nat)}
  <2>1. 0 \in Y
    <3>1. 0 \in 0 .. n /\ <<>> \in Seq(Nat)
      BY <1>1
    <3> QED
      BY <1>11, <3>1
  <2>2. ASSUME NEW i \in 0 .. n - 1, i \in Y
        PROVE  i + 1 \in Y
    <3> DEFINE j == i + 1
    <3>1. j \in 1 .. n /\ j \in 0 .. n /\ j - 1 = i /\ r[i] \in Seq(Nat)
      BY <1>1, <2>2
    <3> HIDE DEF j
    <3>2. r[j] = AddSource(r[i], segs[j]) /\ segs[j] \in Seg
      BY <1>1, <1>11, <3>1
    <3>3. r[j] \in Seq(Nat)
      BY <3>1, <3>2, AddSourceType
    <3>4. j \in Y
      BY <3>1, <3>3
    <3> QED
      BY <3>4 DEF j
  <2> HIDE DEF Y
  <2>3. 0 .. n \subseteq Y
    BY <1>1, <2>1, <2>2, Upward
  <2> QED
    BY <2>3 DEF Y
<1>13. r \in [0 .. n -> Seq(Nat)]
  <2>1. r = [i \in 0 .. n |-> r[i]]
    BY <1>9, Zenon
  <2> QED
    BY <1>12, <2>1
<1>14. Sources(r, segs)
  BY <1>10, <1>11, <1>13 DEF Sources, n
<1> QED
  BY <1>14

\* A segment is added to those whose tokens are known.
LEMMA SourcesAppend ==
    ASSUME NEW segs \in Seq(Seg), NEW g \in Seg
    PROVE  /\ SourceTokens(segs) \in Seq(Nat)
           /\ SourceTokens(Append(segs, g)) = AddSource(SourceTokens(segs), g)
<1> DEFINE t == Append(segs, g)
           n == Len(segs)
           m == n + 1
<1>1. /\ t \in Seq(Seg) /\ Len(t) = m /\ n \in Nat
      /\ (\A i \in 1 .. n : t[i] = segs[i]) /\ t[m] = g
  BY AppendProperties
<1> HIDE DEF t
<1>2. PICK f : Sources(f, segs)
  BY SourcesSteps
<1>3. PICK h : Sources(h, t)
  BY <1>1, SourcesSteps
<1>4. /\ f \in [0 .. n -> Seq(Nat)] /\ SourceTokens(segs) = f[n]
      /\ f[0] = <<>> /\ \A i \in 1 .. n : f[i] = AddSource(f[i - 1], segs[i])
  BY <1>2, Zenon DEF Sources
<1>5. /\ h \in [0 .. m -> Seq(Nat)] /\ SourceTokens(t) = h[m]
      /\ h[0] = <<>> /\ \A i \in 1 .. m : h[i] = AddSource(h[i - 1], t[i])
  BY <1>1, <1>3, Zenon DEF Sources
<1> HIDE DEF n
<1> DEFINE Y == {i \in 0 .. n : h[i] = f[i]}
<1>6. 0 \in Y
  BY <1>1, <1>4, <1>5
<1>7. ASSUME NEW i \in 0 .. n - 1, i \in Y
      PROVE  i + 1 \in Y
  <2> DEFINE j == i + 1
  <2>1. j \in 1 .. n /\ j \in 1 .. m /\ j \in 0 .. n /\ j - 1 = i /\ h[i] = f[i]
    BY <1>1, <1>7
  <2> HIDE DEF j, m
  <2>2. f[j] = AddSource(f[i], segs[j]) /\ h[j] = AddSource(h[i], t[j]) /\ t[j] = segs[j]
    BY <1>1, <1>4, <1>5, <2>1
  <2>3. j \in Y
    BY <2>1, <2>2
  <2> QED
    BY <2>3 DEF j
<1> HIDE DEF Y
<1>8. 0 .. n \subseteq Y
  BY <1>1, <1>6, <1>7, Upward
<1>9. h[n] = f[n] /\ f[n] \in Seq(Nat)
  <2>1. n \in Y /\ n \in 0 .. n
    BY <1>1, <1>8
  <2> QED
    BY <1>4, <2>1 DEF Y
<1>10. m \in 1 .. m /\ m - 1 = n
  BY <1>1
<1> HIDE DEF m
<1>11. h[m] = AddSource(h[n], g)
  BY <1>1, <1>5, <1>10
<1> QED
  BY <1>4, <1>5, <1>9, <1>11 DEF t

\* The tokens of segments, by their type.
LEMMA SourcesType ==
    ASSUME NEW segs \in Seq(Seg)
    PROVE  SourceTokens(segs) \in Seq(Nat)
<1>1. PICK f : Sources(f, segs)
  BY SourcesSteps
<1>2. f \in [0 .. Len(segs) -> Seq(Nat)] /\ SourceTokens(segs) = f[Len(segs)]
  BY <1>1, Zenon DEF Sources
<1>3. Len(segs) \in 0 .. Len(segs)
  OBVIOUS
<1> QED
  BY <1>2, <1>3

\* No segments, no tokens.
LEMMA SourcesNothing == SourceTokens(<<>>) = <<>>
<1> DEFINE s == <<>>
<1>1. s \in Seq(Seg) /\ Len(s) = 0
  OBVIOUS
<1> HIDE DEF s
<1>2. PICK f : Sources(f, s)
  BY <1>1, SourcesSteps
<1>3. SourceTokens(s) = f[0] /\ f[0] = <<>>
  BY <1>1, <1>2 DEF Sources
<1> QED
  BY <1>3 DEF s

------------------------------------------------------------
(* The runes of segments and of lines.                                     *)

\* A line as the builder makes it.
Line == [segments : Seq(Seg), number : Int, flag : {"default"}, overlays : {<<>>}, annotations : {<<>>}]

\* The runes of the segments of a line; the runes and the segments of lines.
OriginsOf(segs) == [j \in DOMAIN segs |-> segs[j].part.origin]
Origins(segs) == FlattenSeq(OriginsOf(segs))
RunesIn(ls) == [i \in DOMAIN ls |-> Runes(ls[i])]
SegmentsIn(ls) == [i \in DOMAIN ls |-> ls[i].segments]

\* The runes of a segment come behind those of the segments before it.
LEMMA OriginsAppend ==
    ASSUME NEW segs \in Seq(Seg), NEW g \in Seg
    PROVE  /\ OriginsOf(segs) \in Seq(Seq(STRING)) /\ Origins(segs) \in Seq(STRING)
           /\ Origins(Append(segs, g)) = Origins(segs) \o g.part.origin
<1> DEFINE t == Append(segs, g)
           o == OriginsOf(segs)
           x == g.part.origin
           n == Len(segs)
<1>1. /\ t \in Seq(Seg) /\ Len(t) = n + 1 /\ n \in Nat
      /\ (\A i \in 1 .. n : t[i] = segs[i]) /\ t[n + 1] = g
  BY AppendProperties
<1>2. \A s \in Seq(Seg) : /\ OriginsOf(s) \in Seq(Seq(STRING)) /\ Len(OriginsOf(s)) = Len(s)
                          /\ \A i \in 1 .. Len(s) : OriginsOf(s)[i] = s[i].part.origin
  <2> SUFFICES ASSUME NEW s \in Seq(Seg)
               PROVE  /\ OriginsOf(s) \in Seq(Seq(STRING)) /\ Len(OriginsOf(s)) = Len(s)
                      /\ \A i \in 1 .. Len(s) : OriginsOf(s)[i] = s[i].part.origin
    OBVIOUS
  <2>1. \A i \in 1 .. Len(s) : s[i] \in Seg
    OBVIOUS
  <2>2. \A i \in 1 .. Len(s) : s[i].part.origin \in Seq(STRING)
    BY <2>1 DEF Seg, Tokens
  <2>3. DOMAIN s = 1 .. Len(s) /\ Len(s) \in Nat
    OBVIOUS
  <2> QED
    BY <2>2, <2>3 DEF OriginsOf
<1>3. x \in Seq(STRING)
  BY DEF Seg, Tokens
<1> DEFINE p == OriginsOf(t)
           a == Append(o, x)
<1>4. p \in Seq(Seq(STRING)) /\ o \in Seq(Seq(STRING)) /\ Len(p) = n + 1 /\ Len(o) = n
  BY <1>1, <1>2
<1>5. /\ a \in Seq(Seq(STRING)) /\ Len(a) = n + 1
      /\ (\A i \in 1 .. n : a[i] = o[i]) /\ a[n + 1] = x
  <2> HIDE DEF o, x, n
  <2> QED
    BY <1>3, <1>4, AppendProperties
<1>6. p = a
  <2>1. \A i \in 1 .. Len(p) : p[i] = a[i]
    <3> SUFFICES ASSUME NEW i \in 1 .. Len(p) PROVE p[i] = a[i]
      OBVIOUS
    <3>1. i \in 1 .. n \/ i = n + 1
      BY <1>1, <1>4
    <3>2. p[i] = t[i].part.origin
      BY <1>1, <1>2, <1>4
    <3>3. CASE i \in 1 .. n
      <4>1. p[i] = segs[i].part.origin
        BY <1>1, <3>2, <3>3
      <4>2. o[i] = segs[i].part.origin
        BY <1>2, <3>3
      <4> HIDE DEF p, a, o, t
      <4> QED
        BY <1>5, <3>3, <4>1, <4>2
    <3>4. CASE i = n + 1
      <4>1. p[i] = g.part.origin
        BY <1>1, <3>2, <3>4
      <4> HIDE DEF p, a, o, t
      <4> QED
        BY <1>5, <3>4, <4>1
    <3> QED
      BY <3>1, <3>3, <3>4
  <2> HIDE DEF p, a
  <2> QED
    BY <1>4, <1>5, <2>1, SeqEqual
<1>7. FlattenSeq(a) = FlattenSeq(o) \o x /\ FlattenSeq(o) \in Seq(STRING)
  <2> HIDE DEF o, x
  <2> QED
    BY <1>3, <1>4, FlattenAppend
<1> QED
  BY <1>4, <1>6, <1>7, Zenon DEF Origins

\* What a line holds, by its type.
LEMMA LineHolds ==
    ASSUME NEW l \in Line
    PROVE  /\ l.segments \in Seq(Seg)
           /\ Runes(l) = Origins(l.segments) /\ Runes(l) \in Seq(STRING)
<1>1. l.segments \in Seq(Seg)
  BY DEF Line
<1>2. Runes(l) = Origins(l.segments)
  BY DEF Runes, Origins, OriginsOf
<1>3. Origins(l.segments) \in Seq(STRING)
  <2> DEFINE s == l.segments
  <2>1. s \in Seq(Seg)
    BY <1>1
  <2> HIDE DEF s
  <2>2. OriginsOf(s) \in Seq(Seq(STRING))
    <3>1. \A i \in 1 .. Len(s) : s[i] \in Seg
      BY <2>1
    <3>2. \A i \in 1 .. Len(s) : s[i].part.origin \in Seq(STRING)
      BY <3>1 DEF Seg, Tokens
    <3>3. DOMAIN s = 1 .. Len(s) /\ Len(s) \in Nat
      BY <2>1
    <3> QED
      BY <3>2, <3>3 DEF OriginsOf
  <2>3. Origins(s) \in Seq(STRING)
    BY <2>2, FlattenType DEF Origins
  <2> QED
    BY <2>3 DEF s
<1> QED
  BY <1>1, <1>2, <1>3

\* The runes and the segments of lines, one by one.
LEMMA LinesHold ==
    ASSUME NEW ls \in Seq(Line)
    PROVE  /\ RunesIn(ls) \in Seq(Seq(STRING)) /\ Len(RunesIn(ls)) = Len(ls)
           /\ \A i \in 1 .. Len(ls) : RunesIn(ls)[i] = Runes(ls[i])
           /\ SegmentsIn(ls) \in Seq(Seq(Seg)) /\ Len(SegmentsIn(ls)) = Len(ls)
           /\ \A i \in 1 .. Len(ls) : SegmentsIn(ls)[i] = ls[i].segments
<1>1. DOMAIN ls = 1 .. Len(ls) /\ Len(ls) \in Nat /\ \A i \in 1 .. Len(ls) : ls[i] \in Line
  OBVIOUS
<1>2. \A i \in 1 .. Len(ls) : Runes(ls[i]) \in Seq(STRING) /\ ls[i].segments \in Seq(Seg)
  <2> SUFFICES ASSUME NEW i \in 1 .. Len(ls)
               PROVE  Runes(ls[i]) \in Seq(STRING) /\ ls[i].segments \in Seq(Seg)
    OBVIOUS
  <2>1. ls[i] \in Line
    BY <1>1
  <2> QED
    BY <2>1, LineHolds
<1>3. /\ RunesIn(ls) \in Seq(Seq(STRING)) /\ Len(RunesIn(ls)) = Len(ls)
      /\ \A i \in 1 .. Len(ls) : RunesIn(ls)[i] = Runes(ls[i])
  BY <1>1, <1>2 DEF RunesIn
<1>4. /\ SegmentsIn(ls) \in Seq(Seq(Seg)) /\ Len(SegmentsIn(ls)) = Len(ls)
      /\ \A i \in 1 .. Len(ls) : SegmentsIn(ls)[i] = ls[i].segments
  BY <1>1, <1>2 DEF SegmentsIn
<1> QED
  BY <1>3, <1>4

\* A line more, and its runes and its segments come last.
LEMMA LinesAppend ==
    ASSUME NEW ls \in Seq(Line), NEW l \in Line
    PROVE  /\ RunesIn(Append(ls, l)) = Append(RunesIn(ls), Runes(l))
           /\ SegmentsIn(Append(ls, l)) = Append(SegmentsIn(ls), l.segments)
<1> DEFINE t == Append(ls, l)
           n == Len(ls)
           x == Runes(l)
           y == l.segments
           r == RunesIn(ls)
           s == SegmentsIn(ls)
           p == RunesIn(t)
           q == SegmentsIn(t)
           a == Append(r, x)
           b == Append(s, y)
<1>1. /\ t \in Seq(Line) /\ Len(t) = n + 1 /\ n \in Nat
      /\ (\A i \in 1 .. n : t[i] = ls[i]) /\ t[n + 1] = l
  BY AppendProperties
<1>2. x \in Seq(STRING) /\ y \in Seq(Seg)
  BY LineHolds
<1>3. /\ r \in Seq(Seq(STRING)) /\ Len(r) = n /\ \A i \in 1 .. n : r[i] = Runes(ls[i])
      /\ s \in Seq(Seq(Seg)) /\ Len(s) = n /\ \A i \in 1 .. n : s[i] = ls[i].segments
  BY LinesHold
<1> HIDE DEF t
<1>4. /\ p \in Seq(Seq(STRING)) /\ Len(p) = n + 1 /\ \A i \in 1 .. n + 1 : p[i] = Runes(t[i])
      /\ q \in Seq(Seq(Seg)) /\ Len(q) = n + 1 /\ \A i \in 1 .. n + 1 : q[i] = t[i].segments
  BY <1>1, LinesHold
<1> HIDE DEF n, x, y, r, s, p, q
<1>5. a \in Seq(Seq(STRING)) /\ Len(a) = n + 1 /\ (\A i \in 1 .. n : a[i] = r[i]) /\ a[n + 1] = x
  BY <1>2, <1>3, AppendProperties
<1>6. b \in Seq(Seq(Seg)) /\ Len(b) = n + 1 /\ (\A i \in 1 .. n : b[i] = s[i]) /\ b[n + 1] = y
  BY <1>2, <1>3, AppendProperties
<1> HIDE DEF a, b
<1>7. \A i \in 1 .. n + 1 : p[i] = a[i] /\ q[i] = b[i]
  <2> SUFFICES ASSUME NEW i \in 1 .. n + 1 PROVE p[i] = a[i] /\ q[i] = b[i]
    OBVIOUS
  <2>1. CASE i = n + 1
    <3>1. p[i] = Runes(l) /\ q[i] = l.segments
      BY <1>1, <1>4, <2>1
    <3> QED
      BY <1>5, <1>6, <2>1, <3>1 DEF x, y
  <2>2. CASE i # n + 1
    <3>1. i \in 1 .. n
      BY <1>1, <2>2
    <3>2. p[i] = Runes(ls[i]) /\ q[i] = ls[i].segments
      BY <1>1, <1>4, <3>1
    <3> QED
      BY <1>3, <1>5, <1>6, <3>1, <3>2
  <2> QED
    BY <2>1, <2>2
<1>8. p = a
  BY <1>4, <1>5, <1>7, SeqEqual
<1>9. q = b
  BY <1>4, <1>6, <1>7, SeqEqual
<1> QED
  BY <1>8, <1>9 DEF a, b, r, s, p, q, t, x, y

\* A segment is put on the last line, behind everything.
LEMMA LastLineGrows ==
    ASSUME NEW ls \in Seq(Line), Len(ls) > 0, NEW g \in Seg, NEW t,
           t = [ls EXCEPT ![Len(ls)].segments = Append(@, g)]
    PROVE  /\ t \in Seq(Line)
           /\ FlattenSeq(RunesIn(t)) = FlattenSeq(RunesIn(ls)) \o g.part.origin
           /\ FlattenSeq(SegmentsIn(t)) = Append(FlattenSeq(SegmentsIn(ls)), g)
<1> DEFINE n == Len(ls)
           old == ls[n]
           new == [old EXCEPT !.segments = Append(@, g)]
           x == g.part.origin
<1>1. n \in 1 .. Len(ls) /\ old \in Line /\ DOMAIN ls = 1 .. n /\ n \in Nat
  OBVIOUS
<1>2. old.segments \in Seq(Seg) /\ Runes(old) = Origins(old.segments) /\ Runes(old) \in Seq(STRING)
  <2> HIDE DEF old
  <2> QED
    BY <1>1, LineHolds
<1>3. new \in Line /\ new.segments = Append(old.segments, g)
  <2>1. Append(old.segments, g) \in Seq(Seg)
    BY <1>2
  <2> HIDE DEF old
  <2> QED
    BY <1>1, <2>1 DEF Line
<1>4. Runes(new) = Runes(old) \o x /\ x \in Seq(STRING)
  <2> HIDE DEF old, new
  <2>1. Runes(new) = Origins(new.segments)
    BY <1>3, LineHolds
  <2> DEFINE s == old.segments
  <2>2. s \in Seq(Seg)
    BY <1>2
  <2> HIDE DEF s
  <2>3. Origins(Append(s, g)) = Origins(s) \o x
    BY <2>2, OriginsAppend
  <2>4. x \in Seq(STRING)
    BY DEF Seg, Tokens
  <2> QED
    BY <1>2, <1>3, <2>1, <2>3, <2>4 DEF s
<1>5. t = [ls EXCEPT ![n] = new]
  BY DEF Line
<1> HIDE DEF old, new, n, x
<1>6. /\ t \in Seq(Line) /\ Len(t) = n /\ DOMAIN t = 1 .. n
      /\ \A i \in 1 .. n : t[i] = IF i = n THEN new ELSE ls[i]
  <2>1. Len(ls) = n
    BY DEF n
  <2>2. [ls EXCEPT ![n] = new] \in Seq(Line) /\ Len([ls EXCEPT ![n] = new]) = Len(ls)
        /\ \A i \in 1 .. Len(ls) : [ls EXCEPT ![n] = new][i] = IF i = n THEN new ELSE ls[i]
    BY <1>1, <1>3, ExceptSeq
  <2>3. t \in Seq(Line) /\ Len(t) = n /\ \A i \in 1 .. n : t[i] = IF i = n THEN new ELSE ls[i]
    BY <1>5, <2>1, <2>2, Zenon
  <2>4. DOMAIN t = 1 .. Len(t)
    BY <2>3, LenProperties
  <2> QED
    BY <2>3, <2>4, Zenon
<1> DEFINE r == RunesIn(ls)
           s == SegmentsIn(ls)
           p == RunesIn(t)
           q == SegmentsIn(t)
<1>7. /\ r \in Seq(Seq(STRING)) /\ Len(r) = n /\ \A i \in 1 .. n : r[i] = Runes(ls[i])
      /\ s \in Seq(Seq(Seg)) /\ Len(s) = n /\ \A i \in 1 .. n : s[i] = ls[i].segments
  BY LinesHold DEF n
<1>8. /\ p \in Seq(Seq(STRING)) /\ Len(p) = n /\ \A i \in 1 .. n : p[i] = Runes(t[i])
      /\ q \in Seq(Seq(Seg)) /\ Len(q) = n /\ \A i \in 1 .. n : q[i] = t[i].segments
  BY <1>6, LinesHold
<1> DEFINE y == <<g>>
<1>9. y \in Seq(Seg) /\ n \in 1 .. n /\ Len(r) > 0 /\ Len(s) > 0
  BY <1>1, <1>7 DEF n
<1>10. Append(old.segments, g) = old.segments \o y
  BY <1>2, AppendIsConcat
<1>a. r[n] = Runes(old) /\ s[n] = old.segments
  BY <1>7, <1>9, SMTT(30) DEF old
<1>b. p[n] = r[n] \o x /\ q[n] = s[n] \o y
  <2>1. t[n] = new
    BY <1>6, <1>9
  <2>2. p[n] = Runes(new) /\ q[n] = new.segments
    BY <1>8, <1>9, <2>1
  <2> QED
    BY <1>3, <1>4, <1>10, <1>a, <2>2
<1> HIDE DEF r, s, p, q, y
<1>c. \A i \in 1 .. n : i # n => p[i] = r[i] /\ q[i] = s[i]
  <2> SUFFICES ASSUME NEW i \in 1 .. n, i # n PROVE p[i] = r[i] /\ q[i] = s[i]
    OBVIOUS
  <2>1. t[i] = ls[i]
    BY <1>6
  <2> QED
    BY <1>7, <1>8, <2>1
<1>d. Widened(p, r, x)
  <2>1. DOMAIN p = 1 .. n /\ DOMAIN r = 1 .. n
    BY <1>7, <1>8
  <2>2. p = [i \in 1 .. n |-> p[i]]
    BY <1>8, <2>1
  <2> DEFINE z == r[n] \o x
  <2>3. \A i \in 1 .. n : p[i] = IF i = n THEN z ELSE r[i]
    BY <1>b, <1>c
  <2> HIDE DEF z
  <2>4. p = [r EXCEPT ![n] = z]
    BY <2>1, <2>2, <2>3
  <2> QED
    BY <1>7, <2>4 DEF z, Widened
<1>e. Widened(q, s, y)
  <2>1. DOMAIN q = 1 .. n /\ DOMAIN s = 1 .. n
    BY <1>7, <1>8
  <2>2. q = [i \in 1 .. n |-> q[i]]
    BY <1>8, <2>1
  <2> DEFINE z == s[n] \o y
  <2>3. \A i \in 1 .. n : q[i] = IF i = n THEN z ELSE s[i]
    BY <1>b, <1>c
  <2> HIDE DEF z
  <2>4. q = [s EXCEPT ![n] = z]
    BY <2>1, <2>2, <2>3
  <2> QED
    BY <1>7, <2>4 DEF z, Widened
<1>f. FlattenSeq(p) = FlattenSeq(r) \o x
  <2> DEFINE S == STRING
  <2>1. r \in Seq(Seq(S)) /\ Len(r) > 0 /\ x \in Seq(S)
    BY <1>4, <1>7, <1>9
  <2> HIDE DEF S
  <2> QED
    BY <1>d, <2>1, FlattenLast
<1>g. FlattenSeq(q) = FlattenSeq(s) \o y
  <2> DEFINE S == Seg
  <2>1. s \in Seq(Seq(S)) /\ Len(s) > 0 /\ y \in Seq(S)
    BY <1>7, <1>9
  <2> HIDE DEF S
  <2> QED
    BY <1>e, <2>1, FlattenLast
<1>h. FlattenSeq(s) \o y = Append(FlattenSeq(s), g)
  <2> DEFINE f == FlattenSeq(s)
  <2>1. f \in Seq(Seg)
    BY <1>7, FlattenType
  <2> HIDE DEF f
  <2>2. Append(f, g) = f \o <<g>>
    BY <2>1, AppendIsConcat
  <2> QED
    BY <2>2 DEF f, y
<1> QED
  BY <1>6, <1>f, <1>g, <1>h DEF p, q, r, s, x

------------------------------------------------------------
(* The builder.                                                            *)

\* A builder: finished lines, and the line that has been begun.
Builder == [lines : Seq(Line), segs : Seq(Seg), endedWithNL : BOOLEAN, current : Int]

\* All that a builder has been given.
HeldRunes(b) == FlattenSeq(RunesIn(b.lines)) \o Origins(b.segs)
HeldSegs(b) == FlattenSeq(SegmentsIn(b.lines)) \o b.segs

\* The next column is a number.
LEMMA NextColumnType ==
    ASSUME NEW segs \in Seq(Seg)
    PROVE  NextColumn(segs) \in Int
<1> DEFINE n == Len(segs)
           X == {0} \cup {segs[j].part.col : j \in DOMAIN segs}
           Top(m, k) == m \in X /\ m >= 0 /\ \A j \in 1 .. k : m >= segs[j].part.col
           Y == {k \in 0 .. n : \E m \in Int : Top(m, k)}
<1>1. n \in Nat /\ DOMAIN segs = 1 .. n /\ \A j \in 1 .. n : segs[j].part.col \in Int
  <2>1. n \in Nat /\ DOMAIN segs = 1 .. n /\ \A j \in 1 .. n : segs[j] \in Seg
    OBVIOUS
  <2> QED
    BY <2>1 DEF Seg, Tokens
<1> HIDE DEF n
<1>2. 0 \in Y
  <2>1. 0 \in Int /\ 0 \in X /\ 0 >= 0 /\ \A j \in 1 .. 0 : 0 >= segs[j].part.col
    OBVIOUS
  <2>2. Top(0, 0)
    BY <2>1
  <2>3. 0 \in 0 .. n
    BY <1>1
  <2> HIDE DEF Top
  <2> QED
    BY <2>1, <2>2, <2>3
<1>3. ASSUME NEW k \in 0 .. n - 1, k \in Y
      PROVE  k + 1 \in Y
  <2>1. PICK m \in Int : Top(m, k)
    BY <1>3
  <2> DEFINE c == segs[k + 1].part.col
  <2>2. k + 1 \in 1 .. n /\ k + 1 \in 0 .. n /\ c \in Int /\ c \in X
    BY <1>1
  <2>a. \A j \in 1 .. k + 1 : j = k + 1 \/ (j \in 1 .. k /\ j \in 1 .. n /\ segs[j].part.col \in Int)
    BY <1>1
  <2>b. m \in Int /\ c \in Int /\ \A j \in 1 .. k : m >= segs[j].part.col
    BY <2>1, <2>2
  <2>3. CASE m >= c
    <3>1. \A j \in 1 .. k + 1 : m >= segs[j].part.col
      BY <2>3, <2>a, <2>b
    <3>2. Top(m, k + 1)
      BY <2>1, <3>1
    <3> HIDE DEF Top
    <3> QED
      BY <2>1, <2>2, <3>2
  <2>4. CASE c > m
    <3>1. \A j \in 1 .. k + 1 : c >= segs[j].part.col
      BY <2>4, <2>a, <2>b
    <3> HIDE DEF X
    <3>2. Top(c, k + 1)
      BY <2>1, <2>2, <2>4, <3>1
    <3> HIDE DEF Top, c
    <3> QED
      BY <2>2, <3>2
  <2> QED
    BY <2>1, <2>2, <2>3, <2>4, SMTT(30)
<1> HIDE DEF Y
<1>4. n \in Y
  <2>1. 0 .. n \subseteq Y
    BY <1>1, <1>2, <1>3, Upward
  <2> QED
    BY <1>1, <2>1
<1>5. PICK m \in Int : Top(m, n)
  BY <1>4 DEF Y
<1>6. m \in X /\ \A y \in X : m >= y
  BY <1>1, <1>5
<1>7. NextColumn(segs) \in X
  <2> HIDE DEF X
  <2>1. \E x \in X : \A y \in X : x >= y
    BY <1>6
  <2>2. Max(X) \in X
    BY <2>1, Zenon DEF Max
  <2> QED
    BY <2>2, Zenon DEF NextColumn, X
<1> QED
  BY <1>1, <1>7

\* A line that is finished holds what was under way.
LEMMA FinishLineHolds ==
    ASSUME NEW b \in Builder
    PROVE  /\ FinishLine(b) \in Builder /\ FinishLine(b).segs = <<>>
           /\ FinishLine(b).endedWithNL = b.endedWithNL
           /\ HeldRunes(FinishLine(b)) = HeldRunes(b) /\ HeldSegs(FinishLine(b)) = HeldSegs(b)
<1> DEFINE l == NewLine(b.segs, b.current)
           ls == b.lines
           c == FinishLine(b)
<1>1. b.lines \in Seq(Line) /\ b.segs \in Seq(Seg) /\ b.endedWithNL \in BOOLEAN /\ b.current \in Int
  BY DEF Builder
<1>2. /\ l = [segments |-> b.segs, number |-> b.current, flag |-> "default", overlays |-> <<>>,
             annotations |-> <<>>]
      /\ c = [b EXCEPT !.lines = Append(@, l), !.segs = <<>>, !.current = @ + 1]
  BY Zenon DEF FinishLine, NewLine
<1> HIDE DEF c, l, ls
<1>3. l \in Line /\ l.segments = b.segs
  <2> DEFINE sg == b.segs
             nr == b.current
  <2>1. sg \in Seq(Seg) /\ nr \in Int
    BY <1>1
  <2> HIDE DEF sg, nr
  <2> DEFINE z == <<>>
             d == "default"
  <2> HIDE DEF z, d
  <2>2. l = [segments |-> sg, number |-> nr, flag |-> d, overlays |-> z, annotations |-> z]
    BY <1>2, Zenon DEF sg, nr, z, d
  <2>3. Line = [segments : Seq(Seg), number : Int, flag : {d}, overlays : {z}, annotations : {z}]
    BY Zenon DEF Line, z, d
  <2>4. l \in Line /\ l.segments = sg
    BY <2>1, <2>2, <2>3
  <2> QED
    BY <2>4 DEF sg
<1>4. /\ c \in Builder /\ c.lines = Append(ls, l) /\ c.segs = <<>>
      /\ c.endedWithNL = b.endedWithNL
  <2> DEFINE a == Append(ls, l)
  <2>1. ls = b.lines
    BY DEF ls
  <2>2. a \in Seq(Line)
    BY <1>1, <1>3, <2>1, AppendProperties
  <2>3. c = [b EXCEPT !.lines = a, !.segs = <<>>, !.current = @ + 1]
    BY <1>2, <2>1, Zenon
  <2> HIDE DEF a
  <2> DEFINE c1 == [b EXCEPT !.lines = a]
             c2 == [c1 EXCEPT !.segs = <<>>]
  <2>4. c1 \in Builder /\ c1.lines = a /\ c1.endedWithNL = b.endedWithNL /\ c1.current = b.current
    BY <2>2 DEF Builder
  <2>5. c = [c2 EXCEPT !.current = c1.current + 1]
    BY <2>3, <2>4, Zenon
  <2> HIDE DEF c1
  <2>6. /\ c2 \in Builder /\ c2.lines = a /\ c2.segs = <<>> /\ c2.endedWithNL = c1.endedWithNL
        /\ c2.current = c1.current
    <3>1. <<>> \in Seq(Seg)
      OBVIOUS
    <3> QED
      BY <2>4, <3>1 DEF Builder
  <2> DEFINE m == c1.current + 1
  <2>7. m \in Int
    BY <1>1, <2>4
  <2> HIDE DEF c2, m
  <2>8. [c2 EXCEPT !.current = m] \in Builder
    BY <2>6, <2>7 DEF Builder
  <2>9. c = [c2 EXCEPT !.current = m]
    BY <2>5 DEF m
  <2>10. c.lines = c2.lines /\ c.segs = c2.segs /\ c.endedWithNL = c2.endedWithNL
    BY <2>6, <2>9 DEF Builder
  <2> QED
    BY <2>4, <2>6, <2>8, <2>9, <2>10 DEF a
<1> DEFINE r == RunesIn(ls)
           s == SegmentsIn(ls)
           x == Runes(l)
           y == b.segs
<1>5. /\ RunesIn(Append(ls, l)) = Append(r, x) /\ SegmentsIn(Append(ls, l)) = Append(s, y)
      /\ x = Origins(y) /\ x \in Seq(STRING) /\ y \in Seq(Seg)
      /\ r \in Seq(Seq(STRING)) /\ s \in Seq(Seq(Seg))
  <2>1. x = Origins(l.segments) /\ x \in Seq(STRING)
    BY <1>3, LineHolds
  <2>2. ls \in Seq(Line)
    BY <1>1 DEF ls
  <2>3. RunesIn(Append(ls, l)) = Append(r, x) /\ SegmentsIn(Append(ls, l)) = Append(s, l.segments)
    BY <1>3, <2>2, LinesAppend
  <2>4. r \in Seq(Seq(STRING)) /\ s \in Seq(Seq(Seg))
    BY <2>2, LinesHold
  <2> QED
    BY <1>1, <1>3, <2>1, <2>3, <2>4
<1> HIDE DEF r, s, x, y
<1>6. FlattenSeq(Append(r, x)) = FlattenSeq(r) \o x /\ FlattenSeq(r) \in Seq(STRING)
  BY <1>5, FlattenAppend
<1>7. FlattenSeq(Append(s, y)) = FlattenSeq(s) \o y /\ FlattenSeq(s) \in Seq(Seg)
  BY <1>5, FlattenAppend
<1>8. HeldRunes(c) = HeldRunes(b)
  <2>1. HeldRunes(c) = FlattenSeq(Append(r, x)) \o <<>>
    <3>1. Origins(<<>>) = <<>>
      <4>1. OriginsOf(<<>>) = <<>>
        BY DEF OriginsOf
      <4> QED
        BY <4>1, FlattenNothing DEF Origins
    <3> QED
      BY <1>4, <1>5, <3>1, Zenon DEF HeldRunes
  <2>2. HeldRunes(b) = FlattenSeq(r) \o x
    BY <1>5, Zenon DEF HeldRunes, r, y, ls
  <2> DEFINE f == FlattenSeq(r) \o x
  <2>3. f \in Seq(STRING)
    <3> DEFINE a == FlattenSeq(r)
    <3>1. a \in Seq(STRING)
      BY <1>6
    <3> HIDE DEF a
    <3>2. a \o x \in Seq(STRING)
      BY <1>5, <3>1, ConcatProperties
    <3> QED
      BY <3>2 DEF a
  <2> HIDE DEF f
  <2>4. f \o <<>> = f
    BY <2>3, ConcatEmptySeq
  <2> QED
    BY <1>6, <2>1, <2>2, <2>4, Zenon DEF f
<1>9. HeldSegs(c) = HeldSegs(b)
  <2>1. HeldSegs(c) = FlattenSeq(Append(s, y)) \o <<>>
    BY <1>4, <1>5, Zenon DEF HeldSegs
  <2>2. HeldSegs(b) = FlattenSeq(s) \o y
    BY Zenon DEF HeldSegs, s, y, ls
  <2> DEFINE f == FlattenSeq(s) \o y
  <2>3. f \in Seq(Seg)
    <3> DEFINE a == FlattenSeq(s)
    <3>1. a \in Seq(Seg)
      BY <1>7
    <3> HIDE DEF a
    <3>2. a \o y \in Seq(Seg)
      BY <1>5, <3>1, ConcatProperties
    <3> QED
      BY <3>2 DEF a
  <2> HIDE DEF f
  <2>4. f \o <<>> = f
    BY <2>3, ConcatEmptySeq
  <2> QED
    BY <1>7, <2>1, <2>2, <2>4, Zenon DEF f
<1> QED
  BY <1>4, <1>8, <1>9 DEF c

\* The number of the line does not matter.
LEMMA RecountHolds ==
    ASSUME NEW b \in Builder, NEW n \in Int
    PROVE  /\ [b EXCEPT !.current = n] \in Builder /\ [b EXCEPT !.current = n].segs = b.segs
           /\ [b EXCEPT !.current = n].endedWithNL = b.endedWithNL
           /\ HeldRunes([b EXCEPT !.current = n]) = HeldRunes(b)
           /\ HeldSegs([b EXCEPT !.current = n]) = HeldSegs(b)
<1> DEFINE c == [b EXCEPT !.current = n]
<1>1. /\ c \in Builder /\ c.lines = b.lines /\ c.segs = b.segs /\ c.endedWithNL = b.endedWithNL
  BY DEF Builder
<1> HIDE DEF c
<1>2. HeldRunes(c) = HeldRunes(b) /\ HeldSegs(c) = HeldSegs(b)
  BY <1>1, Zenon DEF HeldRunes, HeldSegs
<1> QED
  BY <1>1, <1>2 DEF c

\* A gap flushes a line at most.
LEMMA HandleGapHolds ==
    ASSUME NEW b \in Builder, NEW tk \in Tokens
    PROVE  /\ HandleGap(b, tk) \in Builder /\ HandleGap(b, tk).endedWithNL = b.endedWithNL
           /\ b.segs = <<>> => HandleGap(b, tk).segs = <<>>
           /\ HeldRunes(HandleGap(b, tk)) = HeldRunes(b) /\ HeldSegs(HandleGap(b, tk)) = HeldSegs(b)
<1> DEFINE Good(c) == /\ c \in Builder /\ c.endedWithNL = b.endedWithNL /\ (b.segs = <<>> => c.segs = <<>>)
                      /\ HeldRunes(c) = HeldRunes(b) /\ HeldSegs(c) = HeldSegs(b)
           flushed == IF tk.line > b.current + 1 /\ b.segs # <<>>
                      THEN [FinishLine(b) EXCEPT !.current = b.current] ELSE b
           there == [flushed EXCEPT !.current = tk.line]
<1>1. tk.line \in Int /\ b.current \in Int
  BY DEF Tokens, Builder
<1>2. Good(flushed)
  <2>1. Good(b)
    OBVIOUS
  <2>2. Good([FinishLine(b) EXCEPT !.current = b.current])
    <3> DEFINE d == FinishLine(b)
    <3>1. /\ d \in Builder /\ d.segs = <<>> /\ d.endedWithNL = b.endedWithNL
          /\ HeldRunes(d) = HeldRunes(b) /\ HeldSegs(d) = HeldSegs(b)
      BY FinishLineHolds
    <3> HIDE DEF d
    <3> DEFINE m == b.current
    <3>2. m \in Int
      BY <1>1
    <3> HIDE DEF m
    <3>3. /\ [d EXCEPT !.current = m] \in Builder /\ [d EXCEPT !.current = m].segs = d.segs
          /\ [d EXCEPT !.current = m].endedWithNL = d.endedWithNL
          /\ HeldRunes([d EXCEPT !.current = m]) = HeldRunes(d)
          /\ HeldSegs([d EXCEPT !.current = m]) = HeldSegs(d)
      BY <3>1, <3>2, RecountHolds
    <3>4. Good([d EXCEPT !.current = m])
      BY <3>1, <3>3
    <3> HIDE DEF Good
    <3> QED
      BY <3>4 DEF d, m
  <2> HIDE DEF Good
  <2> QED
    BY <2>1, <2>2
<1>3. Good(there)
  <2> HIDE DEF flushed
  <2> DEFINE m == tk.line
  <2>1. m \in Int /\ flushed \in Builder
    BY <1>1, <1>2
  <2> HIDE DEF m
  <2>2. /\ [flushed EXCEPT !.current = m] \in Builder /\ [flushed EXCEPT !.current = m].segs = flushed.segs
        /\ [flushed EXCEPT !.current = m].endedWithNL = flushed.endedWithNL
        /\ HeldRunes([flushed EXCEPT !.current = m]) = HeldRunes(flushed)
        /\ HeldSegs([flushed EXCEPT !.current = m]) = HeldSegs(flushed)
    BY <2>1, RecountHolds
  <2>3. Good([flushed EXCEPT !.current = m])
    BY <1>2, <2>2
  <2> HIDE DEF Good
  <2> QED
    BY <2>3 DEF m
<1>4. Good(b)
  OBVIOUS
<1>5. HandleGap(b, tk) = b \/ HandleGap(b, tk) = flushed \/ HandleGap(b, tk) = there
  <2> HIDE DEF Good
  <2> QED
    BY Zenon DEF HandleGap
<1>6. Good(HandleGap(b, tk))
  <2> HIDE DEF Good, flushed, there
  <2> QED
    BY <1>2, <1>3, <1>4, <1>5
<1> QED
  BY <1>6

\* A segment joins the line under way.
LEMMA GrowHolds ==
    ASSUME NEW b \in Builder, NEW g \in Seg
    PROVE  /\ [b EXCEPT !.segs = Append(@, g)] \in Builder
           /\ [b EXCEPT !.segs = Append(@, g)].endedWithNL = b.endedWithNL
           /\ HeldRunes([b EXCEPT !.segs = Append(@, g)]) = HeldRunes(b) \o g.part.origin
           /\ HeldSegs([b EXCEPT !.segs = Append(@, g)]) = Append(HeldSegs(b), g)
<1> DEFINE s == b.segs
           a == Append(s, g)
           c == [b EXCEPT !.segs = a]
           r == FlattenSeq(RunesIn(b.lines))
           q == FlattenSeq(SegmentsIn(b.lines))
           o == Origins(s)
           x == g.part.origin
<1>1. b.lines \in Seq(Line) /\ s \in Seq(Seg)
  BY DEF Builder
<1> HIDE DEF s
<1>2. a \in Seq(Seg)
  BY <1>1, AppendProperties
<1>3. a = s \o <<g>>
  BY <1>1, AppendIsConcat
<1>4. Origins(a) = o \o x /\ o \in Seq(STRING)
  BY <1>1, OriginsAppend
<1>5. x \in Seq(STRING)
  BY DEF Seg, Tokens
<1>6. r \in Seq(STRING) /\ q \in Seq(Seg)
  <2> DEFINE ls == b.lines
  <2>1. ls \in Seq(Line)
    BY <1>1
  <2> HIDE DEF ls
  <2>2. RunesIn(ls) \in Seq(Seq(STRING)) /\ SegmentsIn(ls) \in Seq(Seq(Seg))
    BY <2>1, LinesHold
  <2>3. FlattenSeq(RunesIn(ls)) \in Seq(STRING) /\ FlattenSeq(SegmentsIn(ls)) \in Seq(Seg)
    BY <2>2, FlattenType
  <2> QED
    BY <2>3 DEF ls
<1> HIDE DEF a
<1>7. /\ c \in Builder /\ c.lines = b.lines /\ c.segs = a /\ c.endedWithNL = b.endedWithNL
  BY <1>1, <1>2 DEF Builder
<1> HIDE DEF c
<1>8. HeldRunes(c) = r \o (o \o x) /\ HeldSegs(c) = q \o a
  BY <1>4, <1>7, Zenon DEF HeldRunes, HeldSegs
<1>9. HeldRunes(b) = r \o o /\ HeldSegs(b) = q \o s
  BY Zenon DEF HeldRunes, HeldSegs, s
<1> HIDE DEF r, q, o, x
<1>10. r \o (o \o x) = (r \o o) \o x
  <2>1. r \in Seq(STRING) /\ o \in Seq(STRING) /\ x \in Seq(STRING)
    BY <1>4, <1>5, <1>6
  <2>2. (r \o o) \o x = r \o (o \o x)
    BY <2>1, Associative
  <2> QED
    BY <2>2
<1>11. q \o a = Append(q \o s, g)
  <2> DEFINE y == <<g>>
  <2>1. y \in Seq(Seg)
    OBVIOUS
  <2>2. a = s \o y
    BY <1>3
  <2> HIDE DEF y
  <2>3. q \o (s \o y) = (q \o s) \o y
    BY <1>1, <1>6, <2>1, Associative, SMTT(30)
  <2> DEFINE p == q \o s
  <2>4. p \in Seq(Seg)
    BY <1>1, <1>6, ConcatProperties
  <2> HIDE DEF p
  <2>5. Append(p, g) = p \o <<g>>
    BY <2>4, AppendIsConcat
  <2> QED
    BY <2>2, <2>3, <2>5, Zenon DEF p, y
<1>12. [b EXCEPT !.segs = Append(@, g)] = c
  BY Zenon DEF c, a, s
<1> QED
  BY <1>7, <1>8, <1>9, <1>10, <1>11, <1>12, Zenon DEF x

\* A part of a token is a token that has the text of the part.
LEMMA PartTyped ==
    ASSUME NEW b \in Builder, NEW tk \in Tokens, NEW parts \in Seq(Seq(STRING)), NEW k \in 1 .. Len(parts),
           NEW block
    PROVE  PartToken(b, tk, parts, k, block) \in Tokens /\ PartToken(b, tk, parts, k, block).origin = parts[k]
<1> DEFINE p == PartToken(b, tk, parts, k, block)
           n == NextColumn(b.segs)
           x == parts[k]
<1>1. /\ tk.type \in TokenTypes /\ tk.value \in Seq(STRING) /\ tk.line \in Int /\ tk.col \in Int
      /\ b.current \in Int
  BY DEF Tokens, Builder
<1>2. n + 1 \in Int
  <2>1. b.segs \in Seq(Seg)
    BY DEF Builder
  <2>2. n \in Int
    BY <2>1, NextColumnType
  <2> HIDE DEF n
  <2> QED
    BY <2>2
<1>3. x \in Seq(STRING)
  OBVIOUS
<1>4. "space" \in TokenTypes
  BY DEF TokenTypes
<1>5. /\ p.type \in {"space", tk.type} /\ p.origin = x /\ p.value \in {tk.value, <<>>}
      /\ p.line \in {tk.line, b.current} /\ p.col \in {tk.col, n + 1, 1}
      /\ p = [type |-> p.type, origin |-> p.origin, value |-> p.value, line |-> p.line, col |-> p.col]
  <2> HIDE DEF n, x
  <2>1. p.type \in {"space", tk.type}
    BY DEF PartToken
  <2>2. p.origin = x
    BY DEF PartToken, x
  <2>3. p.value \in {tk.value, <<>>}
    BY DEF PartToken
  <2>4. p.line \in {tk.line, b.current}
    BY DEF PartToken
  <2>5. p.col \in {tk.col, n + 1, 1}
    BY DEF PartToken, n
  <2>6. p = [type |-> p.type, origin |-> p.origin, value |-> p.value, line |-> p.line, col |-> p.col]
    BY DEF PartToken
  <2> QED
    BY <2>1, <2>2, <2>3, <2>4, <2>5, <2>6
<1> HIDE DEF p, n, x
<1>6. p.type \in TokenTypes
  BY <1>1, <1>4, <1>5
<1>7. p.origin \in Seq(STRING)
  BY <1>3, <1>5
<1>8. p.value \in Seq(STRING)
  <2>1. <<>> \in Seq(STRING)
    OBVIOUS
  <2> QED
    BY <1>1, <1>5, <2>1
<1>9. p.line \in Int /\ p.col \in Int
  BY <1>1, <1>2, <1>5
<1> QED
  BY <1>5, <1>6, <1>7, <1>8, <1>9 DEF Tokens, p, x

\* What is added to a builder: a text, in a segment of a token.
Adds(c, b, text, i) ==
    /\ c \in Builder /\ c.endedWithNL = b.endedWithNL
    /\ HeldRunes(c) = HeldRunes(b) \o text
    /\ \E g \in Seg : g.source = i /\ HeldSegs(c) = Append(HeldSegs(b), g)

\* A newline counted twice goes to the line that it ended the first time.
LEMMA KeepDuplicateHolds ==
    ASSUME NEW b \in Builder, Len(b.lines) > 0, NEW i \in Nat, NEW tk \in Tokens,
           NEW part \in Seq(STRING)
    PROVE  /\ KeepDuplicate(b, i, tk, part) \in Builder
           /\ b.segs = <<>> => /\ Adds(KeepDuplicate(b, i, tk, part), b, part, i)
                               /\ KeepDuplicate(b, i, tk, part).segs = <<>>
<1> DEFINE ls == b.lines
           before == Last(ls)
           n == NextColumn(before.segments)
           copy == [type |-> tk.type, origin |-> part, value |-> <<>>, line |-> b.current - 1, col |-> n + 1]
           g == Segment(i, copy)
           t == [ls EXCEPT ![Len(ls)].segments = Append(@, g)]
           c == KeepDuplicate(b, i, tk, part)
<1>1. ls \in Seq(Line) /\ Len(ls) > 0 /\ b.current \in Int /\ tk.type \in TokenTypes
  BY DEF Builder, Tokens
<1>2. c = [b EXCEPT !.lines = t]
  BY Zenon DEF KeepDuplicate
<1>3. copy \in Tokens /\ copy.origin = part
  <2>1. before \in Line
    <3> HIDE DEF ls
    <3> QED
      BY <1>1 DEF Last
  <2> HIDE DEF before
  <2>2. n \in Int
    <3>1. before.segments \in Seq(Seg)
      BY <2>1 DEF Line
    <3> QED
      BY <3>1, NextColumnType
  <2> HIDE DEF n
  <2>3. n + 1 \in Int /\ b.current - 1 \in Int /\ <<>> \in Seq(STRING)
    BY <1>1, <2>2
  <2> QED
    BY <1>1, <2>3 DEF Tokens
<1> HIDE DEF copy
<1>4. g \in Seg /\ g.source = i /\ g.part.origin = part
  BY <1>3 DEF Seg, Segment
<1> HIDE DEF g, ls
<1>5. /\ t \in Seq(Line)
      /\ FlattenSeq(RunesIn(t)) = FlattenSeq(RunesIn(ls)) \o part
      /\ FlattenSeq(SegmentsIn(t)) = Append(FlattenSeq(SegmentsIn(ls)), g)
  BY <1>1, <1>4, LastLineGrows
<1> HIDE DEF t
<1>6. c \in Builder /\ c.lines = t /\ c.segs = b.segs /\ c.endedWithNL = b.endedWithNL
  BY <1>2, <1>5 DEF Builder
<1> HIDE DEF c
<1>u. SUFFICES ASSUME b.segs = <<>> PROVE Adds(c, b, part, i) /\ c.segs = <<>>
  BY <1>6 DEF c
<1>7. Origins(<<>>) = <<>>
  <2>1. OriginsOf(<<>>) = <<>>
    BY DEF OriginsOf
  <2> QED
    BY <2>1, FlattenNothing DEF Origins
<1> DEFINE r == FlattenSeq(RunesIn(ls))
           q == FlattenSeq(SegmentsIn(ls))
<1>8. r \in Seq(STRING) /\ q \in Seq(Seg)
  <2>1. RunesIn(ls) \in Seq(Seq(STRING)) /\ SegmentsIn(ls) \in Seq(Seq(Seg))
    BY <1>1, LinesHold
  <2> QED
    BY <2>1, FlattenType
<1>9. HeldRunes(c) = (r \o part) \o <<>> /\ HeldSegs(c) = Append(q, g) \o <<>>
  BY <1>5, <1>6, <1>7, <1>u, Zenon DEF HeldRunes, HeldSegs
<1>10. HeldRunes(b) = r \o <<>> /\ HeldSegs(b) = q \o <<>>
  BY <1>7, <1>u, Zenon DEF HeldRunes, HeldSegs, ls
<1> HIDE DEF r, q
<1>11. r \o <<>> = r /\ q \o <<>> = q
  BY <1>8, ConcatEmptySeq
<1>12. (r \o part) \o <<>> = r \o part
  <2> DEFINE s == r \o part
  <2>1. s \in Seq(STRING)
    BY <1>8, ConcatProperties
  <2> HIDE DEF s
  <2>2. s \o <<>> = s
    BY <2>1, ConcatEmptySeq
  <2> QED
    BY <2>2 DEF s
<1>13. Append(q, g) \o <<>> = Append(q, g)
  <2> DEFINE s == Append(q, g)
  <2>1. s \in Seq(Seg)
    BY <1>4, <1>8, AppendProperties
  <2> HIDE DEF s
  <2>2. s \o <<>> = s
    BY <2>1, ConcatEmptySeq
  <2> QED
    BY <2>2 DEF s
<1>14. HeldRunes(c) = HeldRunes(b) \o part /\ HeldSegs(c) = Append(HeldSegs(b), g)
  BY <1>9, <1>10, <1>11, <1>12, <1>13, Zenon
<1>15. Adds(c, b, part, i)
  BY <1>4, <1>6, <1>14, Zenon DEF Adds
<1> QED
  BY <1>6, <1>15, <1>u

\* A part of a token's text is added once, and a newline ends the line.
LEMMA ProcessPartHolds ==
    ASSUME NEW b \in Builder, NEW ts \in Seq(Tokens), NEW i \in 1 .. Len(ts),
           NEW parts \in Seq(Seq(STRING)), NEW k \in 1 .. Len(parts)
    PROVE  /\ ProcessPart(b, ts, i, parts, k) \in Builder
           /\ (k = 1 /\ b.endedWithNL => b.segs = <<>>) =>
                 /\ Adds(ProcessPart(b, ts, i, parts, k), b, parts[k], i)
                 /\ EndsWithNL(parts[k]) => ProcessPart(b, ts, i, parts, k).segs = <<>>
<1> DEFINE tk == ts[i]
           x == parts[k]
           p == PartToken(b, tk, parts, k, IsBlockScalarContent(ts, i))
           g == Segment(i, p)
           grown == [b EXCEPT !.segs = Append(@, g)]
           c == ProcessPart(b, ts, i, parts, k)
<1>1. tk \in Tokens /\ x \in Seq(STRING) /\ i \in Nat
  OBVIOUS
<1> HIDE DEF tk
<1>2. p \in Tokens /\ p.origin = x
  BY <1>1, PartTyped
<1> HIDE DEF p
<1>3. g \in Seg /\ g.source = i /\ g.part.origin = x
  BY <1>1, <1>2 DEF Seg, Segment
<1> HIDE DEF g
<1>4. Adds(grown, b, x, i)
  <2>1. /\ grown \in Builder /\ grown.endedWithNL = b.endedWithNL
        /\ HeldRunes(grown) = HeldRunes(b) \o g.part.origin /\ HeldSegs(grown) = Append(HeldSegs(b), g)
    BY <1>3, GrowHolds
  <2> HIDE DEF grown
  <2>2. HeldRunes(grown) = HeldRunes(b) \o x
    BY <1>3, <2>1
  <2> QED
    BY <1>3, <2>1, <2>2, Zenon DEF Adds
<1> HIDE DEF grown, x
<1>5. Adds(FinishLine(grown), b, x, i) /\ FinishLine(grown).segs = <<>>
  <2>1. grown \in Builder
    BY <1>4 DEF Adds
  <2> DEFINE d == FinishLine(grown)
  <2>2. /\ d \in Builder /\ d.segs = <<>> /\ d.endedWithNL = grown.endedWithNL
        /\ HeldRunes(d) = HeldRunes(grown) /\ HeldSegs(d) = HeldSegs(grown)
    BY <2>1, FinishLineHolds
  <2> HIDE DEF d
  <2>3. Adds(d, b, x, i)
    BY <1>4, <2>2, Zenon DEF Adds
  <2> QED
    BY <2>2, <2>3 DEF d
<1>6. CASE IsDuplicateNewline(b, tk, x, k)
  <2>1. k = 1 /\ b.endedWithNL /\ b.lines # <<>>
    BY <1>6 DEF IsDuplicateNewline
  <2>3. Len(b.lines) > 0
    <3>1. b.lines \in Seq(Line)
      BY DEF Builder
    <3> DEFINE ls == b.lines
    <3>2. ls \in Seq(Line) /\ ls # <<>>
      BY <2>1, <3>1
    <3> HIDE DEF ls
    <3>3. Len(ls) > 0
      BY <3>2
    <3> QED
      BY <3>3 DEF ls
  <2>4. /\ KeepDuplicate(b, i, tk, x) \in Builder
        /\ b.segs = <<>> => Adds(KeepDuplicate(b, i, tk, x), b, x, i) /\ KeepDuplicate(b, i, tk, x).segs = <<>>
    BY <1>1, <2>3, KeepDuplicateHolds
  <2>5. c = KeepDuplicate(b, i, tk, x)
    BY <1>6, Zenon DEF ProcessPart, tk, x
  <2> HIDE DEF c
  <2>6. c \in Builder /\ ((k = 1 /\ b.endedWithNL => b.segs = <<>>) => Adds(c, b, x, i) /\ c.segs = <<>>)
    BY <2>1, <2>4, <2>5, Zenon
  <2> QED
    BY <2>6, Zenon DEF c, x
<1>7. CASE ~IsDuplicateNewline(b, tk, x, k) /\ EndsWithNL(x)
  <2>1. c = FinishLine(grown)
    BY <1>7, Zenon DEF ProcessPart, tk, x, grown, g, p
  <2> HIDE DEF c
  <2>2. Adds(c, b, x, i) /\ c.segs = <<>>
    BY <1>5, <2>1, Zenon
  <2>3. c \in Builder
    BY <2>2, Zenon DEF Adds
  <2> QED
    BY <2>2, <2>3, Zenon DEF c, x
<1>8. CASE ~IsDuplicateNewline(b, tk, x, k) /\ ~EndsWithNL(x)
  <2>1. c = grown
    BY <1>8, Zenon DEF ProcessPart, tk, x, grown, g, p
  <2> HIDE DEF c
  <2>2. Adds(c, b, x, i) /\ ~EndsWithNL(x)
    BY <1>4, <1>8, <2>1, Zenon
  <2>3. c \in Builder
    BY <2>2, Zenon DEF Adds
  <2> QED
    BY <2>2, <2>3, Zenon DEF c, x
<1> QED
  BY <1>6, <1>7, <1>8, Zenon

------------------------------------------------------------
(* The parts of a text.                                                    *)

\* A text is cut in parts; there is at least one.
Cut(parts) == parts \in Seq(Seq(STRING)) /\ Len(parts) > 0
\* A text cut in parts, ending with a rune.
CutBefore(parts, text, rune) ==
    /\ Cut(parts) /\ FlattenSeq(parts) = Append(text, rune)
    /\ parts[Len(parts)] # <<>> /\ Last(parts[Len(parts)]) = rune

\* One value is a sequence.
LEMMA Single ==
    ASSUME NEW S, NEW a \in S
    PROVE  <<a>> \in Seq(S)
OBVIOUS

\* A rune more.
LEMMA AddRuneHolds ==
    ASSUME NEW parts, Cut(parts), NEW r \in STRING
    PROVE  CutBefore(AddRune(parts, r), FlattenSeq(parts), r)
<1> DEFINE n == Len(parts)
           f == FlattenSeq(parts)
           x == <<r>>
           t == AddRune(parts, r)
<1>1. parts \in Seq(Seq(STRING)) /\ n \in Nat /\ n > 0 /\ x \in Seq(STRING)
  <2>1. parts \in Seq(Seq(STRING)) /\ n > 0
    BY DEF Cut
  <2>2. n \in Nat
    BY <2>1, LenProperties
  <2>3. x \in Seq(STRING)
    BY Single
  <2> QED
    BY <2>1, <2>2, <2>3
<1>2. f \in Seq(STRING)
  BY <1>1, FlattenType
<1>3. Last(parts) = parts[n]
  BY DEF Last
<1>4. f \o x = Append(f, r)
  <2> HIDE DEF f
  <2>1. Append(f, r) = f \o <<r>>
    BY <1>2, AppendIsConcat
  <2> QED
    BY <2>1
<1>5. CASE EndsWithNL(Last(parts))
  <2>1. t = Append(parts, x)
    BY <1>5, Zenon DEF AddRune
  <2>2. FlattenSeq(Append(parts, x)) = f \o x
    <3> HIDE DEF x
    <3> QED
      BY <1>1, FlattenAppend
  <2> DEFINE X == Seq(STRING)
  <2>3. parts \in Seq(X) /\ x \in X
    BY <1>1
  <2>4. x # <<>> /\ Last(x) = r
    BY DEF Last
  <2> HIDE DEF X, x
  <2>5. Append(parts, x) \in Seq(X) /\ Len(Append(parts, x)) = n + 1 /\ Append(parts, x)[n + 1] = x
    BY <2>3, AppendProperties
  <2> HIDE DEF t
  <2>6. t \in Seq(X) /\ Len(t) > 0 /\ t[Len(t)] = x
    <3>1. Len(t) = n + 1 /\ t[n + 1] = x /\ t \in Seq(X)
      BY <2>1, <2>5, Zenon
    <3> QED
      BY <1>1, <3>1
  <2>7. FlattenSeq(t) = Append(f, r)
    BY <1>4, <2>1, <2>2, Zenon
  <2>8. CutBefore(t, f, r)
    BY <2>4, <2>6, <2>7, Zenon DEF CutBefore, Cut, X
  <2> QED
    BY <2>8 DEF t, f
<1>6. CASE ~EndsWithNL(Last(parts))
  <2> DEFINE l == parts[n]
             z == l \o x
  <2>1. l \in Seq(STRING) /\ n \in 1 .. n
    BY <1>1
  <2>2. t = [parts EXCEPT ![n] = Append(l, r)]
    BY <1>6, Zenon DEF AddRune
  <2>3. Append(l, r) = z
    <3> HIDE DEF l
    <3>1. Append(l, r) = l \o <<r>>
      BY <2>1, AppendIsConcat
    <3> QED
      BY <3>1
  <2>4. Widened(t, parts, x)
    BY <2>2, <2>3, Zenon DEF Widened
  <2> HIDE DEF t, x
  <2>5. t \in Seq(Seq(STRING)) /\ Len(t) = n /\ FlattenSeq(t) = f \o x
    BY <1>1, <2>4, FlattenLast
  <2>6. t[n] = Append(l, r)
    <3> DEFINE a == Append(l, r)
    <3>1. t = [parts EXCEPT ![n] = a]
      BY <2>2
    <3>2. n \in DOMAIN parts
      BY <1>1
    <3> HIDE DEF a, n
    <3>3. t[n] = a
      BY <3>1, <3>2
    <3> QED
      BY <3>3 DEF a
  <2>7. Append(l, r) # <<>> /\ Last(Append(l, r)) = r
    <3> HIDE DEF l
    <3>1. Append(l, r) \in Seq(STRING) /\ Len(Append(l, r)) = Len(l) + 1 /\ Append(l, r)[Len(l) + 1] = r
      BY <2>1, AppendProperties
    <3>2. Last(Append(l, r)) = r
      BY <3>1 DEF Last
    <3> DEFINE a == Append(l, r)
    <3>3. a # <<>>
      <4>1. a \in Seq(STRING) /\ Len(a) = Len(l) + 1 /\ Len(l) \in Nat
        <5>1. Len(l) \in Nat
          BY <2>1, LenProperties
        <5> QED
          BY <3>1, <5>1, Zenon
      <4> HIDE DEF a
      <4>2. Len(a) # 0
        BY <4>1
      <4> QED
        BY <4>2
    <3> QED
      BY <3>2, <3>3
  <2>8. t[Len(t)] = Append(l, r) /\ Len(t) > 0
    BY <1>1, <2>5, <2>6, Zenon
  <2>9. FlattenSeq(t) = Append(f, r)
    BY <1>4, <2>5, Zenon
  <2>10. CutBefore(t, f, r)
    BY <2>5, <2>7, <2>8, <2>9, Zenon DEF CutBefore, Cut
  <2> QED
    BY <2>10 DEF t, f
<1> QED
  BY <1>5, <1>6

\* SplitOrigin by its recursive function.
Splits(f, origin) ==
    /\ f \in [0 .. Len(origin) -> {p \in Seq(Seq(STRING)) : Len(p) > 0}]
    /\ SplitOrigin(origin) = f[Len(origin)] /\ f[0] = << <<>> >>
    /\ \A n \in 1 .. Len(origin) : f[n] = AddRune(f[n - 1], origin[n])

\* SplitOrigin goes from rune to rune.
LEMMA SplitSteps ==
    ASSUME NEW origin \in Seq(STRING)
    PROVE  \E f : Splits(f, origin)
<1> DEFINE n == Len(origin)
           X == {p \in Seq(Seq(STRING)) : Len(p) > 0}
           g == [p \in X \X (1 .. n) |-> AddRune(p[1], origin[p[2]])]
           Is(f) == f = [i \in 0 .. n |-> IF i = 0 THEN << <<>> >> ELSE AddRune(f[i - 1], origin[i])]
           r == CHOOSE f : Is(f)
           x0 == << <<>> >>
<1>0. n \in Nat
  OBVIOUS
<1>1. \A p \in X, i \in 1 .. n : AddRune(p, origin[i]) \in X
  <2> SUFFICES ASSUME NEW p \in X, NEW i \in 1 .. n PROVE AddRune(p, origin[i]) \in X
    OBVIOUS
  <2>1. origin[i] \in STRING /\ Cut(p)
    BY DEF Cut
  <2> DEFINE rune == origin[i]
  <2>2. rune \in STRING
    BY <2>1
  <2> HIDE DEF rune
  <2>3. CutBefore(AddRune(p, rune), FlattenSeq(p), rune)
    BY <2>1, <2>2, AddRuneHolds
  <2>4. Cut(AddRune(p, rune))
    BY <2>3 DEF CutBefore
  <2> QED
    BY <2>4 DEF Cut, rune
<1>2. g \in [X \X (1 .. n) -> X]
  <2> HIDE DEF X, n
  <2> SUFFICES ASSUME NEW p \in X \X (1 .. n) PROVE AddRune(p[1], origin[p[2]]) \in X
    OBVIOUS
  <2>1. p[1] \in X /\ p[2] \in 1 .. n
    OBVIOUS
  <2> QED
    BY <1>1, <2>1
<1>3. x0 \in X
  OBVIOUS
<1>4. \A p \in X, i \in 1 .. n : g[<<p, i>>] = AddRune(p, origin[i])
  <2> HIDE DEF X, n
  <2> QED
    OBVIOUS
<1> HIDE DEF n, X, g, x0
<1>5. PICK e : Iterates(e, n, X, x0, g)
  BY <1>0, <1>2, <1>3, Iterate
<1>6. e \in [0 .. n -> X] /\ e[0] = x0 /\ \A i \in 1 .. n : e[i] = g[<<e[i - 1], i>>]
  BY <1>5, Zenon DEF Iterates
<1>7. \A i \in 1 .. n : e[i] = AddRune(e[i - 1], origin[i])
  <2> SUFFICES ASSUME NEW i \in 1 .. n PROVE e[i] = AddRune(e[i - 1], origin[i])
    OBVIOUS
  <2>1. i - 1 \in 0 .. n
    BY <1>0
  <2>2. e[i - 1] \in X
    BY <1>6, <2>1
  <2> QED
    BY <1>4, <1>6, <2>2
<1>8. Is(e)
  <2>1. e = [i \in 0 .. n |-> e[i]]
    BY <1>6
  <2>2. \A i \in 0 .. n : e[i] = IF i = 0 THEN << <<>> >> ELSE AddRune(e[i - 1], origin[i])
    <3> SUFFICES ASSUME NEW i \in 0 .. n
                 PROVE  e[i] = IF i = 0 THEN << <<>> >> ELSE AddRune(e[i - 1], origin[i])
      OBVIOUS
    <3>1. CASE i = 0
      BY <1>6, <3>1 DEF x0
    <3>2. CASE i # 0
      <4>1. i \in 1 .. n
        BY <1>0, <3>2
      <4> QED
        BY <1>7, <3>2, <4>1
    <3> QED
      BY <3>1, <3>2
  <2> QED
    BY <2>1, <2>2
<1>9. Is(r)
  <2> HIDE DEF Is
  <2> QED
    BY <1>8
<1>10. SplitOrigin(origin) = r[n]
  BY Zenon DEF SplitOrigin, n
<1> HIDE DEF r
<1>11. r[0] = x0 /\ \A i \in 1 .. n : r[i] = AddRune(r[i - 1], origin[i])
  <2>1. \A i \in 0 .. n : r[i] = IF i = 0 THEN << <<>> >> ELSE AddRune(r[i - 1], origin[i])
    BY <1>9
  <2>2. 0 \in 0 .. n /\ \A i \in 1 .. n : i \in 0 .. n /\ i # 0
    BY <1>0
  <2>3. r[0] = << <<>> >>
    BY <2>1, <2>2
  <2>4. \A i \in 1 .. n : r[i] = AddRune(r[i - 1], origin[i])
    BY <2>1, <2>2
  <2> QED
    BY <2>3, <2>4 DEF x0
<1>12. \A i \in 0 .. n : r[i] \in X
  <2> DEFINE Y == {i \in 0 .. n : r[i] \in X}
  <2>1. 0 \in Y
    BY <1>0, <1>3, <1>11
  <2>2. ASSUME NEW i \in 0 .. n - 1, i \in Y
        PROVE  i + 1 \in Y
    <3> DEFINE j == i + 1
    <3>1. j \in 1 .. n /\ j \in 0 .. n /\ j - 1 = i /\ r[i] \in X
      BY <1>0, <2>2
    <3> HIDE DEF j
    <3>2. r[j] = AddRune(r[i], origin[j])
      BY <1>11, <3>1
    <3>3. r[j] \in X
      BY <1>1, <3>1, <3>2
    <3>4. j \in Y
      BY <3>1, <3>3
    <3> QED
      BY <3>4 DEF j
  <2> HIDE DEF Y
  <2>3. 0 .. n \subseteq Y
    BY <1>0, <2>1, <2>2, Upward
  <2> QED
    BY <2>3 DEF Y
<1>13. r \in [0 .. n -> X]
  <2>1. r = [i \in 0 .. n |-> r[i]]
    BY <1>9, Zenon
  <2> QED
    BY <1>12, <2>1
<1>14. Splits(r, origin)
  BY <1>10, <1>11, <1>13, Zenon DEF Splits, n, X, x0
<1> QED
  BY <1>14

\* The parts are the text, and the last one ends as the text does.
LEMMA SplitOriginHolds ==
    ASSUME NEW origin \in Seq(STRING)
    PROVE  /\ Cut(SplitOrigin(origin)) /\ FlattenSeq(SplitOrigin(origin)) = origin
           /\ EndsWithNL(SplitOrigin(origin)[Len(SplitOrigin(origin))]) <=> EndsWithNL(origin)
<1> DEFINE n == Len(origin)
           x0 == << <<>> >>
<1>1. n \in Nat /\ \A i \in 1 .. n : origin[i] \in STRING
  OBVIOUS
<1>2. PICK f : Splits(f, origin)
  BY SplitSteps
<1>3. /\ SplitOrigin(origin) = f[n] /\ f[0] = x0
      /\ \A i \in 1 .. n : f[i] = AddRune(f[i - 1], origin[i])
  BY <1>2, Zenon DEF Splits
<1>4. /\ Cut(x0) /\ FlattenSeq(x0) = <<>> /\ ~EndsWithNL(x0[Len(x0)])
  <2>1. x0 \in Seq(Seq(STRING)) /\ Len(x0) = 1 /\ x0[1] = <<>>
    OBVIOUS
  <2>2. x0 = Append(<<>>, <<>>)
    OBVIOUS
  <2> DEFINE e == <<>>
  <2>3. e \in Seq(Seq(STRING)) /\ e \in Seq(STRING)
    OBVIOUS
  <2>4. e \o e = <<>>
    OBVIOUS
  <2>5. FlattenSeq(e) = e
    BY FlattenNothing
  <2>6. x0 = Append(e, e)
    BY <2>2
  <2>7. <<>> = e
    OBVIOUS
  <2> HIDE DEF e, x0
  <2>8. FlattenSeq(Append(e, e)) = FlattenSeq(e) \o e
    BY <2>3, FlattenAppend
  <2>9. FlattenSeq(x0) = <<>>
    BY <2>4, <2>5, <2>6, <2>8, Zenon
  <2> QED
    BY <2>1, <2>9 DEF Cut, EndsWithNL
<1> HIDE DEF n, x0
<1> DEFINE Y == {i \in 0 .. n : /\ Cut(f[i]) /\ FlattenSeq(f[i]) = SubSeq(origin, 1, i)
                                /\ i > 0 => /\ f[i][Len(f[i])] # <<>>
                                            /\ Last(f[i][Len(f[i])]) = origin[i]}
<1>5. 0 \in Y
  <2>1. SubSeq(origin, 1, 0) = <<>>
    BY SubSeqEmpty
  <2>2. Cut(f[0]) /\ FlattenSeq(f[0]) = SubSeq(origin, 1, 0) /\ 0 \in 0 .. n /\ ~(0 > 0)
    BY <1>1, <1>3, <1>4, <2>1
  <2> QED
    BY <2>2
<1>6. ASSUME NEW i \in 0 .. n - 1, i \in Y
      PROVE  i + 1 \in Y
  <2> DEFINE j == i + 1
             r == origin[j]
             p == f[i]
             s == SubSeq(origin, 1, i)
  <2>1. j \in 1 .. n /\ j \in 0 .. n /\ j - 1 = i /\ Cut(p) /\ FlattenSeq(p) = s
    BY <1>1, <1>6
  <2>2. SubSeq(origin, 1, j) = Append(s, r)
    <3>1. j \in 1 .. Len(origin) /\ 1 \in 1 .. Len(origin)
      BY <1>1, <2>1 DEF n
    <3>2. SubSeq(origin, 1, j) = SubSeq(origin, 1, j - 1) \o <<origin[j]>>
      <4> HIDE DEF j
      <4> QED
        BY <3>1, SubSeqRecursiveSecond
    <3>3. s \in Seq(STRING)
      <4>1. \A k \in 1 .. i : origin[k] \in STRING
        BY <1>1
      <4> QED
        BY <4>1, SubSeqProperties
    <3>4. r \in STRING
      BY <1>1, <2>1
    <3> HIDE DEF s, r
    <3>5. Append(s, r) = s \o <<r>>
      BY <3>3, <3>4, AppendIsConcat
    <3> QED
      BY <2>1, <3>2, <3>5, Zenon DEF s, r
  <2>3. r \in STRING /\ f[j] = AddRune(p, r)
    BY <1>1, <1>3, <2>1
  <2> HIDE DEF j, r, p, s
  <2>4. CutBefore(AddRune(p, r), FlattenSeq(p), r)
    BY <2>1, <2>3, AddRuneHolds
  <2>5. Cut(f[j]) /\ FlattenSeq(f[j]) = Append(s, r) /\ f[j][Len(f[j])] # <<>> /\ Last(f[j][Len(f[j])]) = r
    BY <2>1, <2>3, <2>4, Zenon DEF CutBefore
  <2>6. j \in Y
    <3>1. FlattenSeq(f[j]) = SubSeq(origin, 1, j) /\ Last(f[j][Len(f[j])]) = origin[j]
      BY <2>2, <2>5, Zenon DEF r
    <3> QED
      BY <2>1, <2>5, <3>1
  <2> QED
    BY <2>6 DEF j
<1> HIDE DEF Y
<1>7. 0 .. n \subseteq Y
  BY <1>1, <1>5, <1>6, Upward
<1>8. n \in Y
  BY <1>1, <1>7
<1> DEFINE t == f[n]
<1>9. /\ Cut(t) /\ FlattenSeq(t) = SubSeq(origin, 1, n)
      /\ n > 0 => t[Len(t)] # <<>> /\ Last(t[Len(t)]) = origin[n]
  BY <1>8 DEF Y
<1>10. SubSeq(origin, 1, n) = origin
  BY SubSeqFull DEF n
<1>11. EndsWithNL(t[Len(t)]) <=> EndsWithNL(origin)
  <2>1. CASE n = 0
    <3>1. t = x0
      BY <1>3, <2>1
    <3>2. origin = <<>>
      BY <2>1, EmptySeq DEF n
    <3> HIDE DEF t
    <3> QED
      BY <1>4, <3>1, <3>2, Zenon DEF EndsWithNL
  <2>2. CASE n # 0
    <3>1. n > 0 /\ origin # <<>> /\ Last(origin) = origin[n]
      BY <1>1, <2>2 DEF Last, n
    <3> HIDE DEF t
    <3> QED
      BY <1>9, <3>1, Zenon DEF EndsWithNL
  <2> QED
    BY <2>1, <2>2
<1> QED
  BY <1>3, <1>9, <1>10, <1>11, Zenon DEF t

------------------------------------------------------------
(* A token, part by part.                                                  *)

\* What a builder has been given, by its type.
LEMMA HeldTyped ==
    ASSUME NEW b \in Builder
    PROVE  HeldRunes(b) \in Seq(STRING) /\ HeldSegs(b) \in Seq(Seg)
<1> DEFINE ls == b.lines
           s == b.segs
           r == FlattenSeq(RunesIn(ls))
           q == FlattenSeq(SegmentsIn(ls))
           o == Origins(s)
<1>1. ls \in Seq(Line) /\ s \in Seq(Seg)
  BY DEF Builder
<1> HIDE DEF ls, s
<1>2. RunesIn(ls) \in Seq(Seq(STRING)) /\ SegmentsIn(ls) \in Seq(Seq(Seg))
  BY <1>1, LinesHold
<1>3. r \in Seq(STRING) /\ q \in Seq(Seg)
  BY <1>2, FlattenType
<1>4. o \in Seq(STRING)
  <2>1. OriginsOf(s) \in Seq(Seq(STRING))
    <3>1. \A i \in 1 .. Len(s) : s[i] \in Seg
      BY <1>1
    <3>2. \A i \in 1 .. Len(s) : s[i].part.origin \in Seq(STRING)
      BY <3>1 DEF Seg, Tokens
    <3>3. DOMAIN s = 1 .. Len(s) /\ Len(s) \in Nat
      BY <1>1
    <3> QED
      BY <3>2, <3>3 DEF OriginsOf
  <2> QED
    BY <2>1, FlattenType DEF Origins
<1> HIDE DEF r, q, o
<1>5. r \o o \in Seq(STRING)
  BY <1>3, <1>4, ConcatProperties
<1>6. q \o s \in Seq(Seg)
  BY <1>1, <1>3, ConcatProperties
<1> QED
  BY <1>5, <1>6, Zenon DEF HeldRunes, HeldSegs, r, q, o, ls, s

\* AddToken by its recursive function.
Adding(f, b, ts, tok) ==
    /\ f \in [0 .. Len(SplitOrigin(ts[tok].origin)) -> Builder]
    /\ AddToken(b, ts, tok) = [f[Len(SplitOrigin(ts[tok].origin))] EXCEPT !.endedWithNL = EndsWithNL(ts[tok].origin)]
    /\ f[0] = HandleGap(b, ts[tok])
    /\ \A n \in 1 .. Len(SplitOrigin(ts[tok].origin)) :
          f[n] = ProcessPart(f[n - 1], ts, tok, SplitOrigin(ts[tok].origin), n)

\* AddToken goes from part to part.
LEMMA AddingSteps ==
    ASSUME NEW b \in Builder, NEW ts \in Seq(Tokens), NEW tok \in 1 .. Len(ts)
    PROVE  \E f : Adding(f, b, ts, tok)
<1> DEFINE n == Len(SplitOrigin(ts[tok].origin))
           X == Builder
           g == [p \in X \X (1 .. n) |-> ProcessPart(p[1], ts, tok, SplitOrigin(ts[tok].origin), p[2])]
           Is(f) == f = [i \in 0 .. n |-> IF i = 0 THEN HandleGap(b, ts[tok]) ELSE ProcessPart(f[i - 1], ts, tok, SplitOrigin(ts[tok].origin), i)]
           r == CHOOSE f : Is(f)
           x0 == HandleGap(b, ts[tok])
<1>0. n \in Nat
  <2> DEFINE o == ts[tok].origin
             parts == SplitOrigin(o)
  <2>1. o \in Seq(STRING)
    <3>1. ts[tok] \in Tokens
      OBVIOUS
    <3> QED
      BY <3>1 DEF Tokens
  <2> HIDE DEF o
  <2>2. Cut(parts)
    BY <2>1, SplitOriginHolds
  <2> HIDE DEF parts
  <2>3. parts \in Seq(Seq(STRING))
    BY <2>2 DEF Cut
  <2>4. Len(parts) \in Nat
    BY <2>3, LenProperties
  <2> QED
    BY <2>4 DEF parts, o
<1>1. \A p \in X, i \in 1 .. n : ProcessPart(p, ts, tok, SplitOrigin(ts[tok].origin), i) \in X
  <2> DEFINE o == ts[tok].origin
             parts == SplitOrigin(o)
  <2>1. o \in Seq(STRING)
    <3>1. ts[tok] \in Tokens
      OBVIOUS
    <3> QED
      BY <3>1 DEF Tokens
  <2> HIDE DEF o
  <2>2. parts \in Seq(Seq(STRING))
    <3>1. Cut(parts)
      BY <2>1, SplitOriginHolds
    <3> QED
      BY <3>1 DEF Cut
  <2>3. n = Len(parts)
    BY DEF o
  <2> HIDE DEF parts, n
  <2> SUFFICES ASSUME NEW p \in X, NEW i \in 1 .. n PROVE ProcessPart(p, ts, tok, parts, i) \in X
    BY Zenon DEF parts, o
  <2>4. p \in Builder /\ i \in 1 .. Len(parts)
    BY <2>3
  <2>5. ProcessPart(p, ts, tok, parts, i) \in Builder
    BY <2>2, <2>4, ProcessPartHolds
  <2> QED
    BY <2>5
<1>2. g \in [X \X (1 .. n) -> X]
  <2> HIDE DEF X, n
  <2> SUFFICES ASSUME NEW p \in X \X (1 .. n) PROVE ProcessPart(p[1], ts, tok, SplitOrigin(ts[tok].origin), p[2]) \in X
    OBVIOUS
  <2>1. p[1] \in X /\ p[2] \in 1 .. n
    OBVIOUS
  <2> QED
    BY <1>1, <2>1
<1>3. x0 \in X
  <2> DEFINE tk == ts[tok]
  <2>1. tk \in Tokens
    OBVIOUS
  <2> HIDE DEF tk
  <2>2. HandleGap(b, tk) \in Builder
    BY <2>1, HandleGapHolds
  <2> QED
    BY <2>2 DEF tk
<1>4. \A p \in X, i \in 1 .. n : g[<<p, i>>] = ProcessPart(p, ts, tok, SplitOrigin(ts[tok].origin), i)
  <2> HIDE DEF X, n
  <2> QED
    OBVIOUS
<1> HIDE DEF n, X, g, x0
<1>5. PICK e : Iterates(e, n, X, x0, g)
  BY <1>0, <1>2, <1>3, Iterate
<1>6. e \in [0 .. n -> X] /\ e[0] = x0 /\ \A i \in 1 .. n : e[i] = g[<<e[i - 1], i>>]
  BY <1>5, Zenon DEF Iterates
<1>7. \A i \in 1 .. n : e[i] = ProcessPart(e[i - 1], ts, tok, SplitOrigin(ts[tok].origin), i)
  <2> SUFFICES ASSUME NEW i \in 1 .. n PROVE e[i] = ProcessPart(e[i - 1], ts, tok, SplitOrigin(ts[tok].origin), i)
    OBVIOUS
  <2>1. i - 1 \in 0 .. n
    BY <1>0
  <2>2. e[i - 1] \in X
    BY <1>6, <2>1
  <2> QED
    BY <1>4, <1>6, <2>2
<1>8. Is(e)
  <2>1. e = [i \in 0 .. n |-> e[i]]
    BY <1>6
  <2>2. \A i \in 0 .. n : e[i] = IF i = 0 THEN HandleGap(b, ts[tok]) ELSE ProcessPart(e[i - 1], ts, tok, SplitOrigin(ts[tok].origin), i)
    <3> SUFFICES ASSUME NEW i \in 0 .. n
                 PROVE  e[i] = IF i = 0 THEN HandleGap(b, ts[tok]) ELSE ProcessPart(e[i - 1], ts, tok, SplitOrigin(ts[tok].origin), i)
      OBVIOUS
    <3>1. CASE i = 0
      BY <1>6, <3>1 DEF x0
    <3>2. CASE i # 0
      <4>1. i \in 1 .. n
        BY <1>0, <3>2
      <4> QED
        BY <1>7, <3>2, <4>1
    <3> QED
      BY <3>1, <3>2
  <2> QED
    BY <2>1, <2>2
<1>9. Is(r)
  <2> HIDE DEF Is
  <2> QED
    BY <1>8
<1>10. AddToken(b, ts, tok) = [r[n] EXCEPT !.endedWithNL = EndsWithNL(ts[tok].origin)]
  BY Zenon DEF AddToken, n
<1> HIDE DEF r
<1>11. r[0] = x0 /\ \A i \in 1 .. n : r[i] = ProcessPart(r[i - 1], ts, tok, SplitOrigin(ts[tok].origin), i)
  <2>1. \A i \in 0 .. n : r[i] = IF i = 0 THEN HandleGap(b, ts[tok]) ELSE ProcessPart(r[i - 1], ts, tok, SplitOrigin(ts[tok].origin), i)
    BY <1>9
  <2>2. 0 \in 0 .. n /\ \A i \in 1 .. n : i \in 0 .. n /\ i # 0
    BY <1>0
  <2>3. r[0] = HandleGap(b, ts[tok])
    BY <2>1, <2>2
  <2>4. \A i \in 1 .. n : r[i] = ProcessPart(r[i - 1], ts, tok, SplitOrigin(ts[tok].origin), i)
    BY <2>1, <2>2
  <2> QED
    BY <2>3, <2>4 DEF x0
<1>12. \A i \in 0 .. n : r[i] \in X
  <2> DEFINE Y == {i \in 0 .. n : r[i] \in X}
  <2>1. 0 \in Y
    BY <1>0, <1>3, <1>11
  <2>2. ASSUME NEW i \in 0 .. n - 1, i \in Y
        PROVE  i + 1 \in Y
    <3> DEFINE j == i + 1
    <3>1. j \in 1 .. n /\ j \in 0 .. n /\ j - 1 = i /\ r[i] \in X
      BY <1>0, <2>2
    <3> HIDE DEF j
    <3>2. r[j] = ProcessPart(r[i], ts, tok, SplitOrigin(ts[tok].origin), j)
      BY <1>11, <3>1
    <3>3. r[j] \in X
      BY <1>1, <3>1, <3>2
    <3>4. j \in Y
      BY <3>1, <3>3
    <3> QED
      BY <3>4 DEF j
  <2> HIDE DEF Y
  <2>3. 0 .. n \subseteq Y
    BY <1>0, <2>1, <2>2, Upward
  <2> QED
    BY <2>3 DEF Y
<1>13. r \in [0 .. n -> X]
  <2>1. r = [i \in 0 .. n |-> r[i]]
    BY <1>9, Zenon
  <2> QED
    BY <1>12, <2>1
<1>14. Adding(r, b, ts, tok)
  BY <1>10, <1>11, <1>13, Zenon DEF Adding, n, X, x0
<1> QED
  BY <1>14

\* Between two tokens: a newline has ended the line it was read for.
Kept(b) == b \in Builder /\ (b.endedWithNL => b.segs = <<>>)

\* A token joins those that are known, unless it is the last of them.
More(known, tok) == IF known # <<>> /\ Last(known) = tok THEN known ELSE Append(known, tok)

\* A token is added: its runes, and itself once.
LEMMA AddTokenHolds ==
    ASSUME NEW b, Kept(b), NEW ts \in Seq(Tokens), NEW tok \in 1 .. Len(ts), NEW known,
           known = SourceTokens(HeldSegs(b))
    PROVE  /\ Kept(AddToken(b, ts, tok))
           /\ HeldRunes(AddToken(b, ts, tok)) = HeldRunes(b) \o ts[tok].origin
           /\ SourceTokens(HeldSegs(AddToken(b, ts, tok))) = More(known, tok)
<1> DEFINE o == ts[tok].origin
           parts == SplitOrigin(o)
           n == Len(parts)
           text == HeldRunes(b)
           more == More(known, tok)
<1>1. b \in Builder /\ (b.endedWithNL => b.segs = <<>>)
  BY DEF Kept
<1>2. ts[tok] \in Tokens /\ o \in Seq(STRING)
  <2>1. ts[tok] \in Tokens
    OBVIOUS
  <2> QED
    BY <2>1 DEF Tokens
<1> HIDE DEF o
<1>3. Cut(parts) /\ FlattenSeq(parts) = o /\ (EndsWithNL(parts[n]) <=> EndsWithNL(o))
  BY <1>2, SplitOriginHolds
<1> HIDE DEF parts
<1>4. parts \in Seq(Seq(STRING)) /\ n > 0 /\ n \in Nat
  BY <1>3, LenProperties DEF Cut
<1>5. PICK f : Adding(f, b, ts, tok)
  BY <1>1, AddingSteps
<1>6. /\ f \in [0 .. n -> Builder]
      /\ AddToken(b, ts, tok) = [f[n] EXCEPT !.endedWithNL = EndsWithNL(o)]
      /\ f[0] = HandleGap(b, ts[tok])
      /\ \A k \in 1 .. n : f[k] = ProcessPart(f[k - 1], ts, tok, parts, k)
  BY <1>5, Zenon DEF Adding, parts, o
<1>7. text \in Seq(STRING) /\ known \in Seq(Nat)
  <2>1. HeldRunes(b) \in Seq(STRING) /\ HeldSegs(b) \in Seq(Seg)
    BY <1>1, HeldTyped
  <2> DEFINE s == HeldSegs(b)
  <2>2. s \in Seq(Seg)
    BY <2>1
  <2> HIDE DEF s
  <2>3. SourceTokens(s) \in Seq(Nat)
    <3> QED
      BY <2>2, SourcesType
  <2> QED
    BY <2>1, <2>3 DEF s
<1> HIDE DEF n, text, more
<1> DEFINE Done(k) == FlattenSeq(SubSeq(parts, 1, k))
           P(k) == /\ f[k].endedWithNL = b.endedWithNL
                   /\ HeldRunes(f[k]) = text \o Done(k)
                   /\ SourceTokens(HeldSegs(f[k])) = IF k = 0 THEN known ELSE more
                   /\ k = 0 => (b.endedWithNL => f[k].segs = <<>>)
                   /\ k > 0 => (EndsWithNL(parts[k]) => f[k].segs = <<>>)
           Y == {k \in 0 .. n : P(k)}
<1>8. 0 \in Y
  <2> DEFINE tk == ts[tok]
             c == HandleGap(b, tk)
  <2>1. tk \in Tokens
    BY <1>2
  <2> HIDE DEF tk
  <2>2. /\ c.endedWithNL = b.endedWithNL /\ (b.segs = <<>> => c.segs = <<>>)
        /\ HeldRunes(c) = HeldRunes(b) /\ HeldSegs(c) = HeldSegs(b)
    BY <1>1, <2>1, HandleGapHolds
  <2>3. f[0] = c
    BY <1>6 DEF tk
  <2> HIDE DEF c
  <2>4. SubSeq(parts, 1, 0) = <<>>
    BY SubSeqEmpty
  <2>5. Done(0) = <<>>
    BY <2>4, FlattenNothing
  <2>6. text \o <<>> = text
    BY <1>7, ConcatEmptySeq
  <2> HIDE DEF Done
  <2>7. HeldRunes(f[0]) = text \o Done(0)
    BY <2>2, <2>3, <2>5, <2>6, Zenon DEF text
  <2>8. SourceTokens(HeldSegs(f[0])) = known
    BY <2>2, <2>3, Zenon
  <2>9. P(0)
    BY <1>1, <2>2, <2>3, <2>7, <2>8
  <2> HIDE DEF P
  <2> QED
    BY <1>4, <2>9
<1>9. ASSUME NEW i \in 0 .. n - 1, i \in Y
      PROVE  i + 1 \in Y
  <2> DEFINE j == i + 1
             c == ProcessPart(f[i], ts, tok, parts, j)
             x == parts[j]
             t == HeldRunes(f[i])
             s == HeldSegs(f[i])
  <2>1. /\ j \in 1 .. n /\ j \in 0 .. n /\ j - 1 = i /\ j # 0 /\ j > 0 /\ (j = 1 => i = 0)
        /\ f[i] \in Builder /\ i \in 0 .. n
    <3>1. i \in 0 .. n - 1 /\ n \in Nat
      BY <1>4
    <3>2. j \in 1 .. n /\ j \in 0 .. n /\ j - 1 = i /\ j # 0 /\ j > 0 /\ (j = 1 => i = 0) /\ i \in 0 .. n
      BY <3>1
    <3>3. f[i] \in Builder
      BY <1>6, <3>2
    <3> QED
      BY <3>2, <3>3
  <2>2. P(i)
    <3> HIDE DEF P
    <3> QED
      BY <1>9
  <2>3. j = 1 /\ f[i].endedWithNL => f[i].segs = <<>>
    BY <2>1, <2>2
  <2>4. j \in 1 .. Len(parts)
    BY <2>1 DEF n
  <2>5. f[j] = c
    BY <1>6, <2>1
  <2> HIDE DEF j
  <2>6. Adds(c, f[i], x, tok) /\ (EndsWithNL(x) => c.segs = <<>>)
    BY <1>4, <2>1, <2>3, <2>4, ProcessPartHolds
  <2> HIDE DEF c
  <2>7. PICK g \in Seg : g.source = tok /\ HeldSegs(c) = Append(s, g)
    BY <2>6 DEF Adds
  <2>8. c.endedWithNL = f[i].endedWithNL /\ HeldRunes(c) = t \o x
    BY <2>6 DEF Adds
  <2>9. HeldRunes(f[j]) = text \o Done(j)
    <3> DEFINE d == Done(i)
    <3>1. /\ FlattenSeq(SubSeq(parts, 1, j - 1)) \in Seq(STRING) /\ parts[j] \in Seq(STRING)
          /\ FlattenSeq(SubSeq(parts, 1, j)) = FlattenSeq(SubSeq(parts, 1, j - 1)) \o parts[j]
      BY <1>4, <2>4, FlattenPrefix
    <3>2. d \in Seq(STRING) /\ x \in Seq(STRING) /\ Done(j) = d \o x
      BY <2>1, <3>1, Zenon
    <3>3. t = text \o d
      BY <2>2
    <3> HIDE DEF d, x, t, Done
    <3> DEFINE S == STRING
    <3>5. text \in Seq(S) /\ d \in Seq(S) /\ x \in Seq(S)
      BY <1>7, <3>2
    <3> HIDE DEF S
    <3>4. (text \o d) \o x = text \o (d \o x)
      BY <3>5, Associative, SMTT(30)
    <3> QED
      BY <2>5, <2>8, <3>2, <3>3, <3>4, Zenon
  <2>10. SourceTokens(HeldSegs(f[j])) = more
    <3>1. s \in Seq(Seg)
      BY <2>1, HeldTyped
    <3> DEFINE old == SourceTokens(s)
    <3>2. old = IF i = 0 THEN known ELSE more
      BY <2>2
    <3> HIDE DEF s
    <3>3. SourceTokens(Append(s, g)) = AddSource(SourceTokens(s), g)
      BY <3>1, SourcesAppend
    <3>4. SourceTokens(HeldSegs(f[j])) = AddSource(old, g)
      BY <2>5, <2>7, <3>3, Zenon
    <3> HIDE DEF old
    <3>5. CASE i = 0
      <4>1. old = known
        BY <3>2, <3>5
      <4>2. AddSource(old, g) = More(old, g.source)
        BY Zenon DEF AddSource, More
      <4> QED
        BY <2>7, <3>4, <4>1, <4>2, Zenon DEF more
    <3>6. CASE i # 0
      <4>1. old = more
        BY <3>2, <3>6
      <4>2. more # <<>> /\ Last(more) = tok
        <5>1. CASE known # <<>> /\ Last(known) = tok
          <6>1. more = known
            BY <5>1, Zenon DEF more, More
          <6> QED
            BY <5>1, <6>1
        <5>2. CASE ~(known # <<>> /\ Last(known) = tok)
          <6> DEFINE a == Append(known, tok)
          <6>1. more = a
            BY <5>2, Zenon DEF more, More
          <6>2. tok \in Nat
            OBVIOUS
          <6>3. a \in Seq(Nat) /\ Len(a) = Len(known) + 1 /\ a[Len(known) + 1] = tok
            BY <1>7, <6>2, AppendProperties
          <6> HIDE DEF a
          <6>4. Last(a) = tok
            BY <6>3 DEF Last
          <6>5. Len(known) \in Nat
            BY <1>7, LenProperties
          <6>6. Len(a) # 0
            BY <6>3, <6>5
          <6>7. a # <<>>
            BY <6>6
          <6> QED
            BY <6>1, <6>4, <6>7
        <5> QED
          BY <5>1, <5>2
      <4>3. AddSource(old, g) = old
        BY <2>7, <4>1, <4>2, Zenon DEF AddSource
      <4> QED
        BY <3>4, <4>1, <4>3, Zenon
    <3> QED
      BY <3>5, <3>6
  <2>11. f[j].endedWithNL = b.endedWithNL /\ (EndsWithNL(parts[j]) => f[j].segs = <<>>)
    BY <2>2, <2>5, <2>6, <2>8
  <2> HIDE DEF Done
  <2>12. P(j)
    BY <2>1, <2>9, <2>10, <2>11
  <2> HIDE DEF P
  <2>13. j \in Y
    BY <2>1, <2>12
  <2> QED
    BY <2>13 DEF j
<1> HIDE DEF Y
<1>10. 0 .. n \subseteq Y
  BY <1>4, <1>8, <1>9, Upward
<1>11. n \in Y /\ f[n] \in Builder
  BY <1>4, <1>6, <1>10
<1> DEFINE c == f[n]
           e == EndsWithNL(o)
           d == [c EXCEPT !.endedWithNL = e]
<1>12. c \in Builder /\ HeldRunes(c) = text \o o /\ SourceTokens(HeldSegs(c)) = more /\ (e => c.segs = <<>>)
  <2>1. P(n)
    <3> HIDE DEF P
    <3> QED
      BY <1>11 DEF Y
  <2>2. SubSeq(parts, 1, n) = parts
    BY <1>4, SubSeqFull DEF n
  <2>3. Done(n) = o
    BY <1>3, <2>2, Zenon
  <2>4. EndsWithNL(parts[n]) <=> EndsWithNL(o)
    BY <1>3 DEF n
  <2> HIDE DEF Done
  <2>5. n > 0 /\ n # 0
    BY <1>4
  <2> QED
    BY <1>11, <2>1, <2>3, <2>4, <2>5
<1> HIDE DEF c
<1>13. e \in BOOLEAN
  BY DEF EndsWithNL
<1> HIDE DEF e
<1>14. d \in Builder /\ d.lines = c.lines /\ d.segs = c.segs /\ d.endedWithNL = e
  BY <1>12, <1>13 DEF Builder
<1>15. d = AddToken(b, ts, tok)
  BY <1>6, Zenon DEF c, e
<1> HIDE DEF d
<1>16. HeldRunes(d) = HeldRunes(c) /\ HeldSegs(d) = HeldSegs(c)
  BY <1>14, Zenon DEF HeldRunes, HeldSegs
<1>17. Kept(d)
  BY <1>12, <1>14, Zenon DEF Kept
<1>18. HeldRunes(d) = HeldRunes(b) \o ts[tok].origin /\ SourceTokens(HeldSegs(d)) = More(known, tok)
  BY <1>12, <1>16, Zenon DEF text, o, more
<1> QED
  BY <1>15, <1>17, <1>18, Zenon

------------------------------------------------------------
(* All tokens of a file.                                                   *)

\* The runes in front are counted with a number.
LEMMA LeadingCountType ==
    ASSUME NEW S, NEW s \in Seq(S), NEW r
    PROVE  LeadingCount(s, r) \in Nat
<1> DEFINE n == Len(s)
           T == {k \in 1 .. n : \A m \in 1 .. k : s[m] = r}
           U == 1 .. n
<1>1. n \in Nat /\ DOMAIN s = 1 .. n
  OBVIOUS
<1>2. IsFiniteSet(U)
  BY <1>1, FS_Interval
<1>3. T \in SUBSET U
  OBVIOUS
<1>4. LeadingCount(s, r) = Cardinality(T)
  BY <1>1, Zenon DEF LeadingCount
<1> HIDE DEF T, U
<1> QED
  BY <1>2, <1>3, <1>4, FS_Subset, FS_CardinalityType

\* The newlines in front are counted with a number.
LEMMA LeadingNewlinesType ==
    ASSUME NEW S, NEW s \in Seq(S)
    PROVE  LeadingNewlines(s) \in Nat
<1> DEFINE n == Len(s)
           T == {k \in 1 .. n : s[k] = NL /\ \A m \in 1 .. k : s[m] \in {CR, NL}}
           U == 1 .. n
<1>1. n \in Nat /\ DOMAIN s = 1 .. n
  OBVIOUS
<1>2. IsFiniteSet(U)
  BY <1>1, FS_Interval
<1>3. T \in SUBSET U
  OBVIOUS
<1>4. LeadingNewlines(s) = Cardinality(T)
  BY <1>1, Zenon DEF LeadingNewlines
<1> HIDE DEF T, U
<1> QED
  BY <1>2, <1>3, <1>4, FS_Subset, FS_CardinalityType

\* A builder that has been given nothing.
LEMMA NewBuilderHolds ==
    ASSUME NEW first \in Tokens
    PROVE  /\ Kept(NewBuilder(first)) /\ HeldRunes(NewBuilder(first)) = <<>>
           /\ HeldSegs(NewBuilder(first)) = <<>>
<1> DEFINE leading == LeadingNewlines(first.origin)
           m == IF first.line > leading THEN first.line - leading ELSE first.line
           z == <<>>
           f == FALSE
           b == NewBuilder(first)
<1>1. first.line \in Int /\ first.origin \in Seq(STRING)
  BY DEF Tokens
<1>2. leading \in Nat
  BY <1>1, LeadingNewlinesType
<1> HIDE DEF leading
<1>3. m \in Int
  BY <1>1, <1>2
<1>4. b = [lines |-> z, segs |-> z, endedWithNL |-> f, current |-> m]
  BY Zenon DEF NewBuilder, leading
<1>5. z \in Seq(Line) /\ z \in Seq(Seg) /\ f \in BOOLEAN /\ ~f
  OBVIOUS
<1> HIDE DEF m, f, b
<1>6. RunesIn(z) = <<>> /\ SegmentsIn(z) = <<>> /\ OriginsOf(z) = <<>>
  BY DEF RunesIn, SegmentsIn, OriginsOf
<1>7. FlattenSeq(RunesIn(z)) = <<>> /\ FlattenSeq(SegmentsIn(z)) = <<>> /\ Origins(z) = <<>>
  BY <1>6, FlattenNothing, Zenon DEF Origins
<1>8. <<>> \o <<>> = <<>>
  OBVIOUS
<1>9. z = <<>>
  OBVIOUS
<1> HIDE DEF z
<1>10. b \in Builder /\ b.lines = z /\ b.segs = z /\ b.endedWithNL = f
  BY <1>3, <1>4, <1>5 DEF Builder
<1>11. Kept(b)
  BY <1>5, <1>10 DEF Kept
<1>12. HeldRunes(b) = FlattenSeq(RunesIn(z)) \o Origins(z) /\ HeldSegs(b) = FlattenSeq(SegmentsIn(z)) \o z
  BY <1>10, Zenon DEF HeldRunes, HeldSegs
<1>13. HeldRunes(b) = <<>> /\ HeldSegs(b) = <<>>
  BY <1>7, <1>8, <1>9, <1>12, Zenon
<1> QED
  BY <1>11, <1>13 DEF b

\* NewLines by its recursive function.
Building(f, ts) ==
    /\ f \in [0 .. Len(ts) -> {b \in Builder : Kept(b)}]
    /\ NewLines(ts) = Build(f[Len(ts)])
    /\ f[0] = NewBuilder(ts[1])
    /\ \A n \in 1 .. Len(ts) : f[n] = AddToken(f[n - 1], ts, n)

\* NewLines goes from token to token.
LEMMA BuildingSteps ==
    ASSUME NEW ts \in Seq(Tokens), Len(ts) > 0
    PROVE  \E f : Building(f, ts)
<1> DEFINE n == Len(ts)
           X == {b \in Builder : Kept(b)}
           g == [p \in X \X (1 .. n) |-> AddToken(p[1], ts, p[2])]
           Is(f) == f = [i \in 0 .. n |-> IF i = 0 THEN NewBuilder(ts[1]) ELSE AddToken(f[i - 1], ts, i)]
           r == CHOOSE f : Is(f)
           x0 == NewBuilder(ts[1])
<1>0. n \in Nat
  OBVIOUS
<1>1. \A p \in X, i \in 1 .. n : AddToken(p, ts, i) \in X
  <2> SUFFICES ASSUME NEW p \in X, NEW i \in 1 .. n PROVE AddToken(p, ts, i) \in X
    OBVIOUS
  <2>1. Kept(p) /\ i \in 1 .. Len(ts)
    OBVIOUS
  <2> DEFINE known == SourceTokens(HeldSegs(p))
  <2>2. known = SourceTokens(HeldSegs(p))
    OBVIOUS
  <2> HIDE DEF known
  <2>3. Kept(AddToken(p, ts, i))
    BY <2>1, <2>2, AddTokenHolds
  <2> QED
    BY <2>3 DEF Kept
<1>2. g \in [X \X (1 .. n) -> X]
  <2> HIDE DEF X, n
  <2> SUFFICES ASSUME NEW p \in X \X (1 .. n) PROVE AddToken(p[1], ts, p[2]) \in X
    OBVIOUS
  <2>1. p[1] \in X /\ p[2] \in 1 .. n
    OBVIOUS
  <2> QED
    BY <1>1, <2>1
<1>3. x0 \in X
  <2>1. ts[1] \in Tokens
    OBVIOUS
  <2>2. Kept(NewBuilder(ts[1]))
    BY <2>1, NewBuilderHolds
  <2> QED
    BY <2>2 DEF Kept
<1>4. \A p \in X, i \in 1 .. n : g[<<p, i>>] = AddToken(p, ts, i)
  <2> HIDE DEF X, n
  <2> QED
    OBVIOUS
<1> HIDE DEF n, X, g, x0
<1>5. PICK e : Iterates(e, n, X, x0, g)
  BY <1>0, <1>2, <1>3, Iterate
<1>6. e \in [0 .. n -> X] /\ e[0] = x0 /\ \A i \in 1 .. n : e[i] = g[<<e[i - 1], i>>]
  BY <1>5, Zenon DEF Iterates
<1>7. \A i \in 1 .. n : e[i] = AddToken(e[i - 1], ts, i)
  <2> SUFFICES ASSUME NEW i \in 1 .. n PROVE e[i] = AddToken(e[i - 1], ts, i)
    OBVIOUS
  <2>1. i - 1 \in 0 .. n
    BY <1>0
  <2>2. e[i - 1] \in X
    BY <1>6, <2>1
  <2> QED
    BY <1>4, <1>6, <2>2
<1>8. Is(e)
  <2>1. e = [i \in 0 .. n |-> e[i]]
    BY <1>6
  <2>2. \A i \in 0 .. n : e[i] = IF i = 0 THEN NewBuilder(ts[1]) ELSE AddToken(e[i - 1], ts, i)
    <3> SUFFICES ASSUME NEW i \in 0 .. n
                 PROVE  e[i] = IF i = 0 THEN NewBuilder(ts[1]) ELSE AddToken(e[i - 1], ts, i)
      OBVIOUS
    <3>1. CASE i = 0
      BY <1>6, <3>1 DEF x0
    <3>2. CASE i # 0
      <4>1. i \in 1 .. n
        BY <1>0, <3>2
      <4> QED
        BY <1>7, <3>2, <4>1
    <3> QED
      BY <3>1, <3>2
  <2> QED
    BY <2>1, <2>2
<1>9. Is(r)
  <2> HIDE DEF Is
  <2> QED
    BY <1>8
<1>10. NewLines(ts) = Build(r[n])
  <2>1. ts # <<>>
    OBVIOUS
  <2> QED
    BY <2>1, Zenon DEF NewLines, n
<1> HIDE DEF r
<1>11. r[0] = x0 /\ \A i \in 1 .. n : r[i] = AddToken(r[i - 1], ts, i)
  <2>1. \A i \in 0 .. n : r[i] = IF i = 0 THEN NewBuilder(ts[1]) ELSE AddToken(r[i - 1], ts, i)
    BY <1>9
  <2>2. 0 \in 0 .. n /\ \A i \in 1 .. n : i \in 0 .. n /\ i # 0
    BY <1>0
  <2>3. r[0] = NewBuilder(ts[1])
    BY <2>1, <2>2
  <2>4. \A i \in 1 .. n : r[i] = AddToken(r[i - 1], ts, i)
    BY <2>1, <2>2
  <2> QED
    BY <2>3, <2>4 DEF x0
<1>12. \A i \in 0 .. n : r[i] \in X
  <2> DEFINE Y == {i \in 0 .. n : r[i] \in X}
  <2>1. 0 \in Y
    BY <1>0, <1>3, <1>11
  <2>2. ASSUME NEW i \in 0 .. n - 1, i \in Y
        PROVE  i + 1 \in Y
    <3> DEFINE j == i + 1
    <3>1. j \in 1 .. n /\ j \in 0 .. n /\ j - 1 = i /\ r[i] \in X
      BY <1>0, <2>2
    <3> HIDE DEF j
    <3>2. r[j] = AddToken(r[i], ts, j)
      BY <1>11, <3>1
    <3>3. r[j] \in X
      BY <1>1, <3>1, <3>2
    <3>4. j \in Y
      BY <3>1, <3>3
    <3> QED
      BY <3>4 DEF j
  <2> HIDE DEF Y
  <2>3. 0 .. n \subseteq Y
    BY <1>0, <2>1, <2>2, Upward
  <2> QED
    BY <2>3 DEF Y
<1>13. r \in [0 .. n -> X]
  <2>1. r = [i \in 0 .. n |-> r[i]]
    BY <1>9, Zenon
  <2> QED
    BY <1>12, <2>1
<1>14. Building(r, ts)
  BY <1>10, <1>11, <1>13, Zenon DEF Building, n, X, x0
<1> QED
  BY <1>14

\* The runes of the tokens of a file.
OriginsIn(ts) == [i \in DOMAIN ts |-> ts[i].origin]
\* The first n tokens.
FirstTokens(n) == [i \in 1 .. n |-> i]

\* Lines that are built hold what the builder has been given.
LEMMA BuildHolds ==
    ASSUME NEW b \in Builder
    PROVE  /\ Build(b) \in Seq(Line)
           /\ FlattenSeq(RunesIn(Build(b))) = HeldRunes(b)
           /\ FlattenSeq(SegmentsIn(Build(b))) = HeldSegs(b)
<1>1. \A c \in Builder : c.segs = <<>> => /\ c.lines \in Seq(Line)
                                          /\ FlattenSeq(RunesIn(c.lines)) = HeldRunes(c)
                                          /\ FlattenSeq(SegmentsIn(c.lines)) = HeldSegs(c)
  <2> SUFFICES ASSUME NEW c \in Builder, c.segs = <<>>
               PROVE  /\ c.lines \in Seq(Line)
                      /\ FlattenSeq(RunesIn(c.lines)) = HeldRunes(c)
                      /\ FlattenSeq(SegmentsIn(c.lines)) = HeldSegs(c)
    OBVIOUS
  <2> DEFINE ls == c.lines
             r == FlattenSeq(RunesIn(ls))
             q == FlattenSeq(SegmentsIn(ls))
  <2>1. ls \in Seq(Line)
    BY DEF Builder
  <2> HIDE DEF ls
  <2>2. RunesIn(ls) \in Seq(Seq(STRING)) /\ SegmentsIn(ls) \in Seq(Seq(Seg))
    BY <2>1, LinesHold
  <2>3. r \in Seq(STRING) /\ q \in Seq(Seg)
    BY <2>2, FlattenType
  <2>4. OriginsOf(<<>>) = <<>>
    BY DEF OriginsOf
  <2>5. Origins(<<>>) = <<>>
    BY <2>4, FlattenNothing DEF Origins
  <2>6. HeldRunes(c) = r \o <<>> /\ HeldSegs(c) = q \o <<>>
    BY <2>5, Zenon DEF HeldRunes, HeldSegs, ls
  <2> HIDE DEF r, q
  <2>7. r \o <<>> = r /\ q \o <<>> = q
    BY <2>3, ConcatEmptySeq
  <2> QED
    BY <2>1, <2>6, <2>7, Zenon DEF r, q, ls
<1>2. CASE b.segs = <<>>
  <2>1. Build(b) = b.lines
    BY <1>2 DEF Build
  <2> QED
    BY <1>1, <1>2, <2>1, Zenon
<1>3. CASE b.segs # <<>>
  <2> DEFINE c == FinishLine(b)
  <2>1. Build(b) = c.lines
    BY <1>3, Zenon DEF Build
  <2>2. c \in Builder /\ c.segs = <<>> /\ HeldRunes(c) = HeldRunes(b) /\ HeldSegs(c) = HeldSegs(b)
    BY FinishLineHolds
  <2> HIDE DEF c
  <2> QED
    BY <1>1, <2>1, <2>2, Zenon
<1> QED
  BY <1>2, <1>3

\* What a line begins with nothing of is nothing at the end.
LEMMA NoTokensNoLines ==
    /\ NewLines(<<>>) \in Seq(Line) /\ FlattenSeq(RunesIn(NewLines(<<>>))) = <<>>
    /\ SourceTokens(FlattenSeq(SegmentsIn(NewLines(<<>>)))) = <<>>
<1>1. NewLines(<<>>) = <<>>
  BY Zenon DEF NewLines
<1>2. RunesIn(<<>>) = <<>> /\ SegmentsIn(<<>>) = <<>>
  BY DEF RunesIn, SegmentsIn
<1>3. <<>> \in Seq(Line)
  OBVIOUS
<1> QED
  BY <1>1, <1>2, <1>3, FlattenNothing, SourcesNothing, Zenon

\* The lines of a file hold the runes of its tokens, and its tokens, each
\* of them once and in order.
LEMMA NewLinesHold ==
    ASSUME NEW ts \in Seq(Tokens)
    PROVE  /\ NewLines(ts) \in Seq(Line)
           /\ FlattenSeq(RunesIn(NewLines(ts))) = FlattenSeq(OriginsIn(ts))
           /\ SourceTokens(FlattenSeq(SegmentsIn(NewLines(ts)))) = FirstTokens(Len(ts))
<1> DEFINE n == Len(ts)
           os == OriginsIn(ts)
<1>1. n \in Nat /\ \A i \in 1 .. n : ts[i] \in Tokens
  OBVIOUS
<1>2. os \in Seq(Seq(STRING)) /\ Len(os) = n /\ \A i \in 1 .. n : os[i] = ts[i].origin
  <2>1. \A i \in 1 .. n : ts[i].origin \in Seq(STRING)
    BY <1>1 DEF Tokens
  <2>2. DOMAIN ts = 1 .. n
    OBVIOUS
  <2> QED
    BY <1>1, <2>1, <2>2 DEF OriginsIn
<1>3. CASE n = 0
  <2>1. ts = <<>>
    BY <1>3, EmptySeq
  <2>2. os = <<>>
    BY <1>2, <1>3, EmptySeq
  <2>3. FirstTokens(0) = <<>>
    BY DEF FirstTokens
  <2> HIDE DEF n, os
  <2>4. FlattenSeq(os) = <<>>
    BY <2>2, FlattenNothing
  <2> QED
    BY <1>3, <2>1, <2>3, <2>4, NoTokensNoLines, Zenon DEF n, os
<1>4. CASE n # 0
  <2>1. Len(ts) > 0
    BY <1>1, <1>4
  <2>2. PICK f : Building(f, ts)
    BY <2>1, BuildingSteps
  <2>3. /\ f \in [0 .. n -> {b \in Builder : Kept(b)}] /\ NewLines(ts) = Build(f[n])
        /\ f[0] = NewBuilder(ts[1]) /\ \A i \in 1 .. n : f[i] = AddToken(f[i - 1], ts, i)
    BY <2>2, Zenon DEF Building
  <2> HIDE DEF n, os
  <2> DEFINE Done(i) == FlattenSeq(SubSeq(os, 1, i))
             P(i) == HeldRunes(f[i]) = Done(i) /\ SourceTokens(HeldSegs(f[i])) = FirstTokens(i)
             Y == {i \in 0 .. n : P(i)}
  <2>4. 0 \in Y
    <3> DEFINE first == ts[1]
               b == NewBuilder(first)
    <3>1. first \in Tokens
      BY <1>1, <1>4
    <3> HIDE DEF first
    <3>2. HeldRunes(b) = <<>> /\ HeldSegs(b) = <<>>
      BY <3>1, NewBuilderHolds
    <3>3. f[0] = b
      BY <2>3 DEF first
    <3> HIDE DEF b
    <3>4. SubSeq(os, 1, 0) = <<>>
      BY SubSeqEmpty
    <3>5. Done(0) = <<>>
      BY <3>4, FlattenNothing
    <3>6. FirstTokens(0) = <<>>
      BY DEF FirstTokens
    <3> HIDE DEF Done
    <3>7. SourceTokens(HeldSegs(f[0])) = <<>>
      BY <3>2, <3>3, SourcesNothing, Zenon
    <3>8. P(0)
      BY <3>2, <3>3, <3>5, <3>6, <3>7, Zenon
    <3> HIDE DEF P
    <3> QED
      BY <1>1, <3>8
  <2>5. ASSUME NEW i \in 0 .. n - 1, i \in Y
        PROVE  i + 1 \in Y
    <3> DEFINE j == i + 1
               b == f[i]
               known == FirstTokens(i)
               x == ts[j].origin
    <3>1. /\ j \in 1 .. n /\ j \in 0 .. n /\ j - 1 = i /\ i \in 0 .. n /\ j \in 1 .. Len(ts) /\ j \in 1 .. Len(os)
      BY <1>1, <1>2 DEF n
    <3>2. P(i)
      <4> HIDE DEF P
      <4> QED
        BY <2>5
    <3>3. Kept(b)
      BY <2>3, <3>1
    <3>4. f[j] = AddToken(b, ts, j)
      BY <2>3, <3>1
    <3> HIDE DEF j
    <3> DEFINE c == AddToken(b, ts, j)
    <3>5. known = SourceTokens(HeldSegs(b))
      BY <3>2
    <3> HIDE DEF known, b
    <3>6. /\ HeldRunes(c) = HeldRunes(b) \o ts[j].origin
          /\ SourceTokens(HeldSegs(c)) = More(known, j)
      BY <3>1, <3>3, <3>5, AddTokenHolds
    <3> HIDE DEF c
    <3>7. HeldRunes(f[j]) = Done(j)
      <4>1. FlattenSeq(SubSeq(os, 1, j)) = FlattenSeq(SubSeq(os, 1, j - 1)) \o os[j]
        BY <1>2, <3>1, FlattenPrefix
      <4>2. Done(j) = Done(i) \o x
        BY <1>2, <3>1, <4>1, Zenon
      <4>3. HeldRunes(b) = Done(i)
        BY <3>2, Zenon DEF b
      <4> HIDE DEF Done
      <4> QED
        BY <3>4, <3>6, <4>2, <4>3, Zenon DEF c
    <3>8. More(known, j) = FirstTokens(j)
      <4>1. known = [k \in 1 .. i |-> k] /\ known \in Seq(Nat) /\ Len(known) = i
        BY DEF known, FirstTokens
      <4>2. ~(known # <<>> /\ Last(known) = j)
        <5>1. CASE i = 0
          BY <4>1, <5>1
        <5>2. CASE i # 0
          <6>1. known[i] = i
            BY <4>1, <5>2
          <6>2. Last(known) = i
            BY <4>1, <6>1, Zenon DEF Last
          <6> QED
            BY <6>2 DEF j
        <5> QED
          BY <5>1, <5>2
      <4>3. More(known, j) = Append(known, j)
        BY <4>2, Zenon DEF More
      <4>4. Append(known, j) = [k \in 1 .. j |-> k]
        BY <4>1 DEF j
      <4> QED
        BY <4>3, <4>4 DEF FirstTokens
    <3>9. SourceTokens(HeldSegs(f[j])) = FirstTokens(j)
      BY <3>4, <3>6, <3>8, Zenon DEF c
    <3>10. P(j)
      BY <3>7, <3>9
    <3> HIDE DEF P
    <3>11. j \in Y
      BY <3>1, <3>10
    <3> QED
      BY <3>11 DEF j
  <2> HIDE DEF Y
  <2>6. 0 .. n \subseteq Y
    BY <1>1, <2>4, <2>5, Upward
  <2>7. n \in Y /\ f[n] \in Builder
    BY <1>1, <2>3, <2>6
  <2>8. P(n)
    <3> HIDE DEF P
    <3> QED
      BY <2>7 DEF Y
  <2>9. SubSeq(os, 1, n) = os
    BY <1>2, SubSeqFull
  <2>10. HeldRunes(f[n]) = FlattenSeq(os) /\ SourceTokens(HeldSegs(f[n])) = FirstTokens(n)
    BY <2>8, <2>9, Zenon
  <2> DEFINE b == f[n]
  <2>11. b \in Builder
    BY <2>7
  <2> HIDE DEF b
  <2>12. /\ Build(b) \in Seq(Line) /\ FlattenSeq(RunesIn(Build(b))) = HeldRunes(b)
         /\ FlattenSeq(SegmentsIn(Build(b))) = HeldSegs(b)
    BY <2>11, BuildHolds
  <2> QED
    BY <2>3, <2>10, <2>12, Zenon DEF b, n, os
<1> QED
  BY <1>3, <1>4

------------------------------------------------------------
(* The documents of a stream.                                              *)

\* A header stands first in its document.
HeadersLead(docs, ts) ==
    \A d \in DOMAIN docs : \A n \in DOMAIN docs[d] : ts[docs[d][n]].type = "docheader" => n = 1

\* A token goes to the documents once, and leads one if it opens it.
LEMMA AddToDocumentsHolds ==
    ASSUME NEW docs \in Seq(Seq(Nat)), NEW i \in Nat, NEW opens \in BOOLEAN
    PROVE  /\ AddToDocuments(docs, i, opens) \in Seq(Seq(Nat))
           /\ FlattenSeq(AddToDocuments(docs, i, opens)) = Append(FlattenSeq(docs), i)
           /\ \A ts : HeadersLead(docs, ts) /\ (ts[i].type = "docheader" => opens)
                      => HeadersLead(AddToDocuments(docs, i, opens), ts)
<1> DEFINE n == Len(docs)
           f == FlattenSeq(docs)
           x == <<i>>
           t == AddToDocuments(docs, i, opens)
<1>1. n \in Nat /\ DOMAIN docs = 1 .. n /\ x \in Seq(Nat) /\ Len(x) = 1 /\ x[1] = i
  OBVIOUS
<1>2. f \in Seq(Nat)
  BY FlattenType
<1>3. f \o x = Append(f, i)
  <2> HIDE DEF f
  <2>1. Append(f, i) = f \o <<i>>
    BY <1>2, AppendIsConcat
  <2> QED
    BY <2>1
<1>4. CASE docs = <<>> \/ opens
  <2>1. t = Append(docs, x)
    BY <1>4, Zenon DEF AddToDocuments
  <2> HIDE DEF t, x
  <2>2. FlattenSeq(Append(docs, x)) = f \o x
    BY <1>1, FlattenAppend
  <2> DEFINE X == Seq(Nat)
  <2>3. docs \in Seq(X) /\ x \in X
    BY <1>1
  <2> HIDE DEF X
  <2>4. /\ Append(docs, x) \in Seq(X) /\ Len(Append(docs, x)) = n + 1 /\ Append(docs, x)[n + 1] = x
        /\ \A d \in 1 .. n : Append(docs, x)[d] = docs[d]
    BY <2>3, AppendProperties
  <2>5. t \in Seq(X) /\ Len(t) = n + 1 /\ t[n + 1] = x /\ \A d \in 1 .. n : t[d] = docs[d]
    BY <2>1, <2>4, Zenon
  <2>6. DOMAIN t = 1 .. n + 1
    BY <2>5, LenProperties
  <2>7. ASSUME NEW ts, HeadersLead(docs, ts)
        PROVE  HeadersLead(t, ts)
    <3> SUFFICES ASSUME NEW d \in 1 .. n + 1, NEW k \in DOMAIN t[d], ts[t[d][k]].type = "docheader"
                 PROVE  k = 1
      BY <2>6 DEF HeadersLead
    <3>1. CASE d = n + 1
      BY <1>1, <2>5, <3>1
    <3>2. CASE d # n + 1
      <4>1. d \in 1 .. n
        BY <1>1, <3>2
      <4>2. t[d] = docs[d]
        BY <2>5, <4>1
      <4> QED
        BY <1>1, <2>7, <4>1, <4>2 DEF HeadersLead
    <3> QED
      BY <3>1, <3>2
  <2> QED
    BY <1>3, <2>1, <2>2, <2>5, <2>7, Zenon DEF t, f, X
<1>5. CASE ~(docs = <<>> \/ opens)
  <2> DEFINE l == docs[n]
             a == Append(l, i)
  <2>1. n > 0 /\ n \in 1 .. n
    BY <1>1, <1>5, EmptySeq
  <2>2. l \in Seq(Nat)
    BY <2>1
  <2>3. a = l \o x /\ a \in Seq(Nat) /\ Len(a) = Len(l) + 1 /\ a[Len(l) + 1] = i
        /\ (\A k \in 1 .. Len(l) : a[k] = l[k]) /\ Len(l) \in Nat
    <3> HIDE DEF l
    <3>1. Append(l, i) = l \o <<i>>
      BY <2>2, AppendIsConcat
    <3>2. /\ Append(l, i) \in Seq(Nat) /\ Len(Append(l, i)) = Len(l) + 1 /\ Append(l, i)[Len(l) + 1] = i
          /\ \A k \in 1 .. Len(l) : Append(l, i)[k] = l[k]
      BY <2>2, AppendProperties
    <3>3. Len(l) \in Nat
      BY <2>2, LenProperties
    <3> QED
      BY <3>1, <3>2, <3>3, Zenon
  <2>4. t = [docs EXCEPT ![n] = a]
    BY <1>5, Zenon DEF AddToDocuments
  <2>5. Widened(t, docs, x)
    BY <2>3, <2>4, Zenon DEF Widened
  <2> HIDE DEF t, x, a
  <2>6. t \in Seq(Seq(Nat)) /\ Len(t) = n /\ FlattenSeq(t) = f \o x
    <3> DEFINE S == Nat
    <3>1. docs \in Seq(Seq(S)) /\ Len(docs) > 0 /\ Len(docs) = n /\ x \in Seq(S)
      BY <1>1, <2>1
    <3> HIDE DEF S, n, f
    <3>2. t \in Seq(Seq(S)) /\ Len(t) = Len(docs) /\ FlattenSeq(t) = FlattenSeq(docs) \o x
      BY <2>5, <3>1, FlattenLast
    <3> QED
      BY <3>1, <3>2, Zenon DEF S, f
  <2>7. t[n] = a /\ DOMAIN t = 1 .. n /\ \A d \in 1 .. n : d # n => t[d] = docs[d]
    <3> HIDE DEF n
    <3>1. n \in DOMAIN docs
      BY <1>1, <2>1
    <3> QED
      BY <1>1, <2>4, <3>1
  <2>8. ASSUME NEW ts, HeadersLead(docs, ts), ts[i].type = "docheader" => opens
        PROVE  HeadersLead(t, ts)
    <3> SUFFICES ASSUME NEW d \in 1 .. n, NEW k \in DOMAIN t[d], ts[t[d][k]].type = "docheader"
                 PROVE  k = 1
      BY <2>7 DEF HeadersLead
    <3>1. CASE d = n
      <4>1. t[d] = a
        BY <2>7, <3>1
      <4>2. k \in 1 .. Len(l) + 1
        BY <2>3, <4>1
      <4>3. k # Len(l) + 1
        BY <1>5, <2>3, <2>8, <4>1
      <4>4. k \in 1 .. Len(l)
        BY <2>3, <4>2, <4>3
      <4>5. ts[docs[n][k]].type = "docheader"
        BY <2>3, <4>1, <4>4
      <4>6. k \in DOMAIN docs[n]
        BY <2>2, <4>4
      <4> QED
        BY <1>1, <2>1, <2>8, <4>5, <4>6 DEF HeadersLead
    <3>2. CASE d # n
      <4>1. t[d] = docs[d]
        BY <2>7, <3>2
      <4> QED
        BY <1>1, <2>8, <4>1 DEF HeadersLead
    <3> QED
      BY <3>1, <3>2
  <2> QED
    BY <1>3, <2>6, <2>8, Zenon DEF t, f
<1> QED
  BY <1>4, <1>5

\* SplitDocuments by its recursive function.
Divides(f, ts) ==
    /\ f \in [0 .. Len(ts) -> Seq(Seq(Nat))]
    /\ SplitDocuments(ts) = f[Len(ts)]
    /\ f[0] = <<>>
    /\ \A n \in 1 .. Len(ts) : f[n] = AddToDocuments(f[n - 1], n, ts[n].type = "docheader")

\* SplitDocuments goes from token to token.
LEMMA DividingSteps ==
    ASSUME NEW ts \in Seq(Tokens)
    PROVE  \E f : Divides(f, ts)
<1> DEFINE n == Len(ts)
           X == Seq(Seq(Nat))
           g == [p \in X \X (1 .. n) |-> AddToDocuments(p[1], p[2], ts[p[2]].type = "docheader")]
           Is(f) == f = [i \in 0 .. n |-> IF i = 0 THEN <<>> ELSE AddToDocuments(f[i - 1], i, ts[i].type = "docheader")]
           r == CHOOSE f : Is(f)
           x0 == <<>>
<1>0. n \in Nat
  OBVIOUS
<1>1. \A p \in X, i \in 1 .. n : AddToDocuments(p, i, ts[i].type = "docheader") \in X
  <2> SUFFICES ASSUME NEW p \in X, NEW i \in 1 .. n
               PROVE  AddToDocuments(p, i, ts[i].type = "docheader") \in X
    OBVIOUS
  <2> DEFINE opens == ts[i].type = "docheader"
  <2>1. opens \in BOOLEAN /\ i \in Nat /\ p \in Seq(Seq(Nat))
    OBVIOUS
  <2> HIDE DEF opens
  <2>2. AddToDocuments(p, i, opens) \in Seq(Seq(Nat))
    BY <2>1, AddToDocumentsHolds
  <2> QED
    BY <2>2 DEF opens
<1>2. g \in [X \X (1 .. n) -> X]
  <2> HIDE DEF X, n
  <2> SUFFICES ASSUME NEW p \in X \X (1 .. n) PROVE AddToDocuments(p[1], p[2], ts[p[2]].type = "docheader") \in X
    OBVIOUS
  <2>1. p[1] \in X /\ p[2] \in 1 .. n
    OBVIOUS
  <2> QED
    BY <1>1, <2>1
<1>3. x0 \in X
  OBVIOUS
<1>4. \A p \in X, i \in 1 .. n : g[<<p, i>>] = AddToDocuments(p, i, ts[i].type = "docheader")
  <2> HIDE DEF X, n
  <2> QED
    OBVIOUS
<1> HIDE DEF n, X, g, x0
<1>5. PICK e : Iterates(e, n, X, x0, g)
  BY <1>0, <1>2, <1>3, Iterate
<1>6. e \in [0 .. n -> X] /\ e[0] = x0 /\ \A i \in 1 .. n : e[i] = g[<<e[i - 1], i>>]
  BY <1>5, Zenon DEF Iterates
<1>7. \A i \in 1 .. n : e[i] = AddToDocuments(e[i - 1], i, ts[i].type = "docheader")
  <2> SUFFICES ASSUME NEW i \in 1 .. n PROVE e[i] = AddToDocuments(e[i - 1], i, ts[i].type = "docheader")
    OBVIOUS
  <2>1. i - 1 \in 0 .. n
    BY <1>0
  <2>2. e[i - 1] \in X
    BY <1>6, <2>1
  <2> QED
    BY <1>4, <1>6, <2>2
<1>8. Is(e)
  <2>1. e = [i \in 0 .. n |-> e[i]]
    BY <1>6
  <2>2. \A i \in 0 .. n : e[i] = IF i = 0 THEN <<>> ELSE AddToDocuments(e[i - 1], i, ts[i].type = "docheader")
    <3> SUFFICES ASSUME NEW i \in 0 .. n
                 PROVE  e[i] = IF i = 0 THEN <<>> ELSE AddToDocuments(e[i - 1], i, ts[i].type = "docheader")
      OBVIOUS
    <3>1. CASE i = 0
      BY <1>6, <3>1 DEF x0
    <3>2. CASE i # 0
      <4>1. i \in 1 .. n
        BY <1>0, <3>2
      <4> QED
        BY <1>7, <3>2, <4>1
    <3> QED
      BY <3>1, <3>2
  <2> QED
    BY <2>1, <2>2
<1>9. Is(r)
  <2> HIDE DEF Is
  <2> QED
    BY <1>8
<1>10. SplitDocuments(ts) = r[n]
  BY Zenon DEF SplitDocuments, n
<1> HIDE DEF r
<1>11. r[0] = x0 /\ \A i \in 1 .. n : r[i] = AddToDocuments(r[i - 1], i, ts[i].type = "docheader")
  <2>1. \A i \in 0 .. n : r[i] = IF i = 0 THEN <<>> ELSE AddToDocuments(r[i - 1], i, ts[i].type = "docheader")
    BY <1>9
  <2>2. 0 \in 0 .. n /\ \A i \in 1 .. n : i \in 0 .. n /\ i # 0
    BY <1>0
  <2>3. r[0] = <<>>
    BY <2>1, <2>2
  <2>4. \A i \in 1 .. n : r[i] = AddToDocuments(r[i - 1], i, ts[i].type = "docheader")
    BY <2>1, <2>2
  <2> QED
    BY <2>3, <2>4 DEF x0
<1>12. \A i \in 0 .. n : r[i] \in X
  <2> DEFINE Y == {i \in 0 .. n : r[i] \in X}
  <2>1. 0 \in Y
    BY <1>0, <1>3, <1>11
  <2>2. ASSUME NEW i \in 0 .. n - 1, i \in Y
        PROVE  i + 1 \in Y
    <3> DEFINE j == i + 1
    <3>1. j \in 1 .. n /\ j \in 0 .. n /\ j - 1 = i /\ r[i] \in X
      BY <1>0, <2>2
    <3> HIDE DEF j
    <3>2. r[j] = AddToDocuments(r[i], j, ts[j].type = "docheader")
      BY <1>11, <3>1
    <3>3. r[j] \in X
      BY <1>1, <3>1, <3>2
    <3>4. j \in Y
      BY <3>1, <3>3
    <3> QED
      BY <3>4 DEF j
  <2> HIDE DEF Y
  <2>3. 0 .. n \subseteq Y
    BY <1>0, <2>1, <2>2, Upward
  <2> QED
    BY <2>3 DEF Y
<1>13. r \in [0 .. n -> X]
  <2>1. r = [i \in 0 .. n |-> r[i]]
    BY <1>9, Zenon
  <2> QED
    BY <1>12, <2>1
<1>14. Divides(r, ts)
  BY <1>10, <1>11, <1>13, Zenon DEF Divides, n, X, x0
<1> QED
  BY <1>14

\* The documents of a stream divide its tokens, and headers lead them.
LEMMA SplitDocumentsHold ==
    ASSUME NEW ts \in Seq(Tokens)
    PROVE  /\ FlattenSeq(SplitDocuments(ts)) = FirstTokens(Len(ts))
           /\ HeadersLead(SplitDocuments(ts), ts)
<1> DEFINE n == Len(ts)
           P(g, i) == FlattenSeq(g) = FirstTokens(i) /\ HeadersLead(g, ts)
<1>1. n \in Nat
  OBVIOUS
<1>2. PICK f : Divides(f, ts)
  BY DividingSteps
<1>3. /\ f \in [0 .. n -> Seq(Seq(Nat))] /\ SplitDocuments(ts) = f[n]
      /\ f[0] = <<>>
      /\ \A i \in 1 .. n : f[i] = AddToDocuments(f[i - 1], i, ts[i].type = "docheader")
  BY <1>2, Zenon DEF Divides
<1> HIDE DEF n
<1> DEFINE Y == {i \in 0 .. n : P(f[i], i)}
<1>4. 0 \in Y
  <2>1. FirstTokens(0) = <<>>
    BY DEF FirstTokens
  <2>2. HeadersLead(<<>>, ts)
    BY DEF HeadersLead
  <2>3. P(<<>>, 0)
    BY <2>1, <2>2, FlattenNothing, Zenon
  <2> HIDE DEF P
  <2> QED
    BY <1>1, <1>3, <2>3
<1>5. ASSUME NEW i \in 0 .. n - 1, i \in Y
      PROVE  i + 1 \in Y
  <2> DEFINE j == i + 1
             g == f[i]
             opens == ts[j].type = "docheader"
             known == FirstTokens(i)
  <2>1. j \in 1 .. n /\ j \in 0 .. n /\ j - 1 = i /\ j \in Nat /\ i \in 0 .. n /\ opens \in BOOLEAN
    BY <1>1
  <2>2. P(g, i)
    <3> HIDE DEF P
    <3> QED
      BY <1>5
  <2>3. g \in Seq(Seq(Nat))
    BY <1>3, <2>1
  <2>4. f[j] = AddToDocuments(g, j, opens)
    BY <1>3, <2>1
  <2>5. Append(known, j) = FirstTokens(j)
    <3>1. known = [k \in 1 .. i |-> k] /\ known \in Seq(Nat) /\ Len(known) = i
      BY DEF FirstTokens
    <3>2. Append(known, j) = [k \in 1 .. j |-> k]
      BY <3>1
    <3> QED
      BY <3>2 DEF FirstTokens
  <2>6. ts[j].type = "docheader" => opens
    OBVIOUS
  <2> HIDE DEF j, g, opens, known
  <2>7. /\ FlattenSeq(AddToDocuments(g, j, opens)) = Append(FlattenSeq(g), j)
        /\ HeadersLead(g, ts) /\ (ts[j].type = "docheader" => opens)
             => HeadersLead(AddToDocuments(g, j, opens), ts)
    BY <2>1, <2>3, AddToDocumentsHolds
  <2>8. P(f[j], j)
    BY <2>2, <2>4, <2>5, <2>6, <2>7, Zenon DEF known
  <2> HIDE DEF P
  <2>9. j \in Y
    BY <2>1, <2>8
  <2> QED
    BY <2>9 DEF j
<1> HIDE DEF Y, P
<1>6. 0 .. n \subseteq Y
  BY <1>1, <1>4, <1>5, Upward
<1>7. P(f[n], n)
  <2>1. n \in Y
    BY <1>1, <1>6
  <2> QED
    BY <2>1 DEF Y
<1> QED
  BY <1>3, <1>7, Zenon DEF P, n

------------------------------------------------------------
(* Lines stand as they were built.                                         *)

\* Lines with the segments of others.
Same(ls, built) ==
    /\ DOMAIN ls = DOMAIN built
    /\ \A i \in DOMAIN ls : "segments" \in DOMAIN ls[i] /\ ls[i].segments = built[i].segments

\* The lines are those that were built of the tokens.
LinesStand ==
    /\ {"file", "ops"} \subseteq DOMAIN work /\ tks \in Seq(Tokens)
    /\ Same(lines, NewLines(tks))

\* Lines that stand hold the stream, token by token and rune by rune.
LEMMA StandingHolds ==
    ASSUME LinesStand
    PROVE  StreamFaithful
<1> DEFINE ts == tks
           built == NewLines(ts)
           docs == SplitDocuments(ts)
<1>1. ts \in Seq(Tokens) /\ Same(lines, built)
  BY DEF LinesStand
<1> HIDE DEF ts
<1>2. /\ FlattenSeq(RunesIn(built)) = FlattenSeq(OriginsIn(ts))
      /\ SourceTokens(FlattenSeq(SegmentsIn(built))) = FirstTokens(Len(ts))
  BY <1>1, NewLinesHold
<1>3. FlattenSeq(docs) = FirstTokens(Len(ts)) /\ HeadersLead(docs, ts)
  BY <1>1, SplitDocumentsHold
<1>4. FirstTokens(Len(ts)) = [i \in DOMAIN ts |-> i]
  <2>1. DOMAIN ts = 1 .. Len(ts)
    BY <1>1
  <2> QED
    BY <2>1, Zenon DEF FirstTokens
<1> HIDE DEF built, docs
<1>5. SegmentsIn(built) = [i \in DOMAIN lines |-> lines[i].segments]
  BY <1>1 DEF Same, SegmentsIn
<1>6. RunesIn(built) = [i \in DOMAIN lines |-> Runes(lines[i])]
  <2>1. \A i \in DOMAIN lines : Runes(lines[i]) = Runes(built[i])
    BY <1>1 DEF Same, Runes
  <2> QED
    BY <1>1, <2>1 DEF Same, RunesIn
<1>7. FlattenSeq([i \in DOMAIN lines |-> Runes(lines[i])]) = FlattenSeq([i \in DOMAIN ts |-> ts[i].origin])
  BY <1>2, <1>6, Zenon DEF OriginsIn
<1>8. StreamOf(lines) = [i \in DOMAIN ts |-> i]
  BY <1>2, <1>4, <1>5, Zenon DEF StreamOf
<1>9. /\ FlattenSeq(docs) = [i \in DOMAIN ts |-> i]
      /\ \A d \in DOMAIN docs : \A n \in DOMAIN docs[d] : ts[docs[d][n]].type = "docheader" => n = 1
  BY <1>3, <1>4, Zenon DEF HeadersLead
<1> QED
  BY <1>7, <1>8, <1>9, Zenon DEF StreamFaithful, ts, docs

------------------------------------------------------------
(* Whatever is in a sequence.                                              *)

\* A sequence of some values.
IsSeq(s) == s \in Seq(ToSet(s))

\* A sequence of values of a set is one.
LEMMA SomeSeq ==
    ASSUME NEW S, NEW s \in Seq(S)
    PROVE  IsSeq(s) /\ ToSet(s) \subseteq S /\ DOMAIN s = 1 .. Len(s) /\ Len(s) \in Nat
<1>1. Len(s) \in Nat /\ DOMAIN s = 1 .. Len(s)
  OBVIOUS
<1>2. ToSet(s) = {s[i] : i \in 1 .. Len(s)}
  BY <1>1 DEF ToSet
<1>3. s = [i \in 1 .. Len(s) |-> s[i]]
  OBVIOUS
<1> DEFINE n == Len(s)
           T == {s[i] : i \in 1 .. n}
<1>4. s \in [1 .. n -> T]
  BY <1>3
<1>5. T \subseteq S
  BY <1>1
<1> HIDE DEF T
<1>6. s \in Seq(T)
  BY <1>1, <1>4
<1> QED
  BY <1>1, <1>2, <1>5, <1>6 DEF IsSeq, T

\* A function of the first numbers is a sequence.
LEMMA FirstNumbers ==
    ASSUME NEW n \in Nat, NEW f, f = [i \in 1 .. n |-> f[i]]
    PROVE  IsSeq(f) /\ Len(f) = n /\ DOMAIN f = 1 .. n
<1> DEFINE T == {f[i] : i \in 1 .. n}
<1>1. f \in [1 .. n -> T]
  OBVIOUS
<1> HIDE DEF T
<1>2. f \in Seq(T) /\ Len(f) = n
  BY <1>1
<1> QED
  BY <1>2, SomeSeq

\* The members of two sequences, one behind the other.
LEMMA ConcatMembers ==
    ASSUME NEW S, NEW a \in Seq(S), NEW b \in Seq(S)
    PROVE  ToSet(a \o b) = ToSet(a) \cup ToSet(b)
<1> DEFINE m == Len(a)
           n == Len(b)
           c == a \o b
<1>1. m \in Nat /\ n \in Nat /\ DOMAIN a = 1 .. m /\ DOMAIN b = 1 .. n /\ DOMAIN c = 1 .. m + n
  BY ConcatProperties
<1>2. /\ \A i \in 1 .. m : c[i] = a[i]
      /\ \A i \in 1 .. n : c[m + i] = b[i]
  <2>1. ASSUME NEW i \in 1 .. m PROVE c[i] = a[i]
    BY ConcatProperties, <1>1
  <2>2. ASSUME NEW i \in 1 .. n PROVE c[m + i] = b[i]
    <3>1. m + i \in 1 .. m + n /\ m + i > m /\ m + i - m = i
      BY <1>1
    <3> QED
      BY ConcatProperties, <3>1
  <2> QED
    BY <2>1, <2>2
<1> HIDE DEF m, n, c
<1>3. ToSet(a) \cup ToSet(b) \subseteq ToSet(c)
  <2>1. \A i \in 1 .. m : i \in 1 .. m + n
    BY <1>1
  <2>2. \A i \in 1 .. n : m + i \in 1 .. m + n
    BY <1>1
  <2> QED
    BY <1>1, <1>2, <2>1, <2>2 DEF ToSet
<1>4. ToSet(c) \subseteq ToSet(a) \cup ToSet(b)
  <2> SUFFICES ASSUME NEW i \in 1 .. m + n PROVE c[i] \in ToSet(a) \cup ToSet(b)
    BY <1>1 DEF ToSet
  <2>1. CASE i \in 1 .. m
    BY <1>1, <1>2, <2>1 DEF ToSet
  <2>2. CASE i \notin 1 .. m
    <3> DEFINE j == i - m
    <3>1. j \in 1 .. n /\ m + j = i
      BY <1>1, <2>2
    <3> HIDE DEF j
    <3> QED
      BY <1>1, <1>2, <3>1 DEF ToSet
  <2> QED
    BY <2>1, <2>2
<1> QED
  BY <1>3, <1>4 DEF c

\* The members of sequences put together.
LEMMA FlattenMembers ==
    ASSUME NEW S, NEW s \in Seq(Seq(S))
    PROVE  ToSet(FlattenSeq(s)) = UNION {ToSet(s[i]) : i \in 1 .. Len(s)}
<1> DEFINE n == Len(s)
           pre(k) == FlattenSeq(SubSeq(s, 1, k))
           all(k) == UNION {ToSet(s[i]) : i \in 1 .. k}
           Y == {k \in 0 .. n : ToSet(pre(k)) = all(k)}
<1>0. n \in Nat
  OBVIOUS
<1>1. 0 \in Y
  <2>1. SubSeq(s, 1, 0) = <<>>
    OBVIOUS
  <2>2. pre(0) = <<>>
    BY <2>1, FlattenNothing
  <2> HIDE DEF pre
  <2>3. ToSet(<<>>) = {}
    BY DEF ToSet
  <2>4. all(0) = {}
    OBVIOUS
  <2> QED
    BY <1>0, <2>2, <2>3, <2>4
<1>2. ASSUME NEW i \in 0 .. n - 1, i \in Y PROVE i + 1 \in Y
  <2> DEFINE k == i + 1
  <2>1. k \in 1 .. n /\ k - 1 = i /\ k \in 0 .. n
    BY <1>0
  <2> HIDE DEF k
  <2>2. k \in 1 .. Len(s)
    BY <2>1
  <2>3. /\ FlattenSeq(SubSeq(s, 1, k - 1)) \in Seq(S) /\ s[k] \in Seq(S)
        /\ FlattenSeq(SubSeq(s, 1, k)) = FlattenSeq(SubSeq(s, 1, k - 1)) \o s[k]
    BY <2>2, FlattenPrefix
  <2>4. pre(i) \in Seq(S) /\ pre(k) = pre(i) \o s[k]
    BY <2>1, <2>3
  <2> HIDE DEF pre
  <2>5. ToSet(pre(k)) = ToSet(pre(i)) \cup ToSet(s[k])
    BY <2>3, <2>4, ConcatMembers
  <2>6. ToSet(pre(i)) = all(i)
    BY <1>2
  <2>7. 1 .. k = (1 .. i) \cup {k}
    BY <2>1
  <2>8. all(k) = all(i) \cup ToSet(s[k])
    BY <2>7
  <2> HIDE DEF all
  <2> QED
    BY <2>1, <2>5, <2>6, <2>8 DEF k
<1> HIDE DEF Y
<1>3. 0 .. n \subseteq Y
  BY <1>0, <1>1, <1>2, Upward
<1>4. n \in Y
  BY <1>0, <1>3
<1>5. SubSeq(s, 1, n) = s
  OBVIOUS
<1>6. ToSet(pre(n)) = all(n)
  BY <1>4 DEF Y
<1> QED
  BY <1>5, <1>6

\* Sequences put together are a sequence of their members.
LEMMA FlattenIsSeq ==
    ASSUME NEW s, IsSeq(s), \A i \in 1 .. Len(s) : IsSeq(s[i])
    PROVE  /\ IsSeq(FlattenSeq(s))
           /\ ToSet(FlattenSeq(s)) = UNION {ToSet(s[i]) : i \in 1 .. Len(s)}
<1> DEFINE n == Len(s)
           S == UNION {ToSet(s[i]) : i \in 1 .. n}
<1>1. n \in Nat /\ DOMAIN s = 1 .. n /\ s = [i \in 1 .. n |-> s[i]]
  BY DEF IsSeq
<1>2. ASSUME NEW i \in 1 .. n PROVE s[i] \in Seq(S)
  <2>1. s[i] \in Seq(ToSet(s[i]))
    BY DEF IsSeq
  <2> DEFINE x == s[i]
             T == ToSet(s[i])
  <2>2. T \subseteq S
    OBVIOUS
  <2>3. x \in Seq(T)
    BY <2>1
  <2> HIDE DEF x, T, S
  <2>4. x \in Seq(S)
    BY <2>2, <2>3
  <2> QED
    BY <2>4 DEF x
<1> HIDE DEF S
<1>3. s \in Seq(Seq(S))
  <2>1. s \in [1 .. n -> Seq(S)]
    BY <1>1, <1>2
  <2> QED
    BY <1>1, <2>1
<1>4. FlattenSeq(s) \in Seq(S) /\ ToSet(FlattenSeq(s)) = S
  BY <1>3, FlattenType, FlattenMembers DEF S
<1>5. IsSeq(FlattenSeq(s))
  BY <1>4, SomeSeq
<1> QED
  BY <1>4, <1>5 DEF S

------------------------------------------------------------
(* The ranges that are marked.                                             *)

\* The first of each value stays.
LEMMA UniqueSeq ==
    ASSUME NEW rs, IsSeq(rs)
    PROVE  IsSeq(UniqueValues(rs)) /\ ToSet(UniqueValues(rs)) = ToSet(rs)
<1> DEFINE n == Len(rs)
           x(i) == IF \E m \in 1 .. i - 1 : rs[m] = rs[i] THEN <<>> ELSE <<rs[i]>>
           ss == [i \in 1 .. n |-> x(i)]
<1>1. n \in Nat /\ DOMAIN rs = 1 .. n
  BY DEF IsSeq
<1>2. UniqueValues(rs) = FlattenSeq(ss)
  BY <1>1, Zenon DEF UniqueValues
<1>3. ASSUME NEW i \in 1 .. n PROVE IsSeq(x(i)) /\ ToSet(x(i)) \subseteq {rs[i]}
  <2>1. CASE x(i) = <<>>
    BY <2>1 DEF IsSeq, ToSet
  <2>2. CASE x(i) = <<rs[i]>>
    <3>1. ToSet(<<rs[i]>>) = {rs[i]}
      BY DEF ToSet
    <3>2. <<rs[i]>> \in Seq({rs[i]})
      OBVIOUS
    <3> QED
      BY <2>2, <3>1, <3>2 DEF IsSeq
  <2> QED
    BY <2>1, <2>2
<1>4. \A i \in 1 .. n : ~(\E m \in 1 .. i - 1 : rs[m] = rs[i]) => ToSet(x(i)) = {rs[i]}
  BY DEF ToSet
<1>5. \A i \in 1 .. n : ss[i] = x(i)
  OBVIOUS
<1> HIDE DEF x
<1>6. ss = [i \in 1 .. n |-> ss[i]]
  OBVIOUS
<1> HIDE DEF ss
<1>7. IsSeq(ss) /\ Len(ss) = n
  BY <1>1, <1>6, FirstNumbers
<1>8. \A i \in 1 .. Len(ss) : IsSeq(ss[i])
  BY <1>3, <1>5, <1>7
<1>9. IsSeq(FlattenSeq(ss)) /\ ToSet(FlattenSeq(ss)) = UNION {ToSet(ss[i]) : i \in 1 .. Len(ss)}
  BY <1>7, <1>8, FlattenIsSeq
<1>10. UNION {ToSet(ss[i]) : i \in 1 .. n} \subseteq ToSet(rs)
  <2> SUFFICES ASSUME NEW i \in 1 .. n PROVE ToSet(ss[i]) \subseteq ToSet(rs)
    OBVIOUS
  <2>1. ToSet(ss[i]) \subseteq {rs[i]}
    BY <1>3, <1>5
  <2> QED
    BY <1>1, <2>1 DEF ToSet
<1>11. ToSet(rs) \subseteq UNION {ToSet(ss[i]) : i \in 1 .. n}
  <2> SUFFICES ASSUME NEW k \in 1 .. n PROVE rs[k] \in UNION {ToSet(ss[i]) : i \in 1 .. n}
    BY <1>1 DEF ToSet
  <2> DEFINE X == {i \in 1 .. n : rs[i] = rs[k]}
  <2>1. X \subseteq 0 .. n /\ X # {}
    BY <1>1
  <2>2. PICK i \in X : \A m \in X : i <= m
    BY <1>1, <2>1, Least
  <2>3. ~(\E m \in 1 .. i - 1 : rs[m] = rs[i])
    <3> SUFFICES ASSUME NEW m \in 1 .. i - 1, rs[m] = rs[i] PROVE FALSE
      OBVIOUS
    <3>1. m \in 1 .. n /\ m < i
      BY <1>1, <2>2
    <3>2. m \in X
      BY <2>2, <3>1
    <3> QED
      BY <1>1, <2>2, <3>1, <3>2
  <2>4. ToSet(ss[i]) = {rs[k]}
    BY <1>4, <1>5, <2>2, <2>3
  <2> QED
    BY <2>2, <2>4
<1> QED
  BY <1>2, <1>7, <1>9, <1>10, <1>11

\* What stands beside the segments is of no account for places and ranges.
LEMMA SameRanges ==
    ASSUME NEW ls, NEW built, Same(ls, built)
    PROVE  /\ \A tok : TokenPositions(ls, tok) = TokenPositions(built, tok)
           /\ \A pos : ContentRangesAt(ls, pos) = ContentRangesAt(built, pos)
           /\ \A positions : ContentPositionRanges(ls, positions) = ContentPositionRanges(built, positions)
           /\ BuildSource(ls) = BuildSource(built)
<1>1. DOMAIN ls = DOMAIN built /\ \A i \in DOMAIN ls : ls[i].segments = built[i].segments
  BY DEF Same
<1>2. ASSUME NEW tok PROVE TokenPositions(ls, tok) = TokenPositions(built, tok)
  <2> DEFINE Put(i, segs) == FlattenSeq([j \in DOMAIN segs |->
                              IF segs[j].source = tok THEN <<Pos(i - 1, ColOf(segs, j))>> ELSE <<>>])
  <2>1. /\ TokenPositions(ls, tok) = FlattenSeq([i \in DOMAIN ls |-> Put(i, ls[i].segments)])
        /\ TokenPositions(built, tok) = FlattenSeq([i \in DOMAIN built |-> Put(i, built[i].segments)])
    BY Zenon DEF TokenPositions
  <2> HIDE DEF Put
  <2>2. [i \in DOMAIN ls |-> Put(i, ls[i].segments)] = [i \in DOMAIN built |-> Put(i, built[i].segments)]
    BY <1>1
  <2> QED
    BY <2>1, <2>2
<1>3. ASSUME NEW pos PROVE ContentRangesAt(ls, pos) = ContentRangesAt(built, pos)
  <2> DEFINE hit(l) == IF pos.line + 1 \in DOMAIN l THEN SegmentAt(l[pos.line + 1].segments, pos.col) ELSE 0
             Put(i, segs, tok) == FlattenSeq([j \in DOMAIN segs |->
                                      IF segs[j].source = tok THEN ContentRange(segs, j, i) ELSE <<>>])
             there(l, tok) == FlattenSeq([i \in DOMAIN l |-> Put(i, l[i].segments, tok)])
  <2>1. \A l : ContentRangesAt(l, pos) = IF hit(l) = 0 THEN <<>>
                                         ELSE there(l, l[pos.line + 1].segments[hit(l)].source)
    BY Zenon DEF ContentRangesAt
  <2>2. hit(ls) = hit(built)
    <3>1. CASE pos.line + 1 \in DOMAIN ls
      <4>1. ls[pos.line + 1].segments = built[pos.line + 1].segments /\ pos.line + 1 \in DOMAIN built
        BY <1>1, <3>1
      <4> QED
        BY <3>1, <4>1
    <3>2. CASE pos.line + 1 \notin DOMAIN ls
      BY <1>1, <3>2
    <3> QED
      BY <3>1, <3>2
  <2>3. hit(ls) # 0 => ls[pos.line + 1].segments = built[pos.line + 1].segments
    BY <1>1
  <2> HIDE DEF hit, Put
  <2>4. \A tok : [i \in DOMAIN ls |-> Put(i, ls[i].segments, tok)]
                      = [i \in DOMAIN built |-> Put(i, built[i].segments, tok)]
    BY <1>1
  <2>5. \A tok : there(ls, tok) = there(built, tok)
    BY <2>4
  <2> HIDE DEF there
  <2>6. ContentRangesAt(ls, pos) = IF hit(ls) = 0 THEN <<>>
                                   ELSE there(ls, ls[pos.line + 1].segments[hit(ls)].source)
    BY <2>1
  <2>7. ContentRangesAt(built, pos) = IF hit(built) = 0 THEN <<>>
                                      ELSE there(built, built[pos.line + 1].segments[hit(built)].source)
    BY <2>1
  <2>8. CASE hit(ls) = 0
    BY <2>2, <2>6, <2>7, <2>8
  <2>9. CASE hit(ls) # 0
    <3>1. ls[pos.line + 1].segments[hit(ls)].source = built[pos.line + 1].segments[hit(built)].source
      BY <2>2, <2>3, <2>9
    <3> QED
      BY <2>2, <2>5, <2>6, <2>7, <2>9, <3>1
  <2> QED
    BY <2>8, <2>9
<1>4. ASSUME NEW positions PROVE ContentPositionRanges(ls, positions) = ContentPositionRanges(built, positions)
  <2>1. [n \in DOMAIN positions |-> ContentRangesAt(ls, positions[n])]
          = [n \in DOMAIN positions |-> ContentRangesAt(built, positions[n])]
    BY <1>3
  <2> QED
    BY <2>1, Zenon DEF ContentPositionRanges
<1>5. BuildSource(ls) = BuildSource(built)
  <2> DEFINE Cells(l, i) == [c \in DOMAIN Runes(l) |-> [rune |-> Runes(l)[c], pos |-> Pos(i - 1, c - 1)]]
  <2>1. /\ AllRunes(ls) = FlattenSeq([i \in DOMAIN ls |-> Cells(ls[i], i)])
        /\ AllRunes(built) = FlattenSeq([i \in DOMAIN built |-> Cells(built[i], i)])
    BY Zenon DEF AllRunes
  <2>2. ASSUME NEW i \in DOMAIN ls PROVE Cells(ls[i], i) = Cells(built[i], i)
    <3>1. Runes(ls[i]) = Runes(built[i])
      BY <1>1 DEF Runes
    <3> QED
      BY <3>1
  <2> HIDE DEF Cells
  <2>3. [i \in DOMAIN ls |-> Cells(ls[i], i)] = [i \in DOMAIN built |-> Cells(built[i], i)]
    BY <1>1, <2>2
  <2>4. AllRunes(ls) = AllRunes(built)
    BY <2>1, <2>3
  <2> QED
    BY <2>4, Zenon DEF BuildSource
<1> QED
  BY <1>2, <1>3, <1>4, <1>5

\* The same holds of the places and ranges of errors.
LEMMA SameCollected ==
    ASSUME NEW ls, NEW built, Same(ls, built), Len(ls) = Len(built), NEW ts, NEW main, NEW nested
    PROVE  CollectPositions(ls, ts, main, nested) = CollectPositions(built, ts, main, nested)
<1>1. MainPosition(ls, ts, main) = MainPosition(built, ts, main)
  <2>1. /\ TokenPositions(ls, main) = TokenPositions(built, main)
        /\ \A positions : ContentPositionRanges(ls, positions) = ContentPositionRanges(built, positions)
    BY SameRanges
  <2> QED
    BY <2>1, Zenon DEF MainPosition
<1>2. ASSUME NEW target, NEW m PROVE NestedPosition(ls, target, m) = NestedPosition(built, target, m)
  <2>1. \A positions : ContentPositionRanges(ls, positions) = ContentPositionRanges(built, positions)
    BY SameRanges
  <2> QED
    BY <2>1, Zenon DEF NestedPosition
<1>3. [m \in DOMAIN nested |-> NestedPosition(ls, nested[m], m)]
        = [m \in DOMAIN nested |-> NestedPosition(built, nested[m], m)]
  BY <1>2
<1> QED
  BY <1>1, <1>3, Zenon DEF CollectPositions

\* No value and one value.
LEMMA FewSeq == IsSeq(<<>>) /\ \A x : IsSeq(<<x>>) /\ ToSet(<<x>>) = {x}
<1>1. IsSeq(<<>>)
  BY DEF IsSeq
<1>2. ASSUME NEW x PROVE IsSeq(<<x>>) /\ ToSet(<<x>>) = {x}
  <2>1. <<x>> \in Seq({x})
    OBVIOUS
  <2>2. ToSet(<<x>>) = {x}
    BY DEF ToSet
  <2> QED
    BY <2>1, <2>2 DEF IsSeq
<1> QED
  BY <1>1, <1>2

\* A range of some text on one of n lines.
Placed(r, n) ==
    /\ r.start.line \in 0 .. n - 1 /\ r.end.line = r.start.line
    /\ r.start.col \in Int /\ r.end.col \in Int /\ r.start.col < r.end.col

\* A sequence that is not empty is what stands in front of its last member,
\* and that member.
LEMMA FrontAndLast ==
    ASSUME NEW S, NEW s \in Seq(S), Len(s) > 0
    PROVE  /\ Front(s) \in Seq(S) /\ Len(Front(s)) = Len(s) - 1 /\ Last(s) = s[Len(s)] /\ Last(s) \in S
           /\ \A i \in 1 .. Len(s) - 1 : Front(s)[i] = s[i]
<1> DEFINE n == Len(s)
<1>1. n \in Nat /\ n >= 1 /\ n - 1 \in Nat /\ n \in 1 .. n
  OBVIOUS
<1>2. Front(s) = SubSeq(s, 1, n - 1) /\ Last(s) = s[n]
  BY Zenon DEF Front, Last
<1>3. (\A i \in 1 .. n - 1 : s[i] \in S) /\ s[n] \in S
  OBVIOUS
<1> DEFINE m == n - 1
           f == SubSeq(s, 1, m)
<1>4. f \in Seq(S) /\ Len(f) = m /\ \A i \in 1 .. m : f[i] = s[i]
  <2>1. m \in Int /\ 1 \in Int /\ \A i \in 1 .. m : s[i] \in S
    BY <1>1, <1>3
  <2>a. m \in Nat
    BY <1>1
  <2> HIDE DEF m
  <2>2. m - 1 + 1 = m /\ (m < 1 => m = 0) /\ \A i \in 1 .. m : 1 + i - 1 = i
    BY <2>a
  <2>3. /\ f \in Seq(S) /\ Len(f) = IF 1 <= m THEN m - 1 + 1 ELSE 0
        /\ \A i \in 1 .. m - 1 + 1 : f[i] = s[1 + i - 1]
    BY <2>1, SubSeqProperties
  <2> QED
    BY <2>2, <2>3
<1> QED
  BY <1>2, <1>3, <1>4

\* The newline at the end of a text is cut off, and the carriage return.
LEMMA TrimType ==
    ASSUME NEW S, NEW s \in Seq(S)
    PROVE  TrimNL(s) \in Seq(S) /\ TrimCR(s) \in Seq(S)
<1>1. CASE s = <<>>
  BY <1>1 DEF TrimNL, TrimCR, EndsWithNL
<1>2. CASE s # <<>>
  <2>1. Len(s) > 0
    BY <1>2
  <2>2. Front(s) \in Seq(S)
    BY <2>1, FrontAndLast
  <2> QED
    BY <2>2 DEF TrimNL, TrimCR
<1> QED
  BY <1>1, <1>2

\* What a token has on a line is a text.
LEMMA TextType ==
    ASSUME NEW part \in Tokens
    PROVE  TrimNL(part.origin) \in Seq(STRING) /\ TrimEOL(part.origin) \in Seq(STRING)
<1> DEFINE o == part.origin
           S == STRING
           t == TrimNL(o)
<1>1. o \in Seq(S)
  BY DEF Tokens
<1> HIDE DEF o, S
<1>2. t \in Seq(S)
  BY <1>1, TrimType
<1> HIDE DEF t
<1>3. TrimCR(t) \in Seq(S)
  BY <1>2, TrimType
<1> QED
  BY <1>2, <1>3 DEF TrimEOL, S, o, t

\* Columns of a line are numbers.
LEMMA ColOfType ==
    ASSUME NEW segs \in Seq(Seg), NEW j \in 1 .. Len(segs)
    PROVE  ColOf(segs, j) \in Nat
<1> DEFINE m == j - 1
           ss == [k \in 1 .. m |-> TrimNL(segs[k].part.origin)]
<1>1. m \in Nat /\ \A k \in 1 .. m : k \in 1 .. Len(segs)
  OBVIOUS
<1>2. ASSUME NEW k \in 1 .. m PROVE ss[k] \in Seq(STRING)
  <2> DEFINE part == segs[k].part
  <2>1. segs[k] \in Seg
    BY <1>1
  <2>2. part \in Tokens
    BY <2>1 DEF Seg
  <2> HIDE DEF part
  <2>3. TrimNL(part.origin) \in Seq(STRING)
    BY <2>2, TextType
  <2> QED
    BY <2>3 DEF part
<1>3. ss \in [1 .. m -> Seq(STRING)]
  BY <1>2
<1>4. ColOf(segs, j) = Len(FlattenSeq(ss))
  BY Zenon DEF ColOf
<1> HIDE DEF ss, m
<1>5. ss \in Seq(Seq(STRING))
  BY <1>1, <1>3
<1>6. FlattenSeq(ss) \in Seq(STRING)
  BY <1>5, FlattenType
<1> QED
  BY <1>4, <1>6

\* The content of a segment has a place on its line, if it has one.
LEMMA ContentRangeHolds ==
    ASSUME NEW segs \in Seq(Seg), NEW j \in 1 .. Len(segs), NEW n \in Nat, NEW i \in 1 .. n
    PROVE  IsSeq(ContentRange(segs, j, i)) /\ \A r \in ToSet(ContentRange(segs, j, i)) : Placed(r, n)
<1> DEFINE text == TrimEOL(segs[j].part.origin)
           S == STRING
           from == ColOf(segs, j) + LeadingCount(text, SP)
           to == ColOf(segs, j) + Width(segs[j]) - TrailingCount(text, SP)
           r == NewRange(Pos(i - 1, from), Pos(i - 1, to))
<1>1. text \in Seq(S) /\ Width(segs[j]) \in Nat
  <2> DEFINE part == segs[j].part
  <2>1. segs[j] \in Seg
    OBVIOUS
  <2>2. part \in Tokens
    BY <2>1 DEF Seg
  <2> HIDE DEF part
  <2>3. TrimNL(part.origin) \in Seq(STRING) /\ TrimEOL(part.origin) \in Seq(STRING)
    BY <2>2, TextType
  <2> QED
    BY <2>3 DEF Width, part
<1>2. ColOf(segs, j) \in Nat
  BY ColOfType
<1>3. ContentRange(segs, j, i) = IF from < to THEN <<r>> ELSE <<>>
  BY Zenon DEF ContentRange
<1> HIDE DEF text, S
<1>4. LeadingCount(text, SP) \in Nat
  BY <1>1, LeadingCountType
<1>5. TrailingCount(text, SP) \in Nat
  <2> DEFINE t == Reverse(text)
  <2>1. t \in Seq(S)
    BY <1>1 DEF Reverse
  <2> HIDE DEF t
  <2>2. LeadingCount(t, SP) \in Nat
    BY <2>1, LeadingCountType
  <2> QED
    BY <2>2 DEF TrailingCount, t
<1>6. from \in Int /\ to \in Int
  BY <1>1, <1>2, <1>4, <1>5
<1>7. r.start.line = i - 1 /\ r.end.line = i - 1 /\ r.start.col = from /\ r.end.col = to
  BY DEF NewRange, Pos
<1> HIDE DEF from, to, r
<1>8. from < to => Placed(r, n)
  BY <1>6, <1>7 DEF Placed
<1>9. IsSeq(<<>>) /\ IsSeq(<<r>>) /\ ToSet(<<r>>) = {r} /\ ToSet(<<>>) = {}
  BY FewSeq DEF ToSet
<1> QED
  BY <1>3, <1>8, <1>9

\* The ranges of the content at a place.
LEMMA ContentRangesPlaced ==
    ASSUME NEW ls \in Seq(Line), NEW pos
    PROVE  IsSeq(ContentRangesAt(ls, pos)) /\ \A r \in ToSet(ContentRangesAt(ls, pos)) : Placed(r, Len(ls))
<1> DEFINE x(i, segs, tok, j) == IF segs[j].source = tok THEN ContentRange(segs, j, i) ELSE <<>>
           Put(i, segs, tok) == FlattenSeq([j \in DOMAIN segs |-> x(i, segs, tok, j)])
           n == Len(ls)
           Fine(s) == IsSeq(s) /\ \A r \in ToSet(s) : Placed(r, n)
<1>1. n \in Nat /\ DOMAIN ls = 1 .. n
  OBVIOUS
<1>0. Fine(<<>>)
  BY FewSeq DEF ToSet
<1>2. ASSUME NEW i \in 1 .. n, NEW tok PROVE Fine(Put(i, ls[i].segments, tok))
  <2> DEFINE segs == ls[i].segments
             m == Len(segs)
             ss == [j \in 1 .. m |-> x(i, segs, tok, j)]
  <2>1. ls[i] \in Line
    OBVIOUS
  <2>2. segs \in Seq(Seg)
    BY <2>1 DEF Line
  <2> HIDE DEF segs
  <2>3. m \in Nat /\ DOMAIN segs = 1 .. m
    BY <2>2
  <2> HIDE DEF n
  <2>4. ASSUME NEW j \in 1 .. m PROVE Fine(x(i, segs, tok, j))
    <3>1. Fine(ContentRange(segs, j, i))
      BY <1>1, <2>2, ContentRangeHolds
    <3> HIDE DEF Fine
    <3> QED
      BY <1>0, <3>1
  <2> HIDE DEF x, m
  <2>5. ss = [j \in 1 .. m |-> ss[j]] /\ \A j \in 1 .. m : ss[j] = x(i, segs, tok, j)
    OBVIOUS
  <2>6. Put(i, segs, tok) = FlattenSeq(ss)
    BY <2>3
  <2> HIDE DEF ss, Put
  <2>7. IsSeq(ss) /\ Len(ss) = m
    BY <2>3, <2>5, FirstNumbers
  <2>8. \A j \in 1 .. m : Fine(ss[j])
    BY <2>4, <2>5
  <2>9. IsSeq(FlattenSeq(ss)) /\ ToSet(FlattenSeq(ss)) = UNION {ToSet(ss[j]) : j \in 1 .. Len(ss)}
    BY <2>7, <2>8, FlattenIsSeq
  <2>10. Fine(FlattenSeq(ss))
    BY <2>7, <2>8, <2>9
  <2> QED
    BY <2>6, <2>10 DEF segs
<1>3. \E tok : \/ ContentRangesAt(ls, pos) = <<>>
               \/ ContentRangesAt(ls, pos) = FlattenSeq([i \in DOMAIN ls |-> Put(i, ls[i].segments, tok)])
  BY Zenon DEF ContentRangesAt
<1> HIDE DEF Put
<1>4. PICK tok : \/ ContentRangesAt(ls, pos) = <<>>
                 \/ ContentRangesAt(ls, pos) = FlattenSeq([i \in DOMAIN ls |-> Put(i, ls[i].segments, tok)])
  BY <1>3
<1> DEFINE ss == [i \in 1 .. n |-> Put(i, ls[i].segments, tok)]
<1>5. ss = [i \in 1 .. n |-> ss[i]] /\ \A i \in 1 .. n : ss[i] = Put(i, ls[i].segments, tok)
  OBVIOUS
<1>6. ContentRangesAt(ls, pos) = <<>> \/ ContentRangesAt(ls, pos) = FlattenSeq(ss)
  BY <1>1, <1>4
<1>a. \A i \in 1 .. n : Fine(ss[i])
  BY <1>2, <1>5
<1> HIDE DEF ss, n
<1>7. IsSeq(ss) /\ Len(ss) = n
  BY <1>1, <1>5, FirstNumbers
<1>8. IsSeq(FlattenSeq(ss)) /\ ToSet(FlattenSeq(ss)) = UNION {ToSet(ss[i]) : i \in 1 .. Len(ss)}
  BY <1>a, <1>7, FlattenIsSeq
<1>9. Fine(FlattenSeq(ss))
  BY <1>a, <1>7, <1>8
<1>10. Fine(ContentRangesAt(ls, pos))
  BY <1>0, <1>6, <1>9
<1> QED
  BY <1>10 DEF n

\* The ranges at several places.
LEMMA PositionRangesPlaced ==
    ASSUME NEW ls \in Seq(Line), NEW positions, IsSeq(positions)
    PROVE  /\ IsSeq(ContentPositionRanges(ls, positions))
           /\ \A r \in ToSet(ContentPositionRanges(ls, positions)) : Placed(r, Len(ls))
<1> DEFINE n == Len(positions)
           ss == [i \in 1 .. n |-> ContentRangesAt(ls, positions[i])]
           all == FlattenSeq(ss)
<1>1. n \in Nat /\ DOMAIN positions = 1 .. n
  BY DEF IsSeq
<1>2. ContentPositionRanges(ls, positions) = UniqueValues(all)
  BY <1>1, Zenon DEF ContentPositionRanges
<1>3. ss = [i \in 1 .. n |-> ss[i]] /\ \A i \in 1 .. n : ss[i] = ContentRangesAt(ls, positions[i])
  OBVIOUS
<1> HIDE DEF ss, n
<1>4. IsSeq(ss) /\ Len(ss) = n
  BY <1>1, <1>3, FirstNumbers
<1>5. \A i \in 1 .. n : IsSeq(ss[i]) /\ \A r \in ToSet(ss[i]) : Placed(r, Len(ls))
  BY <1>3, ContentRangesPlaced
<1>6. IsSeq(all) /\ ToSet(all) = UNION {ToSet(ss[i]) : i \in 1 .. Len(ss)}
  BY <1>4, <1>5, FlattenIsSeq
<1>7. \A r \in ToSet(all) : Placed(r, Len(ls))
  BY <1>4, <1>5, <1>6
<1> HIDE DEF all
<1>8. IsSeq(UniqueValues(all)) /\ ToSet(UniqueValues(all)) = ToSet(all)
  BY <1>6, UniqueSeq
<1> QED
  BY <1>2, <1>7, <1>8

\* The places of a token's parts.
LEMMA TokenPositionsSeq ==
    ASSUME NEW ls \in Seq(Line), NEW tok
    PROVE  IsSeq(TokenPositions(ls, tok))
<1> DEFINE x(i, segs, j) == IF segs[j].source = tok THEN <<Pos(i - 1, ColOf(segs, j))>> ELSE <<>>
           Put(i, segs) == FlattenSeq([j \in DOMAIN segs |-> x(i, segs, j)])
           n == Len(ls)
           ss == [i \in 1 .. n |-> Put(i, ls[i].segments)]
<1>1. n \in Nat /\ DOMAIN ls = 1 .. n
  OBVIOUS
<1>2. TokenPositions(ls, tok) = FlattenSeq(ss)
  BY <1>1, Zenon DEF TokenPositions
<1>3. ASSUME NEW i \in 1 .. n PROVE IsSeq(Put(i, ls[i].segments))
  <2> DEFINE segs == ls[i].segments
             m == Len(segs)
             parts == [j \in 1 .. m |-> x(i, segs, j)]
  <2>1. ls[i] \in Line
    OBVIOUS
  <2>2. segs \in Seq(Seg)
    BY <2>1 DEF Line
  <2> HIDE DEF segs
  <2>3. m \in Nat /\ DOMAIN segs = 1 .. m
    BY <2>2
  <2>4. \A j : IsSeq(x(i, segs, j))
    BY FewSeq
  <2> HIDE DEF x, m
  <2>5. parts = [j \in 1 .. m |-> parts[j]] /\ \A j \in 1 .. m : parts[j] = x(i, segs, j)
    OBVIOUS
  <2>6. Put(i, segs) = FlattenSeq(parts)
    BY <2>3
  <2> HIDE DEF parts, Put
  <2>7. IsSeq(parts) /\ Len(parts) = m
    BY <2>3, <2>5, FirstNumbers
  <2>8. IsSeq(FlattenSeq(parts))
    BY <2>4, <2>5, <2>7, FlattenIsSeq
  <2> QED
    BY <2>6, <2>8 DEF segs
<1>4. ss = [i \in 1 .. n |-> ss[i]] /\ \A i \in 1 .. n : ss[i] = Put(i, ls[i].segments)
  OBVIOUS
<1> HIDE DEF ss, n, Put
<1>5. IsSeq(ss) /\ Len(ss) = n
  BY <1>1, <1>4, FirstNumbers
<1>6. IsSeq(FlattenSeq(ss))
  BY <1>3, <1>4, <1>5, FlattenIsSeq
<1> QED
  BY <1>2, <1>6

\* One sequence behind another.
LEMMA ConcatIsSeq ==
    ASSUME NEW a, NEW b, IsSeq(a), IsSeq(b)
    PROVE  IsSeq(a \o b) /\ ToSet(a \o b) = ToSet(a) \cup ToSet(b)
<1> DEFINE A == ToSet(a)
           B == ToSet(b)
           S == A \cup B
<1>1. a \in Seq(A) /\ b \in Seq(B)
  BY DEF IsSeq
<1> HIDE DEF A, B
<1>2. a \in Seq(S)
  BY <1>1
<1>3. b \in Seq(S)
  BY <1>1
<1> HIDE DEF S
<1>4. a \o b \in Seq(S)
  BY <1>2, <1>3, ConcatProperties
<1>5. ToSet(a \o b) = ToSet(a) \cup ToSet(b)
  BY <1>2, <1>3, ConcatMembers
<1> QED
  BY <1>4, <1>5, SomeSeq

\* All ranges of the errors that have a place.
LEMMA AllRangesPlaced ==
    ASSUME NEW ls \in Seq(Line), NEW ts, NEW main, NEW S, NEW nested \in Seq(S)
    PROVE  /\ IsSeq(AllRanges(CollectPositions(ls, ts, main, nested)))
           /\ \A r \in ToSet(AllRanges(CollectPositions(ls, ts, main, nested))) : Placed(r, Len(ls))
<1> DEFINE Good(s) == IsSeq(s) /\ \A r \in ToSet(s) : Placed(r, Len(ls))
           Fine(p) == IsSeq(p) /\ \A e \in ToSet(p) : Good(e.ranges)
           first == MainPosition(ls, ts, main)
           n == Len(nested)
           ss == [m \in 1 .. n |-> NestedPosition(ls, nested[m], m)]
           positions == CollectPositions(ls, ts, main, nested)
<1>1. \A x : Good(x.ranges) => Fine(<<x>>)
  <2> HIDE DEF Good
  <2> SUFFICES ASSUME NEW x, Good(x.ranges) PROVE Fine(<<x>>)
    OBVIOUS
  <2>1. IsSeq(<<x>>) /\ ToSet(<<x>>) = {x}
    BY FewSeq
  <2> QED
    BY <2>1
<1>2. Fine(<<>>)
  BY FewSeq DEF ToSet
<1>3. Fine(first)
  <2> DEFINE r == ContentPositionRanges(ls, TokenPositions(ls, main))
             x == [pos |-> NewFromToken(ts[main]), messages |-> <<>>, ranges |-> r]
  <2>1. first = <<>> \/ first = <<x>>
    BY Zenon DEF MainPosition
  <2>2. x.ranges = r
    OBVIOUS
  <2>3. Good(r)
    BY TokenPositionsSeq, PositionRangesPlaced
  <2> HIDE DEF x, Fine, Good
  <2> QED
    BY <1>1, <1>2, <2>1, <2>2, <2>3
<1>4. ASSUME NEW target, NEW m PROVE Fine(NestedPosition(ls, target, m))
  <2> DEFINE pos == NewFromToken(target)
             ps == <<pos>>
             r == ContentPositionRanges(ls, ps)
             x == [pos |-> pos, messages |-> <<m>>, ranges |-> r]
  <2>1. NestedPosition(ls, target, m) = <<>> \/ NestedPosition(ls, target, m) = <<x>>
    BY Zenon DEF NestedPosition
  <2>2. x.ranges = r
    OBVIOUS
  <2>3. IsSeq(ps)
    BY FewSeq
  <2> HIDE DEF ps
  <2>4. Good(r)
    BY <2>3, PositionRangesPlaced
  <2> HIDE DEF x, Fine, Good
  <2> QED
    BY <1>1, <1>2, <2>1, <2>2, <2>4
<1>5. n \in Nat /\ DOMAIN nested = 1 .. n
  OBVIOUS
<1>6. positions = first \o FlattenSeq(ss)
  BY <1>5, Zenon DEF CollectPositions
<1>7. ss = [m \in 1 .. n |-> ss[m]] /\ \A m \in 1 .. n : ss[m] = NestedPosition(ls, nested[m], m)
  OBVIOUS
<1> HIDE DEF ss, n, first, positions, Good
<1>8. IsSeq(ss) /\ Len(ss) = n
  BY <1>5, <1>7, FirstNumbers
<1>9. \A m \in 1 .. n : Fine(ss[m])
  <2> HIDE DEF Fine
  <2> QED
    BY <1>4, <1>7
<1>10. IsSeq(FlattenSeq(ss)) /\ ToSet(FlattenSeq(ss)) = UNION {ToSet(ss[m]) : m \in 1 .. Len(ss)}
  BY <1>8, <1>9, FlattenIsSeq
<1>a. \A e \in ToSet(FlattenSeq(ss)) : Good(e.ranges)
  <2> SUFFICES ASSUME NEW e \in ToSet(FlattenSeq(ss)) PROVE Good(e.ranges)
    OBVIOUS
  <2>1. PICK m \in 1 .. n : e \in ToSet(ss[m])
    BY <1>8, <1>10
  <2> QED
    BY <1>9, <2>1
<1>11. IsSeq(positions) /\ \A e \in ToSet(positions) : Good(e.ranges)
  <2>1. IsSeq(positions) /\ ToSet(positions) = ToSet(first) \cup ToSet(FlattenSeq(ss))
    BY <1>3, <1>6, <1>10, ConcatIsSeq
  <2> QED
    BY <1>3, <1>a, <2>1
<1> DEFINE k == Len(positions)
           rs == [i \in 1 .. k |-> positions[i].ranges]
<1>12. k \in Nat /\ DOMAIN positions = 1 .. k
  BY <1>11 DEF IsSeq
<1>13. \A i \in 1 .. k : Good(positions[i].ranges)
  BY <1>11, <1>12 DEF ToSet
<1>14. rs = [i \in 1 .. k |-> rs[i]] /\ \A i \in 1 .. k : rs[i] = positions[i].ranges
  OBVIOUS
<1>15. AllRanges(positions) = FlattenSeq(rs)
  BY <1>12, Zenon DEF AllRanges
<1> HIDE DEF k, rs
<1>16. IsSeq(rs) /\ Len(rs) = k
  BY <1>12, <1>14, FirstNumbers
<1>17. \A i \in 1 .. k : Good(rs[i])
  BY <1>13, <1>14
<1>18. IsSeq(FlattenSeq(rs)) /\ ToSet(FlattenSeq(rs)) = UNION {ToSet(rs[i]) : i \in 1 .. Len(rs)}
  BY <1>16, <1>17, FlattenIsSeq DEF Good
<1>19. Good(FlattenSeq(rs))
  BY <1>16, <1>17, <1>18 DEF Good
<1> QED
  BY <1>15, <1>19 DEF positions, Good

------------------------------------------------------------
(* A search.                                                               *)

\* The runes of a term in their normal forms.
LEMMA NormalizeType ==
    ASSUME NEW s \in Seq(STRING)
    PROVE  Normalize(s) \in Seq(STRING)
<1> DEFINE n == Len(s)
           ss == [i \in 1 .. n |-> Normal(s[i])]
<1>1. n \in Nat /\ DOMAIN s = 1 .. n
  OBVIOUS
<1>2. ASSUME NEW i \in 1 .. n PROVE Normal(s[i]) \in Seq(STRING)
  <2>1. s[i] \in STRING
    BY <1>1
  <2>2. CASE s[i] \in DOMAIN NormalForm
    BY <2>2, NormalFormAssumption DEF Normal
  <2>3. CASE s[i] \notin DOMAIN NormalForm
    BY <2>1, <2>3, Single DEF Normal
  <2> QED
    BY <2>2, <2>3
<1>3. ss \in [1 .. n -> Seq(STRING)]
  BY <1>2
<1>4. Normalize(s) = FlattenSeq(ss)
  BY <1>1, Zenon DEF Normalize
<1> HIDE DEF ss
<1>5. ss \in Seq(Seq(STRING))
  BY <1>1, <1>3
<1> QED
  BY <1>4, <1>5, FlattenType

\* The text of a finder is a sequence.
LEMMA BuildSourceSeq ==
    ASSUME NEW ls \in Seq(Line)
    PROVE  IsSeq(BuildSource(ls))
<1> DEFINE n == Len(ls)
           Cells(l, i) == [c \in DOMAIN Runes(l) |-> [rune |-> Runes(l)[c], pos |-> Pos(i - 1, c - 1)]]
           ss == [i \in 1 .. n |-> Cells(ls[i], i)]
           runes == AllRunes(ls)
<1>1. n \in Nat /\ DOMAIN ls = 1 .. n
  OBVIOUS
<1>2. runes = FlattenSeq(ss)
  BY <1>1, Zenon DEF AllRunes
<1>3. ASSUME NEW i \in 1 .. n
      PROVE  IsSeq(Cells(ls[i], i)) /\ \A e \in ToSet(Cells(ls[i], i)) : e.rune \in STRING
  <2> DEFINE r == Runes(ls[i])
             m == Len(r)
             x == [c \in 1 .. m |-> [rune |-> r[c], pos |-> Pos(i - 1, c - 1)]]
  <2>1. ls[i] \in Line
    OBVIOUS
  <2>2. r \in Seq(STRING)
    BY <2>1, LineHolds
  <2>3. m \in Nat /\ DOMAIN r = 1 .. m /\ \A c \in 1 .. m : r[c] \in STRING
    BY <2>2
  <2>4. Cells(ls[i], i) = x
    BY <2>3
  <2>5. x = [c \in 1 .. m |-> x[c]] /\ \A c \in 1 .. m : x[c].rune = r[c]
    OBVIOUS
  <2> HIDE DEF x, m, r
  <2>6. IsSeq(x) /\ DOMAIN x = 1 .. m
    BY <2>3, <2>5, FirstNumbers
  <2>7. \A e \in ToSet(x) : e.rune \in STRING
    BY <2>3, <2>5, <2>6 DEF ToSet
  <2> QED
    BY <2>4, <2>6, <2>7
<1>4. ss = [i \in 1 .. n |-> ss[i]] /\ \A i \in 1 .. n : ss[i] = Cells(ls[i], i)
  OBVIOUS
<1> HIDE DEF ss, n, Cells, runes
<1>5. IsSeq(ss) /\ Len(ss) = n
  BY <1>1, <1>4, FirstNumbers
<1>6. \A i \in 1 .. Len(ss) : IsSeq(ss[i]) /\ \A e \in ToSet(ss[i]) : e.rune \in STRING
  BY <1>3, <1>4, <1>5
<1>7. IsSeq(runes) /\ ToSet(runes) = UNION {ToSet(ss[i]) : i \in 1 .. Len(ss)}
  BY <1>2, <1>5, <1>6, FlattenIsSeq
<1>8. \A e \in ToSet(runes) : e.rune \in STRING
  BY <1>6, <1>7
<1> DEFINE Places(e) == [m \in DOMAIN Normal(e.rune) |-> [rune |-> Normal(e.rune)[m], pos |-> e.pos]]
           k == Len(runes)
           ps == [i \in 1 .. k |-> Places(runes[i])]
<1>9. k \in Nat /\ DOMAIN runes = 1 .. k
  BY <1>7 DEF IsSeq
<1>10. BuildSource(ls) = FlattenSeq(ps)
  BY <1>9, Zenon DEF BuildSource, runes
<1>11. ASSUME NEW i \in 1 .. k PROVE IsSeq(Places(runes[i]))
  <2> DEFINE e == runes[i]
             f == Normal(e.rune)
             m == Len(f)
             x == [c \in 1 .. m |-> [rune |-> f[c], pos |-> e.pos]]
  <2>1. e.rune \in STRING
    BY <1>8, <1>9 DEF ToSet
  <2>2. f \in Seq(STRING)
    <3>1. CASE e.rune \in DOMAIN NormalForm
      BY <3>1, NormalFormAssumption DEF Normal
    <3>2. CASE e.rune \notin DOMAIN NormalForm
      BY <2>1, <3>2, Single DEF Normal
    <3> QED
      BY <3>1, <3>2
  <2>3. m \in Nat /\ DOMAIN f = 1 .. m
    BY <2>2
  <2>4. Places(runes[i]) = x
    BY <2>3
  <2>5. x = [c \in 1 .. m |-> x[c]]
    OBVIOUS
  <2> HIDE DEF x, m
  <2>6. IsSeq(x)
    BY <2>3, <2>5, FirstNumbers
  <2> QED
    BY <2>4, <2>6
<1>12. ps = [i \in 1 .. k |-> ps[i]] /\ \A i \in 1 .. k : ps[i] = Places(runes[i])
  OBVIOUS
<1> HIDE DEF ps, k, Places
<1>13. IsSeq(ps) /\ Len(ps) = k
  BY <1>9, <1>12, FirstNumbers
<1>14. IsSeq(FlattenSeq(ps))
  BY <1>11, <1>12, <1>13, FlattenIsSeq
<1> QED
  BY <1>10, <1>14

\* All matches of a term, from left to right: what Find returns to one who
\* searches alone.
Matches(text, term) ==
    LET from[offset \in 0 .. Len(text) + 1] ==
          LET next == NextMatch(text, term, offset)
          IN  IF next.found = {} THEN {} ELSE next.found \cup from[next.offset]
    IN  from[0]

\* What a search finds from an offset on is the next match and what it finds
\* behind that.
Turns(f, text, term) ==
    \A o \in 0 .. Len(text) + 1 :
        f[o] = IF NextMatch(text, term, o).found = {} THEN {}
               ELSE NextMatch(text, term, o).found \cup f[NextMatch(text, term, o).offset]

\* A turn moves on behind the match, unless there is nothing to search for.
LEMMA NextMatchMoves ==
    ASSUME NEW text, Len(text) \in Nat, NEW term, IsSeq(term), NEW o \in 0 .. Len(text) + 1
    PROVE  /\ NextMatch(text, term, o).found # {} =>
                 /\ NextMatch(text, term, o).offset \in 0 .. Len(text)
                 /\ NextMatch(text, term, o).offset >= o + Len(term)
                 /\ \E r : NextMatch(text, term, o).found = {r}
           /\ NextMatch(text, term, o).found = {} /\ o <= Len(text) => Len(term) > 0
           /\ o = Len(text) + 1 => NextMatch(text, term, o).found = {}
<1> DEFINE n == Len(text)
           at == {i \in o + 1 .. n + 1 : MatchesAt(text, term, i)}
           i == FirstMatch(text, term, o)
           next == NextMatch(text, term, o)
<1>1. n \in Nat /\ o \in Nat /\ Len(term) \in Nat /\ DOMAIN term = 1 .. Len(term)
  BY DEF IsSeq
<1>2. i = IF at = {} THEN 0 ELSE Min(at)
  BY Zenon DEF FirstMatch
<1>3. at # {} => Min(at) \in at
  <2> SUFFICES ASSUME at # {} PROVE Min(at) \in at
    OBVIOUS
  <2>1. at \subseteq 0 .. n + 1 /\ n + 1 \in Nat
    BY <1>1
  <2> HIDE DEF at
  <2>2. \E x \in at : \A y \in at : x <= y
    BY <2>1, Least
  <2> QED
    BY <2>2, Zenon DEF Min
<1>4. next = IF i = 0 THEN [found |-> {}, offset |-> n + 1]
             ELSE [found |-> {MatchRange(text, term, i)}, offset |-> i - 1 + Len(term)]
  BY Zenon DEF NextMatch
<1>5. at # {} => i \in o + 1 .. n + 1 /\ i # 0 /\ i + Len(term) - 1 <= n
  <2> SUFFICES ASSUME at # {} PROVE i \in o + 1 .. n + 1 /\ i # 0 /\ i + Len(term) - 1 <= n
    OBVIOUS
  <2>1. i \in at
    BY <1>2, <1>3
  <2>2. i \in o + 1 .. n + 1 /\ MatchesAt(text, term, i)
    BY <2>1
  <2> HIDE DEF i, at
  <2>3. i # 0
    BY <1>1, <2>2
  <2> QED
    BY <2>2, <2>3, Zenon DEF MatchesAt, n
<1>6. CASE at = {}
  <2>1. next.found = {}
    BY <1>2, <1>4, <1>6
  <2>2. ASSUME o <= n, Len(term) = 0 PROVE FALSE
    <3>1. o + 1 \in o + 1 .. n + 1 /\ o + 1 + Len(term) - 1 <= n
      BY <1>1, <2>2
    <3>2. DOMAIN term = {}
      BY <1>1, <2>2
    <3>3. MatchesAt(text, term, o + 1)
      BY <3>1, <3>2 DEF MatchesAt
    <3> QED
      BY <1>6, <3>1, <3>3
  <2>3. Len(term) > 0 \/ ~(o <= n)
    BY <1>1, <2>2
  <2> HIDE DEF next
  <2> QED
    BY <2>1, <2>3 DEF next
<1>7. CASE at # {}
  <2>1. next.found = {MatchRange(text, term, i)} /\ next.offset = i - 1 + Len(term)
    BY <1>4, <1>5, <1>7
  <2>2. o # n + 1
    BY <1>1, <1>5, <1>7
  <2> HIDE DEF next, i
  <2>3. next.offset \in 0 .. n /\ next.offset >= o + Len(term)
    BY <1>1, <1>5, <1>7, <2>1
  <2> QED
    BY <2>1, <2>2, <2>3 DEF next
<1> QED
  BY <1>6, <1>7

\* Matches goes from match to match.
LEMMA MatchesTurn ==
    ASSUME NEW text, Len(text) \in Nat, NEW term, IsSeq(term), Len(term) > 0
    PROVE  \E f : Turns(f, text, term) /\ Matches(text, term) = f[0]
<1> DEFINE n == Len(text) + 1
           found(o) == NextMatch(text, term, o).found
           to(o) == NextMatch(text, term, o).offset
           Turn(f, o) == f[o] = IF found(o) = {} THEN {} ELSE found(o) \cup f[to(o)]
           Y == {k \in 0 .. n : \E f : \A o \in n - k .. n : Turn(f, o)}
<1>1. n \in Nat /\ Len(term) \in Nat /\ n - 1 = Len(text)
  BY DEF IsSeq
<1>2. ASSUME NEW o \in 0 .. n PROVE found(o) # {} => to(o) \in o + 1 .. n
  <2>1. o \in 0 .. Len(text) + 1
    OBVIOUS
  <2>2. found(o) # {} => to(o) \in 0 .. Len(text) /\ to(o) >= o + Len(term)
    BY <2>1, NextMatchMoves
  <2> HIDE DEF found, to
  <2> QED
    BY <1>1, <2>2
<1>3. found(n) = {}
  BY <1>1, NextMatchMoves
<1> HIDE DEF found, to
<1>4. 0 \in Y
  <2>1. \A o \in n - 0 .. n : Turn([x \in {n} |-> {}], o)
    BY <1>1, <1>3
  <2> HIDE DEF Turn
  <2>2. \E f : \A o \in n - 0 .. n : Turn(f, o)
    BY <2>1
  <2> QED
    BY <1>1, <2>2
<1>5. ASSUME NEW i \in 0 .. n - 1, i \in Y PROVE i + 1 \in Y
  <2> DEFINE m == n - (i + 1)
  <2>1. m \in 0 .. n /\ n - i = m + 1 /\ i + 1 \in 0 .. n
    BY <1>1
  <2>2. \E f : \A o \in n - i .. n : Turn(f, o)
    BY <1>5
  <2> HIDE DEF m, Turn
  <2>3. PICK f : \A o \in m + 1 .. n : Turn(f, o)
    BY <2>1, <2>2
  <2> DEFINE h == [o \in m .. n |-> IF o = m THEN IF found(m) = {} THEN {} ELSE found(m) \cup f[to(m)] ELSE f[o]]
  <2>4. h[m] = (IF found(m) = {} THEN {} ELSE found(m) \cup f[to(m)]) /\ \A o \in m + 1 .. n : h[o] = f[o]
    BY <1>1, <2>1
  <2> HIDE DEF h
  <2>5. ASSUME NEW o \in m .. n PROVE Turn(h, o)
    <3>1. o \in 0 .. n /\ (found(o) # {} => to(o) \in m + 1 .. n)
      BY <1>1, <1>2, <2>1
    <3>2. found(o) # {} => h[to(o)] = f[to(o)]
      BY <2>4, <3>1
    <3>3. CASE o = m
      BY <2>4, <3>2, <3>3 DEF Turn
    <3>4. CASE o # m
      <4>1. o \in m + 1 .. n
        BY <1>1, <2>1, <3>4
      <4>2. h[o] = f[o] /\ Turn(f, o)
        BY <2>3, <2>4, <4>1
      <4> QED
        BY <3>2, <4>2 DEF Turn
    <3> QED
      BY <3>3, <3>4
  <2>6. \E f2 : \A o \in m .. n : Turn(f2, o)
    BY <2>5
  <2> QED
    BY <2>1, <2>6 DEF m
<1> HIDE DEF Y
<1>6. n \in Y
  <2>1. 0 .. n \subseteq Y
    BY <1>1, <1>4, <1>5, Upward
  <2> QED
    BY <1>1, <2>1
<1>7. PICK f : \A o \in 0 .. n : Turn(f, o)
  <2>1. n - n = 0
    BY <1>1
  <2> QED
    BY <1>6, <2>1 DEF Y
<1> DEFINE Is(g) == g = [o \in 0 .. n |-> IF found(o) = {} THEN {} ELSE found(o) \cup g[to(o)]]
           e == [o \in 0 .. n |-> f[o]]
           r == CHOOSE g : Is(g)
<1>8. Is(e)
  <2>1. \A o \in 0 .. n : found(o) # {} => to(o) \in 0 .. n
    BY <1>1, <1>2
  <2>2. \A o \in 0 .. n : e[o] = IF found(o) = {} THEN {} ELSE found(o) \cup e[to(o)]
    BY <1>7, <2>1
  <2>3. e = [o \in 0 .. n |-> e[o]]
    OBVIOUS
  <2> HIDE DEF e
  <2> QED
    BY <2>2, <2>3
<1> HIDE DEF Is, e
<1>9. Is(r)
  BY <1>8
<1>10. Matches(text, term) = r[0]
  BY Zenon DEF Matches, Is, r, n, found, to
<1> HIDE DEF r
<1>11. \A o \in 0 .. n : r[o] = IF found(o) = {} THEN {} ELSE found(o) \cup r[to(o)]
  BY <1>9 DEF Is
<1>12. Turns(r, text, term)
  BY <1>11, Zenon DEF Turns, n, found, to
<1> QED
  BY <1>10, <1>12

------------------------------------------------------------
(* The marks that ought to be on a line.                                   *)

\* The ranges an operation marks when nobody else is at work: all matches of
\* a term, or the content of the tokens of an error.
RangesOf(ts, op) ==
    LET built == NewLines(ts)
        text == BuildSource(built)
    IN  IF op.op # "highlight" THEN ToSet(AllRanges(CollectPositions(built, ts, op.main, op.nested)))
        ELSE IF op.term = <<>> \/ text = <<>> THEN {} ELSE Matches(text, Normalize(op.term))

\* The overlays of an operation on line i, and those of several.
OverlaysOf(ts, op, i) == UNION {ToSet(OverlayOn(KindOf(op), r, i)) : r \in RangesOf(ts, op)}
MarksOn(ts, ops, i) == UNION {OverlaysOf(ts, op, i) : op \in ops}

\* Lines that were built of a stream, with the marks of some operations.
LinesMarked(ls, ts, ops) ==
    /\ Same(ls, NewLines(ts)) /\ Len(ls) = Len(NewLines(ts)) /\ DOMAIN ls = 1 .. Len(ls)
    /\ \A i \in DOMAIN ls :
          /\ {"overlays", "annotations"} \subseteq DOMAIN ls[i] /\ IsSeq(ls[i].overlays)
          /\ ToSet(ls[i].overlays) = MarksOn(ts, ops, i)

\* Lines are built without a mark.
LEMMA NewMarks ==
    ASSUME NEW ts \in Seq(Tokens), NEW flag
    PROVE  LinesMarked(NewLines(ts), ts, {}) /\ LinesMarked(Flagged(NewLines(ts), flag), ts, {})
<1> DEFINE built == NewLines(ts)
           n == Len(built)
           flagged == Flagged(built, flag)
<1>1. built \in Seq(Line)
  BY NewLinesHold
<1> HIDE DEF built
<1>2. n \in Nat /\ DOMAIN built = 1 .. n /\ \A i \in 1 .. n : built[i] \in Line
  BY <1>1
<1>3. ASSUME NEW i \in 1 .. n
      PROVE  /\ {"segments", "flag", "overlays", "annotations"} \subseteq DOMAIN built[i]
             /\ built[i].overlays = <<>>
  <2>1. built[i] \in Line
    BY <1>2
  <2> QED
    BY <2>1 DEF Line
<1>4. flagged = [i \in 1 .. n |-> [built[i] EXCEPT !.flag = flag]]
  BY <1>2 DEF Flagged
<1>5. flagged = [i \in 1 .. n |-> flagged[i]] /\ \A i \in 1 .. n : flagged[i] = [built[i] EXCEPT !.flag = flag]
  BY <1>4
<1> HIDE DEF flagged, n
<1>6. Len(flagged) = n /\ DOMAIN flagged = 1 .. n
  BY <1>2, <1>5, FirstNumbers
<1>7. \A i \in 1 .. n : /\ {"segments", "overlays", "annotations"} \subseteq DOMAIN flagged[i]
                        /\ flagged[i].overlays = <<>> /\ flagged[i].segments = built[i].segments
  BY <1>3, <1>5
<1>8. IsSeq(<<>>) /\ \A i : ToSet(<<>>) = MarksOn(ts, {}, i)
  BY FewSeq DEF ToSet, MarksOn
<1>9. LinesMarked(built, ts, {})
  BY <1>2, <1>3, <1>8 DEF LinesMarked, Same, n, built
<1>10. LinesMarked(flagged, ts, {})
  BY <1>2, <1>6, <1>7, <1>8 DEF LinesMarked, Same, n, built
<1> QED
  BY <1>9, <1>10 DEF flagged, built

\* An operation adds its marks to those that are there.
LEMMA AddMarks ==
    ASSUME NEW ls, NEW ts, NEW ops, LinesMarked(ls, ts, ops), Len(ls) \in Nat,
           NEW op, NEW ranges, IsSeq(ranges), ToSet(ranges) = RangesOf(ts, op)
    PROVE  LinesMarked(AddOverlay(ls, KindOf(op), ranges), ts, ops \cup {op})
<1> DEFINE n == Len(ls)
           kind == KindOf(op)
           k == Len(ranges)
           x(i) == FlattenSeq([m \in 1 .. k |-> OverlayOn(kind, ranges[m], i)])
           t == AddOverlay(ls, kind, ranges)
<1>1. n \in Nat /\ DOMAIN ls = 1 .. n
  BY DEF LinesMarked
<1>2. k \in Nat /\ DOMAIN ranges = 1 .. k
  BY DEF IsSeq
<1>3. ASSUME NEW i PROVE IsSeq(x(i)) /\ ToSet(x(i)) = OverlaysOf(ts, op, i)
  <2> DEFINE ss == [m \in 1 .. k |-> OverlayOn(kind, ranges[m], i)]
  <2>1. \A r : IsSeq(OverlayOn(kind, r, i))
    BY FewSeq, Zenon DEF OverlayOn
  <2>2. ss = [m \in 1 .. k |-> ss[m]] /\ \A m \in 1 .. k : ss[m] = OverlayOn(kind, ranges[m], i)
    OBVIOUS
  <2> HIDE DEF ss
  <2>3. IsSeq(ss) /\ Len(ss) = k
    BY <1>2, <2>2, FirstNumbers
  <2>a. \A m \in 1 .. Len(ss) : IsSeq(ss[m])
    BY <2>1, <2>2, <2>3
  <2>4. IsSeq(FlattenSeq(ss)) /\ ToSet(FlattenSeq(ss)) = UNION {ToSet(ss[m]) : m \in 1 .. Len(ss)}
    BY <2>3, <2>a, FlattenIsSeq
  <2>5. ToSet(ranges) = {ranges[m] : m \in 1 .. k}
    BY <1>2 DEF ToSet
  <2>6. OverlaysOf(ts, op, i) = UNION {ToSet(OverlayOn(kind, r, i)) : r \in {ranges[m] : m \in 1 .. k}}
    BY <2>5, Zenon DEF OverlaysOf
  <2>7. UNION {ToSet(ss[m]) : m \in 1 .. k} = UNION {ToSet(OverlayOn(kind, r, i)) : r \in {ranges[m] : m \in 1 .. k}}
    BY <2>2
  <2> QED
    BY <2>3, <2>4, <2>6, <2>7 DEF ss
<1>4. t = [i \in 1 .. n |-> [ls[i] EXCEPT !.overlays = @ \o x(i)]]
  BY <1>1, <1>2, Zenon DEF AddOverlay
<1> HIDE DEF x
<1>5. t = [i \in 1 .. n |-> t[i]] /\ \A i \in 1 .. n : t[i] = [ls[i] EXCEPT !.overlays = ls[i].overlays \o x(i)]
  BY <1>4
<1> HIDE DEF t, n
<1>6. Len(t) = n /\ DOMAIN t = 1 .. n
  BY <1>1, <1>5, FirstNumbers
<1>7. ASSUME NEW i \in 1 .. n
      PROVE  /\ {"segments", "overlays", "annotations"} \subseteq DOMAIN t[i] /\ t[i].segments = ls[i].segments
             /\ t[i].overlays = ls[i].overlays \o x(i)
             /\ IsSeq(ls[i].overlays) /\ ToSet(ls[i].overlays) = MarksOn(ts, ops, i)
  <2>1. /\ {"segments", "overlays", "annotations"} \subseteq DOMAIN ls[i]
        /\ IsSeq(ls[i].overlays) /\ ToSet(ls[i].overlays) = MarksOn(ts, ops, i)
    BY <1>1 DEF LinesMarked, Same
  <2> QED
    BY <1>5, <2>1
<1>8. ASSUME NEW i \in 1 .. n
      PROVE  IsSeq(t[i].overlays) /\ ToSet(t[i].overlays) = MarksOn(ts, ops \cup {op}, i)
  <2> DEFINE a == ls[i].overlays
             b == x(i)
  <2>a. IsSeq(a) /\ IsSeq(b) /\ t[i].overlays = a \o b
        /\ ToSet(a) = MarksOn(ts, ops, i) /\ ToSet(b) = OverlaysOf(ts, op, i)
    BY <1>3, <1>7
  <2> HIDE DEF a, b
  <2>b. IsSeq(a \o b) /\ ToSet(a \o b) = ToSet(a) \cup ToSet(b)
    BY <2>a, ConcatIsSeq
  <2>1. IsSeq(t[i].overlays) /\ ToSet(t[i].overlays) = MarksOn(ts, ops, i) \cup OverlaysOf(ts, op, i)
    BY <2>a, <2>b
  <2>2. MarksOn(ts, ops \cup {op}, i) = MarksOn(ts, ops, i) \cup OverlaysOf(ts, op, i)
    BY DEF MarksOn
  <2> QED
    BY <2>1, <2>2
<1>9. Same(ls, NewLines(ts)) /\ Len(ls) = Len(NewLines(ts))
  BY DEF LinesMarked
<1>10. Same(t, NewLines(ts))
  BY <1>1, <1>6, <1>7, <1>9 DEF Same
<1> QED
  BY <1>1, <1>6, <1>7, <1>8, <1>9, <1>10 DEF LinesMarked, t, n

\* Clearing leaves no mark.
LEMMA ClearMarks ==
    ASSUME NEW ls, NEW ts, NEW ops, LinesMarked(ls, ts, ops), Len(ls) \in Nat
    PROVE  LinesMarked(ClearOverlays(ls), ts, {})
<1> DEFINE n == Len(ls)
           t == ClearOverlays(ls)
<1>1. n \in Nat /\ DOMAIN ls = 1 .. n
  BY DEF LinesMarked
<1>2. t = [i \in 1 .. n |-> [ls[i] EXCEPT !.overlays = <<>>]]
  BY <1>1 DEF ClearOverlays
<1>3. t = [i \in 1 .. n |-> t[i]] /\ \A i \in 1 .. n : t[i] = [ls[i] EXCEPT !.overlays = <<>>]
  BY <1>2
<1> HIDE DEF t, n
<1>4. Len(t) = n /\ DOMAIN t = 1 .. n
  BY <1>1, <1>3, FirstNumbers
<1>5. ASSUME NEW i \in 1 .. n
      PROVE  /\ {"segments", "overlays", "annotations"} \subseteq DOMAIN t[i] /\ t[i].segments = ls[i].segments
             /\ t[i].overlays = <<>>
  <2>1. {"segments", "overlays", "annotations"} \subseteq DOMAIN ls[i]
    BY <1>1 DEF LinesMarked, Same
  <2> QED
    BY <1>3, <2>1
<1>6. IsSeq(<<>>) /\ \A i : ToSet(<<>>) = MarksOn(ts, {}, i)
  BY FewSeq DEF ToSet, MarksOn
<1>7. Same(ls, NewLines(ts)) /\ Len(ls) = Len(NewLines(ts))
  BY DEF LinesMarked
<1>8. Same(t, NewLines(ts))
  BY <1>1, <1>4, <1>5, <1>7 DEF Same
<1> QED
  BY <1>1, <1>4, <1>5, <1>6, <1>7, <1>8 DEF LinesMarked, t, n

\* Annotations are put beside the marks.
LEMMA NoteMarks ==
    ASSUME NEW ls, NEW ts, NEW ops, LinesMarked(ls, ts, ops), Len(ls) \in Nat,
           NEW positions, NEW context
    PROVE  LinesMarked(Annotated(ls, positions, context), ts, ops)
<1> DEFINE n == Len(ls)
           Fits(x) == /\ DOMAIN x = 1 .. n /\ x = [i \in 1 .. n |-> x[i]]
                      /\ \A i \in 1 .. n :
                            /\ {"segments", "overlays", "annotations"} \subseteq DOMAIN x[i]
                            /\ x[i].segments = ls[i].segments /\ x[i].overlays = ls[i].overlays
           t == Annotated(ls, positions, context)
           noted == AnnotateLines(ls, positions)
           note(i) == PrepareLineAnnotation(positions, i)
           spans == BuildHunkSpans(positions, context, Len(ls))
           gap == [content |-> <<Ellipsis>>, position |-> "above", col |-> 0]
           behind(i) == \E m \in DOMAIN spans \ {1} : spans[m].start + 1 = i
<1>1. n \in Nat /\ DOMAIN ls = 1 .. n
      /\ \A i \in 1 .. n : {"segments", "overlays", "annotations"} \subseteq DOMAIN ls[i]
  BY DEF LinesMarked, Same
<1>2. noted = [i \in DOMAIN ls |-> IF note(i).content = <<>> THEN ls[i]
                                   ELSE [ls[i] EXCEPT !.annotations = Append(@, note(i))]]
  BY Zenon DEF AnnotateLines
<1>3. t = [i \in DOMAIN noted |-> IF behind(i) THEN [noted[i] EXCEPT !.annotations = Append(@, gap)]
                                  ELSE noted[i]]
  BY Zenon DEF Annotated, MarkGaps
<1> HIDE DEF noted, note, spans, gap, t, behind, n
<1>4. Fits(noted)
  BY <1>1, <1>2
<1>5. Fits(t)
  BY <1>3, <1>4
<1>6. Len(t) = n
  BY <1>1, <1>5, FirstNumbers
<1>7. /\ Same(ls, NewLines(ts)) /\ Len(ls) = Len(NewLines(ts))
      /\ \A i \in DOMAIN ls : IsSeq(ls[i].overlays) /\ ToSet(ls[i].overlays) = MarksOn(ts, ops, i)
  BY DEF LinesMarked
<1>8. Same(t, NewLines(ts))
  BY <1>1, <1>5, <1>7 DEF Same
<1> QED
  BY <1>1, <1>5, <1>6, <1>7, <1>8 DEF LinesMarked, t, n

------------------------------------------------------------
(* A search, turn by turn.                                                 *)

\* The text that a search for an operation goes through.
TextOf(ts) == BuildSource(NewLines(ts))

\* A search has found what lies before its offset.
Searching(ts, s) ==
    LET text == TextOf(ts)
        term == Normalize(s.op.term)
    IN  /\ s.op.op = "highlight" /\ s.op.term \in Seq(STRING) /\ s.op.term # <<>> /\ text # <<>>
        /\ IsSeq(s.found) /\ s.offset \in 0 .. Len(text)
        /\ Len(term) > 0 =>
              \E f : /\ Turns(f, text, term) /\ Matches(text, term) = f[0]
                     /\ ToSet(s.found) \cup f[s.offset] = f[0]

\* A sequence with one more value.
LEMMA AppendMembers ==
    ASSUME NEW s, IsSeq(s), NEW x
    PROVE  IsSeq(Append(s, x)) /\ ToSet(Append(s, x)) = ToSet(s) \cup {x}
<1> DEFINE S == ToSet(s)
           T == S \cup {x}
           n == Len(s)
           a == Append(s, x)
<1>1. s \in Seq(S)
  BY DEF IsSeq
<1>2. n \in Nat /\ DOMAIN s = 1 .. n /\ S = {s[i] : i \in 1 .. n}
  BY <1>1 DEF ToSet
<1> HIDE DEF S
<1>3. s \in Seq(T)
  BY <1>1
<1> HIDE DEF T
<1>4. x \in T
  BY DEF T
<1>5. a \in Seq(T) /\ Len(a) = n + 1 /\ DOMAIN a = 1 .. n + 1
      /\ a[n + 1] = x /\ \A i \in 1 .. n : a[i] = s[i]
  BY <1>1, <1>3, <1>4, <1>2
<1>6. IsSeq(a) /\ ToSet(a) = {a[i] : i \in 1 .. n + 1}
  BY <1>5, SomeSeq DEF ToSet
<1>7. 1 .. n + 1 = (1 .. n) \cup {n + 1}
  BY <1>2
<1> HIDE DEF a, n
<1>8. {a[i] : i \in (1 .. n) \cup {n + 1}} = {s[i] : i \in 1 .. n} \cup {x}
  BY <1>5
<1>9. ToSet(a) = S \cup {x}
  BY <1>2, <1>6, <1>7, <1>8
<1> QED
  BY <1>6, <1>9 DEF a, S

\* The text and the term that a search compares are sequences.
LEMMA SearchTyped ==
    ASSUME NEW ts \in Seq(Tokens), NEW term \in Seq(STRING)
    PROVE  IsSeq(TextOf(ts)) /\ Len(TextOf(ts)) \in Nat /\ IsSeq(Normalize(term)) /\ Len(Normalize(term)) \in Nat
<1>1. NewLines(ts) \in Seq(Line)
  BY NewLinesHold
<1>2. IsSeq(TextOf(ts))
  BY <1>1, BuildSourceSeq DEF TextOf
<1>3. Normalize(term) \in Seq(STRING)
  BY NormalizeType
<1>4. IsSeq(Normalize(term)) /\ Len(Normalize(term)) \in Nat
  BY <1>3, SomeSeq
<1>5. Len(TextOf(ts)) \in Nat
  BY <1>2, SomeSeq DEF IsSeq
<1> QED
  BY <1>2, <1>4, <1>5

\* A search begins at the start of the text with nothing found.
LEMMA SearchBegins ==
    ASSUME NEW ts \in Seq(Tokens), NEW s, s.op.op = "highlight", s.op.term \in Seq(STRING),
           s.op.term # <<>>, TextOf(ts) # <<>>, s.found = <<>>, s.offset = 0
    PROVE  Searching(ts, s)
<1> DEFINE text == TextOf(ts)
           term == Normalize(s.op.term)
<1>1. Len(text) \in Nat /\ IsSeq(term)
  BY SearchTyped
<1>2. IsSeq(s.found) /\ ToSet(s.found) = {}
  BY FewSeq DEF ToSet
<1> HIDE DEF text, term
<1>3. ASSUME Len(term) > 0
      PROVE  \E f : /\ Turns(f, text, term) /\ Matches(text, term) = f[0]
                    /\ ToSet(s.found) \cup f[s.offset] = f[0]
  <2>1. PICK f : Turns(f, text, term) /\ Matches(text, term) = f[0]
    BY <1>1, <1>3, MatchesTurn
  <2>2. ToSet(s.found) \cup f[s.offset] = f[0]
    BY <1>2
  <2> QED
    BY <2>1, <2>2
<1>4. s.offset \in 0 .. Len(text)
  BY <1>1
<1> QED
  BY <1>2, <1>3, <1>4 DEF Searching, text, term

\* What a turn finds is added, unless it was found before.
LEMMA SearchGoesOn ==
    ASSUME NEW ts \in Seq(Tokens), NEW s, Searching(ts, s), NEW z, z.op = s.op,
           NEW r, r \in NextMatch(TextOf(ts), Normalize(s.op.term), s.offset).found,
           z.offset = NextMatch(TextOf(ts), Normalize(s.op.term), s.offset).offset,
           z.found = IF Contains(s.found, r) THEN s.found ELSE Append(s.found, r)
    PROVE  Searching(ts, z)
<1> DEFINE text == TextOf(ts)
           term == Normalize(s.op.term)
           o == s.offset
           next == NextMatch(text, term, o)
<1>1. /\ s.op.op = "highlight" /\ s.op.term \in Seq(STRING) /\ s.op.term # <<>> /\ text # <<>>
      /\ IsSeq(s.found) /\ o \in 0 .. Len(text)
  BY Zenon DEF Searching
<1>2. Len(text) \in Nat /\ IsSeq(term) /\ Len(term) \in Nat
  BY <1>1, SearchTyped
<1>3. Len(term) > 0 => \E f : /\ Turns(f, text, term) /\ Matches(text, term) = f[0]
                              /\ ToSet(s.found) \cup f[o] = f[0]
  BY Zenon DEF Searching
<1>4. r \in next.found /\ z.offset = next.offset
  BY DEF next
<1> HIDE DEF text, term, o
<1>5. o \in 0 .. Len(text) + 1
  BY <1>1, <1>2
<1>6. next.offset \in 0 .. Len(text) /\ \E x : next.found = {x}
  BY <1>2, <1>4, <1>5, NextMatchMoves
<1> HIDE DEF next
<1>7. next.found = {r}
  BY <1>4, <1>6
<1>8. IsSeq(z.found) /\ ToSet(z.found) = ToSet(s.found) \cup {r}
  <2>1. CASE Contains(s.found, r)
    <3>1. s.found \in Seq(ToSet(s.found))
      BY <1>1 DEF IsSeq
    <3>2. r \in ToSet(s.found)
      BY <2>1, <3>1 DEF Contains, ToSet
    <3> QED
      BY <1>1, <2>1, <3>2
  <2>2. CASE ~Contains(s.found, r)
    BY <1>1, <2>2, AppendMembers
  <2> QED
    BY <2>1, <2>2
<1>9. ASSUME Len(term) > 0
      PROVE  \E f : /\ Turns(f, text, term) /\ Matches(text, term) = f[0]
                    /\ ToSet(z.found) \cup f[z.offset] = f[0]
  <2>1. PICK f : /\ Turns(f, text, term) /\ Matches(text, term) = f[0]
                 /\ ToSet(s.found) \cup f[o] = f[0]
    BY <1>3, <1>9
  <2>2. f[o] = {r} \cup f[next.offset]
    <3>1. f[o] = IF next.found = {} THEN {} ELSE next.found \cup f[next.offset]
      BY <1>5, <2>1, Zenon DEF Turns, next
    <3> QED
      BY <1>7, <3>1
  <2>3. ToSet(z.found) \cup f[z.offset] = f[0]
    BY <1>4, <1>8, <2>1, <2>2
  <2> QED
    BY <2>1, <2>3
<1>10. z.offset \in 0 .. Len(text)
  BY <1>4, <1>6
<1> QED
  BY <1>1, <1>8, <1>9, <1>10 DEF Searching, text, term

\* A search that ends has found all matches.
LEMMA SearchEnds ==
    ASSUME NEW ts \in Seq(Tokens), NEW s, Searching(ts, s),
           NextMatch(TextOf(ts), Normalize(s.op.term), s.offset).found = {}
    PROVE  IsSeq(s.found) /\ ToSet(s.found) = RangesOf(ts, s.op)
<1> DEFINE text == TextOf(ts)
           term == Normalize(s.op.term)
           o == s.offset
           next == NextMatch(text, term, o)
<1>1. /\ s.op.op = "highlight" /\ s.op.term \in Seq(STRING) /\ s.op.term # <<>> /\ text # <<>>
      /\ IsSeq(s.found) /\ o \in 0 .. Len(text)
  BY Zenon DEF Searching
<1>2. Len(text) \in Nat /\ IsSeq(term) /\ Len(term) \in Nat
  BY <1>1, SearchTyped
<1>3. Len(term) > 0 => \E f : /\ Turns(f, text, term) /\ Matches(text, term) = f[0]
                              /\ ToSet(s.found) \cup f[o] = f[0]
  BY Zenon DEF Searching
<1>4. next.found = {}
  BY DEF next
<1>5. RangesOf(ts, s.op) = Matches(text, term)
  BY <1>1, Zenon DEF RangesOf, TextOf
<1> HIDE DEF text, term, o
<1>6. o \in 0 .. Len(text) + 1 /\ o <= Len(text)
  BY <1>1, <1>2
<1>7. Len(term) > 0
  BY <1>2, <1>4, <1>6, NextMatchMoves
<1>8. PICK f : /\ Turns(f, text, term) /\ Matches(text, term) = f[0]
               /\ ToSet(s.found) \cup f[o] = f[0]
  BY <1>3, <1>7
<1>9. f[o] = {}
  <2>1. f[o] = IF next.found = {} THEN {} ELSE next.found \cup f[next.offset]
    BY <1>6, <1>8, Zenon DEF Turns, next
  <2> QED
    BY <1>4, <2>1
<1> QED
  BY <1>1, <1>5, <1>8, <1>9

------------------------------------------------------------
(* What every goroutine has in its hands.                                  *)

\* A frame shows the marks of the operations it expects, and no others.
FrameExact(ts, frame) ==
    frame.line \in DOMAIN NewLines(ts) => ToSet(frame.got.overlays) = MarksOn(ts, frame.expect, frame.line)

\* A goroutine's search and its screen are right, whether it searches, marks
\* or prints.
Sound(ts, done, s) ==
    /\ {"pc", "op", "todo", "offset", "found", "expect", "screen"} \subseteq DOMAIN s
    /\ s.pc \in {"find", "matches"} => done
    /\ s.pc \in {"load", "build", "find"} => s.found = <<>> /\ s.offset = 0
    /\ s.pc = "matches" => Searching(ts, s)
    /\ s.pc = "mark" => IsSeq(s.found) /\ ToSet(s.found) = RangesOf(ts, s.op)
    /\ s.pc # "idle" => IsSeq(s.screen)
    /\ \A frame \in ToSet(s.screen) : FrameExact(ts, frame)

\* An operation has what its kind needs.
OpTyped(op) ==
    /\ op.op = "highlight" => op.term \in Seq(STRING)
    /\ op.op = "error" => op.context \in Nat /\ op.nested \in Seq([token : Nat, line : Nat \ {0}, col : Nat])

\* The lines carry the marks of the operations painted, and whoever hands
\* them out expects these.
MarksInv ==
    /\ {"file", "ops"} \subseteq DOMAIN work /\ tks \in Seq(Tokens)
    /\ \A op \in work.ops : OpTyped(op)
    /\ LinesMarked(lines, tks, painted)
    /\ loaded => source = TextOf(tks)
    /\ \A t \in Threads : Sound(tks, loaded, th[t]) /\ (th[t].pc = "lines" => th[t].expect = painted)

\* The program and its file are the same to the end.
Unmoved == /\ {"file", "ops"} \subseteq DOMAIN work' /\ work'.ops = work.ops /\ tks' = tks

\* What a step has to show for the goroutine that takes it.
LEMMA MarksKeep ==
    ASSUME IInv, MarksInv, Unmoved, NEW t \in Threads,
           DOMAIN th' = Threads, \A u \in Threads \ {t} : th'[u] = th[u],
           LinesMarked(lines', tks, painted'), loaded' => source' = TextOf(tks), loaded => loaded',
           painted' = painted \/ overlayMu.readers = {},
           Sound(tks, loaded', th'[t]), th'[t].pc = "lines" => th'[t].expect = painted'
    PROVE  MarksInv'
<1>1. {"file", "ops"} \subseteq DOMAIN work' /\ tks' \in Seq(Tokens) /\ \A op \in work'.ops : OpTyped(op)
  BY DEF Unmoved, MarksInv
<1>2. LinesMarked(lines', tks', painted') /\ (loaded' => source' = TextOf(tks'))
  BY DEF Unmoved
<1>3. ASSUME NEW u \in Threads
      PROVE  Sound(tks', loaded', th'[u]) /\ (th'[u].pc = "lines" => th'[u].expect = painted')
  <2>1. CASE u = t
    BY <2>1 DEF Unmoved
  <2>2. CASE u # t
    <3>1. th'[u] = th[u] /\ Sound(tks, loaded, th[u]) /\ (th[u].pc = "lines" => th[u].expect = painted)
      BY <2>2 DEF MarksInv
    <3>2. Sound(tks, loaded', th[u])
      BY <3>1 DEF Sound
    <3>3. th[u].pc = "lines" => painted' = painted
      BY Locks DEF At
    <3> QED
      BY <3>1, <3>2, <3>3 DEF Unmoved
  <2> QED
    BY <2>1, <2>2
<1> QED
  BY <1>1, <1>2, <1>3 DEF MarksInv, LinesMarked, TextOf, Sound, FrameExact, MarksOn

\* A step that leaves lines and text alone.
LEMMA BesideKeep ==
    ASSUME IInv, MarksInv, Unmoved, NEW t \in Threads,
           DOMAIN th' = Threads, \A u \in Threads \ {t} : th'[u] = th[u],
           UNCHANGED <<lines, painted, source, loaded>>,
           Sound(tks, loaded, th'[t]), th'[t].pc = "lines" => th'[t].expect = painted
    PROVE  MarksInv'
<1>1. LinesMarked(lines', tks, painted') /\ (loaded' => source' = TextOf(tks))
  BY DEF MarksInv
<1>2. Sound(tks, loaded', th'[t]) /\ (th'[t].pc = "lines" => th'[t].expect = painted')
  BY Zenon
<1> QED
  BY <1>1, <1>2, MarksKeep

\* An idle goroutine, and one that begins, have nothing in their hands.
LEMMA IdleSound ==
    ASSUME NEW ts, NEW done
    PROVE  /\ Sound(ts, done, Idle)
           /\ \A op, pc : pc \in {"load", "clear"} => Sound(ts, done, [Idle EXCEPT !.op = op, !.pc = pc])
           /\ \A op, todo : Sound(ts, done, [Idle EXCEPT !.op = op, !.pc = "span", !.todo = todo])
<1>1. IsSeq(<<>>) /\ ToSet(<<>>) = {}
  BY FewSeq DEF ToSet
<1>2. /\ DOMAIN Idle = {"pc", "op", "todo", "offset", "found", "expect", "screen"}
      /\ Idle.pc = "idle" /\ Idle.offset = 0 /\ Idle.found = <<>> /\ Idle.screen = <<>>
  BY DEF Idle
<1>3. ASSUME NEW s, {"pc", "op", "todo", "offset", "found", "expect", "screen"} \subseteq DOMAIN s,
             s.pc \in {"idle", "span", "load", "clear"}, s.offset = 0, s.found = <<>>, s.screen = <<>>
      PROVE  Sound(ts, done, s)
  BY <1>1, <1>3 DEF Sound
<1> HIDE DEF Idle
<1>4. Sound(ts, done, Idle)
  BY <1>2, <1>3
<1>5. ASSUME NEW op, NEW pc \in {"load", "clear"}
      PROVE  Sound(ts, done, [Idle EXCEPT !.op = op, !.pc = pc])
  <2> DEFINE s == [Idle EXCEPT !.op = op, !.pc = pc]
  <2>1. /\ {"pc", "op", "todo", "offset", "found", "expect", "screen"} \subseteq DOMAIN s
        /\ s.pc = pc /\ s.offset = 0 /\ s.found = <<>> /\ s.screen = <<>>
    BY <1>2
  <2> HIDE DEF s
  <2>2. Sound(ts, done, s)
    BY <1>3, <2>1
  <2> QED
    BY <2>2 DEF s
<1>6. ASSUME NEW op, NEW todo
      PROVE  Sound(ts, done, [Idle EXCEPT !.op = op, !.pc = "span", !.todo = todo])
  <2> DEFINE s == [Idle EXCEPT !.op = op, !.pc = "span", !.todo = todo]
  <2>1. /\ {"pc", "op", "todo", "offset", "found", "expect", "screen"} \subseteq DOMAIN s
        /\ s.pc = "span" /\ s.offset = 0 /\ s.found = <<>> /\ s.screen = <<>>
    BY <1>2
  <2> HIDE DEF s
  <2>2. Sound(ts, done, s)
    BY <1>3, <2>1
  <2> QED
    BY <2>2 DEF s
<1> QED
  BY <1>4, <1>5, <1>6

------------------------------------------------------------
(* The steps that leave lines and text alone.                              *)

\* A step within an operation leaves the program alone.
LEMMA StepUnmoved ==
    ASSUME MarksInv, work' = work
    PROVE  Unmoved
<1> QED
  BY DEF MarksInv, Unmoved, tks

\* So does the beginning of one, but for the number of those that are left.
LEMMA BeginUnmoved ==
    ASSUME IInv, MarksInv, NEW t \in Threads, NEW op, NEW s, Begin(t, op, s)
    PROVE  /\ Unmoved /\ DOMAIN th' = Threads /\ th'[t] = s /\ th[t].pc = "idle"
           /\ \A u \in Threads \ {t} : th'[u] = th[u]
<1>1. work' = [work EXCEPT !.left = @ - 1] /\ th' = [th EXCEPT ![t] = s] /\ th[t].pc = "idle"
  BY Zenon DEF Begin
<1>2. DOMAIN th = Threads /\ {"file", "ops"} \subseteq DOMAIN work
  BY DEF IInv, Shape, MarksInv
<1>3. {"file", "ops"} \subseteq DOMAIN work' /\ work'.file = work.file /\ work'.ops = work.ops
  BY <1>1, <1>2
<1> QED
  BY <1>1, <1>2, <1>3 DEF Unmoved, tks

\* A goroutine's state while it moves on.
LEMMA Before ==
    ASSUME IInv, MarksInv, NEW t \in Threads
    PROVE  /\ DOMAIN th = Threads /\ Sound(tks, loaded, th[t])
           /\ {"pc", "op", "todo", "offset", "found", "expect", "screen"} \subseteq DOMAIN th[t]
           /\ th[t].pc = "lines" => th[t].expect = painted
<1> QED
  BY DEF IInv, Shape, MarksInv, Sound

\* A print begins.
LEMMA StartPrintMarks ==
    ASSUME IInv, MarksInv, NEW t \in Threads, NEW op, StartPrint(t, op)
    PROVE  MarksInv'
<1> DEFINE todo == SpansToPrint(lines, op.spans)
           s == [Idle EXCEPT !.op = op, !.pc = "span", !.todo = todo]
<1>1. Begin(t, op, s) /\ UNCHANGED <<lines, painted, source, loaded>>
  BY Zenon DEF StartPrint
<1>2. Sound(tks, loaded, s) /\ s.pc = "span"
  <2>1. Sound(tks, loaded, s)
    BY IdleSound, Zenon
  <2> QED
    BY <2>1 DEF Idle
<1> HIDE DEF s
<1> QED
  BY <1>1, <1>2, BeginUnmoved, BesideKeep

\* A search begins.
LEMMA StartHighlightMarks ==
    ASSUME IInv, MarksInv, NEW t \in Threads, NEW op, StartHighlight(t, op)
    PROVE  MarksInv'
<1> DEFINE s == [Idle EXCEPT !.op = op, !.pc = "load"]
<1>1. Begin(t, op, s) /\ UNCHANGED <<lines, painted, source, loaded>>
  BY Zenon DEF StartHighlight
<1>2. Sound(tks, loaded, s) /\ s.pc = "load"
  <2>1. Sound(tks, loaded, s)
    BY IdleSound
  <2> QED
    BY <2>1 DEF Idle
<1> HIDE DEF s
<1> QED
  BY <1>1, <1>2, BeginUnmoved, BesideKeep

\* Clearing begins.
LEMMA StartClearMarks ==
    ASSUME IInv, MarksInv, NEW t \in Threads, NEW op, StartClear(t, op)
    PROVE  MarksInv'
<1> DEFINE s == [Idle EXCEPT !.op = op, !.pc = "clear"]
<1>1. Begin(t, op, s) /\ UNCHANGED <<lines, painted, source, loaded>>
  BY Zenon DEF StartClear
<1>2. Sound(tks, loaded, s) /\ s.pc = "clear"
  <2>1. Sound(tks, loaded, s)
    BY IdleSound
  <2> QED
    BY <2>1 DEF Idle
<1> HIDE DEF s
<1> QED
  BY <1>1, <1>2, BeginUnmoved, BesideKeep

\* A printer that has the lock expects the marks that are there.
LEMMA BeginSpanMarks ==
    ASSUME IInv, MarksInv, NEW t \in Threads, BeginSpan(t)
    PROVE  MarksInv'
<1>1. /\ th[t].pc = "span" /\ work' = work /\ UNCHANGED <<lines, painted, source, loaded>>
      /\ th' = [th EXCEPT ![t].pc = "lines", ![t].offset = 0, ![t].expect = painted]
  BY Zenon DEF BeginSpan
<1>2. /\ DOMAIN th' = Threads /\ \A u \in Threads \ {t} : th'[u] = th[u]
      /\ DOMAIN th'[t] = DOMAIN th[t] /\ th'[t].pc = "lines" /\ th'[t].expect = painted
      /\ th'[t].screen = th[t].screen
  BY <1>1, Before
<1>3. Sound(tks, loaded, th'[t])
  BY <1>1, <1>2, Before DEF Sound
<1> QED
  BY <1>1, <1>2, <1>3, StepUnmoved, BesideKeep

\* A line is printed with the marks that were expected.
LEMMA PrintLineMarks ==
    ASSUME IInv, MarksInv, NEW t \in Threads, PrintLine(t)
    PROVE  MarksInv'
<1> DEFINE i == InSpan(lines, Head(th[t].todo))[th[t].offset + 1]
           frame == [line |-> i, expect |-> th[t].expect, got |-> lines[i]]
<1>1. /\ th[t].pc = "lines" /\ work' = work /\ UNCHANGED <<lines, painted, source, loaded>>
      /\ th' = [th EXCEPT ![t].offset = @ + 1, ![t].screen = Append(@, frame)]
  BY Zenon DEF PrintLine
<1>2. FrameExact(tks, frame)
  <2>1. LinesMarked(lines, tks, painted) /\ th[t].expect = painted
    BY <1>1 DEF MarksInv
  <2> HIDE DEF i
  <2>2. frame.line = i /\ frame.expect = painted /\ frame.got = lines[i]
    BY <2>1
  <2> HIDE DEF frame
  <2>3. i \in DOMAIN NewLines(tks) => ToSet(lines[i].overlays) = MarksOn(tks, painted, i)
    BY <2>1 DEF LinesMarked, Same
  <2> QED
    BY <2>2, <2>3 DEF FrameExact
<1> HIDE DEF frame
<1>3. /\ DOMAIN th' = Threads /\ \A u \in Threads \ {t} : th'[u] = th[u]
      /\ DOMAIN th'[t] = DOMAIN th[t] /\ th'[t].pc = "lines" /\ th'[t].expect = th[t].expect
      /\ th'[t].screen = Append(th[t].screen, frame)
  BY <1>1, Before
<1>4. IsSeq(th[t].screen) /\ \A f \in ToSet(th[t].screen) : FrameExact(tks, f)
  BY <1>1, Before DEF Sound
<1>5. IsSeq(th'[t].screen) /\ ToSet(th'[t].screen) = ToSet(th[t].screen) \cup {frame}
  BY <1>3, <1>4, AppendMembers
<1>6. Sound(tks, loaded, th'[t])
  BY <1>2, <1>3, <1>4, <1>5, Before DEF Sound
<1> QED
  BY <1>1, <1>3, <1>6, Before, StepUnmoved, BesideKeep

\* A span ends, and with the last one the print.
LEMMA EndSpanMarks ==
    ASSUME IInv, MarksInv, NEW t \in Threads, EndSpan(t)
    PROVE  MarksInv'
<1> DEFINE pc == IF Len(th[t].todo) = 1 THEN "idle" ELSE "span"
<1>1. /\ th[t].pc = "lines" /\ work' = work /\ UNCHANGED <<lines, painted, source, loaded>>
      /\ th' = [th EXCEPT ![t].todo = Tail(@), ![t].pc = pc]
  BY Zenon DEF EndSpan
<1>2. pc \in {"idle", "span"}
  OBVIOUS
<1> HIDE DEF pc
<1>3. /\ DOMAIN th' = Threads /\ \A u \in Threads \ {t} : th'[u] = th[u]
      /\ DOMAIN th'[t] = DOMAIN th[t] /\ th'[t].pc = pc /\ th'[t].screen = th[t].screen
  BY <1>1, Before
<1>4. Sound(tks, loaded, th'[t])
  BY <1>1, <1>2, <1>3, Before DEF Sound
<1> QED
  BY <1>1, <1>2, <1>3, <1>4, StepUnmoved, BesideKeep

\* A search has the text, or goes to build it.
LEMMA LoadMarks ==
    ASSUME IInv, MarksInv, NEW t \in Threads, Load(t)
    PROVE  MarksInv'
<1> DEFINE pc == IF loaded THEN "find" ELSE "build"
<1>1. /\ th[t].pc = "load" /\ work' = work /\ UNCHANGED <<lines, painted, source, loaded>>
      /\ th' = [th EXCEPT ![t].pc = pc]
  BY Zenon DEF Load
<1>2. pc \in {"find", "build"} /\ (pc = "find" => loaded)
  BY Locks
<1> HIDE DEF pc
<1>3. /\ DOMAIN th' = Threads /\ \A u \in Threads \ {t} : th'[u] = th[u]
      /\ DOMAIN th'[t] = DOMAIN th[t] /\ th'[t].pc = pc /\ th'[t].screen = th[t].screen
      /\ th'[t].found = th[t].found /\ th'[t].offset = th[t].offset
  BY <1>1, Before
<1>4. Sound(tks, loaded, th'[t])
  BY <1>1, <1>2, <1>3, Before DEF Sound
<1> QED
  BY <1>1, <1>2, <1>3, <1>4, StepUnmoved, BesideKeep

------------------------------------------------------------
(* Searching, marking, clearing and annotating.                            *)

\* An operation at work is one of the program's.
LEMMA OpKnown ==
    ASSUME IInv, MarksInv, NEW t \in Threads, th[t].op.op = "highlight" \/ Annotating(th[t].op)
    PROVE  OpTyped(th[t].op)
<1>1. th[t].op # NoOp
  BY DEF NoOp, Annotating
<1>2. th[t].op \in work.ops
  BY <1>1 DEF IInv, TypeOK
<1> QED
  BY <1>2 DEF MarksInv

\* The text is built of the lines that stand.
LEMMA BuildTextMarks ==
    ASSUME IInv, MarksInv, NEW t \in Threads, BuildText(t)
    PROVE  MarksInv'
<1>1. /\ th[t].pc = "build" /\ work' = work /\ UNCHANGED <<lines, painted>>
      /\ source' = BuildSource(lines) /\ loaded' = TRUE
      /\ th' = [th EXCEPT ![t].pc = "find"]
  BY DEF BuildText
<1>2. Same(lines, NewLines(tks)) /\ LinesMarked(lines, tks, painted)
  BY DEF MarksInv, LinesMarked
<1>3. source' = TextOf(tks)
  BY <1>1, <1>2, SameRanges DEF TextOf
<1>4. /\ DOMAIN th' = Threads /\ \A u \in Threads \ {t} : th'[u] = th[u]
      /\ DOMAIN th'[t] = DOMAIN th[t] /\ th'[t].pc = "find" /\ th'[t].screen = th[t].screen
      /\ th'[t].found = th[t].found /\ th'[t].offset = th[t].offset
  BY <1>1, Before
<1>5. Sound(tks, loaded', th'[t])
  BY <1>1, <1>4, Before DEF Sound
<1>6. Unmoved
  BY <1>1, StepUnmoved
<1>7. /\ LinesMarked(lines', tks, painted') /\ (loaded' => source' = TextOf(tks)) /\ (loaded => loaded')
      /\ painted' = painted /\ th'[t].pc # "lines"
  BY <1>1, <1>2, <1>3, <1>4
<1> QED
  BY <1>4, <1>5, <1>6, <1>7, MarksKeep

\* A search starts with nothing found, or has nothing to find.
LEMMA FindMarks ==
    ASSUME IInv, MarksInv, NEW t \in Threads, Find(t)
    PROVE  MarksInv'
<1>1. /\ th[t].pc = "find" /\ work' = work /\ UNCHANGED <<lines, painted, source, loaded>>
      /\ IF th[t].op.term = <<>> \/ source = <<>> THEN th' = [th EXCEPT ![t].pc = "mark"]
         ELSE th' = [th EXCEPT ![t].pc = "matches"]
  BY DEF Find
<1>2. th[t].op.op = "highlight" /\ th[t].op.term \in Seq(STRING)
  BY <1>1, OpKnown DEF IInv, OpInv, OpTyped
<1>3. loaded /\ source = TextOf(tks) /\ tks \in Seq(Tokens) /\ th[t].found = <<>> /\ th[t].offset = 0
  BY <1>1, Before DEF Sound, MarksInv
<1>4. ASSUME NEW pc \in {"mark", "matches"}, th' = [th EXCEPT ![t].pc = pc]
      PROVE  /\ DOMAIN th' = Threads /\ \A u \in Threads \ {t} : th'[u] = th[u]
             /\ DOMAIN th'[t] = DOMAIN th[t] /\ th'[t].pc = pc /\ th'[t].screen = th[t].screen
             /\ th'[t].found = th[t].found /\ th'[t].offset = th[t].offset /\ th'[t].op = th[t].op
  BY <1>4, Before
<1>5. CASE th[t].op.term = <<>> \/ source = <<>>
  <2>1. th' = [th EXCEPT ![t].pc = "mark"]
    BY <1>1, <1>5
  <2>2. /\ DOMAIN th' = Threads /\ \A u \in Threads \ {t} : th'[u] = th[u]
        /\ DOMAIN th'[t] = DOMAIN th[t] /\ th'[t].pc = "mark" /\ th'[t].screen = th[t].screen
        /\ th'[t].found = th[t].found /\ th'[t].op = th[t].op
    BY <1>4, <2>1
  <2>3. RangesOf(tks, th[t].op) = {}
    BY <1>2, <1>3, <1>5, Zenon DEF RangesOf, TextOf
  <2>4. IsSeq(<<>>) /\ ToSet(<<>>) = {}
    BY FewSeq DEF ToSet
  <2>5. Sound(tks, loaded, th'[t])
    BY <1>1, <1>3, <2>2, <2>3, <2>4, Before DEF Sound
  <2> QED
    BY <1>1, <2>2, <2>5, StepUnmoved, BesideKeep
<1>6. CASE ~(th[t].op.term = <<>> \/ source = <<>>)
  <2>1. th' = [th EXCEPT ![t].pc = "matches"]
    BY <1>1, <1>6
  <2>2. /\ DOMAIN th' = Threads /\ \A u \in Threads \ {t} : th'[u] = th[u]
        /\ DOMAIN th'[t] = DOMAIN th[t] /\ th'[t].pc = "matches" /\ th'[t].screen = th[t].screen
        /\ th'[t].found = th[t].found /\ th'[t].offset = th[t].offset /\ th'[t].op = th[t].op
    BY <1>4, <2>1
  <2> DEFINE z == th'[t]
  <2>3. /\ z.op.op = "highlight" /\ z.op.term \in Seq(STRING) /\ z.op.term # <<>> /\ TextOf(tks) # <<>>
        /\ z.found = <<>> /\ z.offset = 0
    BY <1>2, <1>3, <1>6, <2>2
  <2> HIDE DEF z
  <2>4. Searching(tks, z)
    BY <1>3, <2>3, SearchBegins
  <2>5. Sound(tks, loaded, th'[t])
    BY <1>1, <1>3, <2>2, <2>4, Before DEF Sound, z
  <2> QED
    BY <1>1, <2>2, <2>5, StepUnmoved, BesideKeep
<1> QED
  BY <1>5, <1>6

\* A turn of the search.
LEMMA FindNextMarks ==
    ASSUME IInv, MarksInv, NEW t \in Threads, FindNext(t)
    PROVE  MarksInv'
<1> DEFINE s == th[t]
           next == NextMatch(source, Normalize(s.op.term), s.offset)
           more(r) == IF Contains(s.found, r) THEN s.found ELSE Append(s.found, r)
<1>1. s.pc = "matches" /\ work' = work /\ UNCHANGED <<lines, painted, source, loaded>>
  BY DEF FindNext
<1>2. PICK r \in next.found :
          th' = [th EXCEPT ![t].offset = next.offset,
                           ![t].found = IF Contains(@, r) THEN @ ELSE Append(@, r)]
  BY Zenon DEF FindNext
<1>3. Sound(tks, loaded, s) /\ DOMAIN th = Threads
  BY Before
<1>4. source = TextOf(tks) /\ tks \in Seq(Tokens) /\ Searching(tks, s)
  BY <1>1, <1>3 DEF Sound, MarksInv
<1> DEFINE z == th'[t]
           to == next.offset
<1>5. r \in NextMatch(TextOf(tks), Normalize(s.op.term), s.offset).found
      /\ to = NextMatch(TextOf(tks), Normalize(s.op.term), s.offset).offset
  BY <1>2, <1>4
<1> HIDE DEF next, to
<1>6. /\ DOMAIN th' = Threads /\ \A u \in Threads \ {t} : th'[u] = th[u]
      /\ DOMAIN z = DOMAIN s /\ z.pc = "matches" /\ z.screen = s.screen /\ z.op = s.op
      /\ z.offset = to /\ z.found = more(r)
  BY <1>1, <1>2, Before DEF to
<1> HIDE DEF z, s
<1>7. Searching(tks, z)
  BY <1>4, <1>5, <1>6, SearchGoesOn
<1>8. Sound(tks, loaded, z)
  BY <1>1, <1>3, <1>6, <1>7 DEF Sound
<1> QED
  BY <1>1, <1>6, <1>8, StepUnmoved, BesideKeep DEF z

\* A search that ends has what it ought to mark.
LEMMA FindEndMarks ==
    ASSUME IInv, MarksInv, NEW t \in Threads, FindEnd(t)
    PROVE  MarksInv'
<1> DEFINE s == th[t]
<1>1. /\ s.pc = "matches" /\ work' = work /\ UNCHANGED <<lines, painted, source, loaded>>
      /\ NextMatch(source, Normalize(s.op.term), s.offset).found = {}
      /\ th' = [th EXCEPT ![t].pc = "mark"]
  BY DEF FindEnd
<1>2. Sound(tks, loaded, s) /\ DOMAIN th = Threads
  BY Before
<1>3. source = TextOf(tks) /\ tks \in Seq(Tokens) /\ Searching(tks, s)
  BY <1>1, <1>2 DEF Sound, MarksInv
<1>4. /\ DOMAIN th' = Threads /\ \A u \in Threads \ {t} : th'[u] = th[u]
      /\ DOMAIN th'[t] = DOMAIN s /\ th'[t].pc = "mark" /\ th'[t].screen = s.screen /\ th'[t].op = s.op
      /\ th'[t].found = s.found
  BY <1>1, Before
<1> HIDE DEF s
<1>5. IsSeq(s.found) /\ ToSet(s.found) = RangesOf(tks, s.op)
  BY <1>1, <1>3, SearchEnds
<1>6. Sound(tks, loaded, th'[t])
  BY <1>1, <1>2, <1>4, <1>5 DEF Sound
<1> QED
  BY <1>1, <1>4, <1>6, StepUnmoved, BesideKeep

\* The marks of an operation are those it has when it runs alone.
LEMMA MarkMarks ==
    ASSUME IInv, MarksInv, NEW t \in Threads, Mark(t)
    PROVE  MarksInv'
<1> DEFINE s == th[t]
           to == IF s.op.op = "highlight" THEN Idle ELSE [s EXCEPT !.pc = "annotate"]
<1>1. /\ s.pc = "mark" /\ work' = work /\ UNCHANGED <<source, loaded>>
      /\ lines' = AddOverlay(lines, KindOf(s.op), s.found) /\ painted' = painted \cup {s.op}
      /\ th' = [th EXCEPT ![t] = to] /\ overlayMu.readers = {}
  BY DEF Mark, CanWrite
<1>2. Sound(tks, loaded, s) /\ DOMAIN th = Threads
  BY Before
<1>3. IsSeq(s.found) /\ ToSet(s.found) = RangesOf(tks, s.op)
  BY <1>1, <1>2 DEF Sound
<1>4. LinesMarked(lines, tks, painted) /\ tks \in Seq(Tokens) /\ (loaded => source = TextOf(tks))
  BY DEF MarksInv
<1>5. Len(lines) \in Nat
  <2>1. NewLines(tks) \in Seq(Line)
    BY <1>4, NewLinesHold
  <2>2. Len(NewLines(tks)) \in Nat /\ Len(lines) = Len(NewLines(tks))
    BY <1>4, <2>1 DEF LinesMarked
  <2> QED
    BY <2>2
<1> DEFINE op == s.op
           ranges == s.found
           ts == tks
           ls == lines
           ops == painted
<1> HIDE DEF op, ranges, ts, ls, ops
<1>6. LinesMarked(AddOverlay(ls, KindOf(op), ranges), ts, ops \cup {op})
  BY <1>3, <1>4, <1>5, AddMarks DEF op, ranges, ts, ls, ops
<1>7. LinesMarked(lines', tks, painted')
  BY <1>1, <1>6, Zenon DEF op, ranges, ts, ls, ops
<1>8. DOMAIN th' = Threads /\ th'[t] = to /\ \A u \in Threads \ {t} : th'[u] = th[u]
  BY <1>1, <1>2
<1>9. Sound(tks, loaded, to) /\ to.pc # "lines"
  <2>1. CASE s.op.op = "highlight"
    BY <2>1, IdleSound DEF Idle
  <2>2. CASE s.op.op # "highlight"
    <3> DEFINE z == [s EXCEPT !.pc = "annotate"]
    <3> HIDE DEF s
    <3>1. z.pc = "annotate" /\ DOMAIN z = DOMAIN s /\ z.screen = s.screen
      BY <1>2 DEF Sound
    <3>2. to = z
      BY <2>2 DEF to
    <3> HIDE DEF z
    <3>3. Sound(tks, loaded, z)
      BY <1>1, <1>2, <3>1 DEF Sound
    <3> QED
      BY <3>1, <3>2, <3>3
  <2> QED
    BY <2>1, <2>2
<1> HIDE DEF to, s
<1>10. Sound(tks, loaded', th'[t]) /\ th'[t].pc # "lines"
       /\ (loaded' => source' = TextOf(tks)) /\ (loaded => loaded')
  BY <1>1, <1>4, <1>8, <1>9
<1> QED
  BY <1>1, <1>7, <1>8, <1>10, StepUnmoved, MarksKeep

\* Clearing takes all marks away.
LEMMA ClearKeepsMarks ==
    ASSUME IInv, MarksInv, NEW t \in Threads, Clear(t)
    PROVE  MarksInv'
<1>1. /\ work' = work /\ UNCHANGED <<source, loaded>>
      /\ lines' = ClearOverlays(lines) /\ painted' = {}
      /\ th' = [th EXCEPT ![t] = Idle] /\ overlayMu.readers = {}
  BY DEF Clear, CanWrite
<1>2. LinesMarked(lines, tks, painted) /\ tks \in Seq(Tokens) /\ (loaded => source = TextOf(tks))
  BY DEF MarksInv
<1>3. Len(lines) \in Nat
  <2>1. NewLines(tks) \in Seq(Line)
    BY <1>2, NewLinesHold
  <2>2. Len(NewLines(tks)) \in Nat /\ Len(lines) = Len(NewLines(tks))
    BY <1>2, <2>1 DEF LinesMarked
  <2> QED
    BY <2>2
<1> DEFINE ts == tks
           ls == lines
           ops == painted
<1> HIDE DEF ts, ls, ops
<1>4. LinesMarked(ClearOverlays(ls), ts, {})
  BY <1>2, <1>3, ClearMarks DEF ts, ls, ops
<1>5. LinesMarked(lines', tks, painted')
  BY <1>1, <1>4, Zenon DEF ts, ls, ops
<1>6. DOMAIN th' = Threads /\ th'[t] = Idle /\ \A u \in Threads \ {t} : th'[u] = th[u]
  BY <1>1, Before
<1>7. Sound(tks, loaded', th'[t]) /\ th'[t].pc # "lines"
  <2>1. Sound(tks, loaded', Idle) /\ Idle.pc # "lines"
    BY IdleSound DEF Idle
  <2> QED
    BY <1>6, <2>1
<1>8. (loaded' => source' = TextOf(tks)) /\ (loaded => loaded')
  BY <1>1, <1>2
<1> QED
  BY <1>1, <1>5, <1>6, <1>7, <1>8, StepUnmoved, MarksKeep

\* Annotations leave the marks alone.
LEMMA AnnotateMarks ==
    ASSUME IInv, MarksInv, NEW t \in Threads, Annotate(t)
    PROVE  MarksInv'
<1> DEFINE op == th[t].op
           positions == CollectPositions(lines, tks, 0, op.nested)
           todo == SpansToPrint(lines, BuildHunkSpans(positions, op.context, Len(lines)))
<1>1. /\ th[t].pc = "annotate" /\ work' = work /\ UNCHANGED <<source, loaded, painted>>
      /\ lines' = Annotated(lines, positions, op.context)
      /\ th' = [th EXCEPT ![t].pc = "span", ![t].todo = todo]
  BY Zenon DEF Annotate
<1>2. LinesMarked(lines, tks, painted) /\ tks \in Seq(Tokens) /\ (loaded => source = TextOf(tks))
  BY DEF MarksInv
<1>3. Len(lines) \in Nat
  <2>1. NewLines(tks) \in Seq(Line)
    BY <1>2, NewLinesHold
  <2>2. Len(NewLines(tks)) \in Nat /\ Len(lines) = Len(NewLines(tks))
    BY <1>2, <2>1 DEF LinesMarked
  <2> QED
    BY <2>2
<1> HIDE DEF positions, todo
<1> DEFINE context == op.context
           ts == tks
           ls == lines
           ops == painted
<1> HIDE DEF ts, ls, ops, context
<1>4. LinesMarked(Annotated(ls, positions, context), ts, ops)
  BY <1>2, <1>3, NoteMarks DEF ts, ls, ops
<1>5. LinesMarked(lines', tks, painted')
  BY <1>1, <1>4, Zenon DEF ts, ls, ops, context
<1>6. /\ DOMAIN th' = Threads /\ \A u \in Threads \ {t} : th'[u] = th[u]
      /\ DOMAIN th'[t] = DOMAIN th[t] /\ th'[t].pc = "span" /\ th'[t].screen = th[t].screen
  BY <1>1, Before
<1>7. Sound(tks, loaded, th'[t])
  BY <1>1, <1>6, Before DEF Sound
<1>8. /\ Sound(tks, loaded', th'[t]) /\ th'[t].pc # "lines" /\ painted' = painted
      /\ (loaded' => source' = TextOf(tks)) /\ (loaded => loaded')
  BY <1>1, <1>2, <1>6, <1>7
<1> QED
  BY <1>1, <1>5, <1>6, <1>8, StepUnmoved, MarksKeep

\* An error that prints a source of its own marks its lines and no others.
LEMMA ErrorScreenHolds ==
    ASSUME NEW op, OpTyped(op), op.op = "error", tks \in Seq(Tokens)
    PROVE  \A frame \in ToSet(ErrorScreen(op)) : FrameExact(tks, frame)
<1> DEFINE ts == tks
           fresh == NewLines(ts)
           positions == CollectPositions(fresh, ts, op.main, op.nested)
           ranges == AllRanges(positions)
           over == AddOverlay(fresh, "error", ranges)
           marked == Annotated(over, positions, op.context)
           spans == SpansToPrint(fresh, BuildHunkSpans(positions, op.context, Len(fresh)))
           at == FlattenSeq([n \in DOMAIN spans |-> InSpan(fresh, spans[n])])
<1>1. ErrorScreen(op) = [n \in DOMAIN at |-> [line |-> at[n], expect |-> {op}, got |-> marked[at[n]]]]
  BY Zenon DEF ErrorScreen
<1>2. fresh \in Seq(Line) /\ Len(fresh) \in Nat
  BY NewLinesHold
<1>3. LinesMarked(fresh, ts, {})
  BY NewMarks
<1>4. IsSeq(ranges)
  <2> DEFINE main == op.main
             nested == op.nested
             S == [token : Nat, line : Nat \ {0}, col : Nat]
  <2>1. nested \in Seq(S)
    BY DEF OpTyped
  <2> HIDE DEF fresh, main, nested, S
  <2>2. IsSeq(AllRanges(CollectPositions(fresh, ts, main, nested)))
    BY <1>2, <2>1, AllRangesPlaced
  <2> QED
    BY <2>2 DEF main, nested
<1>5. ToSet(ranges) = RangesOf(ts, op)
  BY Zenon DEF RangesOf
<1>6. KindOf(op) = "error"
  BY DEF KindOf
<1> HIDE DEF fresh, positions, ranges, over, ts
<1>7. LinesMarked(AddOverlay(fresh, KindOf(op), ranges), ts, {} \cup {op})
  BY <1>2, <1>3, <1>4, <1>5, AddMarks
<1>8. LinesMarked(over, ts, {op})
  <2>1. {} \cup {op} = {op}
    OBVIOUS
  <2> QED
    BY <1>6, <1>7, <2>1, Zenon DEF over
<1>9. Len(over) \in Nat
  <2>1. Len(over) = Len(fresh)
    BY <1>8 DEF LinesMarked, fresh
  <2> QED
    BY <1>2, <2>1
<1> DEFINE context == op.context
           ops == {op}
<1>10. LinesMarked(marked, ts, ops)
  <2> HIDE DEF context, ops
  <2>1. LinesMarked(over, ts, ops)
    BY <1>8 DEF ops
  <2>2. LinesMarked(Annotated(over, positions, context), ts, ops)
    BY <1>9, <2>1, NoteMarks
  <2> QED
    BY <2>2, Zenon DEF context
<1> HIDE DEF marked, at
<1>11. SUFFICES ASSUME NEW n \in DOMAIN at
                PROVE  FrameExact(ts, [line |-> at[n], expect |-> {op}, got |-> marked[at[n]]])
  BY <1>1 DEF ToSet, ts
<1> DEFINE i == at[n]
           frame == [line |-> i, expect |-> {op}, got |-> marked[i]]
<1>12. frame.line = i /\ frame.expect = ops /\ frame.got = marked[i]
  OBVIOUS
<1> HIDE DEF i, ops
<1>13. i \in DOMAIN NewLines(ts) => ToSet(marked[i].overlays) = MarksOn(ts, ops, i)
  BY <1>10 DEF LinesMarked, Same
<1> HIDE DEF frame
<1>14. FrameExact(ts, frame)
  BY <1>12, <1>13 DEF FrameExact
<1> QED
  BY <1>14 DEF frame, i

\* An error with a place of its own shows it.
LEMMA ShowErrorMarks ==
    ASSUME IInv, MarksInv, NEW t \in Threads, NEW op \in work.ops, ShowError(t, op)
    PROVE  MarksInv'
<1> DEFINE screen == ErrorScreen(op)
           s == [Idle EXCEPT !.op = op, !.screen = screen]
<1>1. /\ op.op = "error" /\ UNCHANGED <<lines, painted, source, loaded>> /\ Begin(t, op, s)
  BY Zenon DEF ShowError
<1>2. OpTyped(op) /\ tks \in Seq(Tokens)
  BY DEF MarksInv
<1>3. \A frame \in ToSet(screen) : FrameExact(tks, frame)
  BY <1>1, <1>2, ErrorScreenHolds
<1> HIDE DEF screen
<1>4. /\ DOMAIN s = {"pc", "op", "todo", "offset", "found", "expect", "screen"}
      /\ s.pc = "idle" /\ s.screen = screen
  BY DEF Idle
<1> HIDE DEF s
<1>5. Sound(tks, loaded, s)
  BY <1>3, <1>4 DEF Sound
<1> QED
  BY <1>1, <1>4, <1>5, BeginUnmoved, BesideKeep

\* An error with nested places finds on the marked lines what it finds on
\* those that were built.
LEMMA StartNestedMarks ==
    ASSUME IInv, MarksInv, NEW t \in Threads, NEW op \in work.ops, StartNested(t, op)
    PROVE  MarksInv'
<1> DEFINE positions == CollectPositions(lines, tks, 0, op.nested)
           found == AllRanges(positions)
           s == [Idle EXCEPT !.op = op, !.pc = "mark", !.found = found]
<1>1. /\ Annotating(op) /\ UNCHANGED <<lines, painted, source, loaded>> /\ Begin(t, op, s)
  BY Zenon DEF StartNested
<1>2. OpTyped(op) /\ tks \in Seq(Tokens) /\ op.op = "error" /\ op.main = 0
  BY <1>1 DEF MarksInv, Annotating
<1> DEFINE ts == tks
           ls == lines
           built == NewLines(ts)
           nested == op.nested
           S == [token : Nat, line : Nat \ {0}, col : Nat]
<1>3. Same(ls, built) /\ Len(ls) = Len(built) /\ built \in Seq(Line) /\ nested \in Seq(S)
  BY <1>2, NewLinesHold DEF MarksInv, LinesMarked, OpTyped
<1>4. IsSeq(found) /\ ToSet(found) = RangesOf(tks, op)
  <2>1. RangesOf(ts, op) = ToSet(AllRanges(CollectPositions(built, ts, op.main, op.nested)))
    BY <1>2, Zenon DEF RangesOf
  <2> HIDE DEF ts, ls, built, nested, S
  <2>2. CollectPositions(ls, ts, 0, nested) = CollectPositions(built, ts, 0, nested)
    BY <1>3, SameCollected
  <2>3. IsSeq(AllRanges(CollectPositions(built, ts, 0, nested)))
    BY <1>3, AllRangesPlaced
  <2>4. found = AllRanges(CollectPositions(built, ts, 0, nested))
    BY <2>2, Zenon DEF ts, ls, nested
  <2> QED
    BY <1>2, <2>1, <2>3, <2>4, Zenon DEF ts, nested
<1> HIDE DEF found
<1>5. /\ DOMAIN s = {"pc", "op", "todo", "offset", "found", "expect", "screen"}
      /\ s.pc = "mark" /\ s.found = found /\ s.op = op /\ s.screen = <<>>
  BY DEF Idle
<1> HIDE DEF s
<1>6. IsSeq(<<>>) /\ ToSet(<<>>) = {}
  BY FewSeq DEF ToSet
<1>7. Sound(tks, loaded, s)
  BY <1>4, <1>5, <1>6 DEF Sound
<1> QED
  BY <1>1, <1>5, <1>7, BeginUnmoved, BesideKeep

------------------------------------------------------------
(* The marks are right from the first step to the last.                    *)

\* Lines are built without a mark, and nobody has begun.
LEMMA InitMarks ==
    ASSUME Init
    PROVE  MarksInv
<1>1. /\ {"file", "ops"} \subseteq DOMAIN work /\ tks \in Seq(Tokens)
      /\ \A op \in work.ops : OpTyped(op)
  BY SourceAssumption, Zenon DEF Init, OpTyped, tks
<1>2. LinesMarked(lines, tks, painted)
  <2> DEFINE ts == tks
             flag == work.flag
  <2>1. lines = Flagged(NewLines(ts), flag) /\ painted = {}
    BY DEF Init
  <2> HIDE DEF ts, flag
  <2>2. LinesMarked(Flagged(NewLines(ts), flag), ts, {})
    BY <1>1, NewMarks DEF ts
  <2> QED
    BY <2>1, <2>2 DEF ts
<1>3. ASSUME NEW t \in Threads PROVE Sound(tks, loaded, th[t]) /\ th[t].pc # "lines"
  <2>1. th[t] = Idle
    BY DEF Init
  <2>2. Sound(tks, loaded, Idle) /\ Idle.pc # "lines"
    BY IdleSound DEF Idle
  <2> QED
    BY <2>1, <2>2
<1> QED
  BY <1>1, <1>2, <1>3 DEF MarksInv, Init

\* Every step keeps them.
LEMMA NextMarks ==
    ASSUME IInv, MarksInv, [Next]_vars
    PROVE  MarksInv'
<1>1. CASE Next
  <2>1. PICK t \in Threads : Start(t) \/ Step(t)
    BY <1>1 DEF Next
  <2>2. CASE Start(t)
    BY <2>2, StartPrintMarks, StartHighlightMarks, StartClearMarks, ShowErrorMarks, StartNestedMarks DEF Start
  <2>3. CASE Step(t)
    BY <2>3, BeginSpanMarks, PrintLineMarks, EndSpanMarks, LoadMarks, BuildTextMarks, FindMarks, FindNextMarks,
       FindEndMarks, MarkMarks, ClearKeepsMarks, AnnotateMarks DEF Step
  <2> QED
    BY <2>1, <2>2, <2>3
<1>2. CASE UNCHANGED vars
  <2>1. /\ work' = work /\ tks' = tks /\ lines' = lines /\ source' = source /\ loaded' = loaded
        /\ th' = th /\ painted' = painted
    BY <1>2 DEF vars, tks
  <2>2. LinesMarked(lines', tks', painted') /\ (loaded' => source' = TextOf(tks'))
    BY <2>1 DEF MarksInv
  <2>3. \A t \in Threads : Sound(tks', loaded', th'[t]) /\ (th'[t].pc = "lines" => th'[t].expect = painted')
    BY <2>1, Zenon DEF MarksInv
  <2> QED
    BY <2>1, <2>2, <2>3 DEF MarksInv, LinesMarked, TextOf, Sound, FrameExact, MarksOn
<1> QED
  BY <1>1, <1>2

\* What is on the screens of the goroutines.
MarksExact ==
    \A t \in Threads : \A frame \in ToSet(th[t].screen) :
        frame.line \in DOMAIN NewLines(tks) =>
            ToSet(frame.got.overlays) = MarksOn(tks, frame.expect, frame.line)

\* Whatever goroutines mark, search, clear, annotate and print at once: a line
\* that is printed has the overlays of the operations that were painted when
\* the printer took the lock, each with all the ranges it has when it runs
\* alone, and no overlay of another; a search that others interrupt has found
\* every match, and an error of its own source marks nothing else
\* (source.go:285-335, 435-450, find.go:104-185, error.go:376-500).
THEOREM MarksKept == Spec => []MarksExact
<1>1. Init => MarksInv
  BY InitMarks
<1>2. IInv /\ MarksInv /\ [Next]_vars => MarksInv'
  BY NextMarks
<1>3. MarksInv => MarksExact
  BY Zenon DEF MarksInv, Sound, FrameExact, MarksExact
<1> QED
  BY <1>1, <1>2, <1>3, Invariant, PTL DEF Spec

\* Whatever the lexer's tokens are and whatever goroutines mark, clear and
\* annotate: the lines have every rune of every token in order and give the
\* stream back token by token, and the documents divide it (builder.go:75-340,
\* line.go:264-281, tokens.go:139-162, 408-456).
THEOREM StreamKept == Spec => []StreamFaithful
<1>1. Init => MarksInv
  BY InitMarks
<1>2. IInv /\ MarksInv /\ [Next]_vars => MarksInv'
  BY NextMarks
<1>3. MarksInv => LinesStand
  BY Zenon DEF MarksInv, LinesMarked, LinesStand
<1>4. LinesStand => StreamFaithful
  BY StandingHolds
<1> QED
  BY <1>1, <1>2, <1>3, <1>4, Invariant, PTL DEF Spec

------------------------------------------------------------
(* The windows of lines that an error shows.                               *)

\* A set of natural numbers that has members has a least.
LEMMA LeastOf ==
    ASSUME NEW X, X \subseteq Nat, X # {}
    PROVE  Min(X) \in X /\ \A k \in X : Min(X) <= k
<1>1. PICK x \in X : TRUE
  OBVIOUS
<1> DEFINE Y == X \cap (0 .. x)
<1>2. x \in Nat /\ Y \subseteq 0 .. x /\ x \in Y
  BY <1>1
<1>3. PICK m \in Y : \A k \in Y : m <= k
  <2>1. Y # {}
    BY <1>2
  <2> HIDE DEF Y
  <2> QED
    BY <1>2, <2>1, Least
<1>4. m \in X /\ \A k \in X : m <= k
  <2> SUFFICES ASSUME NEW k \in X PROVE m \in X /\ m <= k
    BY <1>3
  <2>1. m \in Nat /\ m <= x /\ k \in Nat
    BY <1>2, <1>3
  <2>2. CASE k <= x
    BY <1>3, <2>1, <2>2
  <2>3. CASE k > x
    BY <1>2, <2>1, <2>3
  <2> QED
    BY <2>1, <2>2, <2>3
<1> DEFINE Is(e) == \A k \in X : e <= k
           r == CHOOSE e \in X : Is(e)
<1>5. r \in X /\ Is(r)
  <2>1. m \in X /\ Is(m)
    BY <1>4
  <2> HIDE DEF Is
  <2> QED
    BY <2>1
<1>6. Min(X) = r
  BY Zenon DEF Min
<1> QED
  BY <1>5, <1>6

\* Some value is as large as any other.
LEMMA Greatest ==
    ASSUME NEW n \in Nat, NEW s, n > 0, \A i \in 1 .. n : s[i] \in Nat
    PROVE  \E k \in 1 .. n : \A i \in 1 .. n : s[i] <= s[k]
<1> DEFINE Y == {j \in 0 .. n : j = 0 \/ \E k \in 1 .. j : \A i \in 1 .. j : s[i] <= s[k]}
<1>1. 0 \in Y
  OBVIOUS
<1>2. ASSUME NEW i \in 0 .. n - 1, i \in Y PROVE i + 1 \in Y
  <2> DEFINE j == i + 1
  <2>1. j \in 1 .. n /\ j \in 0 .. n /\ i = j - 1 /\ i \in Nat
    OBVIOUS
  <2> HIDE DEF j
  <2>2. CASE i = 0
    <3>1. j = 1 /\ 1 .. j = {1} /\ s[1] \in Nat
      BY <2>1, <2>2
    <3>2. \E k \in 1 .. j : \A m \in 1 .. j : s[m] <= s[k]
      BY <3>1
    <3> QED
      BY <2>1, <3>2 DEF j
  <2>3. CASE i # 0
    <3>1. PICK k \in 1 .. i : \A m \in 1 .. i : s[m] <= s[k]
      BY <1>2, <2>3
    <3>2. 1 .. j = (1 .. i) \cup {j} /\ s[j] \in Nat /\ s[k] \in Nat /\ \A m \in 1 .. i : s[m] \in Nat
      BY <2>1, <3>1
    <3>3. CASE s[j] <= s[k]
      <4>1. \A m \in 1 .. j : s[m] <= s[k]
        BY <3>1, <3>2, <3>3
      <4>2. k \in 1 .. j
        BY <3>2
      <4>3. \E q \in 1 .. j : \A m \in 1 .. j : s[m] <= s[q]
        BY <4>1, <4>2
      <4> QED
        BY <2>1, <4>3 DEF j
    <3>4. CASE s[k] < s[j]
      <4>1. \A m \in 1 .. j : s[m] <= s[j]
        BY <3>1, <3>2, <3>4
      <4>2. j \in 1 .. j
        BY <3>2
      <4>3. \E q \in 1 .. j : \A m \in 1 .. j : s[m] <= s[q]
        BY <4>1, <4>2
      <4> QED
        BY <2>1, <4>3 DEF j
    <3> QED
      BY <3>2, <3>3, <3>4
  <2> QED
    BY <2>2, <2>3
<1> HIDE DEF Y
<1>3. 0 .. n \subseteq Y
  BY <1>1, <1>2, Upward
<1>4. n \in Y /\ n # 0
  BY <1>3
<1> QED
  BY <1>4 DEF Y

\* A sequence in increasing order.
Increasing(t) == \A i, j \in DOMAIN t : i <= j => t[i] <= t[j]

\* Sorting keeps the values and puts them in order.
LEMMA SortedHolds ==
    ASSUME NEW s, IsSeq(s), ToSet(s) \subseteq Nat
    PROVE  /\ IsSeq(SortedValues(s)) /\ Len(SortedValues(s)) = Len(s)
           /\ ToSet(SortedValues(s)) = ToSet(s) /\ Increasing(SortedValues(s))
<1> DEFINE n == Len(s)
           V == ToSet(s)
           upTo(v) == {m \in 1 .. n : s[m] <= v}
           many(v) == Cardinality(upTo(v))
           A(k) == {v \in V : many(v) >= k}
           t == SortedValues(s)
<1>1. n \in Nat /\ DOMAIN s = 1 .. n /\ V = {s[i] : i \in 1 .. n} /\ \A i \in 1 .. n : s[i] \in Nat /\ s[i] \in V
  BY DEF IsSeq, ToSet
<1>2. t = [k \in 1 .. n |-> Min(A(k))]
  BY <1>1, Zenon DEF SortedValues
<1>3. IsFiniteSet(1 .. n) /\ Cardinality(1 .. n) = n
  BY <1>1, FS_Interval, SMTT(30)
<1>4. \A v : IsFiniteSet(upTo(v)) /\ many(v) \in Nat /\ many(v) <= n
  <2> SUFFICES ASSUME NEW v PROVE IsFiniteSet(upTo(v)) /\ many(v) \in Nat /\ many(v) <= n
    OBVIOUS
  <2> DEFINE U == upTo(v)
             W == 1 .. n
  <2>1. U \subseteq W
    OBVIOUS
  <2> HIDE DEF U, W
  <2>2. IsFiniteSet(U) /\ Cardinality(U) <= Cardinality(W)
    BY <1>3, <2>1, FS_Subset DEF W
  <2>3. Cardinality(U) \in Nat
    BY <2>2, FS_CardinalityType
  <2> QED
    BY <1>3, <2>2, <2>3 DEF U, W
<1>0. V \subseteq Nat
  OBVIOUS
<1> HIDE DEF V, t
<1>5. ASSUME NEW k \in 1 .. n PROVE A(k) # {} /\ A(k) \subseteq Nat
  <2>1. n > 0 /\ k <= n
    BY <1>1
  <2>2. PICK j \in 1 .. n : \A i \in 1 .. n : s[i] <= s[j]
    BY <1>1, <2>1, Greatest
  <2>3. upTo(s[j]) = 1 .. n
    BY <2>2
  <2>4. many(s[j]) = n
    BY <1>3, <2>3
  <2>5. many(s[j]) >= k /\ s[j] \in V
    BY <1>1, <2>1, <2>4
  <2> HIDE DEF many
  <2>6. s[j] \in A(k)
    BY <2>5
  <2>7. A(k) \subseteq V
    OBVIOUS
  <2> HIDE DEF A
  <2> QED
    BY <1>0, <2>6, <2>7
<1>6. ASSUME NEW k \in 1 .. n PROVE t[k] \in A(k) /\ \A v \in A(k) : t[k] <= v
  <2> DEFINE X == A(k)
  <2>1. X # {} /\ X \subseteq Nat /\ t[k] = Min(X)
    BY <1>2, <1>5
  <2> HIDE DEF X
  <2>2. Min(X) \in X /\ \A v \in X : Min(X) <= v
    BY <2>1, LeastOf
  <2>3. t[k] \in X /\ \A v \in X : t[k] <= v
    BY <2>1, <2>2
  <2> QED
    BY <2>3 DEF X
<1>7. t = [k \in 1 .. n |-> t[k]]
  BY <1>2
<1>8. IsSeq(t) /\ Len(t) = n /\ DOMAIN t = 1 .. n
  BY <1>1, <1>7, FirstNumbers
<1>9. Increasing(t)
  <2> SUFFICES ASSUME NEW i \in 1 .. n, NEW j \in 1 .. n, i <= j PROVE t[i] <= t[j]
    BY <1>8 DEF Increasing
  <2>1. t[j] \in V /\ many(t[j]) >= j
    BY <1>6
  <2>2. many(t[j]) \in Nat
    BY <1>4
  <2> HIDE DEF many
  <2>a. many(t[j]) >= i
    BY <1>1, <2>1, <2>2
  <2>3. t[j] \in A(i)
    BY <2>1, <2>a
  <2> QED
    BY <1>6, <2>3
<1>10. \A k \in 1 .. n : t[k] \in V
  BY <1>6
<1>11. ASSUME NEW v \in V PROVE \E k \in 1 .. n : t[k] = v
  <2> DEFINE k == many(v)
  <2>1. PICK m \in 1 .. n : s[m] = v
    BY <1>1
  <2>2. v \in Nat /\ m \in upTo(v)
    BY <1>1, <2>1
  <2>3. ASSUME NEW u \in V, u < v PROVE many(u) < many(v)
    <3> DEFINE U == upTo(u)
               W == upTo(v)
    <3>1. U \subseteq W \ {m}
      <4>1. u \in Nat /\ \A i \in 1 .. n : s[i] \in Nat
        BY <1>1
      <4> QED
        BY <2>1, <2>2, <2>3, <4>1
    <3>2. IsFiniteSet(W) /\ m \in W /\ Cardinality(W) \in Nat /\ Cardinality(U) \in Nat
      BY <1>4, <2>2
    <3> HIDE DEF U, W
    <3>3. IsFiniteSet(W \ {m}) /\ Cardinality(W \ {m}) = Cardinality(W) - 1
      BY <3>2, FS_RemoveElement
    <3>4. Cardinality(U) <= Cardinality(W \ {m})
      BY <3>1, <3>3, FS_Subset
    <3>5. Cardinality(U) < Cardinality(W)
      BY <3>2, <3>3, <3>4
    <3> QED
      BY <3>5 DEF U, W
  <2>4. k \in 1 .. n
    <3> DEFINE W == upTo(v)
    <3>1. IsFiniteSet(W) /\ m \in W /\ Cardinality(W) \in Nat /\ Cardinality(W) <= n
      BY <1>4, <2>2
    <3> HIDE DEF W
    <3>2. Cardinality(W) # 0
      BY <3>1, FS_EmptySet
    <3>3. Cardinality(W) \in 1 .. n
      BY <1>1, <3>1, <3>2
    <3> QED
      BY <3>3 DEF W
  <2>5. \A u : many(u) \in Nat
    BY <1>4
  <2> HIDE DEF many
  <2>6. v \in A(k)
    BY <2>5
  <2>7. t[k] \in A(k) /\ t[k] <= v
    BY <1>6, <2>4, <2>6
  <2>8. t[k] \in V /\ many(t[k]) >= k
    BY <2>7
  <2>9. t[k] \in Nat
    BY <1>1, <2>8
  <2>10. ~ (t[k] < v)
    BY <2>3, <2>5, <2>8
  <2>11. t[k] = v
    BY <2>2, <2>7, <2>9, <2>10
  <2> QED
    BY <2>4, <2>11
<1>12. ToSet(t) = V
  BY <1>8, <1>10, <1>11 DEF ToSet
<1> QED
  BY <1>8, <1>9, <1>12 DEF V, t

Span == [start : Int, end : Int]

\* Grouped by its recursive function.
Groups(f, s, threshold) ==
    /\ f \in [0 .. Len(s) -> Seq(Span)] /\ Grouped(s, threshold) = f[Len(s)]
    /\ f[0] = <<>> /\ \A n \in 1 .. Len(s) : f[n] = AddIndex(f[n - 1], s[n], threshold)

\* What AddIndex does to spans: the last one grows, or there is a new one.
LEMMA AddIndexHolds ==
    ASSUME NEW spans \in Seq(Span), NEW i \in Int, NEW threshold \in Int
    PROVE  LET k == Len(spans)
               new == AddIndex(spans, i, threshold)
           IN  /\ new \in Seq(Span)
               /\ \/ /\ k > 0 /\ i < spans[k].end + threshold /\ Len(new) = k
                     /\ \A p \in 1 .. k - 1 : new[p] = spans[p]
                     /\ new[k].start = spans[k].start /\ new[k].end = i + 1
                  \/ /\ k > 0 => ~ (i < spans[k].end + threshold)
                     /\ Len(new) = k + 1
                     /\ \A p \in 1 .. k : new[p] = spans[p]
                     /\ new[k + 1].start = i /\ new[k + 1].end = i + 1
<1> DEFINE k == Len(spans)
           new == AddIndex(spans, i, threshold)
<1>1. k \in Nat /\ (spans # <<>> <=> k > 0)
  OBVIOUS
<1>2. CASE k > 0 /\ i < Last(spans).end + threshold
  <2> DEFINE f == Front(spans)
             x == NewSpan(Last(spans).start, i + 1)
  <2>1. /\ f \in Seq(Span) /\ Len(f) = k - 1 /\ Last(spans) = spans[k] /\ Last(spans) \in Span
        /\ \A p \in 1 .. k - 1 : f[p] = spans[p]
    BY <1>2, FrontAndLast
  <2>2. new = Append(f, x)
    BY <1>1, <1>2 DEF AddIndex
  <2>3. x \in Span /\ x.start = spans[k].start /\ x.end = i + 1
    BY <2>1 DEF Span, NewSpan
  <2> HIDE DEF f, x, new
  <2>4. new \in Seq(Span) /\ Len(new) = k - 1 + 1 /\ new[k - 1 + 1] = x /\ \A p \in 1 .. k - 1 : new[p] = f[p]
    BY <2>1, <2>2, <2>3, AppendProperties
  <2>5. Len(new) = k /\ new[k] = x
    BY <1>1, <2>4
  <2> QED
    BY <1>2, <2>1, <2>3, <2>4, <2>5 DEF new
<1>3. CASE ~ (k > 0 /\ i < Last(spans).end + threshold)
  <2> DEFINE x == NewSpan(i, i + 1)
  <2>1. new = Append(spans, x)
    BY <1>1, <1>3 DEF AddIndex
  <2>2. x \in Span /\ x.start = i /\ x.end = i + 1
    BY DEF Span, NewSpan
  <2>3. k > 0 => Last(spans) = spans[k]
    BY FrontAndLast
  <2> HIDE DEF x, new
  <2>4. new \in Seq(Span) /\ Len(new) = k + 1 /\ new[k + 1] = x /\ \A p \in 1 .. k : new[p] = spans[p]
    BY <2>1, <2>2, AppendProperties
  <2> QED
    BY <1>3, <2>2, <2>3, <2>4 DEF new
<1> QED
  BY <1>2, <1>3

\* Grouped goes from index to index.
LEMMA GroupsSteps ==
    ASSUME NEW s, IsSeq(s), ToSet(s) \subseteq Int, NEW threshold \in Int
    PROVE  \E f : Groups(f, s, threshold)
<1> DEFINE n == Len(s)
           X == Seq(Span)
           g == [p \in X \X (1 .. n) |-> AddIndex(p[1], s[p[2]], threshold)]
           Is(f) == f = [i \in 0 .. n |-> IF i = 0 THEN <<>> ELSE AddIndex(f[i - 1], s[i], threshold)]
           r == CHOOSE f : Is(f)
           x0 == <<>>
<1>1. n \in Nat /\ \A i \in 1 .. n : s[i] \in Int
  BY DEF IsSeq, ToSet
<1>2. g \in [X \X (1 .. n) -> X]
  <2> SUFFICES ASSUME NEW p \in X \X (1 .. n) PROVE AddIndex(p[1], s[p[2]], threshold) \in X
    OBVIOUS
  <2> DEFINE a == p[1]
             b == s[p[2]]
  <2>1. a \in Seq(Span) /\ b \in Int
    BY <1>1
  <2> HIDE DEF a, b
  <2>2. AddIndex(a, b, threshold) \in Seq(Span)
    BY <2>1, AddIndexHolds
  <2> QED
    BY <2>2 DEF a, b
<1>3. x0 \in X
  OBVIOUS
<1>4. \A p \in X, i \in 1 .. n : g[<<p, i>>] = AddIndex(p, s[i], threshold)
  OBVIOUS
<1> HIDE DEF n, X, g, x0
<1>5. PICK e : Iterates(e, n, X, x0, g)
  BY <1>1, <1>2, <1>3, Iterate
<1>6. e \in [0 .. n -> X] /\ e[0] = x0 /\ \A i \in 1 .. n : e[i] = g[<<e[i - 1], i>>]
  BY <1>5, Zenon DEF Iterates
<1>7. \A i \in 1 .. n : e[i] = AddIndex(e[i - 1], s[i], threshold)
  <2> SUFFICES ASSUME NEW i \in 1 .. n PROVE e[i] = AddIndex(e[i - 1], s[i], threshold)
    OBVIOUS
  <2>1. i - 1 \in 0 .. n
    BY <1>1
  <2>2. e[i - 1] \in X
    BY <1>6, <2>1
  <2> QED
    BY <1>4, <1>6, <2>2
<1>8. Is(e)
  <2>1. e = [i \in 0 .. n |-> e[i]]
    BY <1>6
  <2>2. \A i \in 0 .. n : e[i] = IF i = 0 THEN <<>> ELSE AddIndex(e[i - 1], s[i], threshold)
    <3> SUFFICES ASSUME NEW i \in 0 .. n PROVE e[i] = IF i = 0 THEN <<>> ELSE AddIndex(e[i - 1], s[i], threshold)
      OBVIOUS
    <3>1. CASE i = 0
      BY <1>6, <3>1 DEF x0
    <3>2. CASE i # 0
      <4>1. i \in 1 .. n
        BY <1>1, <3>2
      <4> QED
        BY <1>7, <3>2, <4>1
    <3> QED
      BY <3>1, <3>2
  <2> QED
    BY <2>1, <2>2
<1>9. Is(r)
  <2> HIDE DEF Is
  <2> QED
    BY <1>8
<1>10. Grouped(s, threshold) = r[n]
  BY Zenon DEF Grouped, n
<1> HIDE DEF r
<1>11. r[0] = <<>> /\ \A i \in 1 .. n : r[i] = AddIndex(r[i - 1], s[i], threshold)
  <2>1. \A i \in 0 .. n : r[i] = IF i = 0 THEN <<>> ELSE AddIndex(r[i - 1], s[i], threshold)
    BY <1>9
  <2>2. 0 \in 0 .. n /\ \A i \in 1 .. n : i \in 0 .. n /\ i # 0
    BY <1>1
  <2> QED
    BY <2>1, <2>2
<1>12. \A i \in 0 .. n : r[i] \in Seq(Span)
  <2> DEFINE Y == {i \in 0 .. n : r[i] \in Seq(Span)}
  <2>1. 0 \in Y
    <3>1. 0 \in 0 .. n /\ <<>> \in Seq(Span)
      BY <1>1
    <3> QED
      BY <1>11, <3>1
  <2>2. ASSUME NEW i \in 0 .. n - 1, i \in Y
        PROVE  i + 1 \in Y
    <3> DEFINE j == i + 1
    <3>1. j \in 1 .. n /\ j \in 0 .. n /\ j - 1 = i /\ r[i] \in Seq(Span)
      BY <1>1, <2>2
    <3> HIDE DEF j
    <3>2. r[j] = AddIndex(r[i], s[j], threshold) /\ s[j] \in Int
      BY <1>1, <1>11, <3>1
    <3> DEFINE a == r[i]
               b == s[j]
    <3>3. a \in Seq(Span) /\ b \in Int /\ r[j] = AddIndex(a, b, threshold)
      BY <3>1, <3>2
    <3> HIDE DEF a, b
    <3>4. r[j] \in Seq(Span)
      BY <3>3, AddIndexHolds
    <3>5. j \in Y
      BY <3>1, <3>4
    <3> QED
      BY <3>5 DEF j
  <2> HIDE DEF Y
  <2>3. 0 .. n \subseteq Y
    BY <1>1, <2>1, <2>2, Upward
  <2> QED
    BY <2>3 DEF Y
<1>13. r \in [0 .. n -> Seq(Span)]
  <2>1. r = [i \in 0 .. n |-> r[i]]
    BY <1>9, Zenon
  <2> QED
    BY <1>12, <2>1
<1>14. Groups(r, s, threshold)
  BY <1>10, <1>11, <1>13 DEF Groups, n
<1> QED
  BY <1>14

\* Spans around the first k values: each begins and ends with one of them and
\* holds nothing that is farther than c from all of them, and each of them is
\* in one.
Windowed(spans, s, k, c) ==
    /\ spans \in Seq(Span)
    /\ k = 0 => Len(spans) = 0
    /\ k > 0 => Len(spans) > 0 /\ spans[Len(spans)].end = s[k] + 1
    /\ \A p \in 1 .. Len(spans) :
          /\ spans[p].start < spans[p].end
          /\ \E m \in 1 .. k : spans[p].start = s[m]
          /\ \E m \in 1 .. k : spans[p].end = s[m] + 1
          /\ \A x \in spans[p].start .. spans[p].end - 1 : \E m \in 1 .. k : s[m] - c <= x /\ x <= s[m] + c
    /\ \A p \in 1 .. Len(spans) - 1 : spans[p].end + c * 2 + 1 <= spans[p + 1].start
    /\ \A m \in 1 .. k : \E p \in 1 .. Len(spans) : spans[p].start <= s[m] /\ s[m] < spans[p].end

\* The next value joins the last span.
LEMMA JoinKeeps ==
    ASSUME NEW spans, NEW s, NEW j \in Nat, NEW c \in Nat, NEW new \in Seq(Span), NEW k, k = j + 1,
           Windowed(spans, s, j, c), \A m \in 1 .. k : s[m] \in Int, j > 0 => s[j] <= s[k],
           Len(spans) > 0, s[k] < spans[Len(spans)].end + (c * 2 + 1), Len(new) = Len(spans),
           \A p \in 1 .. Len(spans) - 1 : new[p] = spans[p],
           new[Len(spans)].start = spans[Len(spans)].start, new[Len(spans)].end = s[k] + 1
    PROVE  Windowed(new, s, k, c)
<1> DEFINE L == Len(spans)
<1>1. spans \in Seq(Span) /\ L \in Nat /\ L > 0 /\ j > 0 /\ k \in 1 .. k /\ j \in 1 .. k
      /\ \A m \in 1 .. j : m \in 1 .. k
  BY DEF Windowed
<1>2. \A p \in 1 .. L : spans[p].start \in Int /\ spans[p].end \in Int
  <2> SUFFICES ASSUME NEW p \in 1 .. L PROVE spans[p].start \in Int /\ spans[p].end \in Int
    OBVIOUS
  <2>1. spans[p] \in Span
    BY <1>1
  <2> QED
    BY <2>1 DEF Span
<1>3. s[j] \in Int /\ s[k] \in Int /\ s[j] <= s[k] /\ spans[L].end = s[j] + 1 /\ L \in 1 .. L
  BY <1>1 DEF Windowed
<1>4. s[k] <= s[j] + c * 2 + 1 /\ spans[L].end <= s[k] + 1
  BY <1>3, SMTT(30)
<1>5. ASSUME NEW p \in 1 .. L
      PROVE  /\ new[p].start = spans[p].start /\ spans[p].end <= new[p].end
             /\ p = L => new[p].end = s[k] + 1
             /\ p # L => new[p].end = spans[p].end
             /\ new[p].start \in Int /\ new[p].end \in Int /\ spans[p].start \in Int /\ spans[p].end \in Int
  <2>1. CASE p = L
    <3>1. new[p].start = spans[p].start /\ new[p].end = s[k] + 1 /\ spans[p].end <= s[k] + 1
      BY <1>4, <2>1
    <3>2. spans[p].start \in Int /\ spans[p].end \in Int /\ s[k] + 1 \in Int
      BY <1>2, <1>3
    <3> QED
      BY <2>1, <3>1, <3>2
  <2>2. CASE p # L
    <3>1. p \in 1 .. L - 1
      BY <1>1, <2>2
    <3>2. new[p] = spans[p] /\ spans[p].start \in Int /\ spans[p].end \in Int
      BY <1>2, <3>1
    <3> QED
      BY <2>2, <3>2
  <2> QED
    BY <2>1, <2>2
<1>6. ASSUME NEW p \in 1 .. L
      PROVE  /\ new[p].start < new[p].end
             /\ \E m \in 1 .. k : new[p].start = s[m]
             /\ \E m \in 1 .. k : new[p].end = s[m] + 1
             /\ \A x \in new[p].start .. new[p].end - 1 : \E m \in 1 .. k : s[m] - c <= x /\ x <= s[m] + c
  <2>1. /\ spans[p].start < spans[p].end
        /\ \E m \in 1 .. j : spans[p].start = s[m]
        /\ \E m \in 1 .. j : spans[p].end = s[m] + 1
        /\ \A x \in spans[p].start .. spans[p].end - 1 : \E m \in 1 .. j : s[m] - c <= x /\ x <= s[m] + c
    BY DEF Windowed
  <2>2. new[p].start < new[p].end
    <3> DEFINE a == spans[p].start
               b == spans[p].end
               d == new[p].end
    <3>1. a < b /\ b <= d /\ a \in Int /\ b \in Int /\ d \in Int /\ new[p].start = a
      BY <1>5, <2>1
    <3> HIDE DEF a, b, d
    <3>2. a < d
      BY <3>1
    <3> QED
      BY <3>1, <3>2 DEF d
  <2>3. \E m \in 1 .. k : new[p].start = s[m]
    BY <1>1, <1>5, <2>1
  <2>4. \E m \in 1 .. k : new[p].end = s[m] + 1
    BY <1>1, <1>5, <2>1
  <2>5. ASSUME NEW x \in new[p].start .. new[p].end - 1
        PROVE  \E m \in 1 .. k : s[m] - c <= x /\ x <= s[m] + c
    <3>1. x \in Int /\ spans[p].start <= x /\ x < new[p].end
      BY <1>5, SMTT(30)
    <3>2. CASE x < spans[p].end
      <4>1. x \in spans[p].start .. spans[p].end - 1
        BY <1>2, <3>1, <3>2
      <4> QED
        BY <1>1, <2>1, <4>1
    <3>3. CASE ~ (x < spans[p].end)
      <4>1. p = L /\ s[j] + 1 <= x /\ x <= s[k]
        <5>1. p = L
          BY <1>5, <3>1, <3>3
        <5>2. new[p].end = s[k] + 1 /\ spans[p].end = s[j] + 1
          BY <1>3, <1>5, <5>1
        <5> QED
          BY <1>3, <3>1, <3>3, <5>1, <5>2, SMTT(30)
      <4>2. CASE x <= s[j] + c
        <5>1. s[j] - c <= x
          BY <1>3, <3>1, <4>1
        <5> QED
          BY <1>1, <4>2, <5>1
      <4>3. CASE ~ (x <= s[j] + c)
        <5>1. s[k] - c <= x /\ x <= s[k] + c
          <6> DEFINE a == s[j]
                     b == s[k]
          <6>1. a \in Int /\ b \in Int /\ b <= a + c * 2 + 1 /\ x \in Int /\ x <= b /\ ~ (x <= a + c)
            BY <1>3, <1>4, <3>1, <4>1, <4>3
          <6> HIDE DEF a, b
          <6>2. b - c <= x /\ x <= b + c
            BY <6>1
          <6> QED
            BY <6>2 DEF b
        <5> QED
          BY <1>1, <5>1
      <4> QED
        BY <4>2, <4>3
    <3> QED
      BY <3>2, <3>3
  <2> QED
    BY <2>2, <2>3, <2>4, <2>5
<1>7. ASSUME NEW p \in 1 .. L - 1 PROVE new[p].end + c * 2 + 1 <= new[p + 1].start
  <2>1. p \in 1 .. L /\ p + 1 \in 1 .. L /\ p # L
    BY <1>1
  <2>2. spans[p].end + c * 2 + 1 <= spans[p + 1].start
    BY DEF Windowed
  <2>3. new[p].end = spans[p].end /\ new[p + 1].start = spans[p + 1].start
    BY <1>5, <2>1
  <2> QED
    BY <2>2, <2>3
<1>8. ASSUME NEW m \in 1 .. k PROVE \E p \in 1 .. L : new[p].start <= s[m] /\ s[m] < new[p].end
  <2>1. CASE m = k
    <3>1. spans[L].start < spans[L].end
      BY <1>3 DEF Windowed
    <3>2. new[L].start = spans[L].start /\ new[L].end = s[k] + 1 /\ spans[L].start \in Int
          /\ spans[L].end \in Int
      BY <1>3, <1>5
    <3>a. new[L].start <= s[k] /\ s[k] < new[L].end
      BY <1>3, <1>4, <3>1, <3>2, SMTT(30)
    <3> QED
      BY <1>3, <2>1, <3>a
  <2>2. CASE m # k
    <3>1. m \in 1 .. j
      BY <2>2
    <3>2. PICK p \in 1 .. L : spans[p].start <= s[m] /\ s[m] < spans[p].end
      BY <3>1 DEF Windowed
    <3>a. s[m] \in Int /\ new[p].start = spans[p].start /\ spans[p].end <= new[p].end
          /\ spans[p].end \in Int /\ new[p].end \in Int
      BY <1>5, <3>2
    <3>3. new[p].start <= s[m] /\ s[m] < new[p].end
      BY <3>2, <3>a
    <3> QED
      BY <3>3
  <2> QED
    BY <2>1, <2>2
<1> QED
  BY <1>1, <1>3, <1>6, <1>7, <1>8 DEF Windowed

\* The next value begins a span of its own.
LEMMA SplitKeeps ==
    ASSUME NEW spans, NEW s, NEW j \in Nat, NEW c \in Nat, NEW new \in Seq(Span), NEW k, k = j + 1,
           Windowed(spans, s, j, c), \A m \in 1 .. k : s[m] \in Int,
           Len(spans) > 0 => ~ (s[k] < spans[Len(spans)].end + (c * 2 + 1)), Len(new) = Len(spans) + 1,
           \A p \in 1 .. Len(spans) : new[p] = spans[p],
           new[Len(spans) + 1].start = s[k], new[Len(spans) + 1].end = s[k] + 1
    PROVE  Windowed(new, s, k, c)
<1> DEFINE L == Len(spans)
<1>1. spans \in Seq(Span) /\ L \in Nat /\ k \in 1 .. k /\ s[k] \in Int /\ L + 1 \in 1 .. L + 1
      /\ (\A m \in 1 .. j : m \in 1 .. k) /\ (\A p \in 1 .. L : p \in 1 .. L + 1)
  <2>1. spans \in Seq(Span)
    BY DEF Windowed
  <2>2. L \in Nat
    BY <2>1
  <2>3. k \in 1 .. k
    OBVIOUS
  <2> HIDE DEF L
  <2>4. L + 1 \in 1 .. L + 1 /\ \A p \in 1 .. L : p \in 1 .. L + 1
    BY <2>2
  <2> QED
    BY <2>1, <2>2, <2>3, <2>4
<1>2. \A p \in 1 .. L : spans[p].start \in Int /\ spans[p].end \in Int
  <2> SUFFICES ASSUME NEW p \in 1 .. L PROVE spans[p].start \in Int /\ spans[p].end \in Int
    OBVIOUS
  <2>1. spans[p] \in Span
    BY <1>1
  <2> QED
    BY <2>1 DEF Span
<1>3. ASSUME NEW p \in 1 .. L + 1
      PROVE  /\ new[p].start < new[p].end
             /\ \E m \in 1 .. k : new[p].start = s[m]
             /\ \E m \in 1 .. k : new[p].end = s[m] + 1
             /\ \A x \in new[p].start .. new[p].end - 1 : \E m \in 1 .. k : s[m] - c <= x /\ x <= s[m] + c
  <2>1. CASE p = L + 1
    <3>1. new[p].start = s[k] /\ new[p].end = s[k] + 1
      BY <2>1
    <3>2. \A x \in s[k] .. s[k] + 1 - 1 : s[k] - c <= x /\ x <= s[k] + c
      BY <1>1
    <3> QED
      BY <1>1, <3>1, <3>2, SMTT(30)
  <2>2. CASE p # L + 1
    <3>1. p \in 1 .. L
      BY <1>1, <2>2
    <3>2. new[p] = spans[p]
      BY <3>1
    <3>3. /\ spans[p].start < spans[p].end
          /\ \E m \in 1 .. j : spans[p].start = s[m]
          /\ \E m \in 1 .. j : spans[p].end = s[m] + 1
          /\ \A x \in spans[p].start .. spans[p].end - 1 : \E m \in 1 .. j : s[m] - c <= x /\ x <= s[m] + c
      BY <3>1 DEF Windowed
    <3> QED
      BY <1>1, <3>2, <3>3
  <2> QED
    BY <2>1, <2>2
<1>4. ASSUME NEW p \in 1 .. L PROVE new[p].end + c * 2 + 1 <= new[p + 1].start
  <2>1. CASE p = L
    <3>1. new[p] = spans[p] /\ new[p + 1].start = s[k] /\ L > 0
      BY <1>1, <2>1
    <3>2. ~ (s[k] < spans[p].end + (c * 2 + 1)) /\ spans[p].end \in Int
      BY <1>2, <2>1, <3>1
    <3> QED
      BY <1>1, <3>1, <3>2, SMTT(30)
  <2>2. CASE p # L
    <3>1. p \in 1 .. L - 1 /\ p + 1 \in 1 .. L
      BY <1>1, <2>2
    <3>2. spans[p].end + c * 2 + 1 <= spans[p + 1].start
      BY <3>1 DEF Windowed
    <3>3. new[p] = spans[p] /\ new[p + 1] = spans[p + 1]
      BY <3>1
    <3> QED
      BY <3>2, <3>3
  <2> QED
    BY <2>1, <2>2
<1>5. ASSUME NEW m \in 1 .. k PROVE \E p \in 1 .. L + 1 : new[p].start <= s[m] /\ s[m] < new[p].end
  <2>1. CASE m = k
    BY <1>1, <2>1, SMTT(30)
  <2>2. CASE m # k
    <3>1. m \in 1 .. j
      BY <2>2
    <3>2. PICK p \in 1 .. L : spans[p].start <= s[m] /\ s[m] < spans[p].end
      BY <3>1 DEF Windowed
    <3> QED
      BY <1>1, <3>2
  <2> QED
    BY <2>1, <2>2
<1>6. L + 1 - 1 = L /\ k > 0 /\ L + 1 > 0
  BY <1>1
<1> QED
  BY <1>1, <1>3, <1>4, <1>5, <1>6 DEF Windowed

\* The spans of values in increasing order.
LEMMA GroupedHolds ==
    ASSUME NEW s, IsSeq(s), ToSet(s) \subseteq Int, Increasing(s), NEW c \in Nat
    PROVE  Windowed(GroupIndices(s, c), s, Len(s), c)
<1> DEFINE n == Len(s)
           threshold == c * 2 + 1
<1>1. n \in Nat /\ DOMAIN s = 1 .. n /\ \A i \in 1 .. n : s[i] \in Int
  BY DEF IsSeq, ToSet
<1>2. threshold \in Int
  OBVIOUS
<1> HIDE DEF threshold
<1>3. PICK f : Groups(f, s, threshold)
  BY <1>2, GroupsSteps
<1>4. /\ f \in [0 .. n -> Seq(Span)] /\ Grouped(s, threshold) = f[n] /\ f[0] = <<>>
      /\ \A i \in 1 .. n : f[i] = AddIndex(f[i - 1], s[i], threshold)
  BY <1>3 DEF Groups
<1> DEFINE Y == {i \in 0 .. n : Windowed(f[i], s, i, c)}
<1>5. 0 \in Y
  <2>1. <<>> \in Seq(Span) /\ Len(<<>>) = 0
    OBVIOUS
  <2>2. Windowed(<<>>, s, 0, c)
    BY <2>1 DEF Windowed
  <2> QED
    BY <1>1, <1>4, <2>2
<1>6. ASSUME NEW i \in 0 .. n - 1, i \in Y PROVE i + 1 \in Y
  <2> DEFINE k == i + 1
             spans == f[i]
             x == s[k]
             new == AddIndex(spans, x, threshold)
  <2>1. i \in Nat /\ k = i + 1 /\ k \in 1 .. n /\ k \in 0 .. n /\ k - 1 = i /\ i \in 0 .. n
    BY <1>1
  <2> HIDE DEF k
  <2>2. Windowed(spans, s, i, c) /\ spans \in Seq(Span) /\ x \in Int /\ new = f[k]
    BY <1>1, <1>4, <1>6, <2>1
  <2>3. \A m \in 1 .. k : s[m] \in Int
    BY <1>1, <2>1
  <2>4. i > 0 => s[i] <= x
    BY <1>1, <2>1 DEF Increasing
  <2> HIDE DEF spans, x
  <2>5. /\ new \in Seq(Span)
        /\ \/ /\ Len(spans) > 0 /\ x < spans[Len(spans)].end + threshold /\ Len(new) = Len(spans)
              /\ \A p \in 1 .. Len(spans) - 1 : new[p] = spans[p]
              /\ new[Len(spans)].start = spans[Len(spans)].start /\ new[Len(spans)].end = x + 1
           \/ /\ Len(spans) > 0 => ~ (x < spans[Len(spans)].end + threshold)
              /\ Len(new) = Len(spans) + 1
              /\ \A p \in 1 .. Len(spans) : new[p] = spans[p]
              /\ new[Len(spans) + 1].start = x /\ new[Len(spans) + 1].end = x + 1
    BY <1>2, <2>2, AddIndexHolds
  <2> HIDE DEF new
  <2>6. Windowed(new, s, k, c)
    <3>1. CASE /\ Len(spans) > 0 /\ x < spans[Len(spans)].end + threshold /\ Len(new) = Len(spans)
               /\ \A p \in 1 .. Len(spans) - 1 : new[p] = spans[p]
               /\ new[Len(spans)].start = spans[Len(spans)].start /\ new[Len(spans)].end = x + 1
      BY <2>1, <2>2, <2>3, <2>4, <2>5, <3>1, JoinKeeps DEF x, threshold
    <3>2. CASE /\ Len(spans) > 0 => ~ (x < spans[Len(spans)].end + threshold)
               /\ Len(new) = Len(spans) + 1
               /\ \A p \in 1 .. Len(spans) : new[p] = spans[p]
               /\ new[Len(spans) + 1].start = x /\ new[Len(spans) + 1].end = x + 1
      BY <2>1, <2>2, <2>3, <2>4, <2>5, <3>2, SplitKeeps DEF x, threshold
    <3> QED
      BY <2>5, <3>1, <3>2
  <2>7. k \in Y
    BY <2>1, <2>2, <2>6
  <2> QED
    BY <2>7 DEF k
<1> HIDE DEF Y
<1>7. 0 .. n \subseteq Y
  BY <1>1, <1>5, <1>6, Upward
<1>8. n \in Y
  BY <1>1, <1>7
<1>9. GroupIndices(s, c) = f[n]
  BY <1>4, Zenon DEF GroupIndices, threshold
<1> QED
  BY <1>8, <1>9 DEF Y

\* The lines that ranges reach over.
RangeLines(rs) == UNION {rs[n].start.line .. rs[n].end.line : n \in DOMAIN rs}

\* LineIndices names those lines.
LEMMA LineIndicesHold ==
    ASSUME NEW rs, IsSeq(rs), \A n \in DOMAIN rs : rs[n].start.line \in Int /\ rs[n].end.line \in Int
    PROVE  IsSeq(LineIndices(rs)) /\ ToSet(LineIndices(rs)) = RangeLines(rs)
<1> DEFINE k == Len(rs)
           from(i) == rs[i].start.line
           to(i) == rs[i].end.line
           each(i) == [n \in 1 .. (to(i) - from(i) + 1) |-> from(i) + n - 1]
           ss == [i \in 1 .. k |-> each(i)]
<1>1. k \in Nat /\ DOMAIN rs = 1 .. k
  BY DEF IsSeq
<1>2. LineIndices(rs) = FlattenSeq(ss)
  BY <1>1, Zenon DEF LineIndices
<1>3. ASSUME NEW i \in 1 .. k PROVE IsSeq(each(i)) /\ ToSet(each(i)) = from(i) .. to(i)
  <2> DEFINE a == from(i)
             b == to(i)
             e == [n \in 1 .. (b - a + 1) |-> a + n - 1]
             w == IF b - a + 1 >= 0 THEN b - a + 1 ELSE 0
  <2>1. a \in Int /\ b \in Int
    BY <1>1
  <2>2. e = each(i)
    OBVIOUS
  <2> HIDE DEF a, b
  <2>3. w \in Nat /\ 1 .. w = 1 .. (b - a + 1)
    BY <2>1
  <2>4. e = [n \in 1 .. w |-> e[n]] /\ \A n \in 1 .. w : e[n] = a + n - 1
    BY <2>3
  <2> HIDE DEF e
  <2>5. IsSeq(e) /\ DOMAIN e = 1 .. w
    <3> HIDE DEF w
    <3> QED
      BY <2>3, <2>4, FirstNumbers
  <2>6. ToSet(e) = {e[n] : n \in 1 .. w}
    BY <2>5 DEF ToSet
  <2>7. ASSUME NEW x \in a .. b PROVE \E n \in 1 .. w : e[n] = x
    <3>1. x - a + 1 \in 1 .. w /\ a + (x - a + 1) - 1 = x
      BY <2>1
    <3> QED
      BY <2>4, <3>1
  <2>8. ASSUME NEW n \in 1 .. w PROVE e[n] \in a .. b
    <3>1. n \in 1 .. (b - a + 1) /\ e[n] = a + n - 1
      BY <2>3, <2>4
    <3> QED
      BY <2>1, <3>1
  <2>9. ToSet(e) = a .. b
    BY <2>6, <2>7, <2>8
  <2> QED
    BY <2>2, <2>5, <2>9 DEF a, b
<1>4. ss = [i \in 1 .. k |-> ss[i]] /\ \A i \in 1 .. k : ss[i] = each(i)
  OBVIOUS
<1> HIDE DEF ss, each, k, from, to
<1>5. IsSeq(ss) /\ Len(ss) = k
  BY <1>1, <1>4, FirstNumbers
<1>6. \A i \in 1 .. Len(ss) : IsSeq(ss[i])
  BY <1>3, <1>4, <1>5
<1>7. IsSeq(FlattenSeq(ss)) /\ ToSet(FlattenSeq(ss)) = UNION {ToSet(ss[i]) : i \in 1 .. Len(ss)}
  BY <1>5, <1>6, FlattenIsSeq
<1>8. \A i \in 1 .. k : ToSet(ss[i]) = from(i) .. to(i)
  BY <1>3, <1>4
<1>9. UNION {ToSet(ss[i]) : i \in 1 .. k} = UNION {from(i) .. to(i) : i \in 1 .. k}
  BY <1>8
<1>10. RangeLines(rs) = UNION {from(i) .. to(i) : i \in 1 .. k}
  BY <1>1 DEF RangeLines, from, to
<1> QED
  BY <1>2, <1>5, <1>7, <1>9, <1>10

\* Some spans cut out of a document of total lines what lies within c lines
\* of those in X, in order, with lines left out between each and the next.
Windows(spans, X, c, total) ==
    /\ spans \in Seq(Span)
    /\ Len(spans) = 0 <=> X = {}
    /\ \A p \in 1 .. Len(spans) : 0 <= spans[p].start /\ spans[p].start < spans[p].end /\ spans[p].end <= total
    /\ \A p, q \in 1 .. Len(spans) : p < q => spans[p].end < spans[q].start
    /\ \A x \in 0 .. total - 1 :
          (\E p \in 1 .. Len(spans) : spans[p].start <= x /\ x < spans[p].end)
             <=> \E k \in X : k - c <= x /\ x <= k + c

\* Spans around some lines, wider by the context and cut at the ends of the
\* document, are their windows.
LEMMA WidenedWindows ==
    ASSUME NEW s, NEW n \in Nat, NEW c \in Nat, NEW total \in Nat, NEW g, Windowed(g, s, n, c),
           \A m \in 1 .. n : s[m] \in 0 .. total - 1
    PROVE  Windows(Clamp(Expand(g, c), 0, total), {s[m] : m \in 1 .. n}, c, total)
<1> DEFINE L == Len(g)
           lo(p) == g[p].start - c
           hi(p) == g[p].end + c
           new == Clamp(Expand(g, c), 0, total)
           X == {s[m] : m \in 1 .. n}
<1>1. g \in Seq(Span) /\ L \in Nat /\ DOMAIN g = 1 .. L
  BY DEF Windowed
<1>2. \A p \in 1 .. L : g[p].start \in Int /\ g[p].end \in Int
  <2> SUFFICES ASSUME NEW p \in 1 .. L PROVE g[p].start \in Int /\ g[p].end \in Int
    OBVIOUS
  <2>1. g[p] \in Span
    BY <1>1
  <2> QED
    BY <2>1 DEF Span
<1>3. /\ Expand(g, c) = [p \in 1 .. L |-> NewSpan(lo(p), hi(p))]
      /\ DOMAIN Expand(g, c) = 1 .. L
      /\ \A p \in 1 .. L : Expand(g, c)[p] = NewSpan(lo(p), hi(p))
  BY <1>1 DEF Expand
<1>4. \A a, b : NewSpan(a, b).start = a /\ NewSpan(a, b).end = b
  BY DEF NewSpan
<1>5. new = [p \in 1 .. L |-> NewSpan(Larger(lo(p), 0), Smaller(hi(p), total))]
  BY <1>3, <1>4 DEF Clamp
<1>6. \A p \in 1 .. L : new[p].start = Larger(lo(p), 0) /\ new[p].end = Smaller(hi(p), total)
  BY <1>4, <1>5
<1>7. new = [p \in 1 .. L |-> new[p]]
  BY <1>5
<1> HIDE DEF new
<1>8. Len(new) = L /\ IsSeq(new)
  BY <1>1, <1>7, FirstNumbers
<1>9. ASSUME NEW p \in 1 .. L
      PROVE  /\ new[p].start \in Int /\ new[p].end \in Int
             /\ 0 <= new[p].start /\ new[p].start < new[p].end /\ new[p].end <= total
             /\ lo(p) <= new[p].start /\ new[p].end <= hi(p)
             /\ \A x \in 0 .. total - 1 : (new[p].start <= x /\ x < new[p].end) <=> (lo(p) <= x /\ x < hi(p))
  <2>1. /\ g[p].start < g[p].end
        /\ \E m \in 1 .. n : g[p].start = s[m]
        /\ \E m \in 1 .. n : g[p].end = s[m] + 1
    BY DEF Windowed
  <2> DEFINE a == g[p].start
             b == g[p].end
             u == new[p].start
             v == new[p].end
  <2>2. a \in 0 .. total - 1 /\ b \in 1 .. total /\ a < b
    <3>1. a \in 0 .. total - 1
      BY <2>1
    <3>2. PICK m \in 1 .. n : b = s[m] + 1
      BY <2>1
    <3> DEFINE x == s[m]
    <3>3. x \in 0 .. total - 1
      OBVIOUS
    <3>4. b = x + 1 /\ a < b
      BY <2>1, <3>2
    <3> HIDE DEF a, b, x
    <3> QED
      BY <3>1, <3>3, <3>4
  <2>3. u = Larger(a - c, 0) /\ v = Smaller(b + c, total) /\ lo(p) = a - c /\ hi(p) = b + c
    BY <1>6
  <2> HIDE DEF a, b, u, v, lo, hi
  <2>4. u = IF a - c > 0 THEN a - c ELSE 0
    BY <2>3 DEF Larger
  <2>5. v = IF b + c < total THEN b + c ELSE total
    BY <2>3 DEF Smaller
  <2>6. u \in Int /\ 0 <= u /\ a - c <= u /\ (a - c > 0 => u = a - c) /\ u <= a
        /\ \A x \in 0 .. total - 1 : u <= x <=> a - c <= x
    BY <2>2, <2>4
  <2>7. v \in Int /\ v <= total /\ v <= b + c /\ b <= v
        /\ \A x \in 0 .. total - 1 : x < v <=> x < b + c
    BY <2>2, <2>5
  <2>8. u < v
    BY <2>2, <2>6, <2>7
  <2>9. /\ u \in Int /\ v \in Int /\ 0 <= u /\ u < v /\ v <= total /\ lo(p) <= u /\ v <= hi(p)
        /\ \A x \in 0 .. total - 1 : (u <= x /\ x < v) <=> (lo(p) <= x /\ x < hi(p))
    BY <2>3, <2>6, <2>7, <2>8
  <2> QED
    BY <2>9, Zenon DEF u, v
<1>10. \A p \in 1 .. L : new[p] \in Span
  <2> SUFFICES ASSUME NEW p \in 1 .. L PROVE new[p] \in Span
    OBVIOUS
  <2>1. new[p] = NewSpan(Larger(lo(p), 0), Smaller(hi(p), total))
    BY <1>5 DEF new
  <2>2. new[p].start \in Int /\ new[p].end \in Int /\ new[p].start = Larger(lo(p), 0) /\ new[p].end = Smaller(hi(p), total)
    BY <1>6, <1>9
  <2>3. new[p] = NewSpan(new[p].start, new[p].end)
    BY <2>1, <2>2
  <2> QED
    BY <2>2, <2>3 DEF NewSpan, Span
<1>11. new \in Seq(Span)
  BY <1>1, <1>7, <1>10
<1>12. L = 0 <=> X = {}
  <2>1. n = 0 => L = 0
    BY DEF Windowed
  <2>2. n > 0 => L > 0
    BY DEF Windowed
  <2>3. n > 0 => s[1] \in X
    OBVIOUS
  <2>4. n = 0 => X = {}
    OBVIOUS
  <2>5. n = 0 \/ n > 0
    OBVIOUS
  <2> HIDE DEF X, L
  <2> QED
    BY <2>1, <2>2, <2>3, <2>4, <2>5
<1>13. ASSUME NEW p \in 1 .. L - 1 PROVE new[p].end < new[p + 1].start
  <2>1. p \in 1 .. L /\ p + 1 \in 1 .. L
    BY <1>1
  <2>2. g[p].end + c * 2 + 1 <= g[p + 1].start
    BY DEF Windowed
  <2>3. /\ new[p].end \in Int /\ new[p + 1].start \in Int
        /\ new[p].end <= hi(p) /\ lo(p + 1) <= new[p + 1].start
        /\ g[p].end \in Int /\ g[p + 1].start \in Int
    BY <1>2, <1>9, <2>1
  <2> DEFINE a == g[p].end
             b == g[p + 1].start
             u == new[p].end
             v == new[p + 1].start
  <2>4. a \in Int /\ b \in Int /\ u \in Int /\ v \in Int /\ a + c * 2 + 1 <= b /\ u <= a + c /\ b - c <= v
    BY <2>2, <2>3
  <2> HIDE DEF a, b, u, v
  <2>5. u < v
    BY <2>4
  <2> QED
    BY <2>5 DEF u, v
<1>14. ASSUME NEW x \in 0 .. total - 1
       PROVE  (\E p \in 1 .. L : new[p].start <= x /\ x < new[p].end)
                 <=> \E k \in X : k - c <= x /\ x <= k + c
  <2>1. ASSUME NEW p \in 1 .. L, new[p].start <= x, x < new[p].end
        PROVE  \E k \in X : k - c <= x /\ x <= k + c
    <3>1. lo(p) <= x /\ x < hi(p)
      BY <1>9, <2>1
    <3>2. /\ \E m \in 1 .. n : g[p].start = s[m]
          /\ \E m \in 1 .. n : g[p].end = s[m] + 1
          /\ \A y \in g[p].start .. g[p].end - 1 : \E m \in 1 .. n : s[m] - c <= y /\ y <= s[m] + c
          /\ g[p].start < g[p].end
      BY DEF Windowed
    <3>3. CASE x < g[p].start
      <4>1. PICK m \in 1 .. n : g[p].start = s[m]
        BY <3>2
      <4>2. s[m] - c <= x /\ x <= s[m] + c /\ s[m] \in X
        BY <1>2, <3>1, <3>3, <4>1
      <4> QED
        BY <4>2
    <3>4. CASE x >= g[p].end
      <4>1. PICK m \in 1 .. n : g[p].end = s[m] + 1
        BY <3>2
      <4>2. s[m] - c <= x /\ x <= s[m] + c /\ s[m] \in X
        BY <1>2, <3>1, <3>4, <4>1, SMTT(30)
      <4> QED
        BY <4>2
    <3>5. CASE ~ (x < g[p].start) /\ ~ (x >= g[p].end)
      <4>1. x \in g[p].start .. g[p].end - 1
        BY <1>2, <3>5
      <4>2. PICK m \in 1 .. n : s[m] - c <= x /\ x <= s[m] + c
        BY <3>2, <4>1
      <4> QED
        BY <4>2
    <3> QED
      BY <3>3, <3>4, <3>5
  <2>2. ASSUME NEW k \in X, k - c <= x, x <= k + c
        PROVE  \E p \in 1 .. L : new[p].start <= x /\ x < new[p].end
    <3>1. PICK m \in 1 .. n : k = s[m]
      OBVIOUS
    <3>2. k \in Int
      BY <3>1
    <3>3. PICK p \in 1 .. L : g[p].start <= s[m] /\ s[m] < g[p].end
      BY DEF Windowed
    <3>4. g[p].start \in Int /\ g[p].end \in Int
      BY <1>2, <3>3
    <3> DEFINE a == g[p].start
               b == g[p].end
    <3>a. /\ a \in Int /\ b \in Int /\ k \in Int /\ x \in Int /\ a <= k /\ k < b
          /\ k - c <= x /\ x <= k + c /\ lo(p) = a - c /\ hi(p) = b + c
      BY <2>2, <3>1, <3>2, <3>3, <3>4
    <3> HIDE DEF a, b, lo, hi
    <3>5. lo(p) <= x /\ x < hi(p)
      BY <3>a, SMTT(30)
    <3>6. new[p].start <= x /\ x < new[p].end
      BY <1>9, <3>5
    <3> QED
      BY <3>6
  <2> QED
    BY <2>1, <2>2
<1>15. \A p \in 1 .. L : 0 <= new[p].start /\ new[p].start < new[p].end /\ new[p].end <= total
  BY <1>9
<1>a. ASSUME NEW p \in 1 .. L, NEW q \in 1 .. L, p < q PROVE new[p].end < new[q].start
  <2> DEFINE Y == {i \in 0 .. L : \A m \in 1 .. i - 1 : new[m].end < new[i].start}
  <2>1. 0 \in Y
    BY <1>1
  <2>2. ASSUME NEW i \in 0 .. L - 1, i \in Y PROVE i + 1 \in Y
    <3> DEFINE k == i + 1
    <3>1. k \in 1 .. L /\ k - 1 = i /\ i \in Nat
      BY <1>1
    <3> HIDE DEF k
    <3>2. ASSUME NEW m \in 1 .. i PROVE new[m].end < new[k].start
      <4>1. m \in 1 .. L /\ i \in 1 .. L /\ i \in 1 .. L - 1 /\ i + 1 = k
        BY <1>1, <3>1
      <4>2. new[i].end < new[k].start
        BY <1>13, <4>1
      <4>3. CASE m = i
        BY <4>2, <4>3
      <4>4. CASE m # i
        <5>1. m \in 1 .. i - 1
          BY <4>4
        <5>2. new[m].end < new[i].start
          BY <2>2, <5>1
        <5> DEFINE u == new[m].end
                   v == new[i].start
                   w == new[i].end
                   x == new[k].start
        <5>3. u \in Int /\ v \in Int /\ w \in Int /\ x \in Int /\ u < v /\ v < w /\ w < x
          BY <1>9, <3>1, <4>1, <4>2, <5>2
        <5> HIDE DEF u, v, w, x
        <5>4. u < x
          BY <5>3
        <5> QED
          BY <5>4 DEF u, x
      <4> QED
        BY <4>3, <4>4
    <3>3. k \in Y
      BY <3>1, <3>2
    <3> QED
      BY <3>3 DEF k
  <2> HIDE DEF Y
  <2>3. 0 .. L \subseteq Y
    BY <1>1, <2>1, <2>2, Upward
  <2>4. q \in Y /\ p \in 1 .. q - 1
    BY <1>a, <2>3
  <2> QED
    BY <2>4 DEF Y
<1> HIDE DEF X, L
<1>16. /\ new \in Seq(Span)
       /\ Len(new) = 0 <=> X = {}
       /\ \A p \in 1 .. Len(new) : 0 <= new[p].start /\ new[p].start < new[p].end /\ new[p].end <= total
       /\ \A p, q \in 1 .. Len(new) : p < q => new[p].end < new[q].start
       /\ \A x \in 0 .. total - 1 :
             (\E p \in 1 .. Len(new) : new[p].start <= x /\ x < new[p].end)
                <=> \E k \in X : k - c <= x /\ x <= k + c
  BY <1>8, <1>11, <1>12, <1>a, <1>14, <1>15, Zenon
<1> QED
  BY <1>16, Zenon DEF Windows, X, new

\* BuildHunkSpans cuts out the windows around the lines that ranges reach over.
THEOREM WindowsCover ==
    ASSUME NEW positions, NEW c \in Nat, NEW total \in Nat, IsSeq(AllRanges(positions)),
           \A n \in DOMAIN AllRanges(positions) :
              /\ AllRanges(positions)[n].start.line \in 0 .. total - 1
              /\ AllRanges(positions)[n].end.line \in 0 .. total - 1
    PROVE  Windows(BuildHunkSpans(positions, c, total), RangeLines(AllRanges(positions)), c, total)
<1> DEFINE rs == AllRanges(positions)
           li == LineIndices(rs)
           s == SortedValues(li)
           n == Len(s)
           g == GroupIndices(s, c)
           X == RangeLines(rs)
<1>1. \A i \in DOMAIN rs : rs[i].start.line \in Int /\ rs[i].end.line \in Int
  OBVIOUS
<1>2. X \subseteq 0 .. total - 1
  BY DEF RangeLines
<1>3. BuildHunkSpans(positions, c, total) = Clamp(Expand(g, c), 0, total)
  BY DEF BuildHunkSpans
<1> HIDE DEF rs
<1>4. IsSeq(li) /\ ToSet(li) = X
  BY <1>1, LineIndicesHold DEF rs
<1>5. ToSet(li) \subseteq Nat
  BY <1>2, <1>4
<1> HIDE DEF li, X
<1>6. IsSeq(s) /\ Len(s) = Len(li) /\ ToSet(s) = ToSet(li) /\ Increasing(s)
  BY <1>4, <1>5, SortedHolds
<1> HIDE DEF s
<1>7. ToSet(s) \subseteq Int
  BY <1>5, <1>6
<1>8. Windowed(g, s, n, c)
  BY <1>6, <1>7, GroupedHolds
<1>9. n \in Nat /\ DOMAIN s = 1 .. n
  BY <1>6 DEF IsSeq
<1>10. X = {s[m] : m \in 1 .. n}
  BY <1>4, <1>6, <1>9 DEF ToSet
<1>11. \A m \in 1 .. n : s[m] \in 0 .. total - 1
  BY <1>2, <1>10
<1> HIDE DEF g, n
<1>12. Windows(Clamp(Expand(g, c), 0, total), {s[m] : m \in 1 .. n}, c, total)
  BY <1>8, <1>9, <1>11, WidenedWindows
<1> QED
  BY <1>3, <1>10, <1>12 DEF X, rs

\* The lines that some spans name, one span after the other.
LinesOf(ls, spans) == FlattenSeq([p \in DOMAIN spans |-> InSpan(ls, spans[p])])

\* Spans in order within a document of n lines.
InOrder(spans, n) ==
    /\ spans \in Seq(Span)
    /\ \A p \in 1 .. Len(spans) : 0 <= spans[p].start /\ spans[p].start <= spans[p].end /\ spans[p].end <= n
    /\ \A p, q \in 1 .. Len(spans) : p < q => spans[p].end < spans[q].start

\* A line begins a span behind the first.
Begins(spans, l) == \E p \in 2 .. Len(spans) : l = spans[p].start + 1

\* A span within the document names its lines.
LEMMA InSpanHolds ==
    ASSUME NEW ls, NEW n \in Nat, Len(ls) = n, NEW span \in Span, 0 <= span.start, span.start <= span.end, span.end <= n
    PROVE  /\ InSpan(ls, span) \in Seq(Nat) /\ Len(InSpan(ls, span)) = span.end - span.start
           /\ \A j \in 1 .. span.end - span.start : InSpan(ls, span)[j] = span.start + j
<1> DEFINE a == span.start
           b == span.end
           x == InSpan(ls, span)
<1>1. a \in Int /\ b \in Int /\ 0 <= a /\ a <= b /\ b <= n
  BY DEF Span
<1>2. x = [j \in 1 .. Larger(0, Smaller(n, b) - Larger(0, a)) |-> Larger(0, a) + j]
  BY DEF InSpan
<1> HIDE DEF a, b, x
<1>3. Larger(0, a) = a /\ Smaller(n, b) = b
  BY <1>1 DEF Larger, Smaller
<1>4. Larger(0, Smaller(n, b) - Larger(0, a)) = b - a
  BY <1>1, <1>3 DEF Larger
<1>5. x = [j \in 1 .. b - a |-> a + j] /\ b - a \in Nat
  BY <1>1, <1>2, <1>3, <1>4
<1>6. x = [j \in 1 .. b - a |-> x[j]] /\ \A j \in 1 .. b - a : x[j] = a + j /\ x[j] \in Nat
  BY <1>1, <1>5
<1>7. Len(x) = b - a
  <2> DEFINE m == b - a
  <2>1. m \in Nat /\ x = [j \in 1 .. m |-> x[j]]
    BY <1>5, <1>6
  <2> HIDE DEF m
  <2>2. Len(x) = m
    BY <2>1, FirstNumbers
  <2> QED
    BY <2>2 DEF m
<1>8. x \in Seq(Nat)
  BY <1>5, <1>6
<1> QED
  BY <1>6, <1>7, <1>8 DEF a, b, x

\* The lines of the first k spans go up; where one is left out, a span begins.
GoUp(pre, spans, k) ==
    /\ pre \in Seq(Nat)
    /\ \A i \in 1 .. Len(pre) : \E p \in 1 .. k : spans[p].start < pre[i] /\ pre[i] <= spans[p].end
    /\ \A p \in 1 .. k : \A l \in spans[p].start + 1 .. spans[p].end : \E i \in 1 .. Len(pre) : pre[i] = l
    /\ \A i \in 2 .. Len(pre) : pre[i - 1] < pre[i] /\ (pre[i - 1] + 1 < pre[i] => Begins(spans, pre[i]))

\* So do those of one span more.
LEMMA GoUpMore ==
    ASSUME NEW spans, NEW n \in Nat, InOrder(spans, n), NEW k \in Nat, NEW m, m = k + 1, m <= Len(spans),
           NEW pre, GoUp(pre, spans, k), NEW x \in Seq(Nat), Len(x) = spans[m].end - spans[m].start,
           \A j \in 1 .. Len(x) : x[j] = spans[m].start + j
    PROVE  GoUp(pre \o x, spans, m)
<1> DEFINE h == Len(pre)
           w == Len(x)
           new == pre \o x
           a == spans[m].start
           b == spans[m].end
<1>1. pre \in Seq(Nat) /\ h \in Nat /\ w \in Nat /\ m \in 1 .. Len(spans) /\ Len(spans) \in Nat
      /\ (\A p \in 1 .. k : p \in 1 .. m /\ p \in 1 .. Len(spans) /\ p < m) /\ (k > 0 => m \in 2 .. Len(spans))
  BY DEF GoUp, InOrder
<1>2. a \in Int /\ b \in Int /\ w = b - a
  <2>1. spans[m] \in Span
    BY <1>1 DEF InOrder
  <2> QED
    BY <2>1 DEF Span
<1>3. /\ new \in Seq(Nat) /\ Len(new) = h + w
      /\ \A i \in 1 .. h : new[i] = pre[i]
      /\ \A j \in 1 .. w : new[h + j] = x[j]
  <2>1. new \in Seq(Nat) /\ Len(new) = h + w
        /\ \A i \in 1 .. h + w : new[i] = IF i <= h THEN pre[i] ELSE x[i - h]
    BY <1>1, ConcatProperties, ZenonT(40)
  <2>2. \A i \in 1 .. h : i \in 1 .. h + w /\ i <= h
    BY <1>1
  <2>3. \A j \in 1 .. w : h + j \in 1 .. h + w /\ ~(h + j <= h) /\ h + j - h = j
    BY <1>1
  <2> QED
    BY <2>1, <2>2, <2>3
<1> HIDE DEF new, h, w, a, b
<1>4. \A j \in 1 .. w : x[j] = a + j
  BY DEF w, a
<1>5. ASSUME NEW i \in 1 .. h + w, ~(i \in 1 .. h) PROVE \E j \in 1 .. w : i = h + j
  <2>1. i - h \in 1 .. w /\ i = h + (i - h)
    BY <1>1, <1>5
  <2> QED
    BY <2>1
<1>6. ASSUME NEW i \in 1 .. h + w PROVE \E p \in 1 .. m : spans[p].start < new[i] /\ new[i] <= spans[p].end
  <2>1. CASE i \in 1 .. h
    <3>1. PICK p \in 1 .. k : spans[p].start < pre[i] /\ pre[i] <= spans[p].end
      BY <2>1 DEF GoUp, h
    <3>2. p \in 1 .. m /\ new[i] = pre[i]
      BY <1>1, <1>3, <2>1
    <3> QED
      BY <3>1, <3>2
  <2>2. CASE ~(i \in 1 .. h)
    <3>1. PICK j \in 1 .. w : i = h + j
      BY <1>5, <2>2
    <3>2. new[i] = a + j /\ a < a + j /\ a + j <= b
      BY <1>2, <1>3, <1>4, <3>1
    <3>3. spans[m].start < new[i] /\ new[i] <= spans[m].end
      BY <3>2 DEF a, b
    <3>4. m \in 1 .. m
      BY <1>1
    <3> QED
      BY <3>3, <3>4
  <2> QED
    BY <2>1, <2>2
<1>7. ASSUME NEW p \in 1 .. m, NEW l \in spans[p].start + 1 .. spans[p].end
      PROVE  \E i \in 1 .. h + w : new[i] = l
  <2>1. CASE p = m
    <3>1. l \in a + 1 .. b
      BY <1>7, <2>1 DEF a, b
    <3>2. l - a \in 1 .. w /\ a + (l - a) = l /\ h + (l - a) \in 1 .. h + w
      BY <1>1, <1>2, <3>1
    <3>3. new[h + (l - a)] = l
      BY <1>3, <1>4, <3>2
    <3> QED
      BY <3>2, <3>3
  <2>2. CASE p # m
    <3>1. p \in 1 .. k
      BY <2>2
    <3>2. PICK i \in 1 .. h : pre[i] = l
      BY <1>7, <3>1 DEF GoUp, h
    <3>3. i \in 1 .. h + w
      BY <1>1
    <3> QED
      BY <1>3, <3>2, <3>3
  <2> QED
    BY <2>1, <2>2
<1>8. ASSUME NEW i \in 2 .. h + w
      PROVE  new[i - 1] < new[i] /\ (new[i - 1] + 1 < new[i] => Begins(spans, new[i]))
  <2>1. i \in 1 .. h + w /\ i - 1 \in 1 .. h + w
    BY <1>1
  <2>2. CASE i \in 1 .. h
    <3>1. i - 1 \in 1 .. h /\ i \in 2 .. h
      BY <1>1, <2>2
    <3>2. new[i] = pre[i] /\ new[i - 1] = pre[i - 1]
      BY <1>3, <2>2, <3>1
    <3>3. pre[i - 1] < pre[i] /\ (pre[i - 1] + 1 < pre[i] => Begins(spans, pre[i]))
      BY <3>1 DEF GoUp, h
    <3> QED
      BY <3>2, <3>3
  <2>3. CASE ~(i \in 1 .. h)
    <3>1. PICK j \in 1 .. w : i = h + j
      BY <1>5, <2>1, <2>3
    <3>2. new[i] = a + j
      BY <1>3, <1>4, <3>1
    <3>3. CASE j = 1
      <4>1. i - 1 = h /\ h \in 1 .. h
        BY <1>1, <2>1, <3>1, <3>3
      <4>2. PICK p \in 1 .. k : spans[p].start < pre[h] /\ pre[h] <= spans[p].end
        BY <4>1 DEF GoUp, h
      <4>3. spans[p].end < a /\ k > 0
        BY <1>1, <4>2 DEF InOrder, a
      <4>a. new[i - 1] = pre[h]
        BY <1>3, <4>1
      <4>b. pre[h] \in Nat
        BY <1>1, <4>1, SMTT(30) DEF h
      <4>c. spans[p] \in Span
        BY <1>1, <4>2 DEF InOrder
      <4>4. new[i - 1] = pre[h] /\ pre[h] \in Nat /\ spans[p] \in Span
        BY <4>a, <4>b, <4>c
      <4> DEFINE u == pre[h]
                 v == spans[p].end
      <4>5. u \in Int /\ v \in Int /\ u <= v /\ v < a
        BY <4>2, <4>3, <4>4 DEF Span
      <4> HIDE DEF u, v
      <4>6. u < a + 1
        BY <1>2, <4>5
      <4>7. Begins(spans, a + 1)
        BY <1>1, <4>3 DEF Begins, a
      <4> QED
        BY <3>2, <3>3, <4>4, <4>6, <4>7 DEF u
    <3>4. CASE j # 1
      <4>1. j - 1 \in 1 .. w /\ i - 1 = h + (j - 1)
        BY <1>1, <3>1, <3>4
      <4>2. new[i - 1] = a + (j - 1)
        BY <1>3, <1>4, <4>1
      <4>3. a + (j - 1) < a + j /\ ~(a + (j - 1) + 1 < a + j)
        BY <1>2
      <4> QED
        BY <3>2, <4>2, <4>3
    <3> QED
      BY <3>3, <3>4
  <2> QED
    BY <2>2, <2>3
<1> QED
  BY <1>3, <1>6, <1>7, <1>8 DEF GoUp, new

\* The lines of spans in order go up, and they are those that lie in one.
LEMMA LinesOfHold ==
    ASSUME NEW ls, NEW n \in Nat, Len(ls) = n, NEW spans, InOrder(spans, n)
    PROVE  GoUp(LinesOf(ls, spans), spans, Len(spans))
<1> DEFINE L == Len(spans)
           ss == [p \in 1 .. L |-> InSpan(ls, spans[p])]
           pre(k) == FlattenSeq(SubSeq(ss, 1, k))
           Y == {k \in 0 .. L : GoUp(pre(k), spans, k)}
<1>1. spans \in Seq(Span) /\ L \in Nat /\ DOMAIN spans = 1 .. L
  BY DEF InOrder
<1>2. LinesOf(ls, spans) = FlattenSeq(ss)
  BY <1>1, Zenon DEF LinesOf
<1>3. ASSUME NEW p \in 1 .. L
      PROVE  /\ ss[p] \in Seq(Nat) /\ Len(ss[p]) = spans[p].end - spans[p].start
             /\ \A j \in 1 .. Len(ss[p]) : ss[p][j] = spans[p].start + j
  <2> DEFINE span == spans[p]
  <2>1. span \in Span /\ 0 <= span.start /\ span.start <= span.end /\ span.end <= n
    BY <1>1 DEF InOrder
  <2>2. ss[p] = InSpan(ls, span)
    OBVIOUS
  <2> HIDE DEF span, ss
  <2>3. InSpan(ls, span) \in Seq(Nat) /\ Len(InSpan(ls, span)) = span.end - span.start
        /\ \A j \in 1 .. span.end - span.start : InSpan(ls, span)[j] = span.start + j
    BY <2>1, InSpanHolds
  <2> QED
    BY <2>2, <2>3 DEF span
<1>4. ss = [p \in 1 .. L |-> ss[p]]
  OBVIOUS
<1> HIDE DEF ss
<1>5. ss \in Seq(Seq(Nat)) /\ Len(ss) = L
  <2>1. Len(ss) = L
    BY <1>1, <1>4, FirstNumbers
  <2>2. ss \in [1 .. L -> Seq(Nat)]
    BY <1>3, <1>4
  <2> QED
    BY <1>1, <2>1, <2>2
<1>6. 0 \in Y
  <2>1. SubSeq(ss, 1, 0) = <<>>
    BY <1>5
  <2>2. pre(0) = <<>>
    BY <2>1, FlattenNothing
  <2>3. <<>> \in Seq(Nat) /\ Len(<<>>) = 0
    OBVIOUS
  <2>4. GoUp(<<>>, spans, 0)
    BY <2>3 DEF GoUp
  <2> QED
    BY <1>1, <2>2, <2>4
<1>7. ASSUME NEW k \in 0 .. L - 1, k \in Y PROVE k + 1 \in Y
  <2> DEFINE m == k + 1
             x == ss[m]
             g == pre(k)
  <2>1. m \in 1 .. L /\ k \in Nat /\ m - 1 = k /\ m <= L /\ m \in 0 .. L
    BY <1>1
  <2>2. x \in Seq(Nat) /\ Len(x) = spans[m].end - spans[m].start /\ \A j \in 1 .. Len(x) : x[j] = spans[m].start + j
    BY <1>3, <2>1
  <2>3. GoUp(g, spans, k) /\ m = k + 1
    BY <1>7
  <2> HIDE DEF m, Y
  <2>4. pre(m) = pre(k) \o x
    <3>1. FlattenSeq(SubSeq(ss, 1, m)) = FlattenSeq(SubSeq(ss, 1, m - 1)) \o ss[m]
      BY <1>5, <2>1, FlattenPrefix
    <3> QED
      BY <2>1, <3>1
  <2> HIDE DEF pre, x, g
  <2>5. GoUp(g \o x, spans, m)
    BY <2>1, <2>2, <2>3, GoUpMore
  <2> QED
    BY <2>1, <2>4, <2>5 DEF Y, g, m
<1> HIDE DEF Y
<1>8. 0 .. L \subseteq Y
  BY <1>1, <1>6, <1>7, Upward
<1>9. GoUp(pre(L), spans, L)
  BY <1>1, <1>8 DEF Y
<1>10. SubSeq(ss, 1, L) = ss
  BY <1>5
<1> QED
  BY <1>2, <1>9, <1>10

\* The lines of placed ranges are the lines of their cells.
LEMMA CellLines ==
    ASSUME NEW rs, NEW n \in Nat, IsSeq(rs), \A r \in ToSet(rs) : Placed(r, n)
    PROVE  RangeLines(rs) = {p.line : p \in RangeCells(rs)}
<1> DEFINE cells(i) == {Pos(rs[i].start.line, c) : c \in rs[i].start.col .. rs[i].end.col - 1}
<1>1. RangeCells(rs) = UNION {cells(i) : i \in DOMAIN rs}
  BY Zenon DEF RangeCells
<1>2. ASSUME NEW i \in DOMAIN rs
      PROVE  /\ rs[i].start.line .. rs[i].end.line = {rs[i].start.line}
             /\ {p.line : p \in cells(i)} = {rs[i].start.line}
  <2> DEFINE r == rs[i]
             l == r.start.line
             a == r.start.col
             b == r.end.col
  <2>1. Placed(r, n)
    BY DEF ToSet
  <2>2. l \in 0 .. n - 1 /\ r.end.line = l /\ a \in Int /\ b \in Int /\ a < b
    BY <2>1 DEF Placed
  <2>3. cells(i) = {Pos(l, c) : c \in a .. b - 1}
    OBVIOUS
  <2> HIDE DEF l, a, b, cells
  <2>4. l .. l = {l}
    BY <2>2
  <2>5. \A c : Pos(l, c).line = l
    BY DEF Pos
  <2>6. a \in a .. b - 1
    BY <2>2
  <2>7. {p.line : p \in cells(i)} = {l}
    BY <2>3, <2>5, <2>6
  <2> QED
    BY <2>2, <2>4, <2>7 DEF l
<1>3. RangeLines(rs) = UNION {{p.line : p \in cells(i)} : i \in DOMAIN rs}
  <2> HIDE DEF cells
  <2>1. \A i \in DOMAIN rs : rs[i].start.line .. rs[i].end.line = {p.line : p \in cells(i)}
    BY <1>2
  <2> QED
    BY <2>1 DEF RangeLines
<1>4. {p.line : p \in RangeCells(rs)} = UNION {{p.line : p \in cells(i)} : i \in DOMAIN rs}
  <2> HIDE DEF cells
  <2> QED
    BY <1>1
<1> QED
  BY <1>3, <1>4

------------------------------------------------------------
(* What the rows of a line say beside its text.                            *)

\* A bounded set of numbers that has members has a greatest.
LEMMA GreatestOf ==
    ASSUME NEW n \in Nat, NEW X, X \subseteq 0 .. n, X # {}
    PROVE  Max(X) \in X
<1> DEFINE Y == {n - x : x \in X}
<1>1. Y \subseteq 0 .. n /\ Y # {}
  <2>1. \A x \in X : x \in Int /\ n - x \in 0 .. n
    OBVIOUS
  <2> QED
    BY <2>1
<1> HIDE DEF Y
<1>2. PICK m \in Y : \A k \in Y : m <= k
  BY <1>1, Least
<1>3. PICK x \in X : m = n - x
  BY DEF Y
<1>4. \A y \in X : x >= y
  <2> SUFFICES ASSUME NEW y \in X PROVE x >= y
    OBVIOUS
  <2>1. n - y \in Y
    BY DEF Y
  <2>2. n - x <= n - y /\ x \in Int /\ y \in Int
    BY <1>2, <1>3, <2>1
  <2> QED
    BY <2>2
<1> QED
  BY <1>4, Zenon DEF Max

\* Wrapped rows are a sequence.
LEMMA WrapSeq ==
    ASSUME NEW s, Len(s) \in Nat, NEW runes, NEW width \in Nat
    PROVE  IsSeq(Wrap(s, runes, width))
<1> DEFINE h == Len(s)
           n == h + 1
           ends(i) == width <= 0 \/ h - i + 1 <= width
           breaks(i) == {j \in i + 1 .. i + width : runes[j] = SP}
           last(i) == << SubSeq(s, i, h) >>
           full(i) == << SubSeq(s, i, i + width - 1) >>
           cut(i) == << SubSeq(s, i, Max(breaks(i)) - 1) >>
           Row(f, i) == f[i] = IF ends(i) THEN last(i)
                               ELSE IF breaks(i) = {} THEN full(i) \o f[i + width]
                               ELSE cut(i) \o f[Max(breaks(i)) + 1]
           Y == {k \in 0 .. n - 1 : \E f : \A i \in n - k .. n : Row(f, i)}
<1>1. n \in Nat /\ n >= 1 /\ h = n - 1
  OBVIOUS
<1>2. ASSUME NEW i \in 1 .. n, ~ends(i)
      PROVE  i + width \in i + 1 .. n /\ (breaks(i) # {} => Max(breaks(i)) + 1 \in i + 1 .. n)
  <2>1. width > 0 /\ i + width <= h
    BY <1>1, <1>2
  <2>2. breaks(i) # {} => Max(breaks(i)) \in breaks(i)
    <3> DEFINE X == breaks(i)
    <3>1. i + width \in Nat /\ X \subseteq 0 .. i + width
      OBVIOUS
    <3> HIDE DEF X
    <3>2. X # {} => Max(X) \in X
      BY <3>1, GreatestOf
    <3> QED
      BY <3>2 DEF X
  <2>3. breaks(i) # {} => Max(breaks(i)) \in i + 1 .. i + width
    BY <2>2
  <2> HIDE DEF breaks
  <2> QED
    BY <1>1, <2>1, <2>3
<1>3. ends(n)
  BY <1>1
<1> HIDE DEF ends, breaks, last, full, cut, n
<1>4. 0 \in Y
  <2>1. \A i \in n - 0 .. n : Row([x \in {n} |-> last(n)], i)
    BY <1>1, <1>3
  <2> HIDE DEF Row
  <2>2. \E f : \A i \in n - 0 .. n : Row(f, i)
    BY <2>1
  <2> QED
    BY <1>1, <2>2
<1>5. ASSUME NEW k \in 0 .. (n - 1) - 1, k \in Y PROVE k + 1 \in Y
  <2> DEFINE m == n - (k + 1)
             first(f) == IF ends(m) THEN last(m)
                         ELSE IF breaks(m) = {} THEN full(m) \o f[m + width]
                         ELSE cut(m) \o f[Max(breaks(m)) + 1]
  <2>1. m \in 1 .. n /\ n - k = m + 1 /\ k + 1 \in 0 .. n - 1
    BY <1>1
  <2>2. \E f : \A i \in n - k .. n : Row(f, i)
    BY <1>5
  <2> HIDE DEF m, Row
  <2>3. PICK f : \A i \in m + 1 .. n : Row(f, i)
    BY <2>1, <2>2
  <2> DEFINE g == [i \in m .. n |-> IF i = m THEN first(f) ELSE f[i]]
  <2>4. g[m] = first(f) /\ \A i \in m + 1 .. n : g[i] = f[i]
    <3> HIDE DEF first
    <3> QED
      BY <1>1, <2>1
  <2> HIDE DEF g
  <2>5. ASSUME NEW i \in m .. n PROVE Row(g, i)
    <3>1. i \in 1 .. n /\ i + 1 \in Int /\ m + 1 <= i + 1
      BY <1>1, <2>1
    <3>2. ~ends(i) => i + width \in m + 1 .. n /\ (breaks(i) # {} => Max(breaks(i)) + 1 \in m + 1 .. n)
      <4>1. ~ends(i) => i + width \in i + 1 .. n /\ (breaks(i) # {} => Max(breaks(i)) + 1 \in i + 1 .. n)
        BY <1>2, <3>1
      <4>2. \A x \in i + 1 .. n : x \in m + 1 .. n
        BY <1>1, <2>1, <3>1
      <4> QED
        BY <4>1, <4>2
    <3>3. ~ends(i) => /\ g[i + width] = f[i + width]
                      /\ breaks(i) # {} => g[Max(breaks(i)) + 1] = f[Max(breaks(i)) + 1]
      BY <2>4, <3>2
    <3>4. CASE i = m
      <4>1. g[i] = first(f)
        BY <2>4, <3>4
      <4> QED
        BY <3>3, <3>4, <4>1 DEF Row
    <3>5. CASE i # m
      <4>1. i \in m + 1 .. n
        BY <1>1, <2>1, <3>5
      <4>2. g[i] = f[i] /\ Row(f, i)
        BY <2>3, <2>4, <4>1
      <4> QED
        BY <3>3, <4>2 DEF Row
    <3> QED
      BY <3>4, <3>5
  <2>6. \E f2 : \A i \in m .. n : Row(f2, i)
    BY <2>5
  <2> QED
    BY <2>1, <2>6 DEF m
<1> HIDE DEF Y
<1>6. PICK f : \A i \in 1 .. n : Row(f, i)
  <2>1. 0 .. n - 1 \subseteq Y
    BY <1>1, <1>4, <1>5, Upward
  <2>2. n - 1 \in Y /\ n - (n - 1) = 1
    BY <1>1, <2>1
  <2> QED
    BY <2>2 DEF Y
<1> DEFINE Is(g) == g = [i \in 1 .. n |-> IF ends(i) THEN last(i)
                                         ELSE IF breaks(i) = {} THEN full(i) \o g[i + width]
                                         ELSE cut(i) \o g[Max(breaks(i)) + 1]]
           e == [i \in 1 .. n |-> f[i]]
           r == CHOOSE g : Is(g)
<1>7. Is(e)
  <2>1. ASSUME NEW i \in 1 .. n
        PROVE  e[i] = IF ends(i) THEN last(i)
                      ELSE IF breaks(i) = {} THEN full(i) \o e[i + width]
                      ELSE cut(i) \o e[Max(breaks(i)) + 1]
    <3>1. \A x \in i + 1 .. n : x \in 1 .. n
      BY <1>1
    <3>2. ~ends(i) => /\ e[i + width] = f[i + width]
                      /\ breaks(i) # {} => e[Max(breaks(i)) + 1] = f[Max(breaks(i)) + 1]
      BY <1>2, <3>1
    <3>3. e[i] = f[i] /\ Row(f, i)
      BY <1>6
    <3> HIDE DEF e
    <3> QED
      BY <3>2, <3>3
  <2>2. e = [i \in 1 .. n |-> e[i]]
    OBVIOUS
  <2> HIDE DEF e
  <2> QED
    BY <2>1, <2>2
<1> HIDE DEF Is, e
<1>8. Is(r)
  BY <1>7
<1>9. Wrap(s, runes, width) = r[1]
  BY Zenon DEF Wrap, Is, r, n, h, ends, breaks, last, full, cut
<1> HIDE DEF r
<1>10. \A i \in 1 .. n : Row(r, i)
  BY <1>8 DEF Is
<1> DEFINE Z == {k \in 0 .. n - 1 : \A i \in n - k .. n : IsSeq(r[i])}
<1>11. \A x : IsSeq(<<x>>)
  BY FewSeq
<1>12. 0 \in Z
  <2>1. \A i \in n - 0 .. n : i = n /\ i \in 1 .. n
    BY <1>1
  <2>2. r[n] = last(n)
    BY <1>1, <1>3, <1>10
  <2>3. IsSeq(r[n])
    BY <1>11, <2>2 DEF last
  <2> QED
    BY <1>1, <2>1, <2>3
<1>13. ASSUME NEW k \in 0 .. (n - 1) - 1, k \in Z PROVE k + 1 \in Z
  <2> DEFINE m == n - (k + 1)
  <2>1. m \in 1 .. n /\ n - k = m + 1 /\ k + 1 \in 0 .. n - 1
    BY <1>1
  <2>2. \A i \in m + 1 .. n : IsSeq(r[i])
    BY <1>13, <2>1
  <2> HIDE DEF m
  <2>3. IsSeq(r[m])
    <3>1. Row(r, m)
      BY <1>10, <2>1
    <3>2. CASE ends(m)
      <4>1. r[m] = last(m)
        BY <3>1, <3>2
      <4> QED
        BY <1>11, <4>1 DEF last
    <3>3. CASE ~ends(m) /\ breaks(m) = {}
      <4> DEFINE a == full(m)
                 b == r[m + width]
      <4>1. m + width \in m + 1 .. n
        BY <1>2, <2>1, <3>3
      <4>2. r[m] = a \o b /\ IsSeq(b)
        BY <2>2, <3>1, <3>3, <4>1
      <4>3. IsSeq(a)
        BY <1>11 DEF full
      <4> HIDE DEF a, b
      <4>4. IsSeq(a \o b)
        BY <4>2, <4>3, ConcatIsSeq
      <4> QED
        BY <4>2, <4>4
    <3>4. CASE ~ends(m) /\ breaks(m) # {}
      <4> DEFINE a == cut(m)
                 b == r[Max(breaks(m)) + 1]
      <4>1. Max(breaks(m)) + 1 \in m + 1 .. n
        BY <1>2, <2>1, <3>4
      <4>2. r[m] = a \o b /\ IsSeq(b)
        BY <2>2, <3>1, <3>4, <4>1
      <4>3. IsSeq(a)
        BY <1>11 DEF cut
      <4> HIDE DEF a, b
      <4>4. IsSeq(a \o b)
        BY <4>2, <4>3, ConcatIsSeq
      <4> QED
        BY <4>2, <4>4
    <3> QED
      BY <3>2, <3>3, <3>4
  <2>4. \A i \in m .. n : i = m \/ i \in m + 1 .. n
    BY <1>1, <2>1
  <2>5. \A i \in m .. n : IsSeq(r[i])
    BY <2>2, <2>3, <2>4
  <2> QED
    BY <2>1, <2>5 DEF m
<1> HIDE DEF Z
<1>14. IsSeq(r[1])
  <2>1. 0 .. n - 1 \subseteq Z
    BY <1>1, <1>12, <1>13, Upward
  <2>2. n - 1 \in Z /\ n - (n - 1) = 1 /\ 1 \in 1 .. n
    BY <1>1, <2>1
  <2> QED
    BY <2>2 DEF Z
<1> QED
  BY <1>9, <1>14

\* A separator is as wide as some text.
LEMMA SeparatorType ==
    ASSUME NEW part \in Tokens
    PROVE  SeparatorWidth(part) \in Int
<1> DEFINE text == TrimNL(part.origin)
           n == LeadingCount(text, SP)
           starts == {i \in 1 .. Len(text) - Len(part.value) + 1 :
                        SubSeq(text, i, i + Len(part.value) - 1) = part.value}
           offset == IF starts = {} THEN 0 ELSE Min(starts) - 1
<1>1. SeparatorWidth(part) = IF offset <= n THEN offset ELSE 0
  BY Zenon DEF SeparatorWidth
<1>2. starts \subseteq Nat
  <2> DEFINE S == STRING
             k == Len(text) - Len(part.value) + 1
  <2>1. text \in Seq(S) /\ part.value \in Seq(S)
    BY TextType DEF Tokens
  <2> HIDE DEF S, text
  <2>2. k \in Int
    BY <2>1
  <2> HIDE DEF k
  <2>3. \A i \in 1 .. k : i \in Nat
    BY <2>2
  <2> QED
    BY <2>3 DEF k
<1> HIDE DEF starts
<1>3. starts # {} => Min(starts) \in starts
  BY <1>2, LeastOf
<1>4. offset \in Int
  <2>1. starts # {} => Min(starts) \in Nat
    BY <1>2, <1>3
  <2> QED
    BY <2>1
<1> HIDE DEF offset, n
<1> QED
  BY <1>1, <1>4

\* A line without its annotations is printed as a sequence of rows.
LEMMA WriteLineSeq ==
    ASSUME NEW l, l.segments \in Seq(Seg), NEW width \in Nat
    PROVE  IsSeq(WriteLine(l, width))
<1> DEFINE segs == l.segments
           m == Len(segs)
           x(j) == RenderSegment(segs[j], ColOf(segs, j), l.overlays)
           ss == [j \in 1 .. m |-> x(j)]
           cells == RenderTokenLine(l)
<1>1. segs \in Seq(Seg)
  OBVIOUS
<1> HIDE DEF segs
<1>2. m \in Nat /\ DOMAIN segs = 1 .. m
  BY <1>1
<1>3. ASSUME NEW s, NEW a \in Int, NEW b \in Int, NEW col, NEW base
      PROVE  IsSeq(StyleWithRanges(SubSeq(s, a, b), col, base, l.overlays))
  <2> DEFINE text == SubSeq(s, a, b)
             S == {s[i] : i \in a .. b}
             f == StyleWithRanges(text, col, base, l.overlays)
  <2>1. \A i \in a .. b : s[i] \in S
    OBVIOUS
  <2> HIDE DEF S
  <2>2. text \in Seq(S)
    BY <2>1, SubSeqProperties
  <2> HIDE DEF text
  <2>3. Len(text) \in Nat /\ DOMAIN text = 1 .. Len(text)
    BY <2>2
  <2>4. f = [i \in DOMAIN text |-> f[i]]
    BY DEF StyleWithRanges
  <2>5. f = [i \in 1 .. Len(text) |-> f[i]]
    BY <2>3, <2>4
  <2> HIDE DEF f
  <2>6. IsSeq(f)
    BY <2>3, <2>5, FirstNumbers
  <2> QED
    BY <2>6 DEF f, text
<1>4. ASSUME NEW j \in 1 .. m PROVE IsSeq(x(j))
  <2> DEFINE part == segs[j].part
             text == TrimNL(part.origin)
             n == SeparatorWidth(part)
             k == n + 1
             col == ColOf(segs, j)
             h == Len(text)
             a == StyleWithRanges(SubSeq(text, 1, n), col, "text", l.overlays)
             b == StyleWithRanges(SubSeq(text, k, h), col + n, part.type, l.overlays)
  <2>1. part \in Tokens
    <3>1. segs[j] \in Seg
      BY <1>1, <1>2
    <3> QED
      BY <3>1 DEF Seg
  <2>2. n \in Int
    BY <2>1, SeparatorType
  <2>3. h \in Int
    <3> HIDE DEF part
    <3>1. text \in Seq(STRING)
      BY <2>1, TextType
    <3> QED
      BY <3>1
  <2>4. x(j) = a \o b
    BY Zenon DEF RenderSegment
  <2> HIDE DEF n, h, text, col
  <2>5. k \in Int
    BY <2>2
  <2> HIDE DEF k
  <2>6. IsSeq(a) /\ IsSeq(b)
    BY <1>3, <2>2, <2>3, <2>5
  <2> HIDE DEF a, b
  <2>7. IsSeq(a \o b)
    BY <2>6, ConcatIsSeq
  <2> QED
    BY <2>4, <2>7
<1>5. ss = [j \in 1 .. m |-> ss[j]] /\ \A j \in 1 .. m : ss[j] = x(j)
  OBVIOUS
<1>6. cells = FlattenSeq(ss)
  BY <1>2, Zenon DEF RenderTokenLine, segs
<1> HIDE DEF ss, x, m
<1>7. IsSeq(ss) /\ Len(ss) = m
  BY <1>2, <1>5, FirstNumbers
<1>8. IsSeq(cells)
  BY <1>4, <1>5, <1>6, <1>7, FlattenIsSeq
<1>9. Len(cells) \in Nat
  BY <1>8 DEF IsSeq
<1> HIDE DEF cells
<1>10. IsSeq(Wrap(cells, RunesOf(cells), width))
  BY <1>9, WrapSeq
<1> DEFINE text == Content(l)
           rows == Wrap(text, text, width)
<1>11. Len(text) \in Nat
  <2> DEFINE ts == [j \in 1 .. m |-> TrimEOL(segs[j].part.origin)]
             S == STRING
  <2>1. text = FlattenSeq(ts)
    BY <1>2, Zenon DEF Content, segs, m
  <2>2. ASSUME NEW j \in 1 .. m PROVE ts[j] \in Seq(S)
    <3> DEFINE part == segs[j].part
    <3>1. segs[j] \in Seg
      BY <1>1, <1>2
    <3>2. part \in Tokens
      BY <3>1 DEF Seg
    <3> HIDE DEF part
    <3>3. TrimEOL(part.origin) \in Seq(STRING)
      BY <3>2, TextType
    <3> QED
      BY <3>3 DEF part
  <2> HIDE DEF S
  <2>3. ts \in [1 .. m -> Seq(S)]
    BY <2>2
  <2> HIDE DEF ts
  <2>4. ts \in Seq(Seq(S))
    BY <1>2, <2>3
  <2>5. FlattenSeq(ts) \in Seq(S)
    BY <2>4, FlattenType
  <2> HIDE DEF text
  <2> QED
    BY <2>1, <2>5
<1> HIDE DEF text
<1>12. IsSeq(rows)
  BY <1>11, WrapSeq
<1> HIDE DEF rows
<1>13. IsSeq(WriteChanged(l, width))
  <2> DEFINE f == WriteChanged(l, width)
             k == Len(rows)
  <2>1. f = [i \in DOMAIN rows |-> f[i]]
    BY DEF WriteChanged, rows, text
  <2>2. k \in Nat /\ DOMAIN rows = 1 .. k
    BY <1>12 DEF IsSeq
  <2> HIDE DEF f, k
  <2>3. IsSeq(f)
    BY <2>1, <2>2, FirstNumbers
  <2> QED
    BY <2>3 DEF f
<1>14. WriteLine(l, width) = IF l.flag = "default" THEN Wrap(cells, RunesOf(cells), width) ELSE WriteChanged(l, width)
  BY Zenon DEF WriteLine, cells
<1> QED
  BY <1>10, <1>13, <1>14

\* The annotations of a line are sequences of messages.
Notes(l) == IsSeq(l.annotations) /\ \A a \in ToSet(l.annotations) : IsSeq(a.content)

\* The messages of a line on one side of it.
NotesAt(l, position) ==
    UNION {ToSet(a.content) : a \in {b \in ToSet(l.annotations) : b.position = position}}

\* The row on one side of a line has its messages.
LEMMA AnnotationRowsHold ==
    ASSUME NEW l, Notes(l), NEW position
    PROVE  /\ IsSeq(AnnotationRows(l, position))
           /\ \A row \in ToSet(AnnotationRows(l, position)) : ToSet(row.notes) = NotesAt(l, position)
           /\ NotesAt(l, position) # {} => Len(AnnotationRows(l, position)) = 1
<1> DEFINE n == Len(l.annotations)
           notes == l.annotations
           on == {k \in 1 .. n : notes[k].position = position}
           ss == [k \in 1 .. n |-> IF k \in on THEN notes[k].content ELSE <<>>]
           row == [number |-> Number(l), soft |-> FALSE, flag |-> "annotation", cells |-> <<>>,
                   notes |-> FlattenSeq(ss)]
<1>1. n \in Nat /\ DOMAIN notes = 1 .. n /\ \A k \in 1 .. n : notes[k] \in ToSet(notes) /\ IsSeq(notes[k].content)
  BY DEF Notes, IsSeq, ToSet
<1>2. AnnotationRows(l, position) = IF on = {} THEN <<>> ELSE << row >>
  <2>1. on = {k \in DOMAIN l.annotations : l.annotations[k].position = position}
    BY <1>1
  <2>2. ss = [k \in DOMAIN l.annotations |-> IF k \in on THEN l.annotations[k].content ELSE <<>>]
    BY <1>1
  <2> HIDE DEF on, ss
  <2> QED
    BY <2>1, <2>2, Zenon DEF AnnotationRows
<1>3. ss = [k \in 1 .. n |-> ss[k]] /\ \A k \in 1 .. n : ss[k] = IF k \in on THEN notes[k].content ELSE <<>>
  OBVIOUS
<1>4. NotesAt(l, position) = UNION {ToSet(notes[k].content) : k \in on}
  <2>1. {b \in ToSet(notes) : b.position = position} = {notes[k] : k \in on}
    BY <1>1 DEF ToSet
  <2> HIDE DEF notes, on
  <2> QED
    BY <2>1 DEF NotesAt, notes
<1> HIDE DEF notes, ss
<1>0. IsSeq(<<>>) /\ ToSet(<<>>) = {}
  BY FewSeq DEF ToSet
<1>5. \A k \in 1 .. n : IsSeq(ss[k]) /\ ToSet(ss[k]) = IF k \in on THEN ToSet(notes[k].content) ELSE {}
  BY <1>0, <1>1, <1>3
<1> HIDE DEF n
<1>6. IsSeq(ss) /\ Len(ss) = n
  BY <1>1, <1>3, FirstNumbers
<1>7. ToSet(FlattenSeq(ss)) = UNION {ToSet(ss[k]) : k \in 1 .. n}
  BY <1>5, <1>6, FlattenIsSeq
<1>8. UNION {ToSet(ss[k]) : k \in 1 .. n} = UNION {ToSet(notes[k].content) : k \in on}
  BY <1>5
<1>9. row.notes = FlattenSeq(ss)
  OBVIOUS
<1> HIDE DEF row, on
<1>10. IsSeq(<<row>>) /\ ToSet(<<row>>) = {row} /\ Len(<<row>>) = 1
  BY FewSeq
<1>11. on = {} => NotesAt(l, position) = {}
  BY <1>4
<1> QED
  BY <1>0, <1>2, <1>4, <1>7, <1>8, <1>9, <1>10, <1>11

\* A line's first row has what is said above it, its last one what is said
\* below it, and no row says anything else.
LEMMA RowsHold ==
    ASSUME NEW l, l.segments \in Seq(Seg), Notes(l), NEW width \in Nat
    PROVE  /\ NotesAt(l, "above") # {} => ToSet(RenderLine(l, width)[1].notes) = NotesAt(l, "above")
           /\ NotesAt(l, "below") # {} => ToSet(Last(RenderLine(l, width)).notes) = NotesAt(l, "below")
           /\ \A r \in DOMAIN RenderLine(l, width) :
                 ToSet(RenderLine(l, width)[r].notes) \subseteq NotesAt(l, "above") \cup NotesAt(l, "below")
<1> DEFINE written == WriteLine(l, width)
           k == Len(written)
           above == AnnotationRows(l, "above")
           below == AnnotationRows(l, "below")
           text == [n \in 1 .. k |-> TextRow(l, n > 1, written[n])]
           top == above \o text
           rows == RenderLine(l, width)
<1>1. IsSeq(written)
  BY WriteLineSeq
<1>2. k \in Nat /\ DOMAIN written = 1 .. k
  BY <1>1 DEF IsSeq
<1>3. rows = top \o below
  BY <1>2, Zenon DEF RenderLine
<1>4. /\ IsSeq(above) /\ \A row \in ToSet(above) : ToSet(row.notes) = NotesAt(l, "above")
      /\ NotesAt(l, "above") # {} => Len(above) = 1
  BY AnnotationRowsHold
<1>5. /\ IsSeq(below) /\ \A row \in ToSet(below) : ToSet(row.notes) = NotesAt(l, "below")
      /\ NotesAt(l, "below") # {} => Len(below) = 1
  BY AnnotationRowsHold
<1>6. text = [n \in 1 .. k |-> text[n]] /\ \A n \in 1 .. k : text[n].notes = <<>>
  BY DEF TextRow
<1> HIDE DEF text, written, k, above, below, rows
<1>7. IsSeq(text) /\ DOMAIN text = 1 .. k
  BY <1>2, <1>6, FirstNumbers
<1>8. \A row \in ToSet(text) : ToSet(row.notes) = {}
  <2>1. ToSet(<<>>) = {}
    BY FewSeq DEF ToSet
  <2> QED
    BY <1>6, <1>7, <2>1 DEF ToSet
<1>9. IsSeq(top) /\ ToSet(top) = ToSet(above) \cup ToSet(text)
  BY <1>4, <1>7, ConcatIsSeq
<1> DEFINE S == ToSet(above) \cup ToSet(text) \cup ToSet(below)
           a == Len(above)
           t == Len(text)
           b == Len(below)
<1>10. above \in Seq(S) /\ text \in Seq(S) /\ below \in Seq(S) /\ top \in Seq(S) /\ a \in Nat /\ t \in Nat /\ b \in Nat
  <2>1. \A s : IsSeq(s) /\ ToSet(s) \subseteq S => s \in Seq(S) /\ Len(s) \in Nat
    <3> HIDE DEF S
    <3> QED
      BY DEF IsSeq
  <2>2. ToSet(above) \subseteq S /\ ToSet(text) \subseteq S /\ ToSet(below) \subseteq S /\ ToSet(top) \subseteq S
    BY <1>9
  <2> HIDE DEF S
  <2> QED
    BY <1>4, <1>5, <1>7, <1>9, <2>1, <2>2
<1> HIDE DEF S
<1>11. /\ Len(top) = a + t
       /\ \A i \in 1 .. a + t : top[i] = IF i <= a THEN above[i] ELSE text[i - a]
  BY <1>10, ConcatProperties
<1> HIDE DEF top
<1>12. /\ Len(rows) = Len(top) + b /\ DOMAIN rows = 1 .. Len(rows)
       /\ \A i \in 1 .. Len(top) + b : rows[i] = IF i <= Len(top) THEN top[i] ELSE below[i - Len(top)]
  <2>1. rows \in Seq(S)
    BY <1>3, <1>10, ConcatProperties
  <2> QED
    BY <1>3, <1>10, <2>1, ConcatProperties
<1>13. ASSUME NotesAt(l, "above") # {} PROVE ToSet(rows[1].notes) = NotesAt(l, "above")
  <2>1. a = 1
    BY <1>4, <1>13
  <2>2. 1 \in 1 .. a + t /\ 1 \in 1 .. Len(top) + b /\ 1 <= Len(top) /\ 1 <= a
    BY <1>10, <1>11, <2>1
  <2>3. rows[1] = above[1]
    BY <1>11, <1>12, <2>2
  <2>4. above[1] \in ToSet(above)
    BY <1>10, <2>1 DEF ToSet
  <2> QED
    BY <1>4, <2>3, <2>4
<1>14. ASSUME NotesAt(l, "below") # {} PROVE ToSet(Last(rows).notes) = NotesAt(l, "below")
  <2>1. b = 1
    BY <1>5, <1>14
  <2> DEFINE i == Len(top) + 1
  <2>2. Len(rows) = i /\ i \in 1 .. Len(top) + b /\ ~(i <= Len(top)) /\ i - Len(top) = 1
    BY <1>10, <1>11, <1>12, <2>1
  <2> HIDE DEF i
  <2>3. rows[i] = below[1]
    BY <1>12, <2>2
  <2>4. Last(rows) = below[1]
    BY <2>2, <2>3 DEF Last
  <2>5. below[1] \in ToSet(below)
    BY <1>10, <2>1 DEF ToSet
  <2> QED
    BY <1>5, <2>4, <2>5
<1>15. ASSUME NEW r \in DOMAIN rows
       PROVE  ToSet(rows[r].notes) \subseteq NotesAt(l, "above") \cup NotesAt(l, "below")
  <2>1. rows[r] \in ToSet(above) \cup ToSet(text) \cup ToSet(below)
    <3>1. r \in 1 .. a + t + b
      BY <1>11, <1>12
    <3>2. CASE r <= a
      <4>1. r \in 1 .. a /\ rows[r] = above[r]
        BY <1>10, <1>11, <1>12, <3>1, <3>2
      <4> QED
        BY <1>10, <4>1 DEF ToSet
    <3>3. CASE ~(r <= a) /\ r <= a + t
      <4>1. r - a \in 1 .. t /\ rows[r] = text[r - a]
        BY <1>10, <1>11, <1>12, <3>1, <3>3
      <4> QED
        BY <1>10, <4>1 DEF ToSet
    <3>4. CASE ~(r <= a + t)
      <4>1. r - (a + t) \in 1 .. b /\ rows[r] = below[r - (a + t)]
        BY <1>10, <1>11, <1>12, <3>1, <3>4
      <4> QED
        BY <1>10, <4>1 DEF ToSet
    <3> QED
      BY <3>2, <3>3, <3>4
  <2> QED
    BY <1>4, <1>5, <1>8, <2>1
<1> QED
  BY <1>13, <1>14, <1>15 DEF rows

\* The record of a nested error has a line.
LEMMA NestedLine ==
    ASSUME NEW nested \in Seq([token : Nat, line : Nat \ {0}, col : Nat]), NEW m \in 1 .. Len(nested)
    PROVE  nested[m].line \in Nat \ {0}
<1> DEFINE R == [token : Nat, line : Nat \ {0}, col : Nat]
<1>1. \A r \in R : r.line \in Nat \ {0}
  OBVIOUS
<1>2. nested \in Seq(R)
  OBVIOUS
<1> HIDE DEF R
<1>3. nested[m] \in R
  BY <1>2
<1> QED
  BY <1>1, <1>3

\* The nested errors have a message each, at their lines.
LEMMA CollectedMessages ==
    ASSUME NEW ls, Len(ls) \in Nat, NEW ts, NEW main, NEW nested \in Seq([token : Nat, line : Nat \ {0}, col : Nat])
    PROVE  LET positions == CollectPositions(ls, ts, main, nested)
           IN  /\ IsSeq(positions)
               /\ \A e \in ToSet(positions) :
                     e.messages = <<>> \/ \E m \in 1 .. Len(nested) : e.messages = <<m>> /\ e.pos.line = nested[m].line - 1
               /\ \A m \in 1 .. Len(nested) : nested[m].line <= Len(ls) =>
                     \E e \in ToSet(positions) : e.messages = <<m>> /\ e.pos.line = nested[m].line - 1
<1> DEFINE first == MainPosition(ls, ts, main)
           n == Len(nested)
           pos(m) == NewFromToken(nested[m])
           x(m) == [pos |-> pos(m), messages |-> <<m>>, ranges |-> ContentPositionRanges(ls, <<pos(m)>>)]
           ss == [m \in 1 .. n |-> NestedPosition(ls, nested[m], m)]
           positions == CollectPositions(ls, ts, main, nested)
<1>0. IsSeq(<<>>) /\ ToSet(<<>>) = {} /\ \A y : IsSeq(<<y>>) /\ ToSet(<<y>>) = {y}
  BY FewSeq DEF ToSet
<1>1. IsSeq(first) /\ \A e \in ToSet(first) : e.messages = <<>>
  <2> DEFINE y == [pos |-> NewFromToken(ts[main]), messages |-> <<>>,
                   ranges |-> ContentPositionRanges(ls, TokenPositions(ls, main))]
  <2>1. first = <<>> \/ first = <<y>>
    BY Zenon DEF MainPosition
  <2>2. y.messages = <<>>
    OBVIOUS
  <2> HIDE DEF y, first
  <2> QED
    BY <1>0, <2>1, <2>2
<1>2. n \in Nat /\ DOMAIN nested = 1 .. n
  OBVIOUS
<1>3. \A m \in 1 .. n : nested[m].line \in Nat \ {0}
  BY NestedLine
<1>4. positions = first \o FlattenSeq(ss)
  BY <1>2, Zenon DEF CollectPositions
<1>5. ss = [m \in 1 .. n |-> ss[m]] /\ \A m \in 1 .. n : ss[m] = NestedPosition(ls, nested[m], m)
  OBVIOUS
<1>6. ASSUME NEW m \in 1 .. n
      PROVE  /\ pos(m).line = nested[m].line - 1
             /\ ss[m] = IF nested[m].line <= Len(ls) THEN <<x(m)>> ELSE <<>>
             /\ x(m).messages = <<m>> /\ x(m).pos.line = nested[m].line - 1
  <2> DEFINE i == nested[m].line
  <2>1. i \in Nat /\ i # 0
    BY <1>3
  <2>2. pos(m).line = Larger(0, i - 1)
    BY DEF NewFromToken, Pos
  <2> HIDE DEF pos, i
  <2>3. pos(m).line = i - 1
    BY <2>1, <2>2 DEF Larger
  <2>4. ss[m] = IF pos(m).line >= Len(ls) THEN <<>> ELSE <<x(m)>>
    BY <1>5, Zenon DEF NestedPosition, pos
  <2>5. pos(m).line >= Len(ls) <=> ~(i <= Len(ls))
    BY <2>1, <2>3, SMTT(30)
  <2>6. x(m).messages = <<m>> /\ x(m).pos = pos(m)
    OBVIOUS
  <2> HIDE DEF x, ss
  <2> QED
    BY <2>3, <2>4, <2>5, <2>6 DEF i
<1> HIDE DEF ss, first, positions, n, x, pos
<1>7. IsSeq(ss) /\ Len(ss) = n
  BY <1>2, <1>5, FirstNumbers
<1>8. \A m \in 1 .. n : IsSeq(ss[m]) /\ (nested[m].line <= Len(ls) => ToSet(ss[m]) = {x(m)})
                        /\ (~(nested[m].line <= Len(ls)) => ToSet(ss[m]) = {})
  BY <1>0, <1>6
<1>9. IsSeq(FlattenSeq(ss)) /\ ToSet(FlattenSeq(ss)) = UNION {ToSet(ss[m]) : m \in 1 .. n}
  BY <1>7, <1>8, FlattenIsSeq
<1>10. IsSeq(positions) /\ ToSet(positions) = ToSet(first) \cup ToSet(FlattenSeq(ss))
  BY <1>1, <1>4, <1>9, ConcatIsSeq
<1>11. ASSUME NEW e \in ToSet(positions)
       PROVE  e.messages = <<>> \/ \E m \in 1 .. n : e.messages = <<m>> /\ e.pos.line = nested[m].line - 1
  <2>1. CASE e \in ToSet(first)
    BY <1>1, <2>1
  <2>2. CASE e \in ToSet(FlattenSeq(ss))
    <3>1. PICK m \in 1 .. n : e \in ToSet(ss[m])
      BY <1>9, <2>2
    <3>2. e = x(m)
      BY <1>8, <3>1
    <3> QED
      BY <1>6, <3>2
  <2> QED
    BY <1>10, <2>1, <2>2
<1>12. ASSUME NEW m \in 1 .. n, nested[m].line <= Len(ls)
       PROVE  \E e \in ToSet(positions) : e.messages = <<m>> /\ e.pos.line = nested[m].line - 1
  <2>1. x(m) \in ToSet(ss[m])
    BY <1>8, <1>12
  <2>2. x(m) \in ToSet(positions)
    BY <1>9, <1>10, <2>1
  <2> QED
    BY <1>6, <2>2
<1> QED
  BY <1>10, <1>11, <1>12 DEF positions, n

\* A note below a line with the messages M.
NoteSays(note, M) == note.position = "below" /\ IsSeq(note.content) /\ ToSet(note.content) = M


\* The numbers of the nested errors that line i has a message of.
Messages(nested, i) == {m \in 1 .. Len(nested) : nested[m].line = i}

\* The annotation of a line has the messages of the errors that point to it.
LEMMA PreparedNote ==
    ASSUME NEW ls, Len(ls) \in Nat, NEW ts, NEW main, NEW nested \in Seq([token : Nat, line : Nat \ {0}, col : Nat]),
           NEW i \in 1 .. Len(ls)
    PROVE  NoteSays(PrepareLineAnnotation(CollectPositions(ls, ts, main, nested), i), Messages(nested, i))
<1> DEFINE positions == CollectPositions(ls, ts, main, nested)
           note == PrepareLineAnnotation(positions, i)
           k == Len(positions)
           on == OnLine(positions, i)
           ss == [n \in 1 .. k |-> IF n \in on THEN positions[n].messages ELSE <<>>]
           M == {m \in 1 .. Len(nested) : nested[m].line = i}
<1>1. /\ IsSeq(positions)
      /\ \A e \in ToSet(positions) :
            e.messages = <<>> \/ \E m \in 1 .. Len(nested) : e.messages = <<m>> /\ e.pos.line = nested[m].line - 1
      /\ \A m \in 1 .. Len(nested) : nested[m].line <= Len(ls) =>
            \E e \in ToSet(positions) : e.messages = <<m>> /\ e.pos.line = nested[m].line - 1
  BY CollectedMessages
<1>2. \A m \in 1 .. Len(nested) : nested[m].line \in Nat
  BY NestedLine
<1> HIDE DEF positions
<1>3. k \in Nat /\ DOMAIN positions = 1 .. k /\ ToSet(positions) = {positions[n] : n \in 1 .. k}
  <2>1. positions \in Seq(ToSet(positions))
    BY <1>1 DEF IsSeq
  <2> DEFINE T == ToSet(positions)
  <2>2. T = {positions[n] : n \in DOMAIN positions}
    BY DEF ToSet
  <2> HIDE DEF T
  <2>3. positions \in Seq(T)
    BY <2>1 DEF T
  <2>4. k \in Nat /\ DOMAIN positions = 1 .. k
    BY <2>3
  <2> QED
    BY <2>2, <2>4 DEF T
<1>4. note.position = "below" /\ note.content = FlattenSeq(ss)
  BY <1>3 DEF PrepareLineAnnotation
<1>5. on = {n \in 1 .. k : positions[n].messages # <<>> /\ positions[n].pos.line = i - 1}
  BY <1>3 DEF OnLine
<1>0. IsSeq(<<>>) /\ ToSet(<<>>) = {} /\ \A y : IsSeq(<<y>>) /\ ToSet(<<y>>) = {y} /\ <<y>> # <<>>
  BY FewSeq DEF ToSet
<1>6. ss = [n \in 1 .. k |-> ss[n]] /\ \A n \in 1 .. k : ss[n] = IF n \in on THEN positions[n].messages ELSE <<>>
  OBVIOUS
<1> HIDE DEF on, ss, note, k
<1>7. ASSUME NEW n \in 1 .. k PROVE IsSeq(ss[n]) /\ ToSet(ss[n]) \subseteq M
  <2>1. CASE n \in on
    <3> DEFINE e == positions[n]
    <3>1. e \in ToSet(positions) /\ e.messages # <<>> /\ e.pos.line = i - 1
      BY <1>3, <1>5, <2>1
    <3>2. ss[n] = e.messages
      BY <1>6, <2>1
    <3> HIDE DEF e
    <3>3. PICK m \in 1 .. Len(nested) : e.messages = <<m>> /\ e.pos.line = nested[m].line - 1
      BY <1>1, <3>1
    <3> DEFINE x == nested[m].line
    <3>4. x \in Nat /\ x - 1 = i - 1
      BY <1>2, <3>1, <3>3
    <3>5. x = i
      <4> HIDE DEF x
      <4> QED
        BY <3>4
    <3>6. m \in M
      BY <3>3, <3>5
    <3> HIDE DEF M
    <3> QED
      BY <1>0, <3>2, <3>3, <3>6
  <2>2. CASE n \notin on
    BY <1>0, <1>6, <2>2
  <2> QED
    BY <2>1, <2>2
<1>8. IsSeq(ss) /\ Len(ss) = k
  BY <1>3, <1>6, FirstNumbers
<1>9. IsSeq(FlattenSeq(ss)) /\ ToSet(FlattenSeq(ss)) = UNION {ToSet(ss[n]) : n \in 1 .. k}
  <2>1. IsSeq(ss) /\ \A n \in 1 .. Len(ss) : IsSeq(ss[n])
    BY <1>7, <1>8
  <2>2. IsSeq(FlattenSeq(ss)) /\ ToSet(FlattenSeq(ss)) = UNION {ToSet(ss[n]) : n \in 1 .. Len(ss)}
    BY Zenon, <2>1, FlattenIsSeq
  <2> QED
    BY <1>8, <2>2
<1>10. ASSUME NEW m \in M PROVE \E n \in 1 .. k : m \in ToSet(ss[n])
  <2>1. m \in 1 .. Len(nested) /\ nested[m].line <= Len(ls) /\ nested[m].line - 1 = i - 1
    OBVIOUS
  <2>2. PICK n \in 1 .. k : positions[n].messages = <<m>> /\ positions[n].pos.line = i - 1
    BY <1>1, <1>3, <2>1
  <2>3. n \in on
    BY <1>0, <1>5, <2>2
  <2>4. ss[n] = <<m>>
    BY <1>6, <2>2, <2>3
  <2> QED
    BY <1>0, <2>4
<1>11. UNION {ToSet(ss[n]) : n \in 1 .. k} = M
  <2> HIDE DEF M
  <2> QED
    BY <1>7, <1>10
<1> QED
  BY <1>4, <1>9, <1>11 DEF note, positions, NoteSays, Messages

\* A line with an annotation more.
WithNote(new, l, a) == new = [l EXCEPT !.annotations = Append(@, a)]

\* It says what the annotation says, besides what it said.
LEMMA NoteAdded ==
    ASSUME NEW l, {"segments", "annotations"} \subseteq DOMAIN l, Notes(l), NEW a, IsSeq(a.content),
           NEW new, WithNote(new, l, a)
    PROVE  /\ {"segments", "annotations"} \subseteq DOMAIN new /\ new.segments = l.segments /\ Notes(new)
           /\ \A position : NotesAt(new, position) =
                 IF a.position = position THEN NotesAt(l, position) \cup ToSet(a.content) ELSE NotesAt(l, position)
<1> DEFINE before == l.annotations
           after == Append(before, a)
<1>1. {"segments", "annotations"} \subseteq DOMAIN new /\ new.segments = l.segments /\ new.annotations = after
  BY DEF WithNote
<1>2. IsSeq(before) /\ \A b \in ToSet(before) : IsSeq(b.content)
  BY DEF Notes
<1> HIDE DEF before
<1>3. IsSeq(after) /\ ToSet(after) = ToSet(before) \cup {a}
  BY <1>2, AppendMembers
<1> HIDE DEF after
<1>4. Notes(new)
  BY <1>1, <1>2, <1>3 DEF Notes
<1>5. ASSUME NEW position
      PROVE  NotesAt(new, position) =
                 IF a.position = position THEN NotesAt(l, position) \cup ToSet(a.content) ELSE NotesAt(l, position)
  <2>1. {b \in ToSet(after) : b.position = position}
          = IF a.position = position THEN {b \in ToSet(before) : b.position = position} \cup {a}
            ELSE {b \in ToSet(before) : b.position = position}
    BY <1>3
  <2> QED
    BY <1>1, <2>1 DEF NotesAt, before
<1> QED
  BY <1>1, <1>4, <1>5

\* What stands above line i where lines are missing.
GapAt(spans, i) == IF Begins(spans, i) THEN {Ellipsis} ELSE {}

\* A line that says what l says and more.
NotesGrow(new, l, below, above) ==
    /\ "segments" \in DOMAIN new /\ new.segments = l.segments /\ Notes(new)
    /\ NotesAt(new, "below") = NotesAt(l, "below") \cup below
    /\ NotesAt(new, "above") = NotesAt(l, "above") \cup above

\* Line i of an annotated source, and how it came to be.
LineAnnotated(out, ls, built, ts, main, nested, context, spans, i) ==
    LET positions == CollectPositions(built, ts, main, nested)
    IN  spans = BuildHunkSpans(positions, context, Len(ls)) /\ out = Annotated(ls, positions, context)[i]

\* Annotated lines keep their notes and get the messages of their errors, and
\* the first line of a hunk says that lines are missing above it.
LEMMA AnnotatedNotes ==
    ASSUME NEW ls, Len(ls) \in Nat, DOMAIN ls = 1 .. Len(ls), NEW built, Len(built) = Len(ls), NEW ts, NEW main,
           NEW nested \in Seq([token : Nat, line : Nat \ {0}, col : Nat]),
           NEW context, NEW spans \in Seq(Span),
           NEW i \in 1 .. Len(ls), {"segments", "annotations"} \subseteq DOMAIN ls[i], Notes(ls[i]),
           NEW new, LineAnnotated(new, ls, built, ts, main, nested, context, spans, i)
    PROVE  NotesGrow(new, ls[i], Messages(nested, i), GapAt(spans, i))
<1> DEFINE positions == CollectPositions(built, ts, main, nested)
           l == ls[i]
           note == PrepareLineAnnotation(positions, i)
           noted == AnnotateLines(ls, positions)
           mid == noted[i]
           gap == [content |-> <<Ellipsis>>, position |-> "above", col |-> 0]
           behind == \E n \in DOMAIN spans \ {1} : spans[n].start + 1 = i
           M == Messages(nested, i)
<1>0. spans = BuildHunkSpans(positions, context, Len(ls)) /\ new = Annotated(ls, positions, context)[i]
  BY Zenon DEF LineAnnotated
<1>1. note.position = "below" /\ IsSeq(note.content) /\ ToSet(note.content) = M
  <2>1. i \in 1 .. Len(built) /\ Len(built) \in Nat
    OBVIOUS
  <2>2. nested \in Seq([token : Nat, line : Nat \ {0}, col : Nat])
    OBVIOUS
  <2>3. NoteSays(note, M)
    BY Zenon, <2>1, <2>2, PreparedNote
  <2> QED
    BY <2>3, Zenon DEF NoteSays
<1>2. gap.position = "above" /\ gap.content = <<Ellipsis>>
  OBVIOUS
<1>3. IsSeq(gap.content) /\ ToSet(gap.content) = {Ellipsis} /\ IsSeq(<<>>) /\ ToSet(<<>>) = {}
  BY <1>2, FewSeq DEF ToSet
<1>4. behind <=> Begins(spans, i)
  <2>1. DOMAIN spans \ {1} = 2 .. Len(spans)
    OBVIOUS
  <2> QED
    BY <2>1 DEF Begins
<1>5. /\ DOMAIN noted = DOMAIN ls
      /\ mid = IF note.content = <<>> THEN l ELSE [l EXCEPT !.annotations = Append(@, note)]
  <2>1. noted = [k \in DOMAIN ls |->
            IF PrepareLineAnnotation(positions, k).content = <<>> THEN ls[k]
            ELSE [ls[k] EXCEPT !.annotations = Append(@, PrepareLineAnnotation(positions, k))]]
    BY Zenon DEF AnnotateLines
  <2> HIDE DEF noted
  <2> QED
    BY <2>1
<1>6. new = IF behind THEN [mid EXCEPT !.annotations = Append(@, gap)] ELSE mid
  <2> DEFINE at(k) == \E n \in DOMAIN spans \ {1} : spans[n].start + 1 = k
             all == MarkGaps(noted, spans)
  <2>1. all = [k \in DOMAIN noted |-> IF at(k) THEN [noted[k] EXCEPT !.annotations = Append(@, gap)] ELSE noted[k]]
    BY Zenon DEF MarkGaps
  <2>2. new = all[i]
    BY <1>0, Zenon DEF Annotated
  <2>3. at(i) <=> behind
    OBVIOUS
  <2>4. i \in DOMAIN noted
    BY <1>5
  <2> HIDE DEF noted, at, all, gap, behind
  <2> QED
    BY <2>1, <2>2, <2>3, <2>4
<1> HIDE DEF note, noted, mid, gap, behind, M
<1>7. {"segments", "annotations"} \subseteq DOMAIN l /\ Notes(l)
  OBVIOUS
<1> HIDE DEF l
<1>8. /\ {"segments", "annotations"} \subseteq DOMAIN mid /\ mid.segments = l.segments /\ Notes(mid)
      /\ NotesAt(mid, "below") = NotesAt(l, "below") \cup M
      /\ NotesAt(mid, "above") = NotesAt(l, "above")
  <2>1. CASE note.content = <<>>
    <3>1. mid = l /\ M = {}
      BY <1>1, <1>3, <1>5, <2>1
    <3> QED
      BY <1>7, <3>1
  <2>2. CASE note.content # <<>>
    <3>1. WithNote(mid, l, note)
      BY <1>5, <2>2, Zenon DEF WithNote
    <3>2. /\ {"segments", "annotations"} \subseteq DOMAIN mid /\ mid.segments = l.segments /\ Notes(mid)
          /\ \A position : NotesAt(mid, position) =
                 IF note.position = position THEN NotesAt(l, position) \cup ToSet(note.content) ELSE NotesAt(l, position)
      BY <1>1, <1>7, <3>1, NoteAdded
    <3> QED
      BY <1>1, <3>2
  <2> QED
    BY <2>1, <2>2
<1>9. /\ {"segments", "annotations"} \subseteq DOMAIN new /\ new.segments = l.segments /\ Notes(new)
      /\ NotesAt(new, "below") = NotesAt(mid, "below")
      /\ NotesAt(new, "above") = NotesAt(mid, "above") \cup (IF behind THEN {Ellipsis} ELSE {})
  <2>1. CASE ~behind
    <3>1. new = mid
      BY <1>6, <2>1
    <3> QED
      BY <1>8, <2>1, <3>1
  <2>2. CASE behind
    <3> DEFINE out == new
    <3>1. WithNote(out, mid, gap)
      BY <1>6, <2>2, Zenon DEF WithNote
    <3>3. {"segments", "annotations"} \subseteq DOMAIN mid /\ Notes(mid) /\ IsSeq(gap.content)
      BY <1>3, <1>8
    <3>2. /\ {"segments", "annotations"} \subseteq DOMAIN out /\ out.segments = mid.segments /\ Notes(out)
          /\ \A position : NotesAt(out, position) =
                 IF gap.position = position THEN NotesAt(mid, position) \cup ToSet(gap.content) ELSE NotesAt(mid, position)
      <4> HIDE DEF out
      <4> QED
        BY <3>1, <3>3, NoteAdded
    <3> QED
      BY <1>2, <1>3, <1>8, <2>2, <3>2
  <2> QED
    BY <2>1, <2>2
<1>10. (IF behind THEN {Ellipsis} ELSE {}) = GapAt(spans, i)
  BY <1>4 DEF GapAt
<1>11. NotesGrow(new, l, M, GapAt(spans, i))
  BY <1>8, <1>9, <1>10 DEF NotesGrow
<1> QED
  BY <1>11 DEF l, M

\* The spans that an error prints, and the lines that have its ranges.
HunksOf(ts, op) ==
    LET built == NewLines(ts)
    IN  BuildHunkSpans(CollectPositions(built, ts, op.main, op.nested), op.context, Len(built))
SpansOf(ts, op) == SpansToPrint(NewLines(ts), HunksOf(ts, op))
RangesFor(ts, op) == AllRanges(CollectPositions(NewLines(ts), ts, op.main, op.nested))
MarkedLines(ts, op) == {p.line : p \in RangeCells(RangesFor(ts, op))}

\* The spans of an error are in order and cover what is near its ranges, or
\* everything where it has none.
SpansRight(ts, op, n) ==
    LET spans == SpansOf(ts, op)
        X == MarkedLines(ts, op)
    IN  /\ InOrder(spans, n) /\ Len(spans) > 0 /\ X \subseteq 0 .. n - 1
        /\ \A l \in 1 .. n :
              (\E p \in 1 .. Len(spans) : spans[p].start < l /\ l <= spans[p].end)
                 <=> X = {} \/ \E k \in X : k - op.context <= l - 1 /\ l - 1 <= k + op.context
        /\ HunksOf(ts, op) \in Seq(Span)
        /\ \A i : Begins(HunksOf(ts, op), i) <=> Begins(spans, i)

\* The hunks of an error are its windows, and a line begins one in both.
LEMMA SpansHold ==
    ASSUME NEW ts \in Seq(Tokens), NEW op, OpTyped(op), op.op = "error"
    PROVE  SpansRight(ts, op, Len(NewLines(ts)))
<1> DEFINE built == NewLines(ts)
           n == Len(built)
           main == op.main
           nested == op.nested
           c == op.context
           positions == CollectPositions(built, ts, main, nested)
           rs == AllRanges(positions)
           hunks == BuildHunkSpans(positions, c, n)
           spans == SpansToPrint(built, hunks)
           X == {p.line : p \in RangeCells(rs)}
           S == [token : Nat, line : Nat \ {0}, col : Nat]
<1>1. built \in Seq(Line) /\ n \in Nat /\ c \in Nat /\ nested \in Seq(S)
  BY NewLinesHold DEF OpTyped
<1>2. /\ HunksOf(ts, op) = hunks /\ SpansOf(ts, op) = spans /\ RangesFor(ts, op) = rs /\ MarkedLines(ts, op) = X
  BY Zenon DEF HunksOf, SpansOf, RangesFor, MarkedLines
<1>3. op.context = c
  OBVIOUS
<1>4. n = Len(built)
  OBVIOUS
<1> HIDE DEF built, main, nested, c, S, n
<1>5. IsSeq(rs) /\ \A r \in ToSet(rs) : Placed(r, n)
  BY <1>1, <1>4, AllRangesPlaced
<1>6. RangeLines(rs) = X
  BY <1>1, <1>5, CellLines
<1>7. \A m \in DOMAIN rs : rs[m].start.line \in 0 .. n - 1 /\ rs[m].end.line \in 0 .. n - 1
  <2> SUFFICES ASSUME NEW m \in DOMAIN rs PROVE rs[m].start.line \in 0 .. n - 1 /\ rs[m].end.line \in 0 .. n - 1
    OBVIOUS
  <2>1. rs[m] \in ToSet(rs)
    BY DEF ToSet
  <2>2. Placed(rs[m], n)
    BY <1>5, <2>1
  <2> HIDE DEF rs
  <2> QED
    BY <2>2 DEF Placed
<1>8. Windows(hunks, RangeLines(rs), c, n)
  <2> HIDE DEF positions
  <2> QED
    BY <1>1, <1>5, <1>7, WindowsCover
<1>9. Windows(hunks, X, c, n)
  BY <1>6, <1>8
<1>10. X \subseteq 0 .. n - 1
  <2>1. \A m \in DOMAIN rs : rs[m].start.line .. rs[m].end.line \subseteq 0 .. n - 1
    <3> SUFFICES ASSUME NEW m \in DOMAIN rs PROVE rs[m].start.line .. rs[m].end.line \subseteq 0 .. n - 1
      OBVIOUS
    <3> DEFINE a == rs[m].start.line
               b == rs[m].end.line
    <3>1. a \in 0 .. n - 1 /\ b \in 0 .. n - 1
      BY <1>7
    <3> HIDE DEF a, b
    <3>2. a .. b \subseteq 0 .. n - 1
      BY <1>1, <3>1
    <3> QED
      BY <3>2 DEF a, b
  <2>2. RangeLines(rs) \subseteq 0 .. n - 1
    <3> HIDE DEF rs
    <3> QED
      BY <2>1 DEF RangeLines
  <2> QED
    BY <1>6, <2>2
<1>11. spans = IF hunks = <<>> THEN << NewSpan(0, n) >> ELSE hunks
  BY <1>4, Zenon DEF SpansToPrint
<1> HIDE DEF hunks, spans, X, rs, positions
<1>12. hunks \in Seq(Span)
  BY <1>9 DEF Windows
<1> DEFINE near(l) == \E k \in X : k - c <= l - 1 /\ l - 1 <= k + c
           within(l) == \E p \in 1 .. Len(spans) : spans[p].start < l /\ l <= spans[p].end
           Right == /\ InOrder(spans, n) /\ Len(spans) > 0 /\ X \subseteq 0 .. n - 1
                    /\ \A l \in 1 .. n : within(l) <=> X = {} \/ near(l)
                    /\ hunks \in Seq(Span)
                    /\ \A i : Begins(hunks, i) <=> Begins(spans, i)
<1>0. Right => SpansRight(ts, op, n)
  BY <1>2, <1>3, Zenon DEF SpansRight
<1>13. CASE hunks = <<>>
  <2> DEFINE x == NewSpan(0, n)
  <2>1. x \in Span /\ x.start = 0 /\ x.end = n
    BY <1>1 DEF NewSpan, Span
  <2>2. spans = <<x>>
    BY <1>11, <1>13
  <2> HIDE DEF x
  <2>3. spans \in Seq(Span) /\ Len(spans) = 1 /\ spans[1] = x
    BY <2>1, <2>2
  <2>4. X = {}
    <3>1. Len(hunks) = 0
      BY <1>13
    <3> QED
      BY <1>9, <3>1 DEF Windows
  <2>5. InOrder(spans, n)
    BY <1>1, <2>1, <2>3 DEF InOrder
  <2>6. \A i : ~Begins(spans, i) /\ ~Begins(hunks, i)
    <3>1. 2 .. Len(spans) = {} /\ 2 .. Len(hunks) = {}
      BY <1>13, <2>3
    <3> QED
      BY <3>1 DEF Begins
  <2>7. \A l \in 1 .. n : \E p \in 1 .. Len(spans) : spans[p].start < l /\ l <= spans[p].end
    <3> SUFFICES ASSUME NEW l \in 1 .. n PROVE spans[1].start < l /\ l <= spans[1].end /\ 1 \in 1 .. Len(spans)
      OBVIOUS
    <3> QED
      BY <1>1, <2>1, <2>3
  <2> QED
    <3>1. \A l \in 1 .. n : within(l) <=> X = {} \/ near(l)
      BY <2>4, <2>7
    <3> HIDE DEF near, within
    <3>2. \A i : Begins(hunks, i) <=> Begins(spans, i)
      BY <2>6
    <3>3. Len(spans) > 0
      BY <2>3
    <3> QED
      BY <1>10, <1>12, <1>0, <2>5, <3>1, <3>2, <3>3 DEF n, built
<1>14. CASE hunks # <<>>
  <2>1. spans = hunks /\ Len(spans) > 0
    BY <1>11, <1>12, <1>14
  <2>2. X # {}
    BY <1>9, <2>1 DEF Windows
  <2>3. InOrder(spans, n)
    <3>1. \A p \in 1 .. Len(spans) : 0 <= spans[p].start /\ spans[p].start < spans[p].end /\ spans[p].end <= n
      BY <1>9, <2>1 DEF Windows
    <3>2. \A p \in 1 .. Len(spans) : spans[p] \in Span
      BY <1>12, <2>1
    <3>3. \A p \in 1 .. Len(spans) : spans[p].start \in Int /\ spans[p].end \in Int
      BY <3>2 DEF Span
    <3>4. \A p \in 1 .. Len(spans) : 0 <= spans[p].start /\ spans[p].start <= spans[p].end /\ spans[p].end <= n
      BY <3>1, <3>3
    <3>5. \A p, q \in 1 .. Len(spans) : p < q => spans[p].end < spans[q].start
      BY <1>9, <2>1 DEF Windows
    <3> QED
      BY <1>12, <2>1, <3>4, <3>5 DEF InOrder
  <2>4. ASSUME NEW l \in 1 .. n
        PROVE  (\E p \in 1 .. Len(spans) : spans[p].start < l /\ l <= spans[p].end)
                 <=> \E k \in X : k - c <= l - 1 /\ l - 1 <= k + c
    <3> DEFINE x == l - 1
    <3>1. x \in 0 .. n - 1
      BY <1>1
    <3>2. (\E p \in 1 .. Len(spans) : spans[p].start <= x /\ x < spans[p].end)
             <=> \E k \in X : k - c <= x /\ x <= k + c
      <4> HIDE DEF x
      <4> QED
        BY <1>9, <2>1, <3>1 DEF Windows
    <3>3. \A p \in 1 .. Len(spans) : spans[p].start \in Int /\ spans[p].end \in Int
      <4>1. \A p \in 1 .. Len(spans) : spans[p] \in Span
        BY <1>12, <2>1
      <4> QED
        BY <4>1 DEF Span
    <3>4. \A p \in 1 .. Len(spans) : (spans[p].start <= x /\ x < spans[p].end) <=> (spans[p].start < l /\ l <= spans[p].end)
      BY <1>1, <3>3
    <3> QED
      BY <3>2, <3>4
  <2> QED
    <3>1. \A l \in 1 .. n : within(l) <=> X = {} \/ near(l)
      BY <2>2, <2>4
    <3> HIDE DEF near, within
    <3>2. \A i : Begins(hunks, i) <=> Begins(spans, i)
      BY <2>1
    <3> QED
      BY <1>10, <1>12, <1>0, <2>1, <2>3, <3>1, <3>2 DEF n, built
<1> QED
  BY <1>4, <1>13, <1>14

\* What an error has to say about line i, said by it.
Says(ts, op, l, i) ==
    /\ l.segments \in Seq(Seg) /\ Notes(l)
    /\ Messages(op.nested, i) \subseteq NotesAt(l, "below")
    /\ Begins(SpansOf(ts, op), i) => Ellipsis \in NotesAt(l, "above")
    /\ op.main # 0 => /\ NotesAt(l, "below") \subseteq Messages(op.nested, i)
                      /\ NotesAt(l, "above") \subseteq {Ellipsis}
                      /\ ~Begins(SpansOf(ts, op), i) => NotesAt(l, "above") = {}

\* The screen of an error that is complete.
LinesShown(screen) == [n \in 1 .. Len(screen) |-> screen[n].line]
Complete(ts, op, screen) ==
    /\ IsSeq(screen)
    /\ GoUp(LinesShown(screen), SpansOf(ts, op), Len(SpansOf(ts, op)))
    /\ \A n \in 1 .. Len(screen) : Says(ts, op, screen[n].got, screen[n].line)

\* The messages of a line stand in its last row, the gap in its first, and an
\* error of its own source says nothing else.
LEMMA FrameNotes ==
    ASSUME NEW ts, NEW op, NEW frame, Says(ts, op, frame.got, frame.line), work.width \in Nat
    PROVE  /\ \A m \in Messages(op.nested, frame.line) : m \in ToSet(Last(Rows(frame)).notes)
           /\ Begins(SpansOf(ts, op), frame.line) => Ellipsis \in ToSet(Rows(frame)[1].notes)
           /\ op.main # 0 => NotesOn(frame) \subseteq Messages(op.nested, frame.line) \cup {Ellipsis}
           /\ op.main # 0 /\ ~Begins(SpansOf(ts, op), frame.line) => NotesOn(frame) \subseteq Messages(op.nested, frame.line)
<1> DEFINE l == frame.got
           i == frame.line
           width == work.width
           rows == RenderLine(l, width)
           above == NotesAt(l, "above")
           below == NotesAt(l, "below")
           M == Messages(op.nested, i)
           begins == Begins(SpansOf(ts, op), i)
<1>1. /\ l.segments \in Seq(Seg) /\ Notes(l) /\ M \subseteq below /\ (begins => Ellipsis \in above)
      /\ op.main # 0 => below \subseteq M /\ above \subseteq {Ellipsis} /\ (~begins => above = {})
  BY DEF Says
<1>2. Rows(frame) = rows
  BY DEF Rows
<1>3. NotesOn(frame) = UNION {ToSet(rows[r].notes) : r \in DOMAIN rows}
  BY <1>2, Zenon DEF NotesOn
<1>4. /\ above # {} => ToSet(rows[1].notes) = above
      /\ below # {} => ToSet(Last(rows).notes) = below
      /\ \A r \in DOMAIN rows : ToSet(rows[r].notes) \subseteq above \cup below
  <2> HIDE DEF l
  <2>1. l.segments \in Seq(Seg) /\ Notes(l)
    BY <1>1
  <2> HIDE DEF width
  <2>2. width \in Nat
    BY DEF width
  <2> QED
    BY <2>1, <2>2, RowsHold
<1> HIDE DEF rows, above, below, M, begins, l, i
<1>5. NotesOn(frame) \subseteq above \cup below
  BY <1>3, <1>4
<1>6. \A m \in M : m \in ToSet(Last(rows).notes)
  BY <1>1, <1>4
<1>7. begins => Ellipsis \in ToSet(rows[1].notes)
  BY <1>1, <1>4
<1>8. op.main # 0 => NotesOn(frame) \subseteq M \cup {Ellipsis}
  BY <1>1, <1>5
<1>9. op.main # 0 /\ ~begins => NotesOn(frame) \subseteq M
  BY <1>1, <1>5
<1> QED
  BY <1>2, <1>6, <1>7, <1>8, <1>9, Zenon DEF M, begins, i

\* A complete screen shows the lines of the error's ranges with their context,
\* each once and in order, and says where lines are missing.
LEMMA HunksShown ==
    ASSUME tks \in Seq(Tokens), work.width \in Nat, NEW n \in Nat, n = Len(NewLines(tks)), DOMAIN lines = 1 .. n,
           NEW op, OpTyped(op), op.op = "error", NEW screen, Complete(tks, op, screen),
           RangeCells(RangesFor(tks, op)) = TargetCells(work.file, op)
    PROVE  LET marked == {p.line + 1 : p \in TargetCells(work.file, op)}
               near == {l \in DOMAIN lines : \E k \in marked : k - l \in -op.context .. op.context}
           IN  /\ LinesOn(screen) = IF marked = {} THEN DOMAIN lines ELSE near
               /\ \A m \in DOMAIN screen \ {1} :
                     LET gap == screen[m].line - screen[m - 1].line IN
                     /\ gap > 0
                     /\ gap > 1 => Ellipsis \in ToSet(Rows(screen[m])[1].notes)
                     /\ gap = 1 /\ op.main # 0 => Ellipsis \notin NotesOn(screen[m])
<1> DEFINE ts == tks
           cells == TargetCells(work.file, op)
           marked == {p.line + 1 : p \in cells}
           c == op.context
           near == {l \in DOMAIN lines : \E k \in marked : k - l \in -c .. c}
           spans == SpansOf(ts, op)
           X == MarkedLines(ts, op)
           pre == LinesShown(screen)
           k == Len(screen)
           K == Len(spans)
<1>1. /\ InOrder(spans, n) /\ K > 0 /\ X \subseteq 0 .. n - 1
      /\ \A l \in 1 .. n :
            (\E p \in 1 .. K : spans[p].start < l /\ l <= spans[p].end)
               <=> X = {} \/ \E x \in X : x - c <= l - 1 /\ l - 1 <= x + c
  <2>1. SpansRight(ts, op, n)
    BY SpansHold
  <2> QED
    BY <2>1, Zenon DEF SpansRight
<1>2. c \in Nat
  BY DEF OpTyped
<1>3. X = {p.line : p \in cells}
  BY Zenon DEF MarkedLines
<1>4. /\ IsSeq(screen) /\ GoUp(pre, spans, K)
      /\ \A m \in 1 .. k : Says(ts, op, screen[m].got, screen[m].line)
  BY DEF Complete
<1>5. k \in Nat /\ DOMAIN screen = 1 .. k
  BY <1>4 DEF IsSeq
<1>6. pre = [m \in 1 .. k |-> pre[m]] /\ \A m \in 1 .. k : pre[m] = screen[m].line
  BY DEF LinesShown
<1> HIDE DEF cells, spans, X, pre, k, K, c, ts
<1>7. Len(pre) = k
  BY <1>5, <1>6, FirstNumbers
<1>8. LinesOn(screen) = {pre[m] : m \in 1 .. k}
  BY <1>5, <1>6 DEF LinesOn
<1>9. pre \in Seq(Nat) /\ \A m \in 1 .. k : pre[m] \in Nat
  BY <1>4, <1>7 DEF GoUp
<1>10. spans \in Seq(Span) /\ K \in Nat /\ \A p \in 1 .. K : spans[p].start \in Int /\ spans[p].end \in Int
                            /\ 0 <= spans[p].start /\ spans[p].end <= n
  <2>1. spans \in Seq(Span) /\ \A p \in 1 .. K : 0 <= spans[p].start /\ spans[p].end <= n
    BY <1>1 DEF InOrder, K
  <2>2. K \in Nat /\ \A p \in 1 .. K : spans[p] \in Span
    BY <2>1 DEF K
  <2> QED
    BY <2>1, <2>2 DEF Span
<1> DEFINE within(l) == \E p \in 1 .. K : spans[p].start < l /\ l <= spans[p].end
<1>11. ASSUME NEW l \in 1 .. n PROVE l \in LinesOn(screen) <=> within(l)
  <2>1. ASSUME l \in LinesOn(screen) PROVE within(l)
    <3>1. PICK m \in 1 .. k : l = pre[m]
      BY <1>8, <2>1
    <3>2. PICK p \in 1 .. K : spans[p].start < pre[m] /\ pre[m] <= spans[p].end
      BY <1>4, <1>7 DEF GoUp
    <3> QED
      BY <3>1, <3>2
  <2>2. ASSUME within(l) PROVE l \in LinesOn(screen)
    <3>1. PICK p \in 1 .. K : spans[p].start < l /\ l <= spans[p].end
      BY <2>2
    <3>2. l \in spans[p].start + 1 .. spans[p].end
      BY <1>10, <3>1
    <3>3. \E m \in 1 .. k : pre[m] = l
      BY <1>4, <1>7, <3>2 DEF GoUp
    <3> QED
      BY <1>8, <3>3
  <2> QED
    BY <2>1, <2>2
<1>12. LinesOn(screen) \subseteq 1 .. n
  <2> SUFFICES ASSUME NEW m \in 1 .. k PROVE pre[m] \in 1 .. n
    BY <1>8
  <2>1. PICK p \in 1 .. K : spans[p].start < pre[m] /\ pre[m] <= spans[p].end
    BY <1>4, <1>7 DEF GoUp
  <2>2. pre[m] \in Nat /\ spans[p].start \in Int /\ spans[p].end \in Int /\ 0 <= spans[p].start /\ spans[p].end <= n
    BY <1>9, <1>10
  <2> QED
    BY <2>1, <2>2
<1>13. LinesOn(screen) = IF marked = {} THEN DOMAIN lines ELSE near
  <2>1. CASE X = {}
    <3>1. marked = {}
      BY <1>3, <2>1
    <3>2. \A l \in 1 .. n : within(l)
      BY <1>1, <2>1
    <3>3. LinesOn(screen) = 1 .. n
      <4> HIDE DEF within
      <4> QED
        BY <1>11, <1>12, <3>2
    <3> QED
      BY <3>1, <3>3
  <2>2. CASE X # {}
    <3>1. marked = {x + 1 : x \in X}
      BY <1>3
    <3>2. marked # {}
      BY <2>2, <3>1
    <3>3. ASSUME NEW l \in 1 .. n PROVE l \in near <=> within(l)
      <4>1. within(l) <=> \E x \in X : x - c <= l - 1 /\ l - 1 <= x + c
        BY <1>1, <2>2
      <4>2. ASSUME NEW x \in X PROVE (x - c <= l - 1 /\ l - 1 <= x + c) <=> (x + 1) - l \in -c .. c
        <5>1. x \in Nat
          BY <1>1
        <5> QED
          BY <1>2, <5>1
      <4>3. l \in near <=> \E x \in X : (x + 1) - l \in -c .. c
        <5> HIDE DEF marked
        <5> QED
          BY <3>1
      <4> QED
        BY <4>1, <4>2, <4>3
    <3>4. near \subseteq 1 .. n
      OBVIOUS
    <3>5. LinesOn(screen) = near
      <4> HIDE DEF within, near
      <4> QED
        BY <1>11, <1>12, <3>3, <3>4
    <3> QED
      BY <3>2, <3>5
  <2> QED
    BY <2>1, <2>2
<1>14. ASSUME NEW m \in DOMAIN screen \ {1}
       PROVE  LET gap == screen[m].line - screen[m - 1].line IN
              /\ gap > 0
              /\ gap > 1 => Ellipsis \in ToSet(Rows(screen[m])[1].notes)
              /\ gap = 1 /\ op.main # 0 => Ellipsis \notin NotesOn(screen[m])
  <2> DEFINE a == pre[m - 1]
             b == pre[m]
             frame == screen[m]
             begins == Begins(spans, b)
  <2>1. m \in 2 .. k /\ m \in 1 .. k /\ m - 1 \in 1 .. k
    BY <1>5, <1>14
  <2>2. a < b /\ (a + 1 < b => begins) /\ a \in Nat /\ b \in Nat
    BY <1>4, <1>7, <1>9, <2>1 DEF GoUp
  <2>3. frame.line = b /\ screen[m - 1].line = a
    BY <1>6, <2>1
  <2>4. ASSUME a + 1 = b PROVE ~begins
    <3>1. PICK p \in 1 .. K : spans[p].start < a /\ a <= spans[p].end
      BY <1>4, <1>7, <2>1 DEF GoUp
    <3>2. ASSUME NEW q \in 2 .. K, b = spans[q].start + 1 PROVE FALSE
      <4>1. /\ a = spans[q].start /\ spans[q].start \in Int /\ spans[q].end \in Int /\ spans[p].start \in Int
            /\ spans[p].end \in Int /\ q \in 1 .. K /\ p \in Int /\ q \in Int
        BY <1>10, <2>2, <2>4, <3>2, SMTT(30)
      <4>2. \A u, v \in 1 .. K : u < v => spans[u].end < spans[v].start
        BY <1>1 DEF InOrder, K
      <4>3. \A u \in 1 .. K : spans[u].start <= spans[u].end
        BY <1>1 DEF InOrder, K
      <4>4. CASE p < q
        BY <3>1, <4>1, <4>2, <4>4
      <4>5. CASE p = q
        BY <3>1, <4>1, <4>5
      <4>6. CASE q < p
        <5>1. spans[q].end < spans[p].start /\ spans[q].start <= spans[q].end
          BY <4>1, <4>2, <4>3, <4>6
        <5> QED
          BY <3>1, <4>1, <5>1
      <4> QED
        BY <4>1, <4>4, <4>5, <4>6
    <3> QED
      BY <3>2 DEF Begins, K
  <2>5. Says(ts, op, frame.got, frame.line)
    BY <1>4, <2>1
  <2>6. Ellipsis \notin Messages(op.nested, frame.line)
    BY DEF Messages, Ellipsis
  <2>7. /\ Begins(spans, frame.line) => Ellipsis \in ToSet(Rows(frame)[1].notes)
        /\ op.main # 0 /\ ~Begins(spans, frame.line) => NotesOn(frame) \subseteq Messages(op.nested, frame.line)
    <3> HIDE DEF frame
    <3> QED
      BY <2>5, FrameNotes DEF spans
  <2> HIDE DEF frame, begins, a, b
  <2>8. b - a > 0 /\ (b - a > 1 => begins) /\ (b - a = 1 => ~begins)
    BY <2>2, <2>4
  <2>9. begins <=> Begins(spans, frame.line)
    BY <2>3 DEF begins
  <2>10. /\ b - a > 1 => Ellipsis \in ToSet(Rows(frame)[1].notes)
         /\ b - a = 1 /\ op.main # 0 => Ellipsis \notin NotesOn(frame)
    BY <2>6, <2>7, <2>8, <2>9
  <2> QED
    BY <2>3, <2>8, <2>10 DEF frame
<1> QED
  BY <1>13, <1>14 DEF cells, c

\* A complete screen has the line of every nested error with a token, and the
\* messages at their lines.
LEMMA MessagesShown ==
    ASSUME tks \in Seq(Tokens), work.width \in Nat, NEW n \in Nat, n = Len(NewLines(tks)), DOMAIN lines = 1 .. n,
           NEW op, OpTyped(op), op.op = "error", NEW screen, Complete(tks, op, screen),
           RangeCells(RangesFor(tks, op)) = TargetCells(work.file, op),
           NEW m \in DOMAIN op.nested,
           op.nested[m].token # 0 => \E p \in work.file.spots[op.nested[m].token] : p.line = op.nested[m].line - 1
    PROVE  LET target == op.nested[m] IN
           /\ target.token # 0 => target.line \in LinesOn(screen)
           /\ \A i \in DOMAIN screen :
                 IF screen[i].line = target.line THEN m \in ToSet(Last(Rows(screen[i])).notes)
                 ELSE op.main # 0 => m \notin NotesOn(screen[i])
<1> DEFINE cells == TargetCells(work.file, op)
           marked == {p.line + 1 : p \in cells}
           c == op.context
           near == {l \in DOMAIN lines : \E k \in marked : k - l \in -c .. c}
           nested == op.nested
           target == nested[m]
           k == Len(screen)
           X == MarkedLines(tks, op)
           S == [token : Nat, line : Nat \ {0}, col : Nat]
<1>1. LinesOn(screen) = IF marked = {} THEN DOMAIN lines ELSE near
  BY HunksShown
<1>2. nested \in Seq([token : Nat, line : Nat \ {0}, col : Nat]) /\ c \in Nat
  BY DEF OpTyped
<1>3. m \in 1 .. Len(nested)
  <2>1. nested \in Seq(S)
    BY <1>2
  <2> HIDE DEF nested, S
  <2>2. DOMAIN nested = 1 .. Len(nested)
    BY <2>1
  <2> QED
    BY <2>2 DEF nested
<1>4. target.line \in Nat \ {0}
  <2> HIDE DEF nested
  <2> QED
    BY <1>2, <1>3, NestedLine
<1>5. X \subseteq 0 .. n - 1 /\ X = {p.line : p \in cells}
  <2>1. SpansRight(tks, op, n)
    BY SpansHold
  <2>2. X \subseteq 0 .. n - 1
    BY <2>1, Zenon DEF SpansRight
  <2>3. X = {p.line : p \in cells}
    BY Zenon DEF MarkedLines
  <2> QED
    BY <2>2, <2>3
<1>6. ASSUME target.token # 0 PROVE target.line \in LinesOn(screen)
  <2>1. PICK p \in work.file.spots[target.token] : p.line = target.line - 1
    BY <1>6
  <2>2. p \in cells
    <3> DEFINE I == ({op.main} \cup {op.nested[j].token : j \in DOMAIN op.nested}) \ {0}
    <3>1. target.token \in I
      BY <1>6
    <3>2. cells = UNION {work.file.spots[i] : i \in I}
      BY Zenon DEF TargetCells
    <3> HIDE DEF I, cells, target
    <3> QED
      BY <2>1, <3>1, <3>2
  <2>3. p.line \in 0 .. n - 1
    <3> HIDE DEF cells, X
    <3> QED
      BY <1>5, <2>2
  <2> DEFINE l == target.line
  <2>4. l \in 1 .. n /\ l = p.line + 1
    <3> HIDE DEF target
    <3> QED
      BY <1>4, <2>1, <2>3
  <2>5. l \in marked
    <3> HIDE DEF cells, target
    <3> QED
      BY <2>2, <2>4
  <2> HIDE DEF l, cells, c, marked
  <2>6. l - l \in -c .. c /\ l \in DOMAIN lines
    BY <1>2, <2>4, SMTT(30)
  <2>7. l \in near
    BY <2>5, <2>6
  <2>8. marked # {}
    BY <2>5
  <2> HIDE DEF near
  <2>9. l \in LinesOn(screen)
    BY <1>1, <2>7, <2>8
  <2> QED
    BY <2>9 DEF l
<1>7. ASSUME NEW i \in DOMAIN screen
      PROVE  IF screen[i].line = target.line THEN m \in ToSet(Last(Rows(screen[i])).notes)
             ELSE op.main # 0 => m \notin NotesOn(screen[i])
  <2> DEFINE frame == screen[i]
             M == Messages(nested, frame.line)
  <2>1. i \in 1 .. k
    BY DEF Complete, IsSeq
  <2>2. Says(tks, op, frame.got, frame.line)
    BY <2>1 DEF Complete
  <2>3. m \in M <=> frame.line = target.line
    <3> HIDE DEF nested, frame
    <3> QED
      BY <1>3 DEF Messages
  <2>4. m # Ellipsis
    BY <1>3 DEF Ellipsis
  <2>5. /\ \A j \in M : j \in ToSet(Last(Rows(frame)).notes)
        /\ op.main # 0 => NotesOn(frame) \subseteq M \cup {Ellipsis}
    <3> HIDE DEF frame
    <3> QED
      BY <2>2, FrameNotes
  <2> HIDE DEF frame, M, target
  <2>6. IF frame.line = target.line THEN m \in ToSet(Last(Rows(frame)).notes)
        ELSE op.main # 0 => m \notin NotesOn(frame)
    BY <2>3, <2>4, <2>5
  <2> QED
    BY <2>6 DEF frame
<1> QED
  BY <1>6, <1>7

------------------------------------------------------------
(* What lines say stays with them.                                         *)

\* Lines with the same annotations, and lines with no fewer.
SameNotes(ls, new) ==
    /\ DOMAIN new = DOMAIN ls
    /\ \A i \in DOMAIN ls : /\ {"segments", "annotations"} \subseteq DOMAIN new[i]
                            /\ new[i].segments = ls[i].segments /\ new[i].annotations = ls[i].annotations
KeepsNotes(ls, new) ==
    /\ DOMAIN new = DOMAIN ls
    /\ \A i \in DOMAIN ls : /\ new[i].segments = ls[i].segments /\ Notes(new[i])
                            /\ NotesAt(ls[i], "below") \subseteq NotesAt(new[i], "below")
                            /\ NotesAt(ls[i], "above") \subseteq NotesAt(new[i], "above")

\* Marks are set and cleared beside the annotations.
LEMMA MarksLeaveNotes ==
    ASSUME NEW ls, \A i \in DOMAIN ls : {"segments", "overlays", "annotations"} \subseteq DOMAIN ls[i]
    PROVE  /\ \A kind, ranges : SameNotes(ls, AddOverlay(ls, kind, ranges))
           /\ SameNotes(ls, ClearOverlays(ls))
<1>1. ASSUME NEW kind, NEW ranges
      PROVE  SameNotes(ls, AddOverlay(ls, kind, ranges))
  <2> DEFINE x(i) == FlattenSeq([n \in DOMAIN ranges |-> OverlayOn(kind, ranges[n], i)])
             t == [i \in DOMAIN ls |-> [ls[i] EXCEPT !.overlays = @ \o x(i)]]
  <2>1. AddOverlay(ls, kind, ranges) = t
    BY Zenon DEF AddOverlay
  <2> HIDE DEF x
  <2>2. SameNotes(ls, t)
    BY DEF SameNotes
  <2> QED
    BY <2>1, <2>2, Zenon
<1>2. SameNotes(ls, ClearOverlays(ls))
  BY DEF ClearOverlays, SameNotes
<1> QED
  BY <1>1, <1>2

\* The same annotations say the same.
LEMMA SameNotesKept ==
    ASSUME NEW ls, NEW new, SameNotes(ls, new), NEW i \in DOMAIN ls, Notes(ls[i])
    PROVE  /\ {"segments", "annotations"} \subseteq DOMAIN new[i] /\ new[i].segments = ls[i].segments
           /\ Notes(new[i]) /\ \A position : NotesAt(new[i], position) = NotesAt(ls[i], position)
<1>1. /\ {"segments", "annotations"} \subseteq DOMAIN new[i]
      /\ new[i].segments = ls[i].segments /\ new[i].annotations = ls[i].annotations
  BY DEF SameNotes
<1>2. Notes(new[i])
  BY <1>1 DEF Notes
<1>3. \A position : NotesAt(new[i], position) = NotesAt(ls[i], position)
  BY <1>1 DEF NotesAt
<1> QED
  BY <1>1, <1>2, <1>3

\* Lines just built say nothing.
LEMMA NewLinesSilent ==
    ASSUME NEW ts \in Seq(Tokens), NEW i \in DOMAIN NewLines(ts)
    PROVE  Notes(NewLines(ts)[i]) /\ \A position : NotesAt(NewLines(ts)[i], position) = {}
<1> DEFINE built == NewLines(ts)
           l == built[i]
<1>1. built \in Seq(Line)
  BY NewLinesHold
<1> HIDE DEF built
<1>2. l \in Line
  BY <1>1 DEF built
<1>3. l.annotations = <<>>
  <2> HIDE DEF l
  <2> QED
    BY <1>2 DEF Line
<1>4. IsSeq(<<>>) /\ ToSet(<<>>) = {}
  BY FewSeq DEF ToSet
<1> HIDE DEF l
<1>5. Notes(l)
  BY <1>3, <1>4 DEF Notes
<1>6. \A position : NotesAt(l, position) = {}
  BY <1>3, <1>4 DEF NotesAt
<1> QED
  BY <1>5, <1>6 DEF l, built

\* The lines of a file with its marks, the number and the segments of them.
LEMMA MarkedLinesTyped ==
    ASSUME NEW ts \in Seq(Tokens), NEW ls, NEW ops, LinesMarked(ls, ts, ops)
    PROVE  /\ Len(ls) \in Nat /\ DOMAIN ls = 1 .. Len(ls) /\ Len(NewLines(ts)) = Len(ls)
           /\ \A i \in 1 .. Len(ls) : /\ {"segments", "overlays", "annotations"} \subseteq DOMAIN ls[i]
                                      /\ ls[i].segments \in Seq(Seg)
<1> DEFINE built == NewLines(ts)
<1>1. built \in Seq(Line)
  BY NewLinesHold
<1>2. Same(ls, built) /\ Len(ls) = Len(built) /\ DOMAIN ls = 1 .. Len(ls)
      /\ \A i \in DOMAIN ls : {"overlays", "annotations"} \subseteq DOMAIN ls[i]
  BY Zenon DEF LinesMarked
<1> HIDE DEF built
<1>3. Len(built) \in Nat /\ \A i \in 1 .. Len(built) : built[i] \in Line
  BY <1>1
<1>4. ASSUME NEW i \in 1 .. Len(ls)
      PROVE  {"segments", "overlays", "annotations"} \subseteq DOMAIN ls[i] /\ ls[i].segments \in Seq(Seg)
  <2>1. "segments" \in DOMAIN ls[i] /\ ls[i].segments = built[i].segments
    BY <1>2 DEF Same
  <2> DEFINE l == built[i]
  <2>2. l \in Line
    BY <1>2, <1>3
  <2> HIDE DEF l
  <2>3. l.segments \in Seq(Seg)
    BY <2>2, LineHolds
  <2> QED
    BY <1>2, <2>1, <2>3 DEF l
<1> QED
  BY <1>2, <1>3, <1>4 DEF built

\* What the lines of an error say besides what they said.
LEMMA AnnotatedSays ==
    ASSUME NEW ts \in Seq(Tokens), NEW op, OpTyped(op), op.op = "error",
           NEW ls, NEW ops, LinesMarked(ls, ts, ops), NEW i \in 1 .. Len(ls), Notes(ls[i])
    PROVE  LET new == Annotated(ls, CollectPositions(NewLines(ts), ts, op.main, op.nested), op.context)[i]
           IN  /\ NotesGrow(new, ls[i], Messages(op.nested, i), GapAt(SpansOf(ts, op), i))
               /\ new.segments \in Seq(Seg)
<1> DEFINE built == NewLines(ts)
           main == op.main
           nested == op.nested
           context == op.context
           positions == CollectPositions(built, ts, main, nested)
           spans == BuildHunkSpans(positions, context, Len(ls))
           new == Annotated(ls, positions, context)[i]
           S == [token : Nat, line : Nat \ {0}, col : Nat]
<1>1. /\ Len(ls) \in Nat /\ DOMAIN ls = 1 .. Len(ls) /\ Len(built) = Len(ls)
      /\ \A j \in 1 .. Len(ls) : /\ {"segments", "overlays", "annotations"} \subseteq DOMAIN ls[j]
                                 /\ ls[j].segments \in Seq(Seg)
  BY MarkedLinesTyped
<1>2. HunksOf(ts, op) = spans
  BY <1>1, Zenon DEF HunksOf
<1>3. spans \in Seq(Span) /\ (Begins(spans, i) <=> Begins(SpansOf(ts, op), i))
  <2>1. SpansRight(ts, op, Len(built))
    BY SpansHold
  <2>2. HunksOf(ts, op) \in Seq(Span) /\ (Begins(HunksOf(ts, op), i) <=> Begins(SpansOf(ts, op), i))
    BY <2>1, Zenon DEF SpansRight
  <2> QED
    BY <1>2, <2>2, Zenon
<1>4. nested \in Seq(S)
  BY DEF OpTyped
<1> DEFINE out == new
<1>5. NotesGrow(out, ls[i], Messages(nested, i), GapAt(spans, i))
  <2>1. {"segments", "annotations"} \subseteq DOMAIN ls[i]
    BY <1>1
  <2> DEFINE sp == spans
  <2>2. LineAnnotated(out, ls, built, ts, main, nested, context, sp, i)
    BY Zenon DEF LineAnnotated
  <2>4. nested \in Seq([token : Nat, line : Nat \ {0}, col : Nat]) /\ sp \in Seq(Span)
    BY <1>3, <1>4
  <2>5. Len(ls) \in Nat /\ DOMAIN ls = 1 .. Len(ls) /\ Len(built) = Len(ls)
    BY <1>1
  <2> HIDE DEF sp, out, built, main, nested, context
  <2>6. NotesGrow(out, ls[i], Messages(nested, i), GapAt(sp, i))
    BY <2>1, <2>2, <2>4, <2>5, AnnotatedNotes
  <2> QED
    BY <2>6 DEF sp
<1> HIDE DEF spans
<1>6. out.segments \in Seq(Seg)
  <2>1. ls[i].segments \in Seq(Seg)
    BY <1>1
  <2> HIDE DEF out
  <2> QED
    BY <1>5, <2>1 DEF NotesGrow
<1>7. GapAt(spans, i) = GapAt(SpansOf(ts, op), i)
  BY <1>3 DEF GapAt
<1>8. NotesGrow(out, ls[i], Messages(nested, i), GapAt(SpansOf(ts, op), i)) /\ out.segments \in Seq(Seg)
  <2> HIDE DEF out
  <2> QED
    BY <1>5, <1>6, <1>7
<1> QED
  BY <1>8, Zenon

\* A line with the messages and the gap of an error says them.
LEMMA SaysGrown ==
    ASSUME NEW ts, NEW op, NEW i, NEW l, NEW new, new.segments \in Seq(Seg),
           NotesGrow(new, l, Messages(op.nested, i), GapAt(SpansOf(ts, op), i)),
           op.main # 0 => NotesAt(l, "below") = {} /\ NotesAt(l, "above") = {}
    PROVE  Says(ts, op, new, i)
<1> DEFINE begins == Begins(SpansOf(ts, op), i)
           M == Messages(op.nested, i)
           gap == GapAt(SpansOf(ts, op), i)
<1>1. /\ Notes(new) /\ NotesAt(new, "below") = NotesAt(l, "below") \cup M
      /\ NotesAt(new, "above") = NotesAt(l, "above") \cup gap
  BY DEF NotesGrow
<1>2. (begins => gap = {Ellipsis}) /\ (~begins => gap = {})
  BY DEF GapAt
<1> HIDE DEF begins, M, gap
<1>3. M \subseteq NotesAt(new, "below") /\ (begins => Ellipsis \in NotesAt(new, "above"))
  BY <1>1, <1>2
<1>4. ASSUME op.main # 0
      PROVE  /\ NotesAt(new, "below") \subseteq M /\ NotesAt(new, "above") \subseteq {Ellipsis}
             /\ ~begins => NotesAt(new, "above") = {}
  BY <1>1, <1>2, <1>4
<1> QED
  BY <1>1, <1>3, <1>4 DEF Says, begins, M

\* It says them still when others say more.
LEMMA SaysKept ==
    ASSUME NEW ts, NEW op, op.main = 0, NEW i, NEW l, Says(ts, op, l, i),
           NEW new, new.segments = l.segments, Notes(new),
           NotesAt(l, "below") \subseteq NotesAt(new, "below"), NotesAt(l, "above") \subseteq NotesAt(new, "above")
    PROVE  Says(ts, op, new, i)
<1>1. /\ l.segments \in Seq(Seg) /\ Messages(op.nested, i) \subseteq NotesAt(l, "below")
      /\ Begins(SpansOf(ts, op), i) => Ellipsis \in NotesAt(l, "above")
  BY DEF Says
<1>2. new.segments \in Seq(Seg)
  BY <1>1
<1>3. Messages(op.nested, i) \subseteq NotesAt(new, "below")
  BY <1>1
<1>4. Begins(SpansOf(ts, op), i) => Ellipsis \in NotesAt(new, "above")
  BY <1>1
<1> QED
  BY <1>2, <1>3, <1>4 DEF Says

\* All lines say what an error with nested places has to say, and no less
\* than before.
LEMMA AnnotatedAll ==
    ASSUME NEW ts \in Seq(Tokens), NEW op, OpTyped(op), op.op = "error", op.main = 0,
           NEW ls, NEW ops, LinesMarked(ls, ts, ops), \A i \in DOMAIN ls : Notes(ls[i]),
           NEW positions, positions = CollectPositions(NewLines(ts), ts, op.main, op.nested)
    PROVE  /\ KeepsNotes(ls, Annotated(ls, positions, op.context))
           /\ \A i \in DOMAIN ls : Says(ts, op, Annotated(ls, positions, op.context)[i], i)
<1> DEFINE new == Annotated(ls, positions, op.context)
<1>1. Len(ls) \in Nat /\ DOMAIN ls = 1 .. Len(ls)
  BY MarkedLinesTyped
<1>2. DOMAIN new = DOMAIN ls
  <2> DEFINE context == op.context
  <2>1. LinesMarked(Annotated(ls, positions, context), ts, ops)
    <3> HIDE DEF context
    <3> QED
      BY <1>1, NoteMarks
  <2> HIDE DEF new
  <2>2. DOMAIN new = DOMAIN NewLines(ts)
    BY <2>1 DEF LinesMarked, Same, new
  <2> QED
    BY <2>2 DEF LinesMarked, Same
<1>3. ASSUME NEW i \in DOMAIN ls
      PROVE  NotesGrow(new[i], ls[i], Messages(op.nested, i), GapAt(SpansOf(ts, op), i)) /\ new[i].segments \in Seq(Seg)
  <2>1. i \in 1 .. Len(ls) /\ Notes(ls[i])
    BY <1>1
  <2>2. /\ NotesGrow(Annotated(ls, CollectPositions(NewLines(ts), ts, op.main, op.nested), op.context)[i], ls[i],
                     Messages(op.nested, i), GapAt(SpansOf(ts, op), i))
        /\ Annotated(ls, CollectPositions(NewLines(ts), ts, op.main, op.nested), op.context)[i].segments \in Seq(Seg)
    BY <2>1, AnnotatedSays
  <2> QED
    BY <2>2, Zenon
<1> HIDE DEF new
<1>4. KeepsNotes(ls, new)
  BY <1>2, <1>3 DEF KeepsNotes, NotesGrow
<1>5. ASSUME NEW i \in DOMAIN ls PROVE Says(ts, op, new[i], i)
  BY <1>3, SaysGrown
<1> QED
  BY <1>4, <1>5 DEF new

\* The screen of an error with a place of its own is complete.
LEMMA ErrorScreenComplete ==
    ASSUME tks \in Seq(Tokens), NEW op, OpTyped(op), op.op = "error"
    PROVE  Complete(tks, op, ErrorScreen(op))
<1> DEFINE ts == tks
           fresh == NewLines(ts)
           n == Len(fresh)
           positions == CollectPositions(fresh, ts, op.main, op.nested)
           ranges == AllRanges(positions)
           over == AddOverlay(fresh, "error", ranges)
           marked == Annotated(over, positions, op.context)
           spans == SpansToPrint(fresh, BuildHunkSpans(positions, op.context, n))
           at == FlattenSeq([m \in DOMAIN spans |-> InSpan(fresh, spans[m])])
           screen == ErrorScreen(op)
           K == Len(spans)
<1>1. screen = [m \in DOMAIN at |-> [line |-> at[m], expect |-> {op}, got |-> marked[at[m]]]]
  BY Zenon DEF ErrorScreen
<1>2. spans = SpansOf(ts, op) /\ at = LinesOf(fresh, spans)
  BY Zenon DEF SpansOf, HunksOf, LinesOf
<1>3. fresh \in Seq(Line) /\ n \in Nat /\ LinesMarked(fresh, ts, {})
  BY NewLinesHold, NewMarks
<1>4. IsSeq(ranges) /\ ToSet(ranges) = RangesOf(ts, op) /\ KindOf(op) = "error"
  <2> DEFINE main == op.main
             nested == op.nested
             S == [token : Nat, line : Nat \ {0}, col : Nat]
  <2>1. nested \in Seq(S)
    BY DEF OpTyped
  <2>2. ToSet(ranges) = RangesOf(ts, op) /\ KindOf(op) = "error"
    BY Zenon DEF RangesOf, KindOf
  <2>3. IsSeq(AllRanges(CollectPositions(fresh, ts, main, nested)))
    <3> HIDE DEF fresh, main, nested, S
    <3> QED
      BY <1>3, <2>1, AllRangesPlaced
  <2> QED
    BY <2>2, <2>3, Zenon
<1>5. LinesMarked(over, ts, {} \cup {op})
  <2>1. Len(fresh) \in Nat
    BY <1>3
  <2> HIDE DEF fresh, ranges
  <2>2. LinesMarked(AddOverlay(fresh, KindOf(op), ranges), ts, {} \cup {op})
    BY <1>3, <1>4, <2>1, AddMarks
  <2> QED
    BY <1>4, <2>2, Zenon
<1>6. ASSUME NEW i \in 1 .. n PROVE i \in DOMAIN over /\ Notes(over[i]) /\ \A position : NotesAt(over[i], position) = {}
  <2>1. \A j \in DOMAIN fresh : {"segments", "overlays", "annotations"} \subseteq DOMAIN fresh[j]
    BY <1>3, MarkedLinesTyped DEF ts
  <2>2. SameNotes(fresh, over)
    <3> HIDE DEF fresh, ranges
    <3> QED
      BY <2>1, MarksLeaveNotes
  <2>3. i \in DOMAIN fresh
    <3> HIDE DEF fresh
    <3> QED
      BY <1>3
  <2>4. Notes(fresh[i]) /\ \A position : NotesAt(fresh[i], position) = {}
    BY <2>3, NewLinesSilent
  <2> HIDE DEF fresh, over
  <2>5. Notes(over[i]) /\ \A position : NotesAt(over[i], position) = NotesAt(fresh[i], position)
    BY <2>2, <2>3, <2>4, SameNotesKept
  <2> QED
    BY <2>2, <2>3, <2>4, <2>5 DEF SameNotes
<1>7. DOMAIN over = 1 .. n
  <2>1. Len(over) = n /\ DOMAIN over = 1 .. Len(over)
    BY <1>5 DEF LinesMarked
  <2> QED
    BY <2>1, Zenon
<1>8. ASSUME NEW i \in 1 .. n PROVE Says(ts, op, marked[i], i)
  <2> DEFINE ops == {} \cup {op}
  <2>1. i \in 1 .. Len(over) /\ LinesMarked(over, ts, ops) /\ Notes(over[i])
    <3>1. Len(over) = n
      BY <1>5, Zenon DEF LinesMarked
    <3> HIDE DEF over, n
    <3> QED
      BY <1>5, <1>6, <3>1
  <2> DEFINE ls == over
             new == Annotated(ls, CollectPositions(NewLines(ts), ts, op.main, op.nested), op.context)[i]
  <2>2. NotesGrow(new, ls[i], Messages(op.nested, i), GapAt(SpansOf(ts, op), i)) /\ new.segments \in Seq(Seg)
    <3> HIDE DEF ops, over
    <3> QED
      BY <2>1, AnnotatedSays
  <2>3. NotesAt(ls[i], "below") = {} /\ NotesAt(ls[i], "above") = {}
    BY <1>6
  <2> DEFINE l == ls[i]
             out == new
  <2>4. Says(ts, op, out, i)
    <3> HIDE DEF new, ls
    <3> QED
      BY <2>2, <2>3, SaysGrown
  <2> QED
    BY <2>4, Zenon
<1>9. InOrder(spans, n)
  <2>1. SpansRight(ts, op, n)
    BY SpansHold
  <2> QED
    BY <1>2, <2>1, Zenon DEF SpansRight
<1>10. GoUp(at, spans, K)
  <2> HIDE DEF spans, fresh, at
  <2>1. Len(fresh) = n
    BY DEF n
  <2> HIDE DEF n
  <2> QED
    BY <1>2, <1>3, <1>9, <2>1, LinesOfHold
<1> HIDE DEF fresh, marked, spans, at, screen, over, positions
<1>11. at \in Seq(Nat) /\ Len(at) \in Nat /\ DOMAIN at = 1 .. Len(at)
  BY <1>10 DEF GoUp
<1>12. \A m \in 1 .. Len(at) : at[m] \in 1 .. n
  <2> SUFFICES ASSUME NEW m \in 1 .. Len(at) PROVE at[m] \in 1 .. n
    OBVIOUS
  <2>1. PICK p \in 1 .. K : spans[p].start < at[m] /\ at[m] <= spans[p].end
    BY <1>10 DEF GoUp
  <2>2. spans[p] \in Span /\ 0 <= spans[p].start /\ spans[p].end <= n
    BY <1>9 DEF InOrder
  <2>3. spans[p].start \in Int /\ spans[p].end \in Int
    BY <2>2 DEF Span
  <2>4. at[m] \in Nat
    BY <1>11
  <2> QED
    BY <1>3, <2>1, <2>2, <2>3, <2>4
<1> DEFINE k == Len(at)
<1>13. screen = [m \in 1 .. k |-> screen[m]]
       /\ \A m \in 1 .. k : screen[m] = [line |-> at[m], expect |-> {op}, got |-> marked[at[m]]]
  BY <1>1, <1>11
<1>14. IsSeq(screen) /\ Len(screen) = k
  BY <1>11, <1>13, FirstNumbers
<1>15. ASSUME NEW m \in 1 .. k PROVE screen[m].line = at[m] /\ Says(ts, op, screen[m].got, screen[m].line)
  <2>1. screen[m].line = at[m] /\ screen[m].got = marked[at[m]]
    BY <1>13
  <2>2. Says(ts, op, marked[at[m]], at[m])
    BY <1>8, <1>12
  <2> QED
    BY <2>1, <2>2
<1>16. LinesShown(screen) = at
  <2>1. at = [m \in 1 .. k |-> at[m]]
    BY <1>11
  <2> QED
    BY <1>14, <1>15, <2>1 DEF LinesShown
<1>17. Complete(ts, op, screen)
  BY <1>2, <1>10, <1>14, <1>15, <1>16 DEF Complete
<1> QED
  BY <1>17 DEF ts, screen

------------------------------------------------------------
(* What errors show, from the first step to the last.                      *)

\* A program's width is a number, its errors' ranges lie on their tokens, and
\* the line of a nested error is one of its token.
WorkStands ==
    /\ {"file", "ops", "width"} \subseteq DOMAIN work /\ work.width \in Nat
    /\ \A op \in work.ops : op.op = "error" =>
          /\ RangeCells(RangesFor(tks, op)) = TargetCells(work.file, op)
          /\ \A m \in DOMAIN op.nested : op.nested[m].token # 0 =>
                \E p \in work.file.spots[op.nested[m].token] : p.line = op.nested[m].line - 1

\* What is left to print of some spans when k of them are.
LeftOf(todo, spans, k) ==
    /\ todo \in Seq(Span) /\ k \in Nat /\ k < Len(spans) /\ Len(todo) = Len(spans) - k
    /\ \A j \in 1 .. Len(todo) : todo[j] = spans[k + j]

\* A screen between two spans, and within one.
Part(span, o) == [j \in 1 .. o |-> span.start + j]
Between(spans, todo, screen) ==
    \E k \in Nat : LeftOf(todo, spans, k) /\ GoUp(LinesShown(screen), spans, k)
Within(spans, todo, offset, screen) ==
    \E k \in Nat, pre \in Seq(Nat) :
        /\ LeftOf(todo, spans, k) /\ GoUp(pre, spans, k)
        /\ offset \in 0 .. spans[k + 1].end - spans[k + 1].start
        /\ LinesShown(screen) = pre \o Part(spans[k + 1], offset)
Frames(ts, op, screen) == IsSeq(screen) /\ \A n \in 1 .. Len(screen) : Says(ts, op, screen[n].got, screen[n].line)

\* A goroutine that shows an error has shown it, in order, as far as it is;
\* the lines say what the error has to say from the moment it prints them.
ErrorShown(ts, ls, s) ==
    s.op.op = "error" =>
        /\ s.op.main # 0 => s.pc = "idle"
        /\ s.pc \in {"mark", "annotate"} => s.screen = <<>>
        /\ s.pc = "idle" => Complete(ts, s.op, s.screen)
        /\ s.pc \in {"span", "lines"} => Frames(ts, s.op, s.screen) /\ \A i \in DOMAIN ls : Says(ts, s.op, ls[i], i)
        /\ s.pc = "span" => Between(SpansOf(ts, s.op), s.todo, s.screen)
        /\ s.pc = "lines" => Within(SpansOf(ts, s.op), s.todo, s.offset, s.screen)

ScreensInv ==
    /\ WorkStands
    /\ \A i \in DOMAIN lines : Notes(lines[i])
    /\ \A t \in Threads : ErrorShown(tks, lines, th[t])

\* A screen stands while other goroutines mark and annotate.
LEMMA ErrorShownKept ==
    ASSUME NEW ts, NEW ls, NEW new, KeepsNotes(ls, new), NEW s, ErrorShown(ts, ls, s)
    PROVE  ErrorShown(ts, new, s)
<1>1. SUFFICES ASSUME s.op.op = "error" PROVE ErrorShown(ts, new, s)
  BY DEF ErrorShown
<1> DEFINE op == s.op
<1>2. ASSUME s.pc \in {"span", "lines"} PROVE \A i \in DOMAIN new : Says(ts, op, new[i], i)
  <2>1. op.main = 0
    BY <1>1, <1>2 DEF ErrorShown
  <2>2. \A i \in DOMAIN ls : Says(ts, op, ls[i], i)
    BY <1>1, <1>2, Zenon DEF ErrorShown
  <2> HIDE DEF op
  <2>3. ASSUME NEW i \in DOMAIN ls PROVE Says(ts, op, new[i], i)
    <3> DEFINE l == ls[i]
               n == new[i]
    <3>1. /\ n.segments = l.segments /\ Notes(n) /\ NotesAt(l, "below") \subseteq NotesAt(n, "below")
          /\ NotesAt(l, "above") \subseteq NotesAt(n, "above") /\ Says(ts, op, l, i)
      BY <2>2, Zenon DEF KeepsNotes
    <3> HIDE DEF l, n
    <3>2. Says(ts, op, n, i)
      BY <2>1, <3>1, SaysKept
    <3> QED
      BY <3>2 DEF n
  <2> QED
    BY <2>3 DEF KeepsNotes
<1> QED
  BY <1>1, <1>2, Zenon DEF ErrorShown

\* The program is the same to the end.
SameWork ==
    /\ {"file", "ops", "width"} \subseteq DOMAIN work'
    /\ work'.file = work.file /\ work'.ops = work.ops /\ work'.width = work.width

\* A step takes an operation from the program and changes nothing else of it.
LEMMA WorkStays ==
    ASSUME WorkStands, [Next]_vars
    PROVE  SameWork /\ WorkStands'
<1>1. ASSUME NEW t \in Threads, Start(t)
      PROVE  work' = [work EXCEPT !.left = @ - 1]
  BY <1>1, ZenonT(40) DEF Start, StartPrint, StartHighlight, StartClear, ShowError, StartNested, Begin
<1>2. ASSUME NEW t \in Threads, Step(t)
      PROVE  work' = work
  BY <1>2 DEF Step, BeginSpan, PrintLine, EndSpan, Load, BuildText, Find, FindNext, FindEnd, Mark, Clear, Annotate
<1>3. work' = work \/ work' = [work EXCEPT !.left = @ - 1]
  BY <1>1, <1>2 DEF Next, vars
<1>4. SameWork
  BY <1>3 DEF WorkStands, SameWork
<1>5. WorkStands'
  <2>1. /\ {"file", "ops", "width"} \subseteq DOMAIN work' /\ work'.file = work.file
        /\ work'.ops = work.ops /\ work'.width = work.width /\ tks' = tks
    BY <1>4 DEF SameWork, tks
  <2>2. work'.width \in Nat
    BY <2>1 DEF WorkStands
  <2>3. ASSUME NEW op \in work'.ops, op.op = "error"
        PROVE  /\ RangeCells(RangesFor(tks', op)) = TargetCells(work'.file, op)
               /\ \A m \in DOMAIN op.nested : op.nested[m].token # 0 =>
                     \E p \in work'.file.spots[op.nested[m].token] : p.line = op.nested[m].line - 1
    <3>1. op \in work.ops
      BY <2>1, <2>3
    <3>2. /\ RangeCells(RangesFor(tks, op)) = TargetCells(work.file, op)
          /\ \A m \in DOMAIN op.nested : op.nested[m].token # 0 =>
                \E p \in work.file.spots[op.nested[m].token] : p.line = op.nested[m].line - 1
      BY <2>3, <3>1, Zenon DEF WorkStands
    <3>3. RangeCells(RangesFor(tks', op)) = TargetCells(work'.file, op)
      BY <2>1, <3>2
    <3>4. work'.file.spots = work.file.spots
      BY <2>1
    <3> QED
      BY <3>2, <3>3, <3>4
  <2> QED
    BY <2>1, <2>2, <2>3, Zenon DEF WorkStands
<1> QED
  BY <1>4, <1>5

\* What a step has to show for the goroutine that takes it.
LEMMA ScreensKeep ==
    ASSUME ScreensInv, [Next]_vars, NEW t \in Threads, \A u \in Threads \ {t} : th'[u] = th[u],
           KeepsNotes(lines, lines'), ErrorShown(tks, lines', th'[t])
    PROVE  ScreensInv'
<1>1. SameWork /\ WorkStands'
  BY WorkStays DEF ScreensInv
<1>2. tks' = tks
  BY <1>1 DEF SameWork, tks
<1>3. \A i \in DOMAIN lines' : Notes(lines'[i])
  BY DEF KeepsNotes
<1>4. ASSUME NEW u \in Threads PROVE ErrorShown(tks, lines', th'[u])
  <2>1. CASE u = t
    BY <2>1
  <2>2. CASE u # t
    <3> DEFINE ts == tks
               ls == lines
               new == lines'
               s == th[u]
    <3>1. th'[u] = s /\ ErrorShown(ts, ls, s) /\ KeepsNotes(ls, new)
      BY <2>2 DEF ScreensInv
    <3> HIDE DEF ts, ls, new, s
    <3>2. ErrorShown(ts, new, s)
      BY <3>1, ErrorShownKept
    <3> QED
      BY <3>1, <3>2 DEF ts, new
  <2> QED
    BY <2>1, <2>2
<1>5. \A u \in Threads : ErrorShown(tks', lines', th'[u])
  BY <1>2, <1>4, Zenon
<1> QED
  BY <1>1, <1>3, <1>5 DEF ScreensInv

\* Lines that are let alone keep their notes.
LEMMA LinesAlone ==
    ASSUME ScreensInv, lines' = lines
    PROVE  KeepsNotes(lines, lines')
<1>1. \A i \in DOMAIN lines : Notes(lines[i])
  BY DEF ScreensInv
<1> QED
  BY <1>1 DEF KeepsNotes

\* Who does not show an error has nothing to show of one.
LEMMA NoError ==
    ASSUME NEW ts, NEW ls, NEW s, s.op.op # "error"
    PROVE  ErrorShown(ts, ls, s)
BY DEF ErrorShown

\* A goroutine at rest has no screen.
LEMMA IdleShows ==
    ASSUME NEW ts, NEW ls
    PROVE  ErrorShown(ts, ls, Idle)
<1>1. Idle.op.op # "error"
  BY DEF Idle, NoOp
<1> HIDE DEF Idle
<1> QED
  BY <1>1, NoError

\* Prints, searches and clears begin without an error.
LEMMA BeginScreens ==
    ASSUME IInv, MarksInv, ScreensInv, [Next]_vars, NEW t \in Threads, NEW op,
           StartPrint(t, op) \/ StartHighlight(t, op) \/ StartClear(t, op)
    PROVE  ScreensInv'
<1>1. /\ lines' = lines /\ op.op # "error"
      /\ \E s : Begin(t, op, s) /\ s.op = op
  <2>1. ASSUME StartPrint(t, op)
        PROVE  /\ lines' = lines /\ op.op = "print"
               /\ Begin(t, op, [Idle EXCEPT !.op = op, !.pc = "span", !.todo = SpansToPrint(lines, op.spans)])
    BY <2>1, Zenon DEF StartPrint
  <2>2. ASSUME StartHighlight(t, op)
        PROVE  /\ lines' = lines /\ op.op = "highlight"
               /\ Begin(t, op, [Idle EXCEPT !.op = op, !.pc = "load"])
    BY <2>2, Zenon DEF StartHighlight
  <2>3. ASSUME StartClear(t, op)
        PROVE  /\ lines' = lines /\ op.op = "clear"
               /\ Begin(t, op, [Idle EXCEPT !.op = op, !.pc = "clear"])
    BY <2>3, Zenon DEF StartClear
  <2> DEFINE todo == SpansToPrint(lines, op.spans)
             a == [Idle EXCEPT !.op = op, !.pc = "span", !.todo = todo]
             b == [Idle EXCEPT !.op = op, !.pc = "load"]
             c == [Idle EXCEPT !.op = op, !.pc = "clear"]
  <2>4. a.op = op /\ b.op = op /\ c.op = op
    BY DEF Idle
  <2>5. Begin(t, op, a) \/ Begin(t, op, b) \/ Begin(t, op, c)
    BY <2>1, <2>2, <2>3, Zenon
  <2>6. lines' = lines /\ op.op \in {"print", "highlight", "clear"}
    BY <2>1, <2>2, <2>3
  <2> HIDE DEF a, b, c
  <2> QED
    BY <2>4, <2>5, <2>6
<1>2. PICK s : Begin(t, op, s) /\ s.op = op
  BY <1>1
<1>3. th'[t] = s /\ \A u \in Threads \ {t} : th'[u] = th[u]
  BY <1>2, BeginUnmoved
<1>4. ErrorShown(tks, lines', th'[t])
  BY <1>1, <1>2, <1>3, NoError
<1>5. KeepsNotes(lines, lines')
  BY <1>1, LinesAlone
<1> QED
  BY <1>3, <1>4, <1>5, ScreensKeep

\* Neither do they go on with one.
LEMMA SearchScreens ==
    ASSUME IInv, MarksInv, ScreensInv, [Next]_vars, NEW t \in Threads,
           Load(t) \/ BuildText(t) \/ Find(t) \/ FindNext(t) \/ FindEnd(t)
    PROVE  ScreensInv'
<1>1. th[t].pc \in {"load", "build", "find", "matches"} /\ lines' = lines
  BY DEF Load, BuildText, Find, FindNext, FindEnd
<1>2. th[t].op.op = "highlight"
  BY <1>1 DEF IInv, OpInv
<1>3. (\A u \in Threads \ {t} : th'[u] = th[u]) /\ th'[t].op = th[t].op
  <2>1. DOMAIN th = Threads /\ {"pc", "op", "todo", "offset", "found", "expect", "screen"} \subseteq DOMAIN th[t]
    BY Before
  <2>2. CASE Load(t)
    BY <2>1, <2>2 DEF Load
  <2>3. CASE BuildText(t)
    BY <2>1, <2>3 DEF BuildText
  <2>4. CASE Find(t)
    BY <2>1, <2>4 DEF Find
  <2>5. CASE FindNext(t)
    <3>1. \E offset, found : th' = [th EXCEPT ![t].offset = offset, ![t].found = found]
      BY <2>5, Zenon DEF FindNext
    <3> QED
      BY <2>1, <3>1
  <2>6. CASE FindEnd(t)
    BY <2>1, <2>6 DEF FindEnd
  <2> QED
    BY <2>2, <2>3, <2>4, <2>5, <2>6
<1>4. ErrorShown(tks, lines', th'[t])
  BY <1>2, <1>3, NoError
<1>5. KeepsNotes(lines, lines')
  BY <1>1, LinesAlone
<1> QED
  BY <1>3, <1>4, <1>5, ScreensKeep

\* Marks are set and cleared beside the notes.
LEMMA MarksKeepNotes ==
    ASSUME MarksInv, ScreensInv, NEW new, SameNotes(lines, new)
    PROVE  KeepsNotes(lines, new)
<1> DEFINE ls == lines
<1>1. (\A i \in DOMAIN ls : Notes(ls[i])) /\ SameNotes(ls, new)
  BY DEF ScreensInv
<1> HIDE DEF ls
<1>2. ASSUME NEW i \in DOMAIN ls
      PROVE  /\ new[i].segments = ls[i].segments /\ Notes(new[i])
             /\ \A position : NotesAt(new[i], position) = NotesAt(ls[i], position)
  BY <1>1, SameNotesKept
<1>3. KeepsNotes(ls, new)
  BY <1>1, <1>2 DEF KeepsNotes, SameNotes
<1> QED
  BY <1>3 DEF ls

\* The lines are as many as the builder's, with the parts that marks need.
LEMMA MarkedTyped ==
    ASSUME MarksInv
    PROVE  /\ Len(lines) \in Nat /\ DOMAIN lines = 1 .. Len(lines) /\ Len(NewLines(tks)) = Len(lines)
           /\ \A i \in DOMAIN lines : {"segments", "overlays", "annotations"} \subseteq DOMAIN lines[i]
<1> DEFINE ts == tks
           ls == lines
           ops == painted
<1>1. ts \in Seq(Tokens) /\ LinesMarked(ls, ts, ops)
  BY DEF MarksInv
<1> HIDE DEF ts, ls, ops
<1>2. /\ Len(ls) \in Nat /\ DOMAIN ls = 1 .. Len(ls) /\ Len(NewLines(ts)) = Len(ls)
      /\ \A i \in 1 .. Len(ls) : {"segments", "overlays", "annotations"} \subseteq DOMAIN ls[i]
  BY <1>1, MarkedLinesTyped
<1> QED
  BY <1>2 DEF ts, ls

\* The screens stand when marks are cleared.
LEMMA ClearScreens ==
    ASSUME IInv, MarksInv, ScreensInv, [Next]_vars, NEW t \in Threads, Clear(t)
    PROVE  ScreensInv'
<1>1. lines' = ClearOverlays(lines) /\ th' = [th EXCEPT ![t] = Idle]
  BY Zenon DEF Clear
<1>2. th'[t] = Idle /\ \A u \in Threads \ {t} : th'[u] = th[u]
  BY <1>1, Before
<1>3. KeepsNotes(lines, lines')
  <2>1. SameNotes(lines, ClearOverlays(lines))
    BY MarkedTyped, MarksLeaveNotes
  <2> QED
    BY <1>1, <2>1, MarksKeepNotes
<1>4. ErrorShown(tks, lines', th'[t])
  BY <1>2, IdleShows
<1> QED
  BY <1>2, <1>3, <1>4, ScreensKeep

\* The screens stand when a goroutine marks.
LEMMA MarkScreens ==
    ASSUME IInv, MarksInv, ScreensInv, [Next]_vars, NEW t \in Threads, Mark(t)
    PROVE  ScreensInv'
<1> DEFINE kind == KindOf(th[t].op)
           found == th[t].found
<1>1. /\ lines' = AddOverlay(lines, kind, found) /\ th[t].pc = "mark"
      /\ th' = [th EXCEPT ![t] = IF th[t].op.op = "highlight" THEN Idle ELSE [@ EXCEPT !.pc = "annotate"]]
  BY Zenon DEF Mark
<1>2. KeepsNotes(lines, lines')
  <2>1. SameNotes(lines, AddOverlay(lines, kind, found))
    BY MarkedTyped, MarksLeaveNotes
  <2> QED
    BY <1>1, <2>1, MarksKeepNotes
<1>3. \A u \in Threads \ {t} : th'[u] = th[u]
  BY <1>1, Before
<1>4. ErrorShown(tks, lines', th'[t])
  <2>1. CASE th[t].op.op = "highlight"
    <3>1. th'[t] = Idle
      BY <1>1, <2>1, Before
    <3> QED
      BY <3>1, IdleShows
  <2>2. CASE th[t].op.op # "highlight"
    <3>1. th'[t].op = th[t].op /\ th'[t].pc = "annotate" /\ th'[t].screen = th[t].screen
      BY <1>1, <2>2, Before
    <3>2. Annotating(th[t].op)
      BY <1>1, <2>2 DEF IInv, OpInv
    <3>3. th[t].op.main = 0 /\ th[t].op.op = "error"
      BY <3>2 DEF Annotating
    <3>4. th[t].screen = <<>>
      BY <1>1, <3>3 DEF ScreensInv, ErrorShown
    <3> QED
      BY <3>1, <3>3, <3>4 DEF ErrorShown
  <2> QED
    BY <2>1, <2>2
<1> QED
  BY <1>2, <1>3, <1>4, ScreensKeep

\* An error with a place of its own has shown itself when it begins.
LEMMA ShowErrorScreens ==
    ASSUME IInv, MarksInv, ScreensInv, [Next]_vars, NEW t \in Threads, NEW op \in work.ops, ShowError(t, op)
    PROVE  ScreensInv'
<1> DEFINE screen == ErrorScreen(op)
           s == [Idle EXCEPT !.op = op, !.screen = screen]
<1>1. op.op = "error" /\ op.main # 0 /\ lines' = lines /\ Begin(t, op, s)
  BY Zenon DEF ShowError
<1>2. OpTyped(op) /\ tks \in Seq(Tokens)
  BY DEF MarksInv
<1>3. Complete(tks, op, screen)
  BY <1>1, <1>2, ErrorScreenComplete
<1> HIDE DEF screen
<1>4. s.pc = "idle" /\ s.op = op /\ s.screen = screen
  BY DEF Idle
<1> HIDE DEF s
<1>5. th'[t] = s /\ \A u \in Threads \ {t} : th'[u] = th[u]
  BY <1>1, BeginUnmoved
<1>6. ErrorShown(tks, lines', s)
  BY <1>3, <1>4 DEF ErrorShown
<1>7. KeepsNotes(lines, lines')
  BY <1>1, LinesAlone
<1> QED
  BY <1>5, <1>6, <1>7, ScreensKeep

\* One with nested places only has shown nothing yet.
LEMMA StartNestedScreens ==
    ASSUME IInv, MarksInv, ScreensInv, [Next]_vars, NEW t \in Threads, NEW op \in work.ops, StartNested(t, op)
    PROVE  ScreensInv'
<1> DEFINE found == AllRanges(CollectPositions(lines, tks, 0, op.nested))
           s == [Idle EXCEPT !.op = op, !.pc = "mark", !.found = found]
<1>1. Annotating(op) /\ lines' = lines /\ Begin(t, op, s)
  BY Zenon DEF StartNested
<1> HIDE DEF found
<1>2. s.pc = "mark" /\ s.op = op /\ s.screen = <<>>
  BY DEF Idle
<1> HIDE DEF s
<1>3. th'[t] = s /\ \A u \in Threads \ {t} : th'[u] = th[u]
  BY <1>1, BeginUnmoved
<1>4. ErrorShown(tks, lines', s)
  BY <1>1, <1>2 DEF ErrorShown, Annotating
<1>5. KeepsNotes(lines, lines')
  BY <1>1, LinesAlone
<1> QED
  BY <1>3, <1>4, <1>5, ScreensKeep

\* The spans of an error, and all of them left to print.
LEMMA AllLeft ==
    ASSUME NEW spans \in Seq(Span), Len(spans) > 0
    PROVE  Between(spans, spans, <<>>)
<1>1. LinesShown(<<>>) = <<>> /\ <<>> \in Seq(Nat) /\ Len(<<>>) = 0
  BY DEF LinesShown
<1>2. GoUp(<<>>, spans, 0)
  BY <1>1 DEF GoUp
<1>3. LeftOf(spans, spans, 0)
  BY DEF LeftOf
<1>4. 0 \in Nat /\ LeftOf(spans, spans, 0) /\ GoUp(LinesShown(<<>>), spans, 0)
  BY <1>1, <1>2, <1>3
<1> QED
  BY <1>4 DEF Between

\* Then it says on its lines what it has to say, and prints.
LEMMA AnnotateScreens ==
    ASSUME IInv, MarksInv, ScreensInv, [Next]_vars, NEW t \in Threads, Annotate(t)
    PROVE  ScreensInv'
<1> DEFINE op == th[t].op
           ts == tks
           ls == lines
           ops == painted
           context == op.context
           positions == CollectPositions(ls, ts, 0, op.nested)
           todo == SpansToPrint(ls, BuildHunkSpans(positions, context, Len(ls)))
           new == Annotated(ls, positions, context)
<1>1. /\ th[t].pc = "annotate" /\ lines' = new /\ th' = [th EXCEPT ![t].pc = "span", ![t].todo = todo]
  BY Zenon DEF Annotate
<1>2. Annotating(op) /\ OpTyped(op)
  <2>1. Annotating(op)
    BY <1>1 DEF IInv, OpInv
  <2> QED
    BY <2>1, OpKnown
<1>3. op.op = "error" /\ op.main = 0
  BY <1>2 DEF Annotating
<1>4. /\ (\A u \in Threads \ {t} : th'[u] = th[u])
      /\ th'[t].pc = "span" /\ th'[t].todo = todo /\ th'[t].op = op /\ th'[t].screen = th[t].screen
  BY <1>1, Before
<1>5. th[t].screen = <<>>
  BY <1>1, <1>3 DEF ScreensInv, ErrorShown
<1>6. ts \in Seq(Tokens) /\ LinesMarked(ls, ts, ops) /\ \A i \in DOMAIN ls : Notes(ls[i])
  BY DEF MarksInv, ScreensInv
<1>7. tks = ts /\ lines = ls /\ op.context = context
  OBVIOUS
<1>8. positions = CollectPositions(NewLines(ts), ts, op.main, op.nested)
  <2> DEFINE built == NewLines(ts)
             nested == op.nested
             main == op.main
  <2>1. Same(ls, built) /\ Len(ls) = Len(built)
    BY <1>6, Zenon DEF LinesMarked
  <2>2. CollectPositions(ls, ts, main, nested) = CollectPositions(built, ts, main, nested)
    <3> HIDE DEF built, nested, main, ls, ts
    <3> QED
      BY <2>1, SameCollected
  <2>3. main = 0
    BY <1>3
  <2> HIDE DEF main
  <2>4. positions = CollectPositions(built, ts, main, nested)
    BY <2>2, <2>3, Zenon
  <2> QED
    BY <2>4, Zenon DEF main
<1> DEFINE spans == SpansOf(ts, op)
<1>9. todo = spans
  <2>1. Len(NewLines(ts)) = Len(ls)
    BY <1>6, Zenon DEF LinesMarked
  <2>2. BuildHunkSpans(positions, context, Len(ls)) = HunksOf(ts, op)
    BY <1>8, <2>1, Zenon DEF HunksOf
  <2> DEFINE hunks == HunksOf(ts, op)
  <2>3. todo = SpansToPrint(ls, hunks)
    BY <2>2, Zenon
  <2> HIDE DEF todo, hunks
  <2>4. SpansToPrint(ls, hunks) = SpansToPrint(NewLines(ts), hunks)
    BY <2>1, Zenon DEF SpansToPrint
  <2> QED
    BY <2>3, <2>4, Zenon DEF SpansOf, hunks
<1>10. spans \in Seq(Span) /\ Len(spans) > 0
  <2>1. SpansRight(ts, op, Len(NewLines(ts)))
    BY <1>2, <1>3, <1>6, SpansHold
  <2> QED
    BY <2>1, Zenon DEF SpansRight, InOrder
<1> HIDE DEF todo, positions, ts, ls, ops, op
<1>11. KeepsNotes(ls, new) /\ \A i \in DOMAIN ls : Says(ts, op, new[i], i)
  <2>1. /\ KeepsNotes(ls, Annotated(ls, positions, op.context))
        /\ \A i \in DOMAIN ls : Says(ts, op, Annotated(ls, positions, op.context)[i], i)
    <3> HIDE DEF context, new
    <3> QED
      BY <1>2, <1>3, <1>6, <1>8, AnnotatedAll
  <2> QED
    BY <2>1, Zenon DEF context
<1> HIDE DEF spans, new
<1>12. Between(spans, todo, <<>>)
  BY <1>9, <1>10, AllLeft
<1>13. Frames(ts, op, <<>>)
  <2>1. IsSeq(<<>>) /\ Len(<<>>) = 0
    BY FewSeq
  <2> QED
    BY <2>1 DEF Frames
<1>14. DOMAIN new = DOMAIN ls
  BY <1>11 DEF KeepsNotes
<1>15. ErrorShown(ts, new, th'[t])
  BY <1>3, <1>4, <1>5, <1>11, <1>12, <1>13, <1>14 DEF ErrorShown, spans
<1>16. KeepsNotes(lines, lines') /\ ErrorShown(tks, lines', th'[t])
  BY <1>1, <1>7, <1>11, <1>15, Zenon
<1> QED
  BY <1>4, <1>16, ScreensKeep

\* What an error that is being printed is known to be.
LEMMA PrintedError ==
    ASSUME IInv, MarksInv, NEW t \in Threads, th[t].op.op = "error"
    PROVE  /\ OpTyped(th[t].op) /\ th[t].op \in work.ops
           /\ InOrder(SpansOf(tks, th[t].op), Len(lines)) /\ Len(SpansOf(tks, th[t].op)) > 0
           /\ Len(lines) \in Nat /\ DOMAIN lines = 1 .. Len(lines)
<1> DEFINE op == th[t].op
<1>1. op \in work.ops
  <2>1. op \in work.ops \cup {NoOp}
    BY Zenon DEF IInv, TypeOK
  <2>2. NoOp.op # "error"
    BY DEF NoOp
  <2> HIDE DEF op
  <2>3. op.op = "error"
    BY DEF op
  <2> QED
    BY <2>1, <2>2, <2>3
<1>2. OpTyped(op) /\ tks \in Seq(Tokens) /\ op.op = "error"
  BY <1>1 DEF MarksInv
<1>3. Len(lines) \in Nat /\ DOMAIN lines = 1 .. Len(lines) /\ Len(NewLines(tks)) = Len(lines)
  BY MarkedTyped
<1>4. SpansRight(tks, op, Len(lines))
  BY <1>2, <1>3, SpansHold
<1>5. InOrder(SpansOf(tks, op), Len(lines)) /\ Len(SpansOf(tks, op)) > 0
  BY <1>4, Zenon DEF SpansRight
<1> QED
  BY <1>1, <1>2, <1>3, <1>5

\* The printer takes the lock for a span of which it has no line yet.
LEMMA SpanOpens ==
    ASSUME NEW spans, NEW n, InOrder(spans, n), NEW todo, NEW screen, Between(spans, todo, screen)
    PROVE  Within(spans, todo, 0, screen)
<1>1. PICK k \in Nat : LeftOf(todo, spans, k) /\ GoUp(LinesShown(screen), spans, k)
  BY DEF Between
<1> DEFINE pre == LinesShown(screen)
           m == k + 1
<1>2. pre \in Seq(Nat)
  BY <1>1 DEF GoUp
<1>3. m \in 1 .. Len(spans) /\ spans[m] \in Span /\ spans[m].start <= spans[m].end
  BY <1>1 DEF LeftOf, InOrder
<1>4. 0 \in 0 .. spans[m].end - spans[m].start
  <2>1. spans[m].start \in Int /\ spans[m].end \in Int
    BY <1>3 DEF Span
  <2> QED
    BY <1>3, <2>1
<1>5. Part(spans[m], 0) = <<>>
  BY DEF Part
<1> HIDE DEF pre
<1>6. pre \o Part(spans[m], 0) = pre
  BY <1>2, <1>5
<1> QED
  BY <1>1, <1>2, <1>4, <1>6 DEF Within, pre

\* The screens stand when a goroutine takes the lock for a hunk.
LEMMA BeginSpanScreens ==
    ASSUME IInv, MarksInv, ScreensInv, [Next]_vars, NEW t \in Threads, BeginSpan(t)
    PROVE  ScreensInv'
<1> DEFINE op == th[t].op
           spans == SpansOf(tks, op)
<1>1. /\ th[t].pc = "span" /\ lines' = lines
      /\ th' = [th EXCEPT ![t].pc = "lines", ![t].offset = 0, ![t].expect = painted]
  BY Zenon DEF BeginSpan
<1>2. /\ (\A u \in Threads \ {t} : th'[u] = th[u])
      /\ th'[t].pc = "lines" /\ th'[t].todo = th[t].todo /\ th'[t].op = op /\ th'[t].screen = th[t].screen
      /\ th'[t].offset = 0
  BY <1>1, Before
<1>3. ASSUME op.op = "error" PROVE ErrorShown(tks, lines', th'[t])
  <2>1. /\ op.main # 0 => th[t].pc = "idle"
        /\ Frames(tks, op, th[t].screen) /\ \A i \in DOMAIN lines : Says(tks, op, lines[i], i)
        /\ Between(spans, th[t].todo, th[t].screen)
    BY <1>1, <1>3, Zenon DEF ScreensInv, ErrorShown
  <2>2. InOrder(spans, Len(lines))
    BY <1>3, PrintedError
  <2> DEFINE todo == th[t].todo
             screen == th[t].screen
  <2>3. Within(spans, todo, 0, screen)
    <3> HIDE DEF spans, todo, screen
    <3>1. InOrder(spans, Len(lines)) /\ Between(spans, todo, screen)
      BY <2>1, <2>2 DEF todo, screen
    <3> QED
      BY <3>1, SpanOpens
  <2> HIDE DEF op, spans
  <2> QED
    BY <1>1, <1>2, <2>1, <2>3 DEF ErrorShown, spans
<1>4. ErrorShown(tks, lines', th'[t])
  BY <1>2, <1>3, NoError
<1>5. KeepsNotes(lines, lines')
  BY <1>1, LinesAlone
<1> QED
  BY <1>2, <1>4, <1>5, ScreensKeep

\* The lines of a span, one by one.
LEMMA PartMore ==
    ASSUME NEW span \in Span, NEW o \in Nat
    PROVE  /\ Part(span, o) = [j \in 1 .. o |-> span.start + j] /\ Len(Part(span, o)) = o
           /\ Part(span, o) \in Seq(Int)
           /\ Part(span, o + 1) = Append(Part(span, o), span.start + (o + 1))
<1> DEFINE a == span.start
<1>1. a \in Int
  BY DEF Span
<1>2. \A p \in Nat : Part(span, p) = [j \in 1 .. p |-> a + j]
  BY DEF Part
<1> HIDE DEF a
<1>3. \A p \in Nat : Part(span, p) \in Seq(Int) /\ Len(Part(span, p)) = p
  BY <1>1, <1>2
<1> DEFINE x == Part(span, o)
           y == Part(span, o + 1)
           z == Append(x, a + (o + 1))
<1>4. x \in Seq(Int) /\ Len(x) = o /\ y \in Seq(Int) /\ Len(y) = o + 1 /\ o + 1 \in Nat
  BY <1>3
<1>5. x = [j \in 1 .. o |-> a + j] /\ y = [j \in 1 .. o + 1 |-> a + j]
  BY <1>2, <1>4
<1> HIDE DEF x, y
<1>6. z \in Seq(Int) /\ Len(z) = o + 1 /\ \A j \in 1 .. o + 1 : z[j] = IF j <= o THEN x[j] ELSE a + (o + 1)
  BY <1>1, <1>4
<1> HIDE DEF z
<1>7. \A j \in 1 .. o + 1 : y[j] = z[j]
  <2> SUFFICES ASSUME NEW j \in 1 .. o + 1 PROVE y[j] = z[j]
    OBVIOUS
  <2>1. y[j] = a + j
    BY <1>5
  <2>2. CASE j <= o
    <3>1. j \in 1 .. o
      BY <2>2
    <3>2. x[j] = a + j
      BY <1>5, <3>1
    <3> QED
      BY <1>6, <2>1, <2>2, <3>2
  <2>3. CASE ~(j <= o)
    <3>1. j = o + 1
      BY <2>3
    <3> QED
      BY <1>6, <2>1, <2>3, <3>1
  <2> QED
    BY <2>2, <2>3
<1>8. y = z
  BY <1>4, <1>6, <1>7
<1> QED
  BY <1>3, <1>4, <1>5, <1>8 DEF x, y, z, a

\* What is appended behind is appended to the whole.
LEMMA AppendBehind ==
    ASSUME NEW S, NEW a \in Seq(S), NEW b \in Seq(S), NEW x \in S
    PROVE  a \o Append(b, x) = Append(a \o b, x)
OBVIOUS

\* A frame more on the screen.
LEMMA ShownMore ==
    ASSUME NEW screen, IsSeq(screen), NEW frame
    PROVE  /\ IsSeq(Append(screen, frame)) /\ Len(Append(screen, frame)) = Len(screen) + 1 /\ Len(screen) \in Nat
           /\ \A n \in 1 .. Len(screen) : Append(screen, frame)[n] = screen[n]
           /\ Append(screen, frame)[Len(screen) + 1] = frame
           /\ LinesShown(Append(screen, frame)) = Append(LinesShown(screen), frame.line)
<1> DEFINE S == ToSet(screen) \cup {frame}
           k == Len(screen)
           new == Append(screen, frame)
           x == LinesShown(screen)
           y == LinesShown(new)
           z == Append(x, frame.line)
<1>1. IsSeq(new)
  BY AppendMembers
<1>2. screen \in Seq(ToSet(screen))
  BY DEF IsSeq
<1>3. screen \in Seq(S) /\ frame \in S /\ k \in Nat
  <2> DEFINE T == ToSet(screen)
  <2>1. screen \in Seq(T)
    BY <1>2
  <2> HIDE DEF T
  <2>2. k \in Nat /\ screen \in Seq(T \cup {frame})
    BY <2>1
  <2> QED
    BY <2>2 DEF T
<1> HIDE DEF S
<1>4. /\ Len(new) = k + 1 /\ (\A n \in 1 .. k : new[n] = screen[n]) /\ new[k + 1] = frame
  BY <1>3
<1>5. x = [n \in 1 .. k |-> screen[n].line] /\ y = [n \in 1 .. k + 1 |-> new[n].line]
  BY <1>4, Zenon DEF LinesShown
<1> DEFINE U == {screen[n].line : n \in 1 .. k} \cup {frame.line}
<1>6. x \in Seq(U) /\ Len(x) = k /\ frame.line \in U
  BY <1>3, <1>5, SMTT(30)
<1>7. \A n \in 1 .. k : x[n] = screen[n].line
  BY <1>5
<1> HIDE DEF U, x, new, k
<1>8. z \in Seq(U) /\ Len(z) = k + 1 /\ (\A n \in 1 .. k : z[n] = x[n]) /\ z[k + 1] = frame.line
  BY <1>3, <1>6
<1> HIDE DEF z
<1>9. \A n \in 1 .. k + 1 : z[n] = new[n].line
  <2> SUFFICES ASSUME NEW n \in 1 .. k + 1 PROVE z[n] = new[n].line
    OBVIOUS
  <2>1. CASE n \in 1 .. k
    BY <1>4, <1>7, <1>8, <2>1
  <2>2. CASE n = k + 1
    BY <1>4, <1>8, <2>2
  <2> QED
    BY <1>3, <2>1, <2>2
<1>10. z = [n \in 1 .. k + 1 |-> new[n].line]
  <2>1. z = [n \in 1 .. k + 1 |-> z[n]]
    BY <1>3, <1>8
  <2> QED
    BY <1>9, <2>1
<1>11. y = z
  BY <1>5, <1>10
<1> QED
  BY <1>1, <1>3, <1>4, <1>11 DEF new, k, x, z

\* The span that a printer is in, and its lines.
LEMMA HeadSpan ==
    ASSUME NEW spans, NEW n \in Nat, InOrder(spans, n), NEW k \in Nat, NEW todo, LeftOf(todo, spans, k),
           NEW ls, Len(ls) = n
    PROVE  /\ k + 1 \in 1 .. Len(spans) /\ Head(todo) = spans[k + 1] /\ spans[k + 1] \in Span
           /\ spans[k + 1].start \in Nat /\ spans[k + 1].end \in Nat
           /\ spans[k + 1].start <= spans[k + 1].end /\ spans[k + 1].end <= n
           /\ Len(InSpan(ls, Head(todo))) = spans[k + 1].end - spans[k + 1].start
           /\ \A j \in 1 .. spans[k + 1].end - spans[k + 1].start : InSpan(ls, Head(todo))[j] = spans[k + 1].start + j
<1> DEFINE m == k + 1
           span == spans[m]
<1>1. todo \in Seq(Span) /\ Len(todo) = Len(spans) - k /\ k < Len(spans) /\ \A j \in 1 .. Len(todo) : todo[j] = spans[k + j]
  BY DEF LeftOf
<1>2. spans \in Seq(Span) /\ \A p \in 1 .. Len(spans) : 0 <= spans[p].start /\ spans[p].start <= spans[p].end /\ spans[p].end <= n
  BY DEF InOrder
<1>3. m \in 1 .. Len(spans) /\ 1 \in 1 .. Len(todo)
  BY <1>1, <1>2
<1>4. Head(todo) = span
  <2>1. Head(todo) = todo[1] /\ todo[1] = spans[k + 1]
    BY <1>1, <1>3
  <2> QED
    BY <2>1
<1>5. span \in Span /\ 0 <= span.start /\ span.start <= span.end /\ span.end <= n
  BY <1>2, <1>3
<1> HIDE DEF span
<1>6. span.start \in Nat /\ span.end \in Nat
  <2>1. span.start \in Int /\ span.end \in Int
    BY <1>5 DEF Span
  <2> QED
    BY <1>5, <2>1
<1>7. /\ Len(InSpan(ls, span)) = span.end - span.start
      /\ \A j \in 1 .. span.end - span.start : InSpan(ls, span)[j] = span.start + j
  BY <1>5, InSpanHolds
<1> QED
  BY <1>3, <1>4, <1>5, <1>6, <1>7 DEF span

\* A line more of it.
LEMMA LineGoesOn ==
    ASSUME NEW spans, NEW n \in Nat, InOrder(spans, n), NEW ls, Len(ls) = n, NEW todo, NEW o, NEW screen, IsSeq(screen),
           Within(spans, todo, o, screen), o < Len(InSpan(ls, Head(todo))),
           NEW frame, frame.line = InSpan(ls, Head(todo))[o + 1]
    PROVE  frame.line \in 1 .. n /\ Within(spans, todo, o + 1, Append(screen, frame))
<1>1. PICK k \in Nat, pre \in Seq(Nat) :
        /\ LeftOf(todo, spans, k) /\ GoUp(pre, spans, k)
        /\ o \in 0 .. spans[k + 1].end - spans[k + 1].start
        /\ LinesShown(screen) = pre \o Part(spans[k + 1], o)
  BY DEF Within
<1> DEFINE span == spans[k + 1]
           a == span.start
           b == span.end
           at == InSpan(ls, Head(todo))
<1>2. /\ span \in Span /\ a \in Nat /\ b \in Nat /\ a <= b /\ b <= n /\ Len(at) = b - a
      /\ \A j \in 1 .. b - a : at[j] = a + j
  BY <1>1, HeadSpan
<1>3. o \in Nat /\ o <= b - a /\ o < Len(at) /\ frame.line = at[o + 1]
  <2>1. o \in 0 .. b - a
    BY <1>1
  <2> HIDE DEF a, b
  <2> QED
    BY <1>2, <2>1
<1>4. LinesShown(screen) = pre \o Part(span, o)
  BY <1>1
<1> HIDE DEF span, a, b, at
<1>5. o + 1 \in 1 .. b - a /\ o + 1 \in 0 .. b - a
  BY <1>2, <1>3
<1>6. frame.line = a + (o + 1)
  BY <1>2, <1>3, <1>5
<1>7. frame.line \in 1 .. n
  BY <1>2, <1>5, <1>6
<1>8. LinesShown(Append(screen, frame)) = Append(LinesShown(screen), frame.line)
  BY ShownMore
<1>9. Part(span, o + 1) = Append(Part(span, o), frame.line) /\ Part(span, o) \in Seq(Int)
  BY <1>2, <1>3, <1>6, PartMore, SMTT(30) DEF a
<1>10. pre \o Append(Part(span, o), frame.line) = Append(pre \o Part(span, o), frame.line)
  <2> DEFINE p == Part(span, o)
             x == frame.line
  <2>1. p \in Seq(Int) /\ pre \in Seq(Int) /\ x \in Int
    BY <1>7, <1>9
  <2> HIDE DEF p, x
  <2> QED
    BY <2>1, AppendBehind
<1>11. LinesShown(Append(screen, frame)) = pre \o Part(span, o + 1)
  BY <1>4, <1>8, <1>9, <1>10
<1>12. Within(spans, todo, o + 1, Append(screen, frame))
  BY <1>1, <1>5, <1>11 DEF Within, span, a, b
<1> QED
  BY <1>7, <1>12

\* A span that is printed.
LEMMA SpanCloses ==
    ASSUME NEW spans, NEW n \in Nat, InOrder(spans, n), NEW ls, Len(ls) = n, NEW todo, NEW o, NEW screen,
           Within(spans, todo, o, screen), o = Len(InSpan(ls, Head(todo)))
    PROVE  IF Len(todo) = 1 THEN GoUp(LinesShown(screen), spans, Len(spans)) ELSE Between(spans, Tail(todo), screen)
<1>1. PICK k \in Nat, pre \in Seq(Nat) :
        /\ LeftOf(todo, spans, k) /\ GoUp(pre, spans, k)
        /\ o \in 0 .. spans[k + 1].end - spans[k + 1].start
        /\ LinesShown(screen) = pre \o Part(spans[k + 1], o)
  BY DEF Within
<1> DEFINE m == k + 1
           span == spans[m]
           x == Part(span, o)
<1>2. /\ m \in 1 .. Len(spans) /\ span \in Span /\ span.start \in Nat /\ span.end \in Nat /\ span.start <= span.end
      /\ Len(InSpan(ls, Head(todo))) = span.end - span.start
  BY <1>1, HeadSpan
<1>3. LinesShown(screen) = pre \o x
  BY <1>1
<1> HIDE DEF span
<1>4. o \in Nat /\ o = span.end - span.start
  BY <1>2
<1>5. x = [j \in 1 .. o |-> span.start + j] /\ Len(x) = o
  BY <1>2, <1>4, PartMore
<1> HIDE DEF x
<1>6. x \in Seq(Nat) /\ \A j \in 1 .. Len(x) : x[j] = span.start + j
  <2> DEFINE a == span.start
  <2>1. a \in Nat /\ o \in Nat /\ x = [j \in 1 .. o |-> a + j] /\ Len(x) = o
    BY <1>2, <1>4, <1>5
  <2> HIDE DEF a
  <2>2. x \in Seq(Nat) /\ \A j \in 1 .. o : x[j] = a + j
    BY <2>1
  <2> QED
    BY <2>1, <2>2 DEF a
<1>7. GoUp(pre \o x, spans, m)
  <2>1. m = k + 1 /\ m <= Len(spans) /\ k \in Nat
    BY <1>2
  <2>2. Len(x) = spans[m].end - spans[m].start /\ \A j \in 1 .. Len(x) : x[j] = spans[m].start + j
    BY <1>4, <1>5, <1>6 DEF span
  <2>3. GoUp(pre, spans, k)
    BY <1>1
  <2> HIDE DEF m
  <2> QED
    BY <1>6, <2>1, <2>2, <2>3, GoUpMore
<1>8. GoUp(LinesShown(screen), spans, m)
  BY <1>3, <1>7
<1>9. /\ todo \in Seq(Span) /\ Len(todo) = Len(spans) - k /\ k < Len(spans) /\ Len(spans) \in Nat
      /\ \A j \in 1 .. Len(todo) : todo[j] = spans[k + j]
  <2>1. spans \in Seq(Span)
    BY DEF InOrder
  <2> QED
    BY <1>1, <2>1 DEF LeftOf
<1>10. CASE Len(todo) = 1
  <2>1. m = Len(spans)
    <3> DEFINE K == Len(spans)
               h == Len(todo)
    <3>1. h = 1 /\ K \in Nat /\ k \in Nat /\ h = K - k
      BY <1>9, <1>10
    <3> HIDE DEF K, h
    <3>2. k + 1 = K
      BY <3>1
    <3> QED
      BY <3>2 DEF K
  <2> QED
    BY <1>8, <1>10, <2>1
<1>11. CASE Len(todo) # 1
  <2> DEFINE rest == Tail(todo)
             K == Len(spans)
             h == Len(todo)
  <2>1. h \in Nat /\ K \in Nat /\ h = K - k /\ k < K /\ h # 1
    BY <1>9, <1>11
  <2>2. rest \in Seq(Span) /\ Len(rest) = h - 1 /\ \A j \in 1 .. h - 1 : rest[j] = todo[j + 1]
    <3>1. Len(todo) > 0
      BY <2>1
    <3> QED
      BY <1>9, <3>1
  <2> HIDE DEF rest, K, h
  <2>3. m \in Nat /\ m < K /\ Len(rest) = K - m
    BY <2>1, <2>2
  <2>4. ASSUME NEW j \in 1 .. Len(rest) PROVE rest[j] = spans[m + j]
    <3>1. j \in 1 .. h - 1 /\ j + 1 \in 1 .. h /\ k + (j + 1) = m + j
      BY <2>1, <2>2
    <3>2. rest[j] = todo[j + 1] /\ todo[j + 1] = spans[k + (j + 1)]
      BY <1>9, <2>2, <3>1 DEF h
    <3> QED
      BY <3>1, <3>2
  <2>5. LeftOf(rest, spans, m)
    BY <2>2, <2>3, <2>4 DEF LeftOf, K
  <2>6. Between(spans, rest, screen)
    BY <1>8, <2>3, <2>5 DEF Between
  <2> QED
    BY <1>11, <2>6 DEF rest
<1> QED
  BY <1>10, <1>11

\* The printer shows a line as it is.
LEMMA PrintLineScreens ==
    ASSUME IInv, MarksInv, ScreensInv, [Next]_vars, NEW t \in Threads, PrintLine(t)
    PROVE  ScreensInv'
<1> DEFINE op == th[t].op
           o == th[t].offset
           todo == th[t].todo
           screen == th[t].screen
           spans == SpansOf(tks, op)
           i == InSpan(lines, Head(todo))[o + 1]
           frame == [line |-> i, expect |-> th[t].expect, got |-> lines[i]]
           new == Append(screen, frame)
<1>1. /\ th[t].pc = "lines" /\ lines' = lines /\ o < Len(InSpan(lines, Head(todo)))
      /\ th' = [th EXCEPT ![t].offset = @ + 1, ![t].screen = Append(@, frame)]
  BY Zenon DEF PrintLine
<1>2. frame.line = i /\ frame.got = lines[i]
  OBVIOUS
<1> HIDE DEF frame
<1>3. /\ \A u \in Threads \ {t} : th'[u] = th[u]
      /\ th'[t].pc = "lines" /\ th'[t].op = op /\ th'[t].todo = todo
      /\ th'[t].offset = o + 1 /\ th'[t].screen = new
  BY <1>1, Before
<1>4. ASSUME op.op = "error" PROVE ErrorShown(tks, lines', th'[t])
  <2>1. /\ op.main # 0 => th[t].pc = "idle"
        /\ Frames(tks, op, screen) /\ \A l \in DOMAIN lines : Says(tks, op, lines[l], l)
        /\ Within(spans, todo, o, screen)
    BY <1>1, <1>4, Zenon DEF ScreensInv, ErrorShown
  <2>2. op.main = 0
    BY <1>1, <2>1
  <2>3. /\ InOrder(spans, Len(lines)) /\ Len(lines) \in Nat /\ DOMAIN lines = 1 .. Len(lines)
    BY <1>4, PrintedError
  <2>4. IsSeq(screen)
    BY <2>1 DEF Frames
  <2>5. frame.line \in 1 .. Len(lines) /\ Within(spans, todo, o + 1, new)
    <3> DEFINE n == Len(lines)
               ls == lines
    <3>1. n \in Nat /\ Len(ls) = n /\ InOrder(spans, n) /\ Within(spans, todo, o, screen)
          /\ o < Len(InSpan(ls, Head(todo))) /\ frame.line = InSpan(ls, Head(todo))[o + 1]
      BY <1>1, <1>2, <2>1, <2>3
    <3> HIDE DEF n, ls, spans, todo, o, screen, i
    <3> QED
      BY <2>4, <3>1, LineGoesOn DEF n, ls
  <2>6. Says(tks, op, frame.got, frame.line)
    BY <1>2, <2>1, <2>3, <2>5
  <2> HIDE DEF op, spans, todo, o, screen
  <2>7. Frames(tks, op, new)
    <3> DEFINE k == Len(screen)
    <3>1. /\ IsSeq(new) /\ Len(new) = k + 1 /\ k \in Nat
          /\ (\A m \in 1 .. k : new[m] = screen[m]) /\ new[k + 1] = frame
      BY <2>4, ShownMore
    <3>2. \A m \in 1 .. k : Says(tks, op, screen[m].got, screen[m].line)
      BY <2>1 DEF Frames
    <3> HIDE DEF k, new
    <3>3. ASSUME NEW m \in 1 .. Len(new) PROVE Says(tks, op, new[m].got, new[m].line)
      <4>1. m \in 1 .. k \/ m = k + 1
        BY <3>1
      <4>2. CASE m \in 1 .. k
        BY <3>1, <3>2, <4>2
      <4>3. CASE m = k + 1
        BY <2>6, <3>1, <4>3
      <4> QED
        BY <4>1, <4>2, <4>3
    <3> QED
      BY <3>1, <3>3 DEF Frames
  <2> HIDE DEF new
  <2>8. \A l \in DOMAIN lines' : Says(tks, op, lines'[l], l)
    BY <1>1, <2>1
  <2> QED
    BY <1>3, <2>2, <2>5, <2>7, <2>8 DEF ErrorShown, spans
<1>5. ErrorShown(tks, lines', th'[t])
  BY <1>3, <1>4, NoError
<1>6. KeepsNotes(lines, lines')
  BY <1>1, LinesAlone
<1> QED
  BY <1>3, <1>5, <1>6, ScreensKeep

\* The printer is through with a span, and with the last one the screen is
\* complete.
LEMMA EndSpanScreens ==
    ASSUME IInv, MarksInv, ScreensInv, [Next]_vars, NEW t \in Threads, EndSpan(t)
    PROVE  ScreensInv'
<1> DEFINE op == th[t].op
           o == th[t].offset
           todo == th[t].todo
           screen == th[t].screen
           spans == SpansOf(tks, op)
           rest == Tail(todo)
           pc == IF Len(todo) = 1 THEN "idle" ELSE "span"
<1>1. /\ th[t].pc = "lines" /\ lines' = lines /\ o = Len(InSpan(lines, Head(todo)))
      /\ th' = [th EXCEPT ![t].todo = Tail(@), ![t].pc = pc]
  BY Zenon DEF EndSpan
<1>2. (Len(todo) = 1 => pc = "idle") /\ (Len(todo) # 1 => pc = "span")
  OBVIOUS
<1> HIDE DEF pc
<1>3. /\ \A u \in Threads \ {t} : th'[u] = th[u]
      /\ th'[t].pc = pc /\ th'[t].op = op /\ th'[t].todo = rest /\ th'[t].screen = screen
  BY <1>1, Before
<1>4. ASSUME op.op = "error" PROVE ErrorShown(tks, lines', th'[t])
  <2>1. /\ op.main # 0 => th[t].pc = "idle"
        /\ Frames(tks, op, screen) /\ \A l \in DOMAIN lines : Says(tks, op, lines[l], l)
        /\ Within(spans, todo, o, screen)
    BY <1>1, <1>4, Zenon DEF ScreensInv, ErrorShown
  <2>2. op.main = 0
    BY <1>1, <2>1
  <2>3. InOrder(spans, Len(lines)) /\ Len(lines) \in Nat
    BY <1>4, PrintedError
  <2>4. IF Len(todo) = 1 THEN GoUp(LinesShown(screen), spans, Len(spans)) ELSE Between(spans, rest, screen)
    <3> DEFINE n == Len(lines)
               ls == lines
    <3>1. n \in Nat /\ Len(ls) = n /\ InOrder(spans, n) /\ Within(spans, todo, o, screen)
          /\ o = Len(InSpan(ls, Head(todo)))
      BY <1>1, <2>1, <2>3
    <3> HIDE DEF n, ls, spans, todo, o, screen
    <3> QED
      BY <3>1, SpanCloses
  <2> HIDE DEF op, spans, todo, o, screen, rest
  <2>5. \A l \in DOMAIN lines' : Says(tks, op, lines'[l], l)
    BY <1>1, <2>1
  <2>6. CASE Len(todo) = 1
    <3>1. GoUp(LinesShown(screen), spans, Len(spans)) /\ pc = "idle"
      BY <1>2, <2>4, <2>6
    <3>2. Complete(tks, op, screen)
      BY <2>1, <3>1 DEF Complete, Frames, spans
    <3> QED
      BY <1>3, <2>2, <3>1, <3>2 DEF ErrorShown
  <2>7. CASE Len(todo) # 1
    <3>1. Between(spans, rest, screen) /\ pc = "span"
      BY <1>2, <2>4, <2>7
    <3> QED
      BY <1>3, <2>1, <2>2, <2>5, <3>1 DEF ErrorShown, spans
  <2> QED
    BY <2>6, <2>7
<1>5. ErrorShown(tks, lines', th'[t])
  BY <1>3, <1>4, NoError
<1>6. KeepsNotes(lines, lines')
  BY <1>1, LinesAlone
<1> QED
  BY <1>3, <1>5, <1>6, ScreensKeep

\* The lines of a revision say nothing before anybody annotates them.
LEMMA FlaggedSilent ==
    ASSUME NEW ts \in Seq(Tokens), NEW flag, NEW i \in DOMAIN Flagged(NewLines(ts), flag)
    PROVE  Notes(Flagged(NewLines(ts), flag)[i])
<1> DEFINE built == NewLines(ts)
           new == Flagged(built, flag)
<1>1. built \in Seq(Line)
  BY NewLinesHold
<1>2. DOMAIN new = DOMAIN built /\ \A j \in DOMAIN built : new[j] = [built[j] EXCEPT !.flag = flag]
  BY DEF Flagged
<1> HIDE DEF new
<1>3. i \in DOMAIN built
  BY <1>2 DEF new
<1>4. Notes(built[i])
  BY <1>3, NewLinesSilent
<1> HIDE DEF built
<1>5. "annotations" \in DOMAIN built[i] /\ new[i].annotations = built[i].annotations
  <2>1. built[i] \in Line
    BY <1>1, <1>3
  <2>2. {"annotations", "flag"} \subseteq DOMAIN built[i]
    BY <2>1 DEF Line
  <2>3. new[i] = [built[i] EXCEPT !.flag = flag]
    BY <1>2, <1>3
  <2> QED
    BY <2>2, <2>3
<1>6. Notes(new[i])
  BY <1>4, <1>5 DEF Notes
<1> QED
  BY <1>6 DEF new, built

\* At the beginning nobody shows anything.
LEMMA InitScreens ==
    ASSUME Init, TextFaithful
    PROVE  ScreensInv
<1> DEFINE w == work
           ts == tks
           ls == lines
           flag == work.flag
<1>1. /\ w \in Works /\ ls = Flagged(NewLines(ts), flag) /\ \A t \in Threads : th[t] = Idle
  BY DEF Init
<1>2. /\ {"file", "ops", "left", "budget", "width"} \subseteq DOMAIN w /\ ts \in Seq(Tokens)
      /\ w.left = w.budget /\ w.width \in Nat
      /\ \A op \in w.ops : op.op = "error" =>
            \A m \in DOMAIN op.nested : op.nested[m].token # 0 =>
               \E p \in w.file.spots[op.nested[m].token] : p.line = op.nested[m].line - 1
  BY <1>1, SourceAssumption, Zenon DEF tks
<1>3. \A op \in w.ops : op.op = "error" =>
         RangeCells(AllRanges(CollectPositions(ls, ts, op.main, op.nested))) = TargetCells(w.file, op)
  BY <1>2, Zenon DEF TextFaithful
<1>4. Same(ls, NewLines(ts)) /\ Len(ls) = Len(NewLines(ts))
  <2> HIDE DEF ts, flag, ls
  <2>1. LinesMarked(ls, ts, {})
    BY <1>1, <1>2, NewMarks
  <2> QED
    BY <2>1, Zenon DEF LinesMarked
<1>5. ASSUME NEW op \in w.ops, op.op = "error"
      PROVE  RangeCells(RangesFor(ts, op)) = TargetCells(w.file, op)
  <2> DEFINE built == NewLines(ts)
             main == op.main
             nested == op.nested
  <2>1. CollectPositions(ls, ts, main, nested) = CollectPositions(built, ts, main, nested)
    <3>1. Same(ls, built) /\ Len(ls) = Len(built)
      BY <1>4
    <3> HIDE DEF built, nested, main, ls, ts
    <3> QED
      BY <3>1, SameCollected
  <2>2. RangeCells(AllRanges(CollectPositions(ls, ts, main, nested))) = TargetCells(w.file, op)
    BY <1>3, <1>5, Zenon
  <2>3. RangeCells(AllRanges(CollectPositions(built, ts, main, nested))) = TargetCells(w.file, op)
    BY <2>1, <2>2, Zenon
  <2> QED
    BY <2>3, Zenon DEF RangesFor
<1>6. WorkStands
  BY <1>2, <1>5, Zenon DEF WorkStands
<1>7. ASSUME NEW i \in DOMAIN ls PROVE Notes(ls[i])
  <2> HIDE DEF ts, flag, ls
  <2> QED
    BY <1>1, <1>2, <1>7, FlaggedSilent
<1>8. ASSUME NEW t \in Threads PROVE ErrorShown(ts, ls, th[t])
  BY <1>1, IdleShows
<1> QED
  BY <1>6, <1>7, <1>8 DEF ScreensInv

\* Every step keeps what the screens show.
LEMMA NextScreens ==
    ASSUME IInv, MarksInv, ScreensInv, [Next]_vars
    PROVE  ScreensInv'
<1>1. CASE Next
  <2>1. PICK t \in Threads : Start(t) \/ Step(t)
    BY <1>1 DEF Next
  <2>2. CASE Start(t)
    <3>1. PICK op \in work.ops :
            StartPrint(t, op) \/ StartHighlight(t, op) \/ StartClear(t, op) \/ ShowError(t, op) \/ StartNested(t, op)
      BY <2>2, Zenon DEF Start
    <3> QED
      BY <3>1, BeginScreens, ShowErrorScreens, StartNestedScreens
  <2>3. CASE Step(t)
    BY <2>3, BeginSpanScreens, PrintLineScreens, EndSpanScreens, SearchScreens, MarkScreens, ClearScreens,
       AnnotateScreens DEF Step
  <2> QED
    BY <2>1, <2>2, <2>3
<1>2. CASE UNCHANGED vars
  <2>1. work' = work /\ lines' = lines /\ th' = th
    BY <1>2 DEF vars
  <2>2. SameWork /\ WorkStands'
    BY WorkStays DEF ScreensInv
  <2>3. tks' = tks
    BY <2>2 DEF SameWork, tks
  <2>4. \A i \in DOMAIN lines' : Notes(lines'[i])
    BY <2>1 DEF ScreensInv
  <2>5. \A t \in Threads : ErrorShown(tks', lines', th'[t])
    BY <2>1, <2>3, Zenon DEF ScreensInv
  <2> QED
    BY <2>2, <2>4, <2>5, Zenon DEF ScreensInv
<1> QED
  BY <1>1, <1>2

\* What a complete screen is known to be.
ShownWhole(e) ==
    /\ OpTyped(e.op) /\ e.op \in work.ops /\ e.op.op = "error" /\ Complete(tks, e.op, e.screen)
    /\ RangeCells(RangesFor(tks, e.op)) = TargetCells(work.file, e.op)
    /\ \A m \in DOMAIN e.op.nested : e.op.nested[m].token # 0 =>
          \E p \in work.file.spots[e.op.nested[m].token] : p.line = e.op.nested[m].line - 1

\* An error whose goroutine is at rest has its screen complete.
LEMMA ErrorsWhole ==
    ASSUME IInv, MarksInv, ScreensInv
    PROVE  /\ tks \in Seq(Tokens) /\ work.width \in Nat
           /\ Len(NewLines(tks)) \in Nat /\ DOMAIN lines = 1 .. Len(NewLines(tks))
           /\ \A e \in ErrorScreens : ShownWhole(e)
<1>1. /\ tks \in Seq(Tokens) /\ work.width \in Nat
      /\ Len(NewLines(tks)) \in Nat /\ DOMAIN lines = 1 .. Len(NewLines(tks))
  <2>1. tks \in Seq(Tokens) /\ work.width \in Nat
    BY Zenon DEF MarksInv, ScreensInv, WorkStands
  <2>2. Len(lines) \in Nat /\ DOMAIN lines = 1 .. Len(lines) /\ Len(NewLines(tks)) = Len(lines)
    BY MarkedTyped
  <2> QED
    BY <2>1, <2>2
<1>2. ASSUME NEW e \in ErrorScreens PROVE ShownWhole(e)
  <2>1. PICK t \in Threads : e = th[t] /\ th[t].op.op = "error" /\ th[t].pc = "idle"
    BY DEF ErrorScreens
  <2>2. OpTyped(e.op) /\ e.op \in work.ops
    BY <2>1, PrintedError
  <2>3. Complete(tks, e.op, e.screen)
    BY <2>1 DEF ScreensInv, ErrorShown
  <2>4. /\ RangeCells(RangesFor(tks, e.op)) = TargetCells(work.file, e.op)
        /\ \A m \in DOMAIN e.op.nested : e.op.nested[m].token # 0 =>
              \E p \in work.file.spots[e.op.nested[m].token] : p.line = e.op.nested[m].line - 1
    BY <2>1, <2>2, Zenon DEF ScreensInv, WorkStands
  <2> QED
    BY <2>1, <2>2, <2>3, <2>4, Zenon DEF ShownWhole
<1> QED
  BY <1>1, <1>2

\* So the lines of its screen are those near its tokens.
LEMMA HunksRight ==
    ASSUME IInv, MarksInv, ScreensInv
    PROVE  HunksShowContext
<1> DEFINE n == Len(NewLines(tks))
<1>1. tks \in Seq(Tokens) /\ work.width \in Nat /\ n \in Nat /\ DOMAIN lines = 1 .. n
  BY ErrorsWhole
<1>2. ASSUME NEW e \in ErrorScreens
      PROVE  LET marked == {p.line + 1 : p \in TargetCells(work.file, e.op)}
                 near == {l \in DOMAIN lines : \E k \in marked : k - l \in -e.op.context .. e.op.context}
             IN  /\ LinesOn(e.screen) = IF marked = {} THEN DOMAIN lines ELSE near
                 /\ \A m \in DOMAIN e.screen \ {1} :
                       LET gap == e.screen[m].line - e.screen[m - 1].line IN
                       /\ gap > 0
                       /\ gap > 1 => Ellipsis \in ToSet(Rows(e.screen[m])[1].notes)
                       /\ gap = 1 /\ e.op.main # 0 => Ellipsis \notin NotesOn(e.screen[m])
  <2> DEFINE op == e.op
             screen == e.screen
  <2>1. /\ OpTyped(op) /\ op.op = "error" /\ Complete(tks, op, screen)
        /\ RangeCells(RangesFor(tks, op)) = TargetCells(work.file, op)
    BY ErrorsWhole, Zenon DEF ShownWhole
  <2>2. n = Len(NewLines(tks))
    OBVIOUS
  <2> HIDE DEF op, screen, n
  <2>3. LET marked == {p.line + 1 : p \in TargetCells(work.file, op)}
            near == {l \in DOMAIN lines : \E k \in marked : k - l \in -op.context .. op.context}
        IN  /\ LinesOn(screen) = IF marked = {} THEN DOMAIN lines ELSE near
            /\ \A m \in DOMAIN screen \ {1} :
                  LET gap == screen[m].line - screen[m - 1].line IN
                  /\ gap > 0
                  /\ gap > 1 => Ellipsis \in ToSet(Rows(screen[m])[1].notes)
                  /\ gap = 1 /\ op.main # 0 => Ellipsis \notin NotesOn(screen[m])
    BY <1>1, <2>1, <2>2, HunksShown
  <2> QED
    BY <2>3, Zenon DEF op, screen
<1> QED
  BY <1>2, Zenon DEF HunksShowContext

\* And the messages stand under the lines of theirs.
LEMMA MessagesRight ==
    ASSUME IInv, MarksInv, ScreensInv
    PROVE  MessagesPlaced
<1> DEFINE n == Len(NewLines(tks))
<1>1. tks \in Seq(Tokens) /\ work.width \in Nat /\ n \in Nat /\ DOMAIN lines = 1 .. n
  BY ErrorsWhole
<1>2. ASSUME NEW e \in ErrorScreens, NEW m \in DOMAIN e.op.nested
      PROVE  LET target == e.op.nested[m] IN
             /\ target.token # 0 => target.line \in LinesOn(e.screen)
             /\ \A i \in DOMAIN e.screen :
                   IF e.screen[i].line = target.line THEN m \in ToSet(Last(Rows(e.screen[i])).notes)
                   ELSE e.op.main # 0 => m \notin NotesOn(e.screen[i])
  <2> DEFINE op == e.op
             screen == e.screen
  <2>1. /\ OpTyped(op) /\ op.op = "error" /\ Complete(tks, op, screen)
        /\ RangeCells(RangesFor(tks, op)) = TargetCells(work.file, op)
        /\ op.nested[m].token # 0 => \E p \in work.file.spots[op.nested[m].token] : p.line = op.nested[m].line - 1
    BY ErrorsWhole, Zenon DEF ShownWhole
  <2>2. n = Len(NewLines(tks)) /\ m \in DOMAIN op.nested
    OBVIOUS
  <2> HIDE DEF op, screen, n
  <2>3. LET target == op.nested[m] IN
        /\ target.token # 0 => target.line \in LinesOn(screen)
        /\ \A i \in DOMAIN screen :
              IF screen[i].line = target.line THEN m \in ToSet(Last(Rows(screen[i])).notes)
              ELSE op.main # 0 => m \notin NotesOn(screen[i])
    BY <1>1, <2>1, <2>2, MessagesShown
  <2> QED
    BY <2>3, Zenon DEF op, screen
<1> QED
  BY <1>2, Zenon DEF MessagesPlaced

\* The three invariants hold throughout.
LEMMA ScreensKept == Spec /\ TextFaithful => [](IInv /\ MarksInv /\ ScreensInv)
<1>1. Init => MarksInv
  BY InitMarks
<1>2. IInv /\ MarksInv /\ [Next]_vars => MarksInv'
  BY NextMarks
<1>3. Init /\ TextFaithful => ScreensInv
  BY InitScreens
<1>4. IInv /\ MarksInv /\ ScreensInv /\ [Next]_vars => ScreensInv'
  BY NextScreens
<1> QED
  BY <1>1, <1>2, <1>3, <1>4, Invariant, PTL DEF Spec

\* Wherever the lexer's stream is read faithfully at the beginning, an error
\* shows the lines of its tokens with their context, each once and in order,
\* and says so above the first line behind a gap, whatever other goroutines
\* print, mark or clear meanwhile (error.go:352-372, 500-530,
\* position.go:268-293).
THEOREM HunksKept == Spec /\ TextFaithful => []HunksShowContext
<1>1. IInv /\ MarksInv /\ ScreensInv => HunksShowContext
  BY HunksRight
<1> QED
  BY <1>1, ScreensKept, PTL

\* In the same programs the message of a nested error stands in the last row
\* of its line, and an error of its own source says it nowhere else
\* (error.go:376-405, 455-500, print.go:507-548).
THEOREM MessagesKept == Spec /\ TextFaithful => []MessagesPlaced
<1>1. IInv /\ MarksInv /\ ScreensInv => MessagesPlaced
  BY MessagesRight
<1> QED
  BY <1>1, ScreensKept, PTL
=============================================================================
