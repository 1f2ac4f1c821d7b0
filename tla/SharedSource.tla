---------------------------- MODULE SharedSource ----------------------------
(* source.go and its callers: a Source whose lines several goroutines read  *)
(* and mark at once.  Its overlay lock, a sync.RWMutex, is held for reading *)
(* while lines are handed to a printer or runes to a finder, and for        *)
(* writing while overlays are added or cleared.  A Finder, with a lock of   *)
(* its own, is shared as well.  Errors print a source of their own, made    *)
(* from the token chain, or, when only nested errors have a place, mark the *)
(* Source they were given.                                                  *)
EXTENDS Finder, ErrorSource

CONSTANTS Threads, NoThread,
          Works   \* what a program does: a file, how it is shown, its operations

ASSUME SourceAssumption ==
    /\ NoThread \notin Threads
    /\ \A w \in Works :
          /\ {"file", "ops", "left", "budget", "width"} \subseteq DOMAIN w
          /\ w.file.tks \in Seq(Tokens) /\ w.left = w.budget /\ w.width \in Nat
          /\ \A op \in w.ops :
                /\ op.op = "highlight" => op.term \in Seq(STRING)
                /\ op.op = "error" =>
                      /\ op.context \in Nat
                      /\ op.nested \in Seq([token : Nat, line : Nat \ {0}, col : Nat])
                      /\ \A m \in DOMAIN op.nested : op.nested[m].token # 0 =>
                            \E p \in w.file.spots[op.nested[m].token] : p.line = op.nested[m].line - 1

VARIABLES work,       \* the file, its text, and the operations still allowed
          lines,      \* Source.lines
          overlayMu,  \* Source.overlayMu
          finderMu,   \* Finder.mu
          source,     \* Finder: the text it searches, <<>> before Load
          loaded,     \* Finder: Load has seen this Source
          th,         \* the goroutines
          painted     \* ghost: the operations whose marks have not been cleared since
vars == <<work, lines, overlayMu, finderMu, source, loaded, th, painted>>

tks == work.file.tks

-----------------------------------------------------------------------------
(* sync.RWMutex: a writer that waits keeps new readers out.                 *)

Free == [readers |-> {}, waiting |-> {}, writer |-> NoThread]
CanRead(mu) == mu.writer = NoThread /\ mu.waiting = {}
CanWrite(mu, t) == mu.writer = NoThread /\ mu.readers = {} /\ t \in mu.waiting
Read(mu, t) == [mu EXCEPT !.readers = @ \cup {t}]
Await(mu, t) == [mu EXCEPT !.waiting = @ \cup {t}]
Write(mu, t) == [mu EXCEPT !.waiting = @ \ {t}, !.writer = t]
Release(mu, t) == [mu EXCEPT !.readers = @ \ {t}, !.writer = IF @ = t THEN NoThread ELSE @]
\* Lock, some work, Unlock, in a single step.
Pass(mu, t) == Release(Write(mu, t), t)

-----------------------------------------------------------------------------
(* What the marks of a file ought to be, by its text alone.                 *)

NoOp == [op |-> "none"]
Idle == [pc |-> "idle", op |-> NoOp, todo |-> <<>>, offset |-> 0, found |-> <<>>,
         expect |-> {}, screen |-> <<>>]

\* A line's text in normal form, every rune with the column it comes from.
NormalLine(text) ==
    FlattenSeq([c \in DOMAIN text |->
        [m \in DOMAIN Normal(text[c]) |-> [rune |-> Normal(text[c])[m], col |-> c - 1]]])

\* The columns of the occurrences of a term, from left to right.
Occurrences(text, term) ==
    LET s == NormalLine(text)
        n == Len(term)
        Here(i) == [m \in 1 .. n |-> s[i + m - 1].rune] = term
        from[i \in 1 .. Len(s) + n] ==
          IF i + n - 1 > Len(s) THEN {}
          ELSE IF Here(i) THEN (s[i].col .. s[i + n - 1].col) \cup from[i + n]
          ELSE from[i + 1]
    IN  IF n = 0 THEN {} ELSE from[1]

OccurrenceCells(text, term) ==
    UNION {{Pos(l - 1, c) : c \in Occurrences(text[l], term)} : l \in DOMAIN text}

\* The cells of the tokens that an error points to.
TargetCells(file, op) ==
    UNION {file.spots[i] : i \in ({op.main} \cup {op.nested[m].token : m \in DOMAIN op.nested}) \ {0}}

KindOf(op) == IF op.op = "highlight" THEN "match" ELSE "error"
MarkCells(file, op) ==
    IF op.op = "highlight" THEN OccurrenceCells(file.text, Normalize(op.term)) ELSE TargetCells(file, op)

-----------------------------------------------------------------------------
\* The lines of a revision carry the flags of a diff.
Flagged(built, flag) == [i \in DOMAIN built |-> [built[i] EXCEPT !.flag = flag]]

Init ==
    /\ work \in Works
    /\ lines = Flagged(NewLines(tks), work.flag)
    /\ overlayMu = Free /\ finderMu = Free
    /\ source = <<>> /\ loaded = FALSE
    /\ th = [t \in Threads |-> Idle]
    /\ painted = {}

\* Only one goroutine uses a Source whose annotations change: AddAnnotation
\* takes no lock.
Alone(t) == \A u \in Threads \ {t} : th[u].pc = "idle"
Annotating(op) == op.op = "error" /\ op.main = 0

Begin(t, op, state) ==
    /\ t \in work.team /\ th[t].pc = "idle" /\ work.left > 0
    /\ IF Annotating(op) THEN Alone(t) ELSE \A u \in Threads : th[u].pc = "idle" \/ ~Annotating(th[u].op)
    /\ work' = [work EXCEPT !.left = @ - 1]
    /\ th' = [th EXCEPT ![t] = state]

-----------------------------------------------------------------------------
(* Printer.Print: the lock is taken anew for every span.                    *)

StartPrint(t, op) ==
    /\ op.op = "print"
    /\ Begin(t, op, [Idle EXCEPT !.op = op, !.pc = "span", !.todo = SpansToPrint(lines, op.spans)])
    /\ UNCHANGED <<lines, overlayMu, finderMu, source, loaded, painted>>

BeginSpan(t) ==
    /\ th[t].pc = "span" /\ th[t].todo # <<>>
    /\ CanRead(overlayMu)
    /\ overlayMu' = Read(overlayMu, t)
    /\ th' = [th EXCEPT ![t].pc = "lines", ![t].offset = 0, ![t].expect = painted]
    /\ UNCHANGED <<work, lines, finderMu, source, loaded, painted>>

\* AllLines hands out one line as it is, and the printer renders it.
PrintLine(t) ==
    /\ th[t].pc = "lines"
    /\ LET at == InSpan(lines, Head(th[t].todo))
           i == at[th[t].offset + 1]
       IN  /\ th[t].offset < Len(at)
           /\ th' = [th EXCEPT ![t].offset = @ + 1,
                               ![t].screen = Append(@, [line |-> i, expect |-> th[t].expect, got |-> lines[i]])]
    /\ UNCHANGED <<work, lines, overlayMu, finderMu, source, loaded, painted>>

\* The lock kept after the last line.
EndSpanHolding(t) ==
    /\ th[t].pc = "lines"
    /\ th[t].offset = Len(InSpan(lines, Head(th[t].todo)))
    /\ th' = [th EXCEPT ![t].todo = Tail(@), ![t].pc = IF Len(th[t].todo) = 1 THEN "idle" ELSE "span"]
    /\ UNCHANGED <<work, lines, overlayMu, finderMu, source, loaded, painted>>

EndSpan(t) ==
    /\ th[t].pc = "lines"
    /\ th[t].offset = Len(InSpan(lines, Head(th[t].todo)))
    /\ overlayMu' = Release(overlayMu, t)
    /\ th' = [th EXCEPT ![t].todo = Tail(@), ![t].pc = IF Len(th[t].todo) = 1 THEN "idle" ELSE "span"]
    /\ UNCHANGED <<work, lines, finderMu, source, loaded, painted>>

-----------------------------------------------------------------------------
(* Finder.Load, Finder.Find, and Source.AddOverlay with what was found.     *)

StartHighlight(t, op) ==
    /\ op.op = "highlight" /\ Begin(t, op, [Idle EXCEPT !.op = op, !.pc = "load"])
    /\ finderMu' = Await(finderMu, t)
    /\ UNCHANGED <<lines, overlayMu, source, loaded, painted>>

\* An early return that forgets to unlock.
LoadHolding(t) ==
    /\ th[t].pc = "load" /\ CanWrite(finderMu, t)
    /\ finderMu' = Write(finderMu, t)
    /\ th' = [th EXCEPT ![t].pc = IF loaded THEN "find" ELSE "build"]
    /\ UNCHANGED <<work, lines, overlayMu, source, loaded, painted>>

\* Load knows its input by the pointer.
Load(t) ==
    /\ th[t].pc = "load" /\ CanWrite(finderMu, t)
    /\ finderMu' = IF loaded THEN Pass(finderMu, t) ELSE Write(finderMu, t)
    /\ th' = [th EXCEPT ![t].pc = IF loaded THEN "find" ELSE "build"]
    /\ UNCHANGED <<work, lines, overlayMu, source, loaded, painted>>

\* AllRunes under the overlay lock, while the finder is locked.
BuildText(t) ==
    /\ th[t].pc = "build" /\ CanRead(overlayMu)
    /\ source' = BuildSource(lines) /\ loaded' = TRUE
    /\ finderMu' = Release(finderMu, t)
    /\ th' = [th EXCEPT ![t].pc = "find"]
    /\ UNCHANGED <<work, lines, overlayMu, painted>>

Find(t) ==
    /\ th[t].pc = "find" /\ CanRead(finderMu)
    /\ IF th[t].op.term = <<>> \/ source = <<>>
       THEN /\ th' = [th EXCEPT ![t].pc = "mark"]
            /\ overlayMu' = Await(overlayMu, t) /\ UNCHANGED finderMu
       ELSE /\ th' = [th EXCEPT ![t].pc = "matches"]
            /\ finderMu' = Read(finderMu, t) /\ UNCHANGED overlayMu
    /\ UNCHANGED <<work, lines, source, loaded, painted>>

\* One turn of the loop.  A match it has found already adds nothing.
FindNext(t) ==
    /\ th[t].pc = "matches"
    /\ LET next == NextMatch(source, Normalize(th[t].op.term), th[t].offset)
       IN  \E r \in next.found :
               th' = [th EXCEPT ![t].offset = next.offset,
                                ![t].found = IF Contains(@, r) THEN @ ELSE Append(@, r)]
    /\ UNCHANGED <<work, lines, overlayMu, finderMu, source, loaded, painted>>

FindEnd(t) ==
    /\ th[t].pc = "matches"
    /\ NextMatch(source, Normalize(th[t].op.term), th[t].offset).found = {}
    /\ finderMu' = Release(finderMu, t) /\ overlayMu' = Await(overlayMu, t)
    /\ th' = [th EXCEPT ![t].pc = "mark"]
    /\ UNCHANGED <<work, lines, source, loaded, painted>>

\* Marks set without the lock.
MarkAnyway(t) ==
    /\ th[t].pc = "mark"
    /\ lines' = AddOverlay(lines, KindOf(th[t].op), th[t].found)
    /\ painted' = painted \cup {th[t].op}
    /\ overlayMu' = [overlayMu EXCEPT !.waiting = @ \ {t}]
    /\ th' = [th EXCEPT ![t] = IF th[t].op.op = "highlight" THEN Idle ELSE [@ EXCEPT !.pc = "annotate"]]
    /\ UNCHANGED <<work, finderMu, source, loaded>>

\* AddOverlay with what was found, all of it under one lock.
Mark(t) ==
    /\ th[t].pc = "mark" /\ CanWrite(overlayMu, t)
    /\ lines' = AddOverlay(lines, KindOf(th[t].op), th[t].found)
    /\ painted' = painted \cup {th[t].op}
    /\ overlayMu' = Pass(overlayMu, t)
    /\ th' = [th EXCEPT ![t] = IF th[t].op.op = "highlight" THEN Idle ELSE [@ EXCEPT !.pc = "annotate"]]
    /\ UNCHANGED <<work, finderMu, source, loaded>>

-----------------------------------------------------------------------------
(* Source.ClearOverlays.                                                    *)

StartClear(t, op) ==
    /\ op.op = "clear" /\ Begin(t, op, [Idle EXCEPT !.op = op, !.pc = "clear"])
    /\ overlayMu' = Await(overlayMu, t)
    /\ UNCHANGED <<lines, finderMu, source, loaded, painted>>

Clear(t) ==
    /\ th[t].pc = "clear" /\ CanWrite(overlayMu, t)
    /\ lines' = ClearOverlays(lines) /\ painted' = {}
    /\ overlayMu' = Pass(overlayMu, t)
    /\ th' = [th EXCEPT ![t] = Idle]
    /\ UNCHANGED <<work, finderMu, source, loaded>>

-----------------------------------------------------------------------------
(* Error.Error: with a place of its own an error makes a new source of the  *)
(* token chain, which no other goroutine knows.                             *)

\* The lines such an error prints.
ErrorScreen(op) ==
    LET fresh == NewLines(tks)
        positions == CollectPositions(fresh, tks, op.main, op.nested)
        marked == Annotated(AddOverlay(fresh, "error", AllRanges(positions)), positions, op.context)
        spans == SpansToPrint(fresh, BuildHunkSpans(positions, op.context, Len(fresh)))
        at == FlattenSeq([n \in DOMAIN spans |-> InSpan(fresh, spans[n])])
    IN  [n \in DOMAIN at |->
            [line |-> at[n], expect |-> {op}, got |-> marked[at[n]]]]

ShowError(t, op) ==
    /\ op.op = "error" /\ op.main # 0
    /\ Begin(t, op, [Idle EXCEPT !.op = op, !.screen = ErrorScreen(op)])
    /\ UNCHANGED <<lines, overlayMu, finderMu, source, loaded, painted>>

\* With nested places only it marks the Source it was given, under the lock,
\* and its lines, without.
StartNested(t, op) ==
    /\ Annotating(op)
    /\ Begin(t, op, [Idle EXCEPT !.op = op, !.pc = "mark",
                                 !.found = AllRanges(CollectPositions(lines, tks, 0, op.nested))])
    /\ overlayMu' = Await(overlayMu, t)
    /\ UNCHANGED <<lines, finderMu, source, loaded, painted>>

Annotate(t) ==
    LET op == th[t].op
        positions == CollectPositions(lines, tks, 0, op.nested)
        spans == SpansToPrint(lines, BuildHunkSpans(positions, op.context, Len(lines)))
    IN  /\ th[t].pc = "annotate"
        /\ lines' = Annotated(lines, positions, op.context)
        /\ th' = [th EXCEPT ![t].pc = "span", ![t].todo = spans]
        /\ UNCHANGED <<work, overlayMu, finderMu, source, loaded, painted>>

-----------------------------------------------------------------------------
Step(t) ==
    \/ BeginSpan(t) \/ PrintLine(t) \/ EndSpan(t)
    \/ Load(t) \/ BuildText(t) \/ Find(t) \/ FindNext(t) \/ FindEnd(t) \/ Mark(t)
    \/ Clear(t) \/ Annotate(t)

Start(t) ==
    \E op \in work.ops :
        StartPrint(t, op) \/ StartHighlight(t, op) \/ StartClear(t, op) \/ ShowError(t, op) \/ StartNested(t, op)

Next == \E t \in Threads : Start(t) \/ Step(t)

Spec == Init /\ [][Next]_vars
\* Goroutines that have begun an operation keep being scheduled; stated for
\* the programs whose end is waited for.
FairSpec == Spec /\ \A t \in Threads : WF_vars(work.awaited /\ Step(t))

-----------------------------------------------------------------------------
(* Properties.                                                              *)

Lock == [readers : SUBSET Threads, waiting : SUBSET Threads, writer : Threads \cup {NoThread}]
At(pcs) == {t \in Threads : th[t].pc \in pcs}

\* Every goroutine holds the locks that go with the place it stands at and
\* no others, and it does not wait for a lock that it holds itself
\* (source.go:285-335, 435-450; find.go:104-130).
TypeOK ==
    /\ \A t \in Threads :
          /\ th[t].pc \in {"idle", "span", "lines", "load", "build", "find", "matches", "mark", "clear", "annotate"}
          /\ th[t].op \in work.ops \cup {NoOp}
    /\ loaded \in BOOLEAN
    /\ overlayMu \in Lock /\ finderMu \in Lock
    /\ overlayMu.readers = At({"lines"}) /\ overlayMu.waiting = At({"mark", "clear"})
    /\ overlayMu.writer = NoThread
    /\ finderMu.readers = At({"matches"}) /\ finderMu.waiting = At({"load"})
    /\ At({"build"}) = {finderMu.writer} \ {NoThread}

Contents(built) == [i \in DOMAIN built |-> Content(built[i])]

\* A newline stands at the end of a token of a document and in front of the next.
ReadsTwice(doc) ==
    \E n \in DOMAIN doc \ {1} :
        EndsWithNL(tks[doc[n - 1]].origin) /\ LeadingNewlines(tks[doc[n]].origin) > 0

RangeCells(ranges) ==
    UNION {{Pos(ranges[n].start.line, c) : c \in ranges[n].start.col .. ranges[n].end.col - 1} : n \in DOMAIN ranges}

\* What the lines of a file say is the text of the file, and so do its
\* documents, counted from their own first line and put one below the other:
\* whatever newlines the lexer reads twice, leaves out or puts in front of a
\* token, lines are numbered from 1 and the place a token claims leads to its
\* content; what an error marks is the content of its tokens.  Where lines end
\* in CRLF, the carriage returns in a token's origin are marked with its content,
\* also those of lines above it.  Only a header that carries the newline of the
\* line above has an empty line in front; in a document that begins with a newline,
\* its lines counted anew, another one read twice may make a line; and Validate
\* objects to nothing but a block scalar with the column 0
\* (builder.go:34-340, line.go:251-290, 403-476, tokens.go:286-456,
\* error.go:422-460).
TextFaithful ==
    work.left = work.budget =>
        LET docs == SplitDocuments(tks)
            built == [d \in DOMAIN docs |-> NewLines(CloneWithResetPositions(tks, docs[d]))]
            behind(d) == LeadingNewlines(tks[docs[d][1]].origin) > 0
            Said(d) == IF d > 1 /\ behind(d) THEN Tail(Contents(built[d])) ELSE Contents(built[d])
        IN  /\ Contents(lines) = work.file.text
            /\ FlattenSeq([d \in DOMAIN docs |-> Said(d)]) = work.file.text
                 \/ \E d \in DOMAIN docs : behind(d) /\ ReadsTwice(docs[d])
            /\ \A ls \in {lines} \cup {built[d] : d \in DOMAIN docs} : \A i \in DOMAIN ls : Number(ls[i]) = i
            /\ (\A i \in DOMAIN tks : tks[i].col > 0) => Valid(lines)
            /\ \A i \in DOMAIN tks :
                  RangeCells(ContentRangesAt(lines, NewFromToken(tks[i]))) = work.file.spots[i]
            /\ \A op \in work.ops : op.op = "error" =>
                  RangeCells(AllRanges(CollectPositions(lines, tks, op.main, op.nested))) = TargetCells(work.file, op)

\* Nothing of the lexer's stream is lost and nothing comes twice, whatever
\* goroutines mark, clear or annotate: the lines have every rune of every
\* token in order, they give the stream back token by token, and the
\* documents divide it, each with its header in front (builder.go:75-340,
\* line.go:264-281, tokens.go:139-162, 408-456).
StreamFaithful ==
    LET docs == SplitDocuments(tks) IN
    /\ FlattenSeq([i \in DOMAIN lines |-> Runes(lines[i])]) = FlattenSeq([i \in DOMAIN tks |-> tks[i].origin])
    /\ StreamOf(lines) = [i \in DOMAIN tks |-> i]
    /\ FlattenSeq(docs) = [i \in DOMAIN tks |-> i]
    /\ \A d \in DOMAIN docs : \A n \in DOMAIN docs[d] : tks[docs[d][n]].type = "docheader" => n = 1

\* The columns of a printed row, rune by rune with the kinds of marks on it.
Shown(cells) == [c \in DOMAIN cells |-> [rune |-> cells[c].rune, kinds |-> ToSet(cells[c].kinds)]]
Rows(frame) == RenderLine(frame.got, work.width)
TextRows(frame) == SelectSeq(Rows(frame), LAMBDA r : r.flag # "annotation")
Due(frame) ==
    LET ending == IF frame.got.flag = "default" /\ frame.line <= work.file.crs THEN <<CR>> ELSE <<>>
        text == work.file.text[frame.line] \o ending
        under(op) == {p.col : p \in {q \in MarkCells(work.file, op) : q.line = frame.line - 1}}
        marks == {<<KindOf(op), under(op)>> : op \in frame.expect}
    IN  [c \in DOMAIN text |->
            [rune |-> text[c], kinds |-> {m[1] : m \in {n \in marks : c - 1 \in n[2]}}]]

\* A printed line shows its text, every rune of it under the marks that were
\* on the Source when the printer took the lock, and no rune under another:
\* matches of a term in normal form at the columns of the original text,
\* errors at their tokens without the spaces around them, whatever other
\* goroutines mark or clear meanwhile.  Of an unchanged line the text includes
\* the carriage return of a CRLF, which is printed as a rune (print.go:343-440, 550-640,
\* find.go:143-185, line.go:478-500, error.go:475-500).
HighlightsExact ==
    \A t \in Threads : \A n \in DOMAIN th[t].screen :
        LET frame == th[t].screen[n]
            rows == TextRows(frame)
        IN  [r \in DOMAIN rows |-> Shown(rows[r].cells)]
          = Wrap(Due(frame), RunesOf(Due(frame)), work.width)

\* The screens of errors that are complete.
ErrorScreens == {th[t] : t \in {u \in Threads : th[u].op.op = "error" /\ th[u].pc = "idle"}}
LinesOn(screen) == {screen[n].line : n \in DOMAIN screen}
NotesOn(frame) == UNION {ToSet(Rows(frame)[r].notes) : r \in DOMAIN Rows(frame)}

\* A nested error with a token is shown with its line, and its message
\* stands in the last row of that line, below the text; on the lines of
\* another token it does not stand (error.go:376-405, 455-500).
MessagesPlaced ==
    \A e \in ErrorScreens : \A m \in DOMAIN e.op.nested :
        LET target == e.op.nested[m] IN
        /\ target.token # 0 => target.line \in LinesOn(e.screen)
        /\ \A n \in DOMAIN e.screen :
              IF e.screen[n].line = target.line THEN m \in ToSet(Last(Rows(e.screen[n])).notes)
              ELSE e.op.main # 0 => m \notin NotesOn(e.screen[n])

\* An error shows the lines of its tokens with their context, each once and
\* in order, and says so above the first line behind a gap; without a token
\* to show it shows everything (error.go:352-372, 500-530, position.go:268).
HunksShowContext ==
    \A e \in ErrorScreens :
        LET marked == {p.line + 1 : p \in TargetCells(work.file, e.op)}
            near == {l \in DOMAIN lines : \E k \in marked : k - l \in -e.op.context .. e.op.context}
        IN  /\ LinesOn(e.screen) = IF marked = {} THEN DOMAIN lines ELSE near
            /\ \A n \in DOMAIN e.screen \ {1} :
                  LET gap == e.screen[n].line - e.screen[n - 1].line IN
                  /\ gap > 0
                  /\ gap > 1 => Ellipsis \in ToSet(Rows(e.screen[n])[1].notes)
                  /\ gap = 1 /\ e.op.main # 0 => Ellipsis \notin NotesOn(e.screen[n])

\* While lines are handed out none of them changes: what is printed of one
\* span is one moment of the Source (source.go:285-310, 435-450).
SpansAreSnapshots == [][overlayMu.readers # {} => lines' = lines]_vars

\* A search returns what it has found (find.go:133-185).
FindReturns == \A t \in Threads : th[t].pc = "matches" ~> th[t].pc # "matches"

\* Overlays lie on the columns they were added for, in rows of their own too
\* (print.go:507-548).
OverlaysOnColumns == work.width > 0 => HighlightsExact

\* Whatever a goroutine begins comes to its end: no two wait for each other,
\* and a search ends (source.go:285-335, find.go:104-185).
EveryoneReturns == \A t \in Threads : work.awaited /\ th[t].pc # "idle" ~> th[t].pc = "idle"
=============================================================================
