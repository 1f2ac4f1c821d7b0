-------------------------- MODULE SchemaStoreTimed --------------------------
(***************************************************************************)
(* SchemaStore with a clock that does not run ahead of the goroutines:     *)
(* time passes only when each of them is blocked, as the program's own     *)
(* steps take no time next to an HTTP request.  What is left to wait for   *)
(* is a fetch, or a lock whose holder is fetching.                         *)
(*                                                                         *)
(* Who gets the write lock matters here, so the sync.Mutex inside the      *)
(* RWMutex is modelled as Go has it: waiters queue; one that is not at the *)
(* head may overtake it once, and then the mutex is starving and hands     *)
(* itself to the head until nobody waits.                                  *)
(***************************************************************************)
EXTENDS SchemaStore, SequencesExt

VARIABLES
    queue,      \* goroutines at Lock, in order of arrival
    starving,   \* the head has been overtaken
    waited      \* time since each lookup began, saturating at WaitCap

timedVars == <<vars, queue, starving, waited>>

\* Bound of the history variable: past the largest wait the property allows.
WaitCap == 4 * RefreshTimeout + 1

TimedInit ==
    /\ Init
    /\ queue = <<>>
    /\ starving = FALSE
    /\ waited = [c \in Caller |-> 0]

\* c can do nothing until the clock or another goroutine moves.
Blocked(c) ==
    \/ pc[c] \in {"idle", "parkedCheck", "parkedScan"}
    \/ pc[c] = "fetch" /\ ~CtxDone(c)
    \/ pc[c] = "lock" /\ ~WriterMayEnter
    \/ pc[c] = "drain" /\ Readers # {}

TimedTick ==
    /\ \A c \in Caller : Blocked(c)
    /\ Tick
    /\ waited' = [c \in Caller |->
                    IF pc[c] = "idle" \/ op[c] = "new" \/ waited[c] = WaitCap
                    THEN waited[c] ELSE waited[c] + 1]
    /\ UNCHANGED <<queue, starving>>

TimedBegin(c) ==
    /\ \/ BeginNew(c)
       \/ \E p \in Path : BeginFind(c, p) \/ BeginFindCancelled(c, p)
    /\ UNCHANGED <<queue, starving, waited>>

TimedCheck(c) ==
    /\ Check(c)
    /\ queue' = IF pc'[c] = "lock" THEN Append(queue, c) ELSE queue
    /\ UNCHANGED <<starving, waited>>

TimedLock(c) ==
    /\ Lock(c)
    /\ starving => c = Head(queue)
    /\ \E i \in DOMAIN queue : queue[i] = c /\ queue' = RemoveAt(queue, i)
    /\ starving' = (queue' # <<>> /\ (starving \/ c # Head(queue)))
    /\ UNCHANGED waited

TimedOther(c) ==
    /\ \/ Drain(c) \/ Recheck(c) \/ RLockEntries(c)
       \/ FetchOk(c) \/ FetchFail(c) \/ Cancel(c)
    /\ UNCHANGED <<queue, starving, waited>>

TimedScan(c) ==
    /\ Scan(c)
    /\ waited' = [waited EXCEPT ![c] = 0]
    /\ UNCHANGED <<queue, starving>>

TimedPanic(c) ==
    /\ FetchPanic(c)
    /\ waited' = [waited EXCEPT ![c] = 0]
    /\ UNCHANGED <<queue, starving>>

TimedNext ==
    \/ TimedTick
    \/ \E c \in Caller :
          \/ TimedBegin(c)
          \/ TimedCheck(c)
          \/ TimedLock(c)
          \/ TimedOther(c)
          \/ TimedScan(c)
          \/ TimedPanic(c)

TimedSpec == TimedInit /\ [][TimedNext]_timedVars

\* Whatever the service does and whoever else is waiting, a lookup ends
\* within four refresh timeouts: it can be parked behind one fetch, be
\* overtaken on its way to the write lock, wait or fetch until its own timeout
\* ends, and find a further writer there when it comes back for the entries.
\* Those that fetched in vain do not add up, as the timeouts of the waiting
\* goroutines run out together (FindMatch creates its context before it waits).
LookupBounded == \A c \in Caller : waited[c] <= 4 * RefreshTimeout

-----------------------------------------------------------------------------
(* The inductive invariant the proof rests on.                             *)

\* Each goroutine at Lock is in the queue once.
QueueInv ==
    /\ queue \in Seq(Caller)
    /\ \A i, j \in DOMAIN queue : queue[i] = queue[j] => i = j
    /\ \A c \in Caller : pc[c] = "lock" <=> \E i \in DOMAIN queue : queue[i] = c

Ahead(c) ==
    {d \in Caller : \E i, j \in DOMAIN queue : i < j /\ queue[i] = d /\ queue[j] = c}

\* Those c waits for: the writer, and who comes before it.
Blockers(c) == Writers \cup Ahead(c)

\* How long a lookup can have taken, by where it is: a fetch ends with the
\* timeout of its goroutine, and one is begun by an overtaker at the latest
\* when the timeouts of all who stand ahead have run out.
Limit(c) ==
    CASE pc[c] \in {"idle", "parkedCheck", "check"} -> RefreshTimeout
      [] pc[c] = "lock" -> IF starving THEN 3 * RefreshTimeout ELSE 2 * RefreshTimeout
      [] pc[c] \in {"drain", "recheck", "fetch", "find"} -> 3 * RefreshTimeout
      [] pc[c] \in {"parkedScan", "scan"} -> 4 * RefreshTimeout

\* What is left of the timeout is what the lookup has not taken, and of those
\* it waits for none can fetch past the limit.
Waits(c) ==
    /\ left[c] = IF waited[c] < RefreshTimeout THEN RefreshTimeout - waited[c] ELSE 0
    /\ waited[c] <= Limit(c)
    /\ pc[c] \in {"parkedCheck", "lock", "parkedScan"} =>
          \A d \in Blockers(c) : waited[c] + left[d] <= Limit(c)
    /\ pc[c] \in {"parkedCheck", "parkedScan"} => Writers # {}

Timely(c) == IF pc[c] = "idle" \/ op[c] = "new" THEN waited[c] = 0 ELSE Waits(c)

TimedInv ==
    /\ waited \in [Caller -> Nat]
    /\ starving \in BOOLEAN
    /\ QueueInv
    /\ \A c \in Caller : Timely(c)
=============================================================================
