---------------------------- MODULE SchemaStore ----------------------------
(***************************************************************************)
(* schemastore.SchemaStore: goroutines look paths up in a catalog that is  *)
(* fetched over HTTP, kept for TTL, and shared under a sync.RWMutex.       *)
(*                                                                         *)
(* A step is what a goroutine does between two points where another one    *)
(* may be noticed: taking or leaving the lock, or the end of a fetch.  The *)
(* lock is Go's: a goroutine that wants to write first becomes the only    *)
(* writer, from then on new readers park, it waits for the readers inside  *)
(* to leave, and when it unlocks every parked reader enters.               *)
(*                                                                         *)
(* Time is kept as the age of the catalog and as what is left of each      *)
(* refresh timeout, both in ticks and saturating, so runs never end.       *)
(***************************************************************************)
EXTENDS Catalog

CONSTANTS
    Caller,          \* goroutines that use the store
    NoPath,          \* the empty path
    TTL,             \* WithCacheTTL; 0 disables caching
    RefreshTimeout   \* WithRefreshTimeout

ASSUME StoreAssumption ==
    /\ TTL \in Nat
    /\ RefreshTimeout \in Nat
    /\ NoPath \notin Path

VARIABLES
    \* The service.
    published,   \* version of the catalog it serves now
    \* The store.
    entries,     \* s.entries
    held,        \* the version entries came from, 0 before the first fetch
    age,         \* time since s.lastFetch, saturating at TTL
    \* The goroutines.
    pc,          \* where each one is
    op,          \* "new" inside New, "find" inside FindMatch
    path,        \* the path it looks up
    left,        \* what is left of its refresh timeout
    cancelled,   \* its own context is done
    asked,       \* the version the service served when its fetch began
    answer,      \* what its last lookup gave: a URL, NoURL or Panicked
    \* History of the call each goroutine is in, used by the properties only.
    note

serviceVars == <<published>>
storeVars   == <<entries, held, age>>
callVars    == <<op, path, left, cancelled, asked, answer, note>>
vars        == <<serviceVars, storeVars, pc, callVars>>

PC == {"idle",
       "parkedCheck", "check",        \* ensureCatalog under RLock
       "lock", "drain",               \* waiting for the write lock
       "recheck", "fetch",            \* holding it
       "find", "parkedScan", "scan"}  \* FindMatch, after the refresh

Note == [stale   : BOOLEAN,   \* the catalog was expired when the call began
         renewed : BOOLEAN,   \* some fetch has succeeded since
         missed  : BOOLEAN]   \* its own refresh was skipped or has failed

NoNote == [stale |-> FALSE, renewed |-> FALSE, missed |-> FALSE]

Init ==
    /\ published = 1
    /\ entries = <<>>
    /\ held = 0
    /\ age = TTL
    /\ pc = [c \in Caller |-> "idle"]
    /\ op = [c \in Caller |-> "new"]
    /\ path = [c \in Caller |-> NoPath]
    /\ left = [c \in Caller |-> 0]
    /\ cancelled = [c \in Caller |-> FALSE]
    /\ asked = [c \in Caller |-> 0]
    /\ answer = [c \in Caller |-> NoURL]
    /\ note = [c \in Caller |-> NoNote]

-----------------------------------------------------------------------------
(* The lock and the context.                                               *)

Writers == {c \in Caller : pc[c] \in {"drain", "recheck", "fetch"}}
Readers == {c \in Caller : pc[c] \in {"check", "scan"}}

\* RLock: enter, or park behind a writer.
RLock(c, inside, parked) == IF Writers = {} THEN inside ELSE parked

\* No goroutine has the writer's place.
WriterMayEnter == Writers = {}

\* Unlock, with c going on at next: every parked reader enters.
Unlock(c, next) ==
    [d \in Caller |-> CASE d = c -> next
                        [] d # c /\ pc[d] = "parkedCheck" -> "check"
                        [] d # c /\ pc[d] = "parkedScan" -> "scan"
                        [] OTHER -> pc[d]]

\* A refresh context whose timeout was forgotten.
CtxDoneNoTimeout(c) == cancelled[c]

\* Only FindMatch bounds its refresh; New relies on the caller's context.
CtxDone(c) == cancelled[c] \/ (op[c] = "find" /\ left[c] = 0)

\* Not (cacheTTL > 0 and since(lastFetch) < cacheTTL).
Expired == age >= TTL

-----------------------------------------------------------------------------
(* Calls.                                                                  *)

NoteNow(missed) ==
    [stale |-> Expired, renewed |-> FALSE, missed |-> missed]

Begin(c, o, p, next, missed) ==
    /\ pc[c] = "idle"
    /\ pc' = [pc EXCEPT ![c] = next]
    /\ op' = [op EXCEPT ![c] = o]
    /\ path' = [path EXCEPT ![c] = p]
    /\ left' = [left EXCEPT ![c] = RefreshTimeout]
    /\ cancelled' = [cancelled EXCEPT ![c] = missed]
    /\ note' = [note EXCEPT ![c] = NoteNow(missed)]
    /\ UNCHANGED <<serviceVars, storeVars, asked>>

\* New: the store is not shared yet, so nobody else is inside it.
BeginNew(c) ==
    /\ held = 0
    /\ \A d \in Caller : pc[d] = "idle"
    /\ Begin(c, "new", NoPath, "check", FALSE)
    /\ UNCHANGED answer

\* FindMatch with a live context: on to ensureCatalog.
BeginFind(c, p) ==
    /\ held > 0
    /\ Begin(c, "find", p, RLock(c, "check", "parkedCheck"), FALSE)
    /\ answer' = [answer EXCEPT ![c] = NoURL]

\* FindMatch with a context that is done: the refresh is skipped.
BeginFindCancelled(c, p) ==
    /\ held > 0
    /\ Begin(c, "find", p, RLock(c, "scan", "parkedScan"), TRUE)
    /\ answer' = [answer EXCEPT ![c] = NoURL]

\* FindMatch of the empty path returns at once.
FindNothing(c) ==
    /\ held > 0
    /\ pc[c] = "idle"
    /\ answer' = [answer EXCEPT ![c] = NoURL]
    /\ UNCHANGED <<serviceVars, storeVars, pc, op, path, left, cancelled, asked, note>>

\* Where ensureCatalog returns to.
AfterEnsure(c) == IF op[c] = "new" THEN "idle" ELSE "find"

\* An expired catalog fetched without the write lock.
CheckFetches(c) ==
    /\ pc[c] = "check"
    /\ pc' = [pc EXCEPT ![c] = IF Expired THEN "fetch" ELSE AfterEnsure(c)]
    /\ asked' = [asked EXCEPT ![c] = published]
    /\ UNCHANGED <<serviceVars, storeVars, op, path, left, cancelled, answer, note>>

\* The first test of the TTL, under the read lock, which is then released.
Check(c) ==
    /\ pc[c] = "check"
    /\ pc' = [pc EXCEPT ![c] = IF Expired THEN "lock" ELSE AfterEnsure(c)]
    /\ UNCHANGED <<serviceVars, storeVars, callVars>>

\* A refresh timeout that starts only once the write lock is at hand.
LockRestartsTimeout(c) ==
    /\ pc[c] = "lock"
    /\ WriterMayEnter
    /\ pc' = [pc EXCEPT ![c] = "drain"]
    /\ left' = [left EXCEPT ![c] = RefreshTimeout]
    /\ UNCHANGED <<serviceVars, storeVars, op, path, cancelled, asked, answer, note>>

\* Lock, first half: become the writer, and keep new readers out.
Lock(c) ==
    /\ pc[c] = "lock"
    /\ WriterMayEnter
    /\ pc' = [pc EXCEPT ![c] = "drain"]
    /\ UNCHANGED <<serviceVars, storeVars, callVars>>

\* Lock, second half: the readers inside have left.
Drain(c) ==
    /\ pc[c] = "drain"
    /\ Readers = {}
    /\ pc' = [pc EXCEPT ![c] = "recheck"]
    /\ UNCHANGED <<serviceVars, storeVars, callVars>>

\* ensureCatalog without its double check.
RecheckNever(c) ==
    /\ pc[c] = "recheck"
    /\ pc' = [pc EXCEPT ![c] = "fetch"]
    /\ asked' = [asked EXCEPT ![c] = published]
    /\ UNCHANGED <<serviceVars, storeVars, op, path, left, cancelled, answer, note>>

\* The double check, under the write lock.
Recheck(c) ==
    /\ pc[c] = "recheck"
    /\ IF Expired
       THEN /\ pc' = [pc EXCEPT ![c] = "fetch"]
            /\ asked' = [asked EXCEPT ![c] = published]
       ELSE /\ pc' = Unlock(c, AfterEnsure(c))
            /\ asked' = asked
    /\ UNCHANGED <<serviceVars, storeVars, op, path, left, cancelled, answer, note>>

\* The response arrives in time and parses: the new catalog is installed.
FetchOk(c) ==
    /\ pc[c] = "fetch"
    /\ ~CtxDone(c)
    /\ \E v \in asked[c] .. published :
          /\ held' = v
          /\ entries' = EntriesOf(v)
    /\ age' = 0
    /\ pc' = Unlock(c, AfterEnsure(c))
    /\ note' = [d \in Caller |-> [note[d] EXCEPT !.renewed = (pc[d] # "idle")]]
    /\ asked' = [asked EXCEPT ![c] = 0]
    /\ UNCHANGED <<serviceVars, op, path, left, cancelled, answer>>

\* A failure that drops the catalog it could not replace.
FetchFailDrops(c) ==
    /\ pc[c] = "fetch"
    /\ entries' = <<>>
    /\ pc' = Unlock(c, AfterEnsure(c))
    /\ note' = [note EXCEPT ![c].missed = TRUE]
    /\ asked' = [asked EXCEPT ![c] = 0]
    /\ UNCHANGED <<serviceVars, held, age, op, path, left, cancelled, answer>>

\* A failure that counts as a fetch.
FetchFailStamps(c) ==
    /\ pc[c] = "fetch"
    /\ age' = 0
    /\ pc' = Unlock(c, AfterEnsure(c))
    /\ note' = [note EXCEPT ![c].missed = TRUE]
    /\ asked' = [asked EXCEPT ![c] = 0]
    /\ UNCHANGED <<serviceVars, entries, held, op, path, left, cancelled, answer>>

FetchError(c) ==
    /\ pc[c] = "fetch"
    /\ pc' = Unlock(c, AfterEnsure(c))
    /\ note' = [note EXCEPT ![c].missed = TRUE]
    /\ asked' = [asked EXCEPT ![c] = 0]
    /\ UNCHANGED <<serviceVars, storeVars, op, path, left, cancelled, answer>>

\* Refused, a bad status, too large, or not a catalog: any time the service
\* or the network likes.  FindMatch discards the error.
FetchFail(c) == FetchError(c)

\* A 200 without a byte: NewResult panics.  The deferred Unlock runs on the
\* way out, of FindMatch or New, and nothing is installed.
FetchPanic(c) ==
    /\ pc[c] = "fetch"
    /\ ~CtxDone(c)
    /\ pc' = Unlock(c, "idle")
    /\ answer' = [answer EXCEPT ![c] = IF op[c] = "find" THEN Panicked ELSE @]
    /\ path' = [path EXCEPT ![c] = NoPath]
    /\ left' = [left EXCEPT ![c] = 0]
    /\ cancelled' = [cancelled EXCEPT ![c] = FALSE]
    /\ asked' = [asked EXCEPT ![c] = 0]
    /\ note' = [note EXCEPT ![c] = NoNote]
    /\ UNCHANGED <<serviceVars, storeVars, op>>

\* The context ends the fetch.
FetchAbort(c) == CtxDone(c) /\ FetchError(c)

\* FindMatch takes the read lock again, for the entries.
RLockEntries(c) ==
    /\ pc[c] = "find"
    /\ pc' = [pc EXCEPT ![c] = RLock(c, "scan", "parkedScan")]
    /\ UNCHANGED <<serviceVars, storeVars, callVars>>

\* The first entry that matches; the read lock is released.
Scan(c) ==
    /\ pc[c] = "scan"
    /\ pc' = [pc EXCEPT ![c] = "idle"]
    /\ answer' = [answer EXCEPT ![c] = FirstMatch(entries, path[c])]
    /\ path' = [path EXCEPT ![c] = NoPath]
    /\ left' = [left EXCEPT ![c] = 0]
    /\ cancelled' = [cancelled EXCEPT ![c] = FALSE]
    /\ note' = [note EXCEPT ![c] = NoNote]
    /\ UNCHANGED <<serviceVars, storeVars, op, asked>>

-----------------------------------------------------------------------------
(* The environment.                                                        *)

Publish ==
    /\ published < Len(Catalogs)
    /\ published' = published + 1
    /\ UNCHANGED <<storeVars, pc, callVars>>

\* The caller's own context is cancelled or reaches its own deadline.
Cancel(c) ==
    /\ pc[c] # "idle"
    /\ cancelled' = [cancelled EXCEPT ![c] = TRUE]
    /\ UNCHANGED <<serviceVars, storeVars, pc, op, path, left, asked, answer, note>>

Tick ==
    /\ age' = IF age < TTL THEN age + 1 ELSE age
    /\ left' = [c \in Caller |-> IF left[c] > 0 THEN left[c] - 1 ELSE 0]
    /\ UNCHANGED <<serviceVars, entries, held, pc, op, path, cancelled, asked, answer, note>>

\* What a goroutine does by itself once it has begun a call.
Step(c) ==
    \/ Check(c)
    \/ Lock(c)
    \/ Drain(c)
    \/ Recheck(c)
    \/ FetchAbort(c)
    \/ RLockEntries(c)
    \/ Scan(c)

Next ==
    \/ Publish
    \/ Tick
    \/ \E c \in Caller :
          \/ BeginNew(c)
          \/ \E p \in Path : BeginFind(c, p)
          \/ \E p \in Path : BeginFindCancelled(c, p)
          \/ FindNothing(c)
          \/ Step(c)
          \/ FetchOk(c)
          \/ FetchFail(c)
          \/ FetchPanic(c)
          \/ Cancel(c)

Spec == Init /\ [][Next]_vars

(***************************************************************************)
(* Goroutines run and time passes; the service need never answer.  The     *)
(* write lock is handed to a waiting writer in the end (a sync.Mutex that  *)
(* starves a waiter for a millisecond turns first-come first-served),      *)
(* which takes strong fairness, as the lock is free only now and then.     *)
(***************************************************************************)
Fairness ==
    /\ WF_vars(Tick)
    /\ \A c \in Caller :
          /\ WF_vars(Step(c))
          /\ SF_vars(Lock(c))

FairSpec == Spec /\ Fairness

-----------------------------------------------------------------------------
(* Properties.                                                             *)

TypeOK ==
    /\ published \in Version
    /\ DOMAIN entries \subseteq Nat
    /\ \A i \in DOMAIN entries : entries[i] \in Entry
    /\ held \in Version \cup {0}
    /\ age \in 0 .. TTL
    /\ pc \in [Caller -> PC]
    /\ op \in [Caller -> {"new", "find"}]
    /\ path \in [Caller -> Path \cup {NoPath}]
    /\ left \in [Caller -> 0 .. RefreshTimeout]
    /\ cancelled \in [Caller -> BOOLEAN]
    /\ asked \in [Caller -> Version \cup {0}]
    /\ answer \in [Caller -> URL \cup {NoURL, Panicked}]
    /\ note \in [Caller -> Note]

\* The entries in use are the whole filtered catalog of one published version
\* at every moment of every outage: a refresh that fails, is aborted or is cut
\* short by its timeout leaves the stale catalog as it was (FindMatch's
\* "continue with stale cached data", fetchCatalogLocked's order of updates).
CatalogWhole ==
    /\ entries = EntriesOf(held)
    /\ \A c \in Caller : pc[c] # "idle" /\ op[c] = "find" => held > 0

\* However many goroutines find the catalog expired together, whoever holds
\* the write lock fetches only if it is expired still: the double check of
\* ensureCatalog makes one fetch do for all of them.
FetchOnlyExpired ==
    \A c \in Caller : pc[c] = "fetch" => age >= TTL

\* The store never replaces its catalog by an older one, though responses
\* to different goroutines could arrive in any order: the fetch and the
\* installation are one critical section.
CatalogNeverRegresses == [][held' >= held]_vars

\* A lookup that found the catalog expired, and whose refresh was neither
\* skipped nor failed, answers from a catalog fetched since it was called;
\* in particular a failed fetch of another goroutine is not taken for one
\* (fetchCatalogLocked sets lastFetch on success only).
FreshUnlessMissed ==
    \A c \in Caller :
        pc[c] = "scan" /\ note[c].stale /\ ~note[c].missed => note[c].renewed

\* Every FindMatch ends, with an answer or a panic, even when the service never
\* answers ("Use a timeout to prevent hung connections from blocking
\* indefinitely") and when it makes other goroutines panic with the lock held.
LookupEnds ==
    \A c \in Caller : (pc[c] # "idle" /\ op[c] = "find") ~> (pc[c] = "idle")

\* The store implements the cache that CatalogCache promises: one lookup is
\* one atomic read of one catalog, or a panic while the catalog is expired, and
\* refreshes are rate-limited and ordered.
Asking == [c \in Caller |->
              IF pc[c] = "idle" \/ op[c] = "new" THEN NoPath ELSE path[c]]

Cache == INSTANCE CatalogCache WITH asking <- Asking

ImplementsCache == Cache!Spec

\* What FindMatch says of itself: "if the catalog fetch fails, continue with
\* stale cached data rather than failing the lookup".
StaleAnswers == \A c \in Caller : answer[c] # Panicked
-----------------------------------------------------------------------------
(* The inductive invariant the proofs rest on, in named parts.             *)

\* The lock: one writer at most, and nobody reads once it is inside.
LockInv ==
    /\ \A c, d \in Writers : c = d
    /\ \A c \in Caller : pc[c] \in {"recheck", "fetch"} => Readers = {}

\* Only New runs before the first fetch has succeeded, and it runs alone;
\* the goroutines past the refresh, or parked, are inside FindMatch.
NewInv ==
    /\ \A c \in Caller : pc[c] # "idle" /\ op[c] = "new" =>
          /\ held = 0
          /\ \A d \in Caller : d # c => pc[d] = "idle"
    /\ \A c \in Caller : pc[c] # "idle" /\ op[c] = "find" =>
          held > 0 /\ path[c] \in Path
    /\ \A c \in Caller :
          pc[c] \in {"parkedCheck", "find", "parkedScan", "scan"} => op[c] = "find"
    /\ held = 0 => age = TTL

\* What the double check and the exclusive lock buy a fetch.
FetchInv ==
    /\ held <= published
    /\ \A c \in Caller : pc[c] = "fetch" =>
          /\ asked[c] \in Version
          /\ held <= asked[c]
          /\ asked[c] <= published

\* A catalog found expired stays expired until some fetch succeeds.
FreshInv ==
    \A c \in Caller : pc[c] # "idle" /\ note[c].stale /\ ~note[c].renewed =>
        /\ age >= TTL
        /\ pc[c] \in {"find", "parkedScan", "scan"} => note[c].missed

IInv ==
    /\ TypeOK
    /\ LockInv
    /\ NewInv
    /\ FetchInv
    /\ FetchOnlyExpired
    /\ FreshInv
    /\ CatalogWhole
=============================================================================
