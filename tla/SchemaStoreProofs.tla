------------------------- MODULE SchemaStoreProofs -------------------------
(***************************************************************************)
(* Proofs about SchemaStore, for any number of goroutines, any TTL and     *)
(* timeout, and any sequence of catalogs: the inductive invariant IInv,    *)
(* the safety properties that follow from it, that the store implements    *)
(* CatalogCache, and, with the clock of SchemaStoreTimed, how long a       *)
(* lookup can take.                                                        *)
(***************************************************************************)
EXTENDS SchemaStoreTimed, CatalogProofs, SequenceTheorems, TLAPS

-----------------------------------------------------------------------------
(* Types.                                                                  *)

\* The steps of Next one by one, so that each proof below can follow them.
LEMMA NextCases ==
    ASSUME [Next]_vars
    PROVE  \/ Publish
           \/ Tick
           \/ \E c \in Caller :
                 \/ BeginNew(c)
                 \/ \E p \in Path : BeginFind(c, p) \/ BeginFindCancelled(c, p)
                 \/ FindNothing(c) \/ Check(c) \/ Lock(c) \/ Drain(c) \/ Recheck(c)
                 \/ FetchOk(c) \/ FetchError(c) \/ FetchPanic(c)
                 \/ RLockEntries(c) \/ Scan(c) \/ Cancel(c)
           \/ UNCHANGED vars
    BY DEF Next, Step, FetchAbort, FetchFail

\* Unlock moves c and the parked readers, and nobody else.
LEMMA UnlockType ==
    ASSUME TypeOK, NEW c \in Caller, NEW next \in PC
    PROVE  /\ Unlock(c, next) \in [Caller -> PC]
           /\ Unlock(c, next)[c] = next
           /\ \A d \in Caller \ {c} :
                 \/ Unlock(c, next)[d] = pc[d]
                 \/ pc[d] = "parkedCheck" /\ Unlock(c, next)[d] = "check"
                 \/ pc[d] = "parkedScan" /\ Unlock(c, next)[d] = "scan"
    BY DEF TypeOK, Unlock, PC

\* It wakes nobody that is idle and sends nobody else past the refresh.
LEMMA UnlockKeepsPhase ==
    ASSUME TypeOK, NEW c \in Caller, NEW next \in PC, pc[c] # "idle",
           pc' = Unlock(c, next)
    PROVE  \A d \in Caller :
              /\ pc'[d] # "idle" => pc[d] # "idle"
              /\ d # c => (pc'[d] \in {"find", "parkedScan", "scan"} =>
                               pc[d] \in {"find", "parkedScan", "scan"})
<1>1. \A d \in Caller \ {c} :
         \/ pc'[d] = pc[d]
         \/ pc[d] = "parkedCheck" /\ pc'[d] = "check"
         \/ pc[d] = "parkedScan" /\ pc'[d] = "scan"
    BY UnlockType
<1> QED
    BY <1>1

\* A call begins well typed.
LEMMA BeginType ==
    ASSUME TypeOK, NEW c \in Caller, NEW o \in {"new", "find"},
           NEW p \in Path \cup {NoPath}, NEW next \in PC, NEW missed \in BOOLEAN,
           Begin(c, o, p, next, missed), answer' \in [Caller -> URL \cup {NoURL, Panicked}]
    PROVE  TypeOK'
<1>1. NoteNow(missed) \in Note
    BY DEF NoteNow, Note, Expired
<1>2. RefreshTimeout \in 0 .. RefreshTimeout
    BY StoreAssumption
<1> QED
    BY <1>1, <1>2 DEF TypeOK, Begin, serviceVars, storeVars

\* The initial state is well typed: New starts from an empty, expired store.
LEMMA InitType == Init => TypeOK
<1> SUFFICES ASSUME Init PROVE TypeOK
    OBVIOUS
<1>1. 1 \in Version /\ TTL \in 0 .. TTL /\ 0 \in 0 .. RefreshTimeout
    BY CatalogAssumption, StoreAssumption DEF Version
<1>2. NoNote \in Note
    BY DEF NoNote, Note
<1> QED
    BY <1>1, <1>2 DEF Init, TypeOK, PC

\* Every step of the store, a lookup or the world outside keeps the types.
LEMMA TypeStep ==
    ASSUME TypeOK, CatalogWhole, [Next]_vars
    PROVE  TypeOK'
<1>1. CASE Publish
    BY <1>1, CatalogAssumption DEF TypeOK, Publish, Version, storeVars, callVars
<1>2. CASE Tick
    <2>1. age' \in 0 .. TTL
        BY <1>2, StoreAssumption DEF TypeOK, Tick
    <2>2. left' \in [Caller -> 0 .. RefreshTimeout]
        BY <1>2, StoreAssumption DEF TypeOK, Tick
    <2> QED
        BY <1>2, <2>1, <2>2 DEF TypeOK, Tick, serviceVars
<1>3. ASSUME NEW c \in Caller, BeginNew(c)
      PROVE  TypeOK'
    BY <1>3, BeginType DEF BeginNew, PC, TypeOK
<1>4. ASSUME NEW c \in Caller, NEW p \in Path, BeginFind(c, p)
      PROVE  TypeOK'
    BY <1>4, BeginType DEF BeginFind, RLock, PC, TypeOK
<1>5. ASSUME NEW c \in Caller, NEW p \in Path, BeginFindCancelled(c, p)
      PROVE  TypeOK'
    BY <1>5, BeginType DEF BeginFindCancelled, RLock, PC, TypeOK
<1>6. ASSUME NEW c \in Caller, FindNothing(c)
      PROVE  TypeOK'
    BY <1>6 DEF FindNothing, TypeOK, serviceVars, storeVars
<1>7. ASSUME NEW c \in Caller, Check(c)
      PROVE  TypeOK'
    BY <1>7 DEF Check, AfterEnsure, PC, TypeOK, serviceVars, storeVars, callVars
<1>8. ASSUME NEW c \in Caller, Lock(c) \/ Drain(c) \/ RLockEntries(c)
      PROVE  TypeOK'
    BY <1>8 DEF Lock, Drain, RLockEntries, RLock, PC, TypeOK, serviceVars, storeVars, callVars
<1>9. ASSUME NEW c \in Caller, Recheck(c)
      PROVE  TypeOK'
    <2>1. pc' \in [Caller -> PC]
        <3>1. AfterEnsure(c) \in PC /\ "fetch" \in PC
            BY DEF AfterEnsure, PC
        <3>2. pc' = [pc EXCEPT ![c] = "fetch"] \/ pc' = Unlock(c, AfterEnsure(c))
            BY <1>9 DEF Recheck
        <3>3. Unlock(c, AfterEnsure(c)) \in [Caller -> PC]
            BY <3>1, UnlockType
        <3>4. [pc EXCEPT ![c] = "fetch"] \in [Caller -> PC]
            BY <3>1 DEF TypeOK
        <3> QED
            BY <3>2, <3>3, <3>4
    <2> QED
        BY <1>9, <2>1 DEF Recheck, TypeOK, serviceVars, storeVars
<1>10. ASSUME NEW c \in Caller, FetchOk(c)
       PROVE  TypeOK'
    <2>1. pc' \in [Caller -> PC]
        BY <1>10, UnlockType DEF FetchOk, AfterEnsure, PC
    <2>2. PICK v \in asked[c] .. published : held' = v /\ entries' = EntriesOf(v)
        BY <1>10 DEF FetchOk
    <2>3. v \in Version \cup {0}
        BY <2>2 DEF TypeOK, Version
    <2>4. /\ DOMAIN entries' \subseteq Nat
          /\ \A i \in DOMAIN entries' : entries'[i] \in Entry
        BY <2>2, <2>3, EntriesOfType
    <2>5. note' \in [Caller -> Note]
        BY <1>10 DEF FetchOk, TypeOK, Note
    <2>6. held' \in Version \cup {0}
        BY <2>2, <2>3
    <2>7. age' \in 0 .. TTL
        BY <1>10, StoreAssumption DEF FetchOk
    <2>8. asked' \in [Caller -> Version \cup {0}]
        BY <1>10 DEF FetchOk, TypeOK
    <2>9. UNCHANGED <<published, op, path, left, cancelled, answer>>
        BY <1>10 DEF FetchOk, serviceVars
    <2> QED
        BY <2>1, <2>4, <2>5, <2>6, <2>7, <2>8, <2>9 DEF TypeOK
<1>11. ASSUME NEW c \in Caller, FetchError(c)
       PROVE  TypeOK'
    <2>1. pc' \in [Caller -> PC]
        BY <1>11, UnlockType DEF FetchError, AfterEnsure, PC
    <2>2. note' \in [Caller -> Note]
        BY <1>11 DEF FetchError, TypeOK, Note
    <2> QED
        BY <1>11, <2>1, <2>2 DEF FetchError, TypeOK, serviceVars, storeVars
<1>12. ASSUME NEW c \in Caller, Scan(c)
       PROVE  TypeOK'
    <2>1. FirstMatch(entries, path[c]) \in URL \cup {NoURL}
        BY FirstMatchType DEF CatalogWhole, TypeOK
    <2>2. NoNote \in Note /\ 0 \in 0 .. RefreshTimeout
        BY StoreAssumption DEF NoNote, Note
    <2> QED
        BY <1>12, <2>1, <2>2 DEF Scan, TypeOK, PC, serviceVars, storeVars
<1>13. ASSUME NEW c \in Caller, Cancel(c)
       PROVE  TypeOK'
    BY <1>13 DEF Cancel, TypeOK, serviceVars, storeVars
<1>14. CASE UNCHANGED vars
    BY <1>14 DEF TypeOK, vars, serviceVars, storeVars, callVars
<1>15. ASSUME NEW c \in Caller, FetchPanic(c)
       PROVE  TypeOK'
    <2>1. pc' \in [Caller -> PC]
        BY <1>15, UnlockType DEF FetchPanic, PC
    <2>2. NoNote \in Note /\ 0 \in 0 .. RefreshTimeout
        BY StoreAssumption DEF NoNote, Note
    <2> QED
        BY <1>15, <2>1, <2>2 DEF FetchPanic, TypeOK, serviceVars, storeVars
<1> QED
    BY <1>1, <1>2, <1>3, <1>4, <1>5, <1>6, <1>7, <1>8, <1>9, <1>10, <1>11, <1>12,
       <1>13, <1>14, <1>15, NextCases

-----------------------------------------------------------------------------
(* The lock.                                                               *)

\* A step in which nobody but c moves, and c does not become a reader or a
\* writer it was not, keeps the lock's invariant.
LEMMA LockKept ==
    ASSUME TypeOK, LockInv, NEW c \in Caller, NEW next \in PC,
           pc' = [pc EXCEPT ![c] = next],
           \/ next \in PC \ {"check", "scan", "drain", "recheck", "fetch"}
           \/ next \in {"check", "scan"} /\ Writers = {}
           \/ next = "drain" /\ Writers = {}
           \/ next = "recheck" /\ pc[c] = "drain" /\ Readers = {}
           \/ next = "fetch" /\ pc[c] = "recheck"
    PROVE  LockInv'
    BY DEF TypeOK, LockInv, Writers, Readers, PC

\* When the writer unlocks, nobody is a writer.
LEMMA NobodyWrites ==
    ASSUME TypeOK, LockInv, NEW c \in Caller, pc[c] \in {"recheck", "fetch"},
           NEW next \in {"idle", "find"}, pc' = Unlock(c, next)
    PROVE  \A d \in Caller : pc'[d] \notin {"drain", "recheck", "fetch"}
<1>1. \A d \in Caller \ {c} : pc[d] \notin {"drain", "recheck", "fetch"}
    BY DEF LockInv, Writers
<1>2. next \in PC
    BY DEF PC
<1>3. pc'[c] = next
    BY <1>2, UnlockType
<1>4. \A d \in Caller \ {c} : pc'[d] \in {pc[d], "check", "scan"}
    BY <1>2, UnlockType
<1> QED
    BY <1>1, <1>3, <1>4

\* Its leaving lets the parked readers in, and so keeps the invariant.
LEMMA LockReleased ==
    ASSUME TypeOK, LockInv, NEW c \in Caller, pc[c] \in {"recheck", "fetch"},
           NEW next \in {"idle", "find"}, pc' = Unlock(c, next)
    PROVE  LockInv'
    BY NobodyWrites DEF LockInv, Writers

\* Every step keeps the discipline of the RWMutex: readers and a writer apart.
LEMMA LockStep ==
    ASSUME TypeOK, LockInv, [Next]_vars
    PROVE  LockInv'
<1>1. CASE UNCHANGED pc
    BY <1>1 DEF LockInv, Writers, Readers
<1>2. ASSUME NEW c \in Caller, BeginNew(c)
      PROVE  LockInv'
    BY <1>2, LockKept DEF BeginNew, Begin, Writers, PC
<1>3. ASSUME NEW c \in Caller, NEW p \in Path, BeginFind(c, p)
      PROVE  LockInv'
    BY <1>3, LockKept DEF BeginFind, Begin, RLock, PC
<1>4. ASSUME NEW c \in Caller, NEW p \in Path, BeginFindCancelled(c, p)
      PROVE  LockInv'
    BY <1>4, LockKept DEF BeginFindCancelled, Begin, RLock, PC
<1>5. ASSUME NEW c \in Caller, Check(c)
      PROVE  LockInv'
    BY <1>5, LockKept DEF Check, AfterEnsure, PC
<1>6. ASSUME NEW c \in Caller, Lock(c)
      PROVE  LockInv'
    BY <1>6, LockKept DEF Lock, WriterMayEnter, PC
<1>7. ASSUME NEW c \in Caller, Drain(c)
      PROVE  LockInv'
    BY <1>7, LockKept DEF Drain, PC
<1>8. ASSUME NEW c \in Caller, Recheck(c)
      PROVE  LockInv'
    BY <1>8, LockKept, LockReleased DEF Recheck, AfterEnsure, PC
<1>9. ASSUME NEW c \in Caller, FetchOk(c) \/ FetchError(c) \/ FetchPanic(c)
      PROVE  LockInv'
    BY <1>9, LockReleased DEF FetchOk, FetchError, FetchPanic, AfterEnsure
<1>10. ASSUME NEW c \in Caller, RLockEntries(c)
       PROVE  LockInv'
    BY <1>10, LockKept DEF RLockEntries, RLock, PC
<1>11. ASSUME NEW c \in Caller, Scan(c)
       PROVE  LockInv'
    BY <1>11, LockKept DEF Scan, PC
<1>12. ASSUME NEW c \in Caller, Publish \/ Tick \/ FindNothing(c) \/ Cancel(c)
       PROVE  UNCHANGED pc
    BY <1>12 DEF Publish, Tick, FindNothing, Cancel
<1>13. Publish \/ Tick \/ UNCHANGED vars => UNCHANGED pc
    BY DEF Publish, Tick, vars
<1> QED
    BY <1>1, <1>2, <1>3, <1>4, <1>5, <1>6, <1>7, <1>8, <1>9, <1>10, <1>11, <1>12,
       <1>13, NextCases

-----------------------------------------------------------------------------
(* The catalog.                                                            *)

\* Entries and the version they came from change together, in FetchOk only.
LEMMA StoreKept ==
    ASSUME [Next]_vars, ~\E c \in Caller : FetchOk(c)
    PROVE  UNCHANGED <<entries, held>>
    BY NextCases DEF Publish, Tick, BeginNew, BeginFind, BeginFindCancelled, Begin,
       FindNothing, Check, Lock, Drain, Recheck, FetchError, FetchPanic, RLockEntries,
       Scan, Cancel, vars, storeVars

\* Every step keeps it that nobody looks up before New has fetched a catalog.
LEMMA NewStep ==
    ASSUME TypeOK, LockInv, NewInv, FetchInv, [Next]_vars
    PROVE  NewInv'
<1>1. CASE Publish \/ UNCHANGED vars
    BY <1>1 DEF Publish, NewInv, vars, storeVars, callVars
<1>2. CASE Tick
    <2>1. age = TTL => age' = TTL
        BY <1>2, StoreAssumption DEF Tick
    <2> QED
        BY <1>2, <2>1 DEF Tick, NewInv
<1>3. ASSUME NEW c \in Caller, BeginNew(c)
      PROVE  NewInv'
    BY <1>3 DEF BeginNew, Begin, NewInv, TypeOK, storeVars, PC
<1>4. ASSUME NEW c \in Caller, NEW p \in Path, BeginFind(c, p) \/ BeginFindCancelled(c, p)
      PROVE  NewInv'
    <2>1. held # 0 /\ UNCHANGED <<held, age>>
        <3>1. held > 0
            BY <1>4 DEF BeginFind, BeginFindCancelled
        <3>2. UNCHANGED <<held, age>>
            BY <1>4 DEF BeginFind, BeginFindCancelled, Begin, storeVars
        <3> QED
            BY <3>1, <3>2
    <2>2. op' = [op EXCEPT ![c] = "find"] /\ path' = [path EXCEPT ![c] = p]
        BY <1>4 DEF BeginFind, BeginFindCancelled, Begin
    <2>3. \A d \in Caller : d # c => pc'[d] = pc[d]
        BY <1>4 DEF BeginFind, BeginFindCancelled, Begin, TypeOK
    <2>4. /\ op'[c] = "find" /\ path'[c] = p
          /\ \A d \in Caller : d # c => op'[d] = op[d] /\ path'[d] = path[d]
        BY <2>2 DEF TypeOK
    <2>5. \A d \in Caller : pc[d] # "idle" => op[d] # "new"
        BY <2>1 DEF NewInv
    <2>6. \A d \in Caller : ~(pc'[d] # "idle" /\ op'[d] = "new")
        BY <2>3, <2>4, <2>5
    <2>7. \A d \in Caller : pc'[d] # "idle" /\ op'[d] = "find" =>
             held' > 0 /\ path'[d] \in Path
        BY <1>4, <2>1, <2>3, <2>4 DEF NewInv, BeginFind, BeginFindCancelled
    <2>8. \A d \in Caller :
             pc'[d] \in {"parkedCheck", "find", "parkedScan", "scan"} => op'[d] = "find"
        BY <2>3, <2>4 DEF NewInv
    <2> QED
        BY <2>1, <2>6, <2>7, <2>8 DEF NewInv
<1>5. ASSUME NEW c \in Caller,
             Check(c) \/ Lock(c) \/ Drain(c) \/ RLockEntries(c) \/ FindNothing(c) \/ Cancel(c)
      PROVE  NewInv'
    <2>1. UNCHANGED <<held, age, op, path>>
        BY <1>5 DEF Check, Lock, Drain, RLockEntries, FindNothing, Cancel, storeVars, callVars
    <2>2. \A d \in Caller : d # c => pc'[d] = pc[d]
        BY <1>5 DEF Check, Lock, Drain, RLockEntries, FindNothing, Cancel, TypeOK
    <2>3. pc'[c] # "idle" => pc[c] # "idle"
        BY <1>5 DEF Check, Lock, Drain, RLockEntries, FindNothing, Cancel, TypeOK
    <2>4. pc'[c] \in {"parkedCheck", "find", "parkedScan", "scan"} => op[c] = "find"
        BY <1>5 DEF Check, Lock, Drain, RLockEntries, FindNothing, Cancel, TypeOK,
                    NewInv, AfterEnsure
    <2> QED
        BY <2>1, <2>2, <2>3, <2>4 DEF NewInv
<1>6. ASSUME NEW c \in Caller, FetchError(c) \/ Recheck(c)
      PROVE  NewInv'
    <2>1. UNCHANGED <<held, age, op, path>>
        BY <1>6 DEF FetchError, Recheck, storeVars
    <2>2. \/ pc' = [pc EXCEPT ![c] = "fetch"]
          \/ pc' = Unlock(c, AfterEnsure(c))
        BY <1>6 DEF FetchError, Recheck
    <2>3. pc[c] # "idle"
        BY <1>6 DEF FetchError, Recheck
    <2>4. AfterEnsure(c) \in PC
        BY DEF AfterEnsure, PC
    <2>5. \A d \in Caller \ {c} :
             /\ pc'[d] = "idle" <=> pc[d] = "idle"
             /\ pc'[d] \in {"parkedCheck", "find", "parkedScan", "scan"} =>
                   pc[d] \in {"parkedCheck", "find", "parkedScan", "scan"}
        <3>1. CASE pc' = [pc EXCEPT ![c] = "fetch"]
            BY <3>1 DEF TypeOK
        <3>2. CASE pc' = Unlock(c, AfterEnsure(c))
            BY <2>4, <3>2, UnlockType
        <3> QED
            BY <2>2, <3>1, <3>2
    <2>6. /\ pc'[c] # "idle" => pc[c] # "idle"
          /\ pc'[c] \in {"parkedCheck", "find", "parkedScan", "scan"} => op[c] = "find"
        <3>1. CASE pc' = [pc EXCEPT ![c] = "fetch"]
            BY <2>3, <3>1 DEF TypeOK
        <3>2. CASE pc' = Unlock(c, AfterEnsure(c))
            <4>1. pc'[c] = AfterEnsure(c)
                BY <2>4, <3>2, UnlockType
            <4>2. op[c] \in {"new", "find"}
                BY DEF TypeOK
            <4> QED
                BY <2>3, <4>1, <4>2 DEF AfterEnsure
        <3> QED
            BY <2>2, <3>1, <3>2
    <2> QED
        BY <2>1, <2>5, <2>6 DEF NewInv
<1>7. ASSUME NEW c \in Caller, FetchOk(c)
      PROVE  NewInv'
    <2>1. UNCHANGED <<op, path>>
        BY <1>7 DEF FetchOk
    <2>2. AfterEnsure(c) \in PC
        BY DEF AfterEnsure, PC
    <2>3. \A d \in Caller \ {c} :
             /\ pc'[d] = "idle" <=> pc[d] = "idle"
             /\ pc'[d] \in {"parkedCheck", "find", "parkedScan", "scan"} =>
                   pc[d] \in {"parkedCheck", "find", "parkedScan", "scan"}
        <3>1. pc' = Unlock(c, AfterEnsure(c))
            BY <1>7 DEF FetchOk
        <3> QED
            BY <2>2, <3>1, UnlockType
    <2>4. pc'[c] = AfterEnsure(c) /\ pc[c] = "fetch"
        BY <1>7, <2>2, UnlockType DEF FetchOk
    <2>5. held' > 0 /\ held' # 0
        BY <1>7 DEF FetchOk, FetchInv, Version, TypeOK
    <2>6. \A d \in Caller : pc'[d] # "idle" => op[d] = "find" /\ path[d] \in Path
        <3>1. CASE op[c] = "new"
            <4>1. \A d \in Caller : d # c => pc[d] = "idle"
                BY <2>4, <3>1 DEF NewInv
            <4>2. pc'[c] = "idle"
                BY <2>4, <3>1 DEF AfterEnsure
            <4> QED
                BY <2>3, <4>1, <4>2
        <3>2. CASE op[c] = "find"
            <4>1. ASSUME NEW d \in Caller, pc[d] # "idle"
                  PROVE  op[d] = "find"
                <5>1. CASE op[d] = "new"
                    <6>1. \A e \in Caller : e # d => pc[e] = "idle"
                        BY <4>1, <5>1 DEF NewInv
                    <6>2. c # d
                        BY <3>2, <5>1
                    <6> QED
                        BY <2>4, <6>1, <6>2
                <5> QED
                    BY <5>1 DEF TypeOK
            <4>2. \A d \in Caller : pc[d] # "idle" => path[d] \in Path
                BY <4>1 DEF NewInv
            <4>3. \A d \in Caller : pc'[d] # "idle" => pc[d] # "idle"
                BY <2>3, <2>4
            <4> QED
                BY <4>1, <4>2, <4>3
        <3> QED
            BY <3>1, <3>2 DEF TypeOK
    <2> QED
        BY <2>1, <2>5, <2>6 DEF NewInv
<1>8. ASSUME NEW c \in Caller, Scan(c)
      PROVE  NewInv'
    BY <1>8 DEF Scan, NewInv, TypeOK, storeVars
<1>9. ASSUME NEW c \in Caller, FetchPanic(c)
      PROVE  NewInv'
    <2>1. UNCHANGED <<held, age, op>> /\ path' = [path EXCEPT ![c] = NoPath]
        BY <1>9 DEF FetchPanic, storeVars
    <2>2. pc[c] = "fetch" /\ pc' = Unlock(c, "idle") /\ "idle" \in PC
        BY <1>9 DEF FetchPanic, PC
    <2>3. \A d \in Caller \ {c} :
             /\ pc'[d] = "idle" <=> pc[d] = "idle"
             /\ path'[d] = path[d]
             /\ pc'[d] \in {"parkedCheck", "find", "parkedScan", "scan"} =>
                   pc[d] \in {"parkedCheck", "find", "parkedScan", "scan"}
                       \/ op[d] = "find"
        BY <2>1, <2>2, UnlockType DEF TypeOK
    <2>4. pc'[c] = "idle"
        BY <2>2, UnlockType
    <2> QED
        BY <2>1, <2>3, <2>4 DEF NewInv
<1> QED
    BY <1>1, <1>2, <1>3, <1>4, <1>5, <1>6, <1>7, <1>8, <1>9, NextCases

\* Only a fetch that succeeds makes an expired catalog fresh again.
LEMMA ExpiredStays ==
    ASSUME TypeOK, [Next]_vars, ~\E c \in Caller : FetchOk(c), age >= TTL
    PROVE  age' >= TTL
<1>1. CASE Tick
    BY <1>1, StoreAssumption DEF Tick, TypeOK
<1>2. CASE ~Tick
    BY <1>2, NextCases DEF Publish, BeginNew, BeginFind, BeginFindCancelled, Begin,
       FindNothing, Check, Lock, Drain, Recheck, FetchError, FetchPanic, RLockEntries,
       Scan, Cancel, vars, storeVars
<1> QED
    BY <1>1, <1>2

\* Who is fetching after a step was fetching before it, with the same asked,
\* or has just passed the double check.
LEMMA FetchOrigin ==
    ASSUME TypeOK, LockInv, [Next]_vars, NEW d \in Caller, pc'[d] = "fetch"
    PROVE  \/ pc[d] = "fetch" /\ asked'[d] = asked[d]
           \/ Expired /\ asked'[d] = published
<1>1. CASE Publish \/ Tick \/ UNCHANGED vars
    BY <1>1 DEF Publish, Tick, vars, callVars
<1>2. ASSUME NEW c \in Caller, NEW p, BeginNew(c) \/ BeginFind(c, p) \/ BeginFindCancelled(c, p)
      PROVE  pc[d] = "fetch" /\ asked'[d] = asked[d]
    BY <1>2 DEF BeginNew, BeginFind, BeginFindCancelled, Begin, RLock, TypeOK
<1>3. ASSUME NEW c \in Caller,
             FindNothing(c) \/ Check(c) \/ Lock(c) \/ Drain(c) \/ RLockEntries(c)
                \/ Scan(c) \/ Cancel(c)
      PROVE  pc[d] = "fetch" /\ asked'[d] = asked[d]
    BY <1>3 DEF FindNothing, Check, AfterEnsure, Lock, Drain, RLockEntries, RLock, Scan,
                Cancel, TypeOK, callVars
<1>4. ASSUME NEW c \in Caller, Recheck(c)
      PROVE  \/ pc[d] = "fetch" /\ asked'[d] = asked[d]
             \/ Expired /\ asked'[d] = published
    <2>1. CASE Expired
        BY <1>4, <2>1 DEF Recheck, TypeOK
    <2>2. CASE ~Expired
        BY <1>4, <2>2, NobodyWrites DEF Recheck, AfterEnsure
    <2> QED
        BY <2>1, <2>2
<1>5. ASSUME NEW c \in Caller, FetchOk(c) \/ FetchError(c) \/ FetchPanic(c)
      PROVE  FALSE
    BY <1>5, NobodyWrites DEF FetchOk, FetchError, FetchPanic, AfterEnsure
<1> QED
    BY <1>1, <1>2, <1>3, <1>4, <1>5, NextCases

\* Every step keeps it that a fetch in progress is for an expired catalog.
LEMMA FetchStep ==
    ASSUME TypeOK, LockInv, FetchInv, FetchOnlyExpired, [Next]_vars
    PROVE  FetchInv' /\ FetchOnlyExpired'
<1>1. published \in Nat /\ published' \in Nat /\ published <= published' /\ TTL \in Nat
    <2>1. published' = published \/ published' = published + 1
        BY NextCases DEF Publish, Tick, BeginNew, BeginFind, BeginFindCancelled, Begin,
           FindNothing, Check, Lock, Drain, Recheck, FetchOk, FetchError, FetchPanic,
           RLockEntries, Scan, Cancel, vars, serviceVars
    <2> QED
        BY <2>1, StoreAssumption, CatalogAssumption DEF TypeOK, Version
<1>2. CASE \E c \in Caller : FetchOk(c)
    <2>1. PICK c \in Caller : FetchOk(c)
        BY <1>2
    <2>2. held' <= published'
        BY <2>1, <1>1 DEF FetchOk, FetchInv, serviceVars, Version
    <2>3. \A d \in Caller : pc'[d] # "fetch"
        BY <2>1, NobodyWrites DEF FetchOk, AfterEnsure
    <2> QED
        BY <2>2, <2>3 DEF FetchInv, FetchOnlyExpired
<1>3. CASE ~\E c \in Caller : FetchOk(c)
    <2>1. held' = held /\ held <= published'
        BY <1>1, <1>3, StoreKept DEF FetchInv, TypeOK, Version
    <2>2. ASSUME NEW d \in Caller, pc'[d] = "fetch"
          PROVE  /\ asked'[d] \in Version
                 /\ held' <= asked'[d]
                 /\ asked'[d] <= published'
                 /\ age' >= TTL
        <3>1. age >= TTL
            BY <2>2, FetchOrigin DEF Expired, FetchOnlyExpired
        <3>2. asked'[d] \in Version /\ held <= asked'[d] /\ asked'[d] <= published
            <4>1. \/ pc[d] = "fetch" /\ asked'[d] = asked[d]
                  \/ Expired /\ asked'[d] = published
                BY <2>2, FetchOrigin, SMTT(30)
            <4> QED
                BY <4>1, SMTT(30) DEF FetchInv, TypeOK, Version
        <3> QED
            BY <1>1, <1>3, <2>1, <3>1, <3>2, ExpiredStays DEF Version
    <2> QED
        BY <2>1, <2>2 DEF FetchInv, FetchOnlyExpired
<1> QED
    BY <1>2, <1>3

\* Every step leaves the entries those of one whole published catalog.
LEMMA WholeStep ==
    ASSUME CatalogWhole, NewInv', [Next]_vars
    PROVE  CatalogWhole'
<1>1. entries' = EntriesOf(held')
    <2>1. CASE \E c \in Caller : FetchOk(c)
        BY <2>1 DEF FetchOk
    <2>2. CASE ~\E c \in Caller : FetchOk(c)
        BY <2>2, StoreKept DEF CatalogWhole
    <2> QED
        BY <2>1, <2>2
<1> QED
    BY <1>1 DEF CatalogWhole, NewInv

-----------------------------------------------------------------------------
(* Freshness.                                                              *)

\* What FreshInv says of one goroutine.
FreshAt(c) ==
    pc[c] # "idle" /\ note[c].stale /\ ~note[c].renewed =>
        /\ age >= TTL
        /\ pc[c] \in {"find", "parkedScan", "scan"} => note[c].missed

\* A step that fetches nothing and leaves d's note alone keeps FreshAt(d),
\* unless d is entering the scan.
LEMMA FreshKept ==
    ASSUME TypeOK, [Next]_vars, ~\E c \in Caller : FetchOk(c),
           NEW d \in Caller, FreshAt(d), note'[d] = note[d],
           pc'[d] # "idle" => pc[d] # "idle",
           pc'[d] \in {"find", "parkedScan", "scan"} =>
               pc[d] \in {"find", "parkedScan", "scan"} \/ ~Expired
    PROVE  FreshAt(d)'
<1>1. age >= TTL => age' >= TTL
    BY ExpiredStays
<1> QED
    BY <1>1 DEF FreshAt, Expired

\* Every step keeps what a lookup remembers of the catalog's age true.
LEMMA FreshStep ==
    ASSUME TypeOK, NewInv, FreshInv, [Next]_vars, NEW d \in Caller
    PROVE  FreshAt(d)'
<1>1. FreshAt(d)
    BY DEF FreshInv, FreshAt
<1>2. CASE \E c \in Caller : FetchOk(c)
    <2>1. PICK c \in Caller : FetchOk(c)
        BY <1>2
    <2>2. note'[d].renewed = (pc[d] # "idle")
        BY <2>1 DEF FetchOk, TypeOK, Note
    <2>3. pc'[d] # "idle" => pc[d] # "idle"
        <3>1. AfterEnsure(c) \in PC
            BY DEF AfterEnsure, PC
        <3>2. pc' = Unlock(c, AfterEnsure(c)) /\ pc[c] # "idle"
            BY <2>1 DEF FetchOk
        <3> QED
            BY <3>1, <3>2, UnlockKeepsPhase
    <2> QED
        BY <2>2, <2>3 DEF FreshAt
<1>3. CASE ~\E c \in Caller : FetchOk(c)
    <2>1. CASE Publish \/ Tick \/ UNCHANGED vars
        BY <1>1, <1>3, <2>1, FreshKept DEF Publish, Tick, vars, callVars
    <2>2. ASSUME NEW c \in Caller, NEW o, NEW p, NEW next, NEW missed \in BOOLEAN,
                 Begin(c, o, p, next, missed),
                 missed \/ next \notin {"find", "parkedScan", "scan"}
          PROVE  FreshAt(d)'
        <3>1. CASE d # c
            <4>1. pc'[d] = pc[d] /\ note'[d] = note[d]
                BY <2>2, <3>1 DEF Begin, TypeOK
            <4> QED
                BY <1>1, <1>3, <4>1, FreshKept
        <3>2. CASE d = c
            <4>1. pc'[d] = next /\ note'[d] = NoteNow(missed) /\ age' = age
                BY <2>2, <3>2 DEF Begin, TypeOK, storeVars
            <4>2. /\ note'[d].stale => age >= TTL
                  /\ missed => note'[d].missed
                <5>1. /\ NoteNow(missed).stale = Expired
                      /\ NoteNow(missed).missed = missed
                    BY Zenon DEF NoteNow
                <5> QED
                    BY <4>1, <5>1, Zenon DEF Expired
            <4> QED
                BY <2>2, <4>1, <4>2 DEF FreshAt
        <3> QED
            BY <3>1, <3>2
    <2>9. ASSUME NEW c \in Caller, BeginNew(c)
          PROVE  FreshAt(d)'
        BY <2>2, <2>9 DEF BeginNew
    <2>3. ASSUME NEW c \in Caller, NEW p \in Path,
                 BeginFind(c, p) \/ BeginFindCancelled(c, p)
          PROVE  FreshAt(d)'
        BY <2>2, <2>3 DEF BeginFind, BeginFindCancelled, RLock
    <2>4. ASSUME NEW c \in Caller, Check(c)
          PROVE  FreshAt(d)'
        <3>1. note' = note
            BY <2>4 DEF Check, callVars
        <3>2. /\ pc'[d] # "idle" => pc[d] # "idle"
              /\ pc'[d] \in {"find", "parkedScan", "scan"} =>
                    pc[d] \in {"find", "parkedScan", "scan"} \/ ~Expired
            BY <2>4 DEF Check, AfterEnsure, TypeOK
        <3> QED
            BY <1>1, <1>3, <3>1, <3>2, FreshKept
    <2>5. ASSUME NEW c \in Caller,
                 FindNothing(c) \/ Lock(c) \/ Drain(c) \/ RLockEntries(c) \/ Cancel(c)
          PROVE  FreshAt(d)'
        <3>1. note' = note
            BY <2>5 DEF FindNothing, Lock, Drain, RLockEntries, Cancel, callVars
        <3>2. /\ pc'[d] # "idle" => pc[d] # "idle"
              /\ pc'[d] \in {"find", "parkedScan", "scan"} =>
                    pc[d] \in {"find", "parkedScan", "scan"}
            BY <2>5 DEF FindNothing, Lock, Drain, RLockEntries, RLock, Cancel, TypeOK
        <3> QED
            BY <1>1, <1>3, <3>1, <3>2, FreshKept
    <2>6. ASSUME NEW c \in Caller, Recheck(c)
          PROVE  FreshAt(d)'
        <3>1. note' = note
            BY <2>6 DEF Recheck
        <3>2. /\ pc'[d] # "idle" => pc[d] # "idle"
              /\ pc'[d] \in {"find", "parkedScan", "scan"} =>
                    pc[d] \in {"find", "parkedScan", "scan"} \/ ~Expired
            <4>1. CASE Expired
                BY <2>6, <4>1 DEF Recheck, TypeOK
            <4>2. CASE ~Expired
                <5>1. AfterEnsure(c) \in PC
                    BY DEF AfterEnsure, PC
                <5>2. pc' = Unlock(c, AfterEnsure(c)) /\ pc[c] # "idle"
                    BY <2>6, <4>2 DEF Recheck
                <5> QED
                    BY <4>2, <5>1, <5>2, UnlockKeepsPhase
            <4> QED
                BY <4>1, <4>2
        <3> QED
            BY <1>1, <1>3, <3>1, <3>2, FreshKept
    <2>7. ASSUME NEW c \in Caller, FetchError(c)
          PROVE  FreshAt(d)'
        <3>1. AfterEnsure(c) \in PC
            BY DEF AfterEnsure, PC
        <3>2. pc' = Unlock(c, AfterEnsure(c)) /\ pc[c] = "fetch"
            BY <2>7 DEF FetchError
        <3>3. CASE d # c
            <4>1. note'[d] = note[d]
                BY <2>7, <3>3 DEF FetchError, TypeOK
            <4>2. /\ pc'[d] # "idle" => pc[d] # "idle"
                  /\ pc'[d] \in {"find", "parkedScan", "scan"} =>
                        pc[d] \in {"find", "parkedScan", "scan"}
                <5>1. pc[c] # "idle" /\ pc' = Unlock(c, AfterEnsure(c))
                    BY <3>2
                <5> QED
                    BY <3>1, <3>3, <5>1, UnlockKeepsPhase
            <4> QED
                BY <1>1, <1>3, <4>1, <4>2, FreshKept
        <3>4. CASE d = c
            <4>1. /\ note'[d].missed
                  /\ note'[d].stale = note[d].stale
                  /\ note'[d].renewed = note[d].renewed
                BY <2>7, <3>4 DEF FetchError, TypeOK, Note
            <4>2. age >= TTL => age' >= TTL
                BY <1>3, ExpiredStays
            <4> QED
                BY <1>1, <3>2, <3>4, <4>1, <4>2 DEF FreshAt
        <3> QED
            BY <3>3, <3>4
    <2>8. ASSUME NEW c \in Caller, Scan(c)
          PROVE  FreshAt(d)'
        <3>1. CASE d # c
            <4>1. pc'[d] = pc[d] /\ note'[d] = note[d]
                BY <2>8, <3>1 DEF Scan, TypeOK
            <4> QED
                BY <1>1, <1>3, <4>1, FreshKept
        <3>2. CASE d = c
            BY <2>8, <3>2 DEF Scan, TypeOK, FreshAt
        <3> QED
            BY <3>1, <3>2
    <2>10. ASSUME NEW c \in Caller, FetchPanic(c)
           PROVE  FreshAt(d)'
        <3>1. pc' = Unlock(c, "idle") /\ pc[c] # "idle" /\ "idle" \in PC
            BY <2>10 DEF FetchPanic, PC
        <3>2. CASE d # c
            <4>1. note'[d] = note[d]
                BY <2>10, <3>2 DEF FetchPanic, TypeOK
            <4> QED
                BY <1>1, <1>3, <3>1, <3>2, <4>1, FreshKept, UnlockKeepsPhase
        <3>3. CASE d = c
            BY <3>1, <3>3, UnlockType DEF FreshAt
        <3> QED
            BY <3>2, <3>3
    <2> QED
        BY <1>3, <2>1, <2>3, <2>4, <2>5, <2>6, <2>7, <2>8, <2>9, <2>10, NextCases
<1> QED
    BY <1>2, <1>3

-----------------------------------------------------------------------------
(* The theorems.                                                           *)

\* IInv holds of the initial states and every step keeps it.
LEMMA Inductive == (Init => IInv) /\ (IInv /\ [Next]_vars => IInv')
<1>1. Init => IInv
    <2> SUFFICES ASSUME Init PROVE IInv
        OBVIOUS
    <2>1. TypeOK
        BY InitType
    <2>2. \A c \in Caller : pc[c] = "idle"
        BY DEF Init
    <2>3. LockInv
        BY <2>2 DEF LockInv, Writers
    <2>4. NewInv /\ FetchInv /\ FetchOnlyExpired /\ FreshInv
        BY <2>2 DEF Init, NewInv, FetchInv, FetchOnlyExpired, FreshInv
    <2>5. CatalogWhole
        BY <2>2 DEF Init, CatalogWhole, EntriesOf
    <2> QED
        BY <2>1, <2>3, <2>4, <2>5 DEF IInv
<1>2. IInv /\ [Next]_vars => IInv'
    <2> SUFFICES ASSUME IInv, [Next]_vars PROVE IInv'
        OBVIOUS
    <2>1. /\ TypeOK /\ LockInv /\ NewInv /\ FetchInv
          /\ FetchOnlyExpired /\ FreshInv /\ CatalogWhole
        BY DEF IInv
    <2>2. TypeOK'
        BY <2>1, TypeStep
    <2>3. LockInv'
        BY <2>1, LockStep
    <2>4. NewInv'
        BY <2>1, NewStep
    <2>5. FetchInv' /\ FetchOnlyExpired'
        BY <2>1, FetchStep
    <2>6. FreshInv'
        BY <2>1, FreshStep DEF FreshInv, FreshAt
    <2>7. CatalogWhole'
        BY <2>1, <2>4, WholeStep
    <2> QED
        BY <2>2, <2>3, <2>4, <2>5, <2>6, <2>7 DEF IInv
<1> QED
    BY <1>1, <1>2

\* The whole inductive invariant, from which the properties are read off.
THEOREM Invariance == Spec => []IInv
    BY Inductive, PTL DEF Spec

\* Every variable keeps its type, whatever the constants.
THEOREM TypeCorrect == Spec => []TypeOK
<1>1. IInv => TypeOK
    BY DEF IInv
<1> QED
    BY <1>1, Invariance, PTL

\* No outage leaves the store with anything but one whole published catalog.
THEOREM OutageSafe == Spec => []CatalogWhole
<1>1. IInv => CatalogWhole
    BY DEF IInv
<1> QED
    BY <1>1, Invariance, PTL

\* The double check: nobody fetches a catalog that is still fresh.
THEOREM OneFetchPerExpiry == Spec => []FetchOnlyExpired
<1>1. IInv => FetchOnlyExpired
    BY DEF IInv
<1> QED
    BY <1>1, Invariance, PTL

\* A lookup whose refresh was not missed answers from a fresh catalog.
THEOREM LookupsFresh == Spec => []FreshUnlessMissed
<1>1. IInv => FreshUnlessMissed
    BY DEF IInv, FreshInv, FreshUnlessMissed
<1> QED
    BY <1>1, Invariance, PTL

\* The store never goes back to an older catalog.
THEOREM Monotone == Spec => CatalogNeverRegresses
<1>1. IInv /\ [Next]_vars => [held' >= held]_vars
    <2> SUFFICES ASSUME IInv, [Next]_vars PROVE held' >= held
        OBVIOUS
    <2>1. TypeOK /\ FetchInv
        BY DEF IInv
    <2>2. held \in Int
        BY <2>1 DEF TypeOK, Version
    <2>3. CASE \E c \in Caller : FetchOk(c)
        BY <2>1, <2>2, <2>3 DEF FetchOk, FetchInv, TypeOK, Version
    <2>4. CASE ~\E c \in Caller : FetchOk(c)
        BY <2>2, <2>4, StoreKept
    <2> QED
        BY <2>3, <2>4
<1> QED
    BY <1>1, Invariance, PTL DEF Spec, CatalogNeverRegresses

-----------------------------------------------------------------------------
(* The store implements CatalogCache.                                      *)

\* A step that moves nobody in or out of a lookup is not seen by the cache.
LEMMA AskingKept ==
    ASSUME TypeOK, UNCHANGED <<op, path>>,
           \A d \in Caller : (pc'[d] = "idle" <=> pc[d] = "idle") \/ op[d] = "new"
    PROVE  Asking' = Asking
    BY DEF Asking

\* Nor is one in which c is alone in moving, and stays inside its call.
LEMMA Stutters ==
    ASSUME TypeOK, UNCHANGED <<published, held, age, answer, op, path>>,
           \A d \in Caller : (pc'[d] = "idle" <=> pc[d] = "idle") \/ op[d] = "new"
    PROVE  UNCHANGED Cache!abstractVars
    BY AskingKept DEF Cache!abstractVars

\* Both specifications read the catalog in the same way.
LEMMA SameLookup ==
    ASSUME NEW v, NEW p
    PROVE  Cache!FirstMatch(Cache!EntriesOf(v), p) = FirstMatch(EntriesOf(v), p)
    BY DEF Cache!FirstMatch, FirstMatch, Cache!EntriesOf, EntriesOf,
       Cache!FilterAndNormalize, FilterAndNormalize, Cache!Usable, Usable,
       Cache!SupportedPatterns, SupportedPatterns, Cache!MatchesEntry, MatchesEntry

\* Every step of the store is a step of the cache or invisible to it.
LEMMA StepSimulation ==
    ASSUME IInv, [Next]_vars
    PROVE  [Cache!Next]_(Cache!abstractVars)
<1> USE DEF IInv
<1>1. CASE Publish
    <2>1. Asking' = Asking
        BY <1>1, AskingKept DEF Publish, callVars
    <2> QED
        BY <1>1, <2>1 DEF Publish, Cache!Publish, Cache!Next, storeVars, callVars
<1>2. CASE Tick
    <2>1. Asking' = Asking
        BY <1>2, AskingKept DEF Tick
    <2>2. CASE age < TTL
        BY <1>2, <2>1, <2>2 DEF Tick, Cache!Tick, Cache!Next, serviceVars
    <2>3. CASE ~(age < TTL)
        BY <1>2, <2>1, <2>3 DEF Tick, Cache!abstractVars, serviceVars
    <2> QED
        BY <2>2, <2>3
<1>3. ASSUME NEW c \in Caller, BeginNew(c)
      PROVE  UNCHANGED Cache!abstractVars
    <2>1. op'[c] = "new" /\ \A d \in Caller : d # c => pc'[d] = "idle" /\ pc[d] = "idle"
        BY <1>3 DEF BeginNew, Begin, TypeOK
    <2>2. pc[c] = "idle"
        BY <1>3 DEF BeginNew
    <2>3. Asking' = Asking
        BY <2>1, <2>2 DEF Asking
    <2> QED
        BY <1>3, <2>3 DEF BeginNew, Begin, Cache!abstractVars, serviceVars, storeVars
<1>4. ASSUME NEW c \in Caller, NEW p \in Path, BeginFind(c, p) \/ BeginFindCancelled(c, p)
      PROVE  Cache!Ask(c, p)
    <2>1. PICK next \in PC \ {"idle"}, missed \in BOOLEAN : Begin(c, "find", p, next, missed)
        BY <1>4 DEF BeginFind, BeginFindCancelled, RLock, PC
    <2>5. answer' = [answer EXCEPT ![c] = NoURL]
        BY <1>4 DEF BeginFind, BeginFindCancelled
    <2>2. Asking[c] = NoPath
        BY <2>1 DEF Begin, Asking
    <2>3. Asking' = [Asking EXCEPT ![c] = p]
        BY <2>1 DEF Begin, Asking, TypeOK
    <2>4. held > 0
        BY <1>4 DEF BeginFind, BeginFindCancelled
    <2> QED
        BY <2>1, <2>2, <2>3, <2>4, <2>5 DEF Begin, Cache!Ask, serviceVars, storeVars
<1>5. ASSUME NEW c \in Caller, FindNothing(c)
      PROVE  Cache!Decline(c)
    <2>1. Asking' = Asking /\ Asking[c] = NoPath
        BY <1>5 DEF FindNothing, Asking
    <2> QED
        BY <1>5, <2>1 DEF FindNothing, Cache!Decline, serviceVars, storeVars
<1>6. ASSUME NEW c \in Caller,
             Check(c) \/ Lock(c) \/ Drain(c) \/ RLockEntries(c) \/ Cancel(c)
      PROVE  UNCHANGED Cache!abstractVars
    <2>1. UNCHANGED <<published, held, age, answer, op, path>>
        BY <1>6 DEF Check, Lock, Drain, RLockEntries, Cancel, serviceVars, storeVars, callVars
    <2>2. \A d \in Caller : (pc'[d] = "idle" <=> pc[d] = "idle") \/ op[d] = "new"
        BY <1>6 DEF Check, AfterEnsure, Lock, Drain, RLockEntries, RLock, Cancel, TypeOK
    <2> QED
        BY <2>1, <2>2, Stutters
<1>7. ASSUME NEW c \in Caller, pc[c] # "idle", pc' = Unlock(c, AfterEnsure(c))
      PROVE  \A d \in Caller : (pc'[d] = "idle" <=> pc[d] = "idle") \/ op[d] = "new"
    <2>1. AfterEnsure(c) \in PC
        BY DEF AfterEnsure, PC
    <2>2. /\ Unlock(c, AfterEnsure(c))[c] = AfterEnsure(c)
          /\ \A d \in Caller \ {c} :
                \/ Unlock(c, AfterEnsure(c))[d] = pc[d]
                \/ pc[d] = "parkedCheck" /\ Unlock(c, AfterEnsure(c))[d] = "check"
                \/ pc[d] = "parkedScan" /\ Unlock(c, AfterEnsure(c))[d] = "scan"
        BY <2>1, UnlockType
    <2>3. \A d \in Caller \ {c} : pc'[d] = "idle" <=> pc[d] = "idle"
        BY <1>7, <2>2
    <2>4. pc'[c] = AfterEnsure(c)
        BY <1>7, <2>2
    <2> QED
        BY <1>7, <2>3, <2>4 DEF AfterEnsure
<1>8. ASSUME NEW c \in Caller, Recheck(c)
      PROVE  UNCHANGED Cache!abstractVars
    <2>1. UNCHANGED <<published, held, age, answer, op, path>>
        BY <1>8 DEF Recheck, serviceVars, storeVars
    <2>2. \A d \in Caller : (pc'[d] = "idle" <=> pc[d] = "idle") \/ op[d] = "new"
        <3>1. CASE Expired
            BY <1>8, <3>1 DEF Recheck, TypeOK
        <3>2. CASE ~Expired
            BY <1>7, <1>8, <3>2 DEF Recheck
        <3> QED
            BY <3>1, <3>2
    <2> QED
        BY <2>1, <2>2, Stutters
<1>9. ASSUME NEW c \in Caller, FetchError(c)
      PROVE  UNCHANGED Cache!abstractVars
    <2>1. UNCHANGED <<published, held, age, answer, op, path>>
        BY <1>9 DEF FetchError, serviceVars, storeVars
    <2>2. \A d \in Caller : (pc'[d] = "idle" <=> pc[d] = "idle") \/ op[d] = "new"
        BY <1>7, <1>9 DEF FetchError
    <2> QED
        BY <2>1, <2>2, Stutters
<1>10. ASSUME NEW c \in Caller, FetchOk(c)
       PROVE  Cache!Refresh
    <2>1. Asking' = Asking
        BY <1>7, <1>10, AskingKept DEF FetchOk
    <2>2. age = TTL
        <3>1. age >= TTL
            BY <1>10 DEF FetchOk, FetchOnlyExpired
        <3>2. age \in 0 .. TTL
            BY DEF TypeOK
        <3> QED
            BY <3>1, <3>2, StoreAssumption
    <2>3. held' \in held .. published /\ held' > 0
        BY <1>10 DEF FetchOk, FetchInv, TypeOK, Version
    <2> QED
        BY <1>10, <2>1, <2>2, <2>3 DEF FetchOk, Cache!Refresh, serviceVars
<1>11. ASSUME NEW c \in Caller, Scan(c)
       PROVE  Cache!Answer(c)
    <2>1. op[c] = "find" /\ path[c] \in Path
        BY <1>11 DEF Scan, NewInv
    <2>2. Asking[c] = path[c] /\ Asking[c] # NoPath
        BY <1>11, <2>1, StoreAssumption DEF Scan, Asking
    <2>3. Asking' = [Asking EXCEPT ![c] = NoPath]
        BY <1>11 DEF Scan, Asking, TypeOK
    <2>4. entries = EntriesOf(held)
        BY DEF CatalogWhole
    <2>5. UNCHANGED <<published, held, age>>
        BY <1>11 DEF Scan, serviceVars, storeVars
    <2>6. answer' = [answer EXCEPT ![c] = FirstMatch(EntriesOf(held), Asking[c])]
        BY <1>11, <2>2, <2>4 DEF Scan
    <2> QED
        BY <2>2, <2>3, <2>5, <2>6, SameLookup DEF Cache!Answer
<1>12. CASE UNCHANGED vars
    BY <1>12 DEF vars, serviceVars, storeVars, callVars, Asking, Cache!abstractVars
<1>13. ASSUME NEW c \in Caller, FetchPanic(c)
       PROVE  Cache!Panic(c) \/ UNCHANGED Cache!abstractVars
    <2>1. /\ pc[c] = "fetch" /\ pc' = Unlock(c, "idle") /\ "idle" \in PC
          /\ UNCHANGED <<published, held, age, op>>
          /\ path' = [path EXCEPT ![c] = NoPath]
          /\ answer' = [answer EXCEPT ![c] = IF op[c] = "find" THEN Panicked ELSE @]
        BY <1>13 DEF FetchPanic, PC, serviceVars, storeVars
    <2>2. pc'[c] = "idle" /\ \A d \in Caller \ {c} : pc'[d] = "idle" <=> pc[d] = "idle"
        BY <2>1, UnlockType
    <2>3. Asking' = [Asking EXCEPT ![c] = NoPath]
        BY <2>1, <2>2 DEF Asking, TypeOK
    <2>4. CASE op[c] = "new"
        <3>1. Asking[c] = NoPath
            BY <2>4 DEF Asking
        <3>2. Asking' = Asking
            BY <2>3, <3>1 DEF Asking
        <3>3. answer' = answer
            BY <2>1, <2>4 DEF TypeOK
        <3> QED
            BY <2>1, <3>2, <3>3 DEF Cache!abstractVars
    <2>5. CASE op[c] = "find"
        <3>1. Asking[c] # NoPath
            BY <2>1, <2>5, StoreAssumption DEF Asking, NewInv
        <3>2. age = TTL
            <4>1. age >= TTL
                BY <2>1 DEF FetchOnlyExpired
            <4>2. age \in 0 .. TTL
                BY DEF TypeOK
            <4> QED
                BY <4>1, <4>2, StoreAssumption
        <3>3. answer' = [answer EXCEPT ![c] = Panicked]
            BY <2>1, <2>5
        <3> QED
            BY <2>1, <2>3, <3>1, <3>2, <3>3 DEF Cache!Panic
    <2> QED
        BY <2>4, <2>5 DEF TypeOK
<1> QED
    BY <1>1, <1>2, <1>3, <1>4, <1>5, <1>6, <1>8, <1>9, <1>10, <1>11, <1>12, <1>13,
       NextCases
    DEF Cache!Next

\* The store, with its locks, timeouts and outages, is an atomic cache: each
\* lookup reads one catalog at one instant of its call, or panics on an empty
\* catalog while its own is expired, and refreshes are rate-limited and never
\* go back.
THEOREM Refinement == Spec => ImplementsCache
<1>1. Init => Cache!Init
    <2> SUFFICES ASSUME Init PROVE Cache!Init
        OBVIOUS
    <2>1. Asking = [c \in Caller |-> NoPath]
        BY DEF Init, Asking
    <2> QED
        BY <2>1 DEF Init, Cache!Init
<1>2. IInv /\ [Next]_vars => [Cache!Next]_(Cache!abstractVars)
    BY StepSimulation
<1> QED
    BY <1>1, <1>2, Invariance, PTL DEF Spec, ImplementsCache, Cache!Spec

-----------------------------------------------------------------------------
(* How long a lookup takes.                                                *)

\* The limits in numbers.
LEMMA Limits ==
    ASSUME NEW c \in Caller
    PROVE  /\ RefreshTimeout \in Nat
           /\ pc[c] \in {"parkedCheck", "check"} => Limit(c) = RefreshTimeout
           /\ pc[c] = "lock" /\ starving => Limit(c) = 3 * RefreshTimeout
           /\ pc[c] = "lock" /\ ~starving => Limit(c) = 2 * RefreshTimeout
           /\ pc[c] \in {"drain", "recheck", "fetch", "find"} => Limit(c) = 3 * RefreshTimeout
           /\ pc[c] \in {"parkedScan", "scan"} => Limit(c) = 4 * RefreshTimeout
    BY StoreAssumption DEF Limit

\* A lookup is under way.
LEMMA Looking ==
    ASSUME IInv, NEW c \in Caller, pc[c] # "idle", op[c] # "new"
    PROVE  op[c] = "find" /\ held > 0
    BY DEF IInv, TypeOK, NewInv

\* A queue without one of its places.
LEMMA Removed ==
    ASSUME NEW S, NEW q \in Seq(S), NEW i \in DOMAIN q
    PROVE  /\ RemoveAt(q, i) \in Seq(S)
           /\ Len(RemoveAt(q, i)) = Len(q) - 1
           /\ \A k \in 1 .. Len(q) - 1 :
                 RemoveAt(q, i)[k] = IF k < i THEN q[k] ELSE q[k + 1]
<1> DEFINE a == SubSeq(q, 1, i - 1)
           b == SubSeq(q, i + 1, Len(q))
<1>1. Len(q) \in Nat /\ i \in 1 .. Len(q) /\ \A k \in 1 .. Len(q) : q[k] \in S
    OBVIOUS
<1>2. /\ a \in Seq(S) /\ Len(a) = i - 1
      /\ \A k \in 1 .. i - 1 : a[k] = q[k]
    BY <1>1
<1>3. /\ b \in Seq(S) /\ Len(b) = Len(q) - i
      /\ \A k \in 1 .. Len(q) - i : b[k] = q[i + k]
    BY <1>1
<1>4. RemoveAt(q, i) = a \o b
    BY DEF RemoveAt
<1> HIDE DEF a, b
<1>5. /\ a \o b \in Seq(S) /\ Len(a \o b) = Len(q) - 1
      /\ \A k \in 1 .. Len(q) - 1 : (a \o b)[k] = IF k <= i - 1 THEN a[k] ELSE b[k - (i - 1)]
    <2>1. /\ a \o b \in Seq(S)
          /\ Len(a \o b) = Len(a) + Len(b)
          /\ \A k \in 1 .. Len(a) + Len(b) :
                (a \o b)[k] = IF k <= Len(a) THEN a[k] ELSE b[k - Len(a)]
        BY <1>2, <1>3, ConcatProperties
    <2>2. Len(a) + Len(b) = Len(q) - 1
        BY <1>1, <1>2, <1>3
    <2> QED
        BY <1>2, <2>1, <2>2
<1>6. ASSUME NEW k \in 1 .. Len(q) - 1
      PROVE  (a \o b)[k] = IF k < i THEN q[k] ELSE q[k + 1]
    <2>1. CASE k < i
        BY <1>1, <1>2, <1>5, <2>1
    <2>2. CASE k >= i
        <3>1. k - (i - 1) \in 1 .. Len(q) - i /\ i + (k - (i - 1)) = k + 1 /\ ~(k <= i - 1)
            BY <1>1, <2>2
        <3>2. b[k - (i - 1)] = q[i + (k - (i - 1))]
            BY <1>3, <3>1
        <3> QED
            BY <1>5, <2>2, <3>1, <3>2
    <2>3. k < i \/ k >= i
        BY <1>1
    <2> QED
        BY <2>1, <2>2, <2>3, Zenon
<1> QED
    BY <1>4, <1>5, <1>6

\* The clock is slower than the goroutines, and nothing else is different.
LEMMA TimedIsStep == [TimedNext]_timedVars => [Next]_vars
    BY DEF TimedNext, TimedTick, TimedBegin, TimedCheck, TimedLock, TimedOther, TimedScan,
       TimedPanic, Next, Step, timedVars

\* A goroutine that neither enters nor leaves the queue for the lock.
LEMMA QueueKept ==
    ASSUME QueueInv, queue' = queue, \A d \in Caller : pc'[d] = "lock" <=> pc[d] = "lock"
    PROVE  QueueInv'
    BY DEF QueueInv

\* Nobody is ahead of who does not stand in the queue.
LEMMA AheadOf ==
    ASSUME QueueInv, NEW c \in Caller
    PROVE  /\ pc[c] # "lock" => Ahead(c) = {}
           /\ \A d \in Ahead(c) : d \in Caller /\ pc[d] = "lock"
    BY DEF QueueInv, Ahead

\* When c moves, and the writer stays, the others are where they were.
LEMMA Quiet ==
    ASSUME IInv, TimedInv, NEW c \in Caller,
           \A d \in Caller \ {c} :
              /\ pc'[d] = pc[d] /\ op'[d] = op[d]
              /\ waited'[d] = waited[d] /\ left'[d] = left[d]
              /\ Ahead(d)' \subseteq Ahead(d),
           left'[c] = left[c] \/ pc[c] \in {"idle", "scan"},
           Writers' = Writers, starving' = starving
    PROVE  \A d \in Caller \ {c} : Timely(d)'
<1> SUFFICES ASSUME NEW d \in Caller, d # c, ~(pc[d] = "idle" \/ op[d] = "new")
             PROVE  Waits(d)'
    BY DEF TimedInv, Timely
<1>1. Waits(d)
    BY DEF TimedInv, Timely
<1>2. Limit(d)' = Limit(d)
    BY DEF Limit
<1>3. \A e \in Blockers(d)' : e \in Blockers(d) /\ left'[e] = left[e]
    <2> SUFFICES ASSUME NEW e \in Blockers(d)'
                 PROVE  e \in Blockers(d) /\ left'[e] = left[e]
        OBVIOUS
    <2>1. e \in Writers \cup Ahead(d)
        BY DEF Blockers
    <2>2. e \in Caller /\ pc[e] \notin {"idle", "scan"}
        BY <2>1, AheadOf DEF TimedInv, Writers
    <2> QED
        BY <2>1, <2>2 DEF Blockers
<1> QED
    BY <1>1, <1>2, <1>3 DEF Waits

\* A step of c alone that leaves the lock and its queue as they are.
LEMMA Alone ==
    ASSUME IInv, TimedInv, NEW c \in Caller, NEW next \in PC,
           pc' = [pc EXCEPT ![c] = next], next # "lock", pc[c] # "lock",
           pc[c] \in {"drain", "recheck", "fetch"} <=> next \in {"drain", "recheck", "fetch"},
           \A d \in Caller \ {c} :
              op'[d] = op[d] /\ waited'[d] = waited[d] /\ left'[d] = left[d],
           left'[c] = left[c] \/ pc[c] \in {"idle", "scan"},
           waited' \in [Caller -> Nat],
           queue' = queue, starving' = starving, Timely(c)'
    PROVE  TimedInv'
<1>1. pc \in [Caller -> PC]
    BY DEF IInv, TypeOK
<1>2. \A d \in Caller \ {c} : pc'[d] = pc[d]
    BY <1>1
<1>3. pc'[c] = next
    BY <1>1
<1>4. Writers' = Writers
    BY <1>2, <1>3 DEF Writers
<1>5. \A d \in Caller : Ahead(d)' = Ahead(d)
    BY DEF Ahead
<1>6. \A d \in Caller \ {c} : Timely(d)'
    BY <1>2, <1>4, <1>5, Quiet
<1>7. QueueInv'
    BY <1>2, <1>3, QueueKept DEF TimedInv
<1> QED
    BY <1>6, <1>7 DEF TimedInv

\* A lookup begins with its timeout.
LEMMA BeginTimed ==
    ASSUME IInv, TimedInv, NEW c \in Caller, TimedBegin(c)
    PROVE  TimedInv'
<1>1. queue' = queue /\ starving' = starving /\ waited' = waited
    BY DEF TimedBegin
<1>2. waited \in [Caller -> Nat] /\ TypeOK
    BY DEF TimedInv, IInv
<1>3. ASSUME BeginNew(c) PROVE TimedInv'
    <2>1. /\ pc[c] = "idle" /\ pc' = [pc EXCEPT ![c] = "check"]
          /\ op' = [op EXCEPT ![c] = "new"]
          /\ left' = [left EXCEPT ![c] = RefreshTimeout]
        BY <1>3 DEF BeginNew, Begin
    <2>2. op'[c] = "new" /\ waited'[c] = 0
        BY <1>1, <1>2, <2>1 DEF TypeOK, TimedInv, Timely
    <2>3. Timely(c)'
        BY <2>2 DEF Timely
    <2>4. "check" \in PC
        BY DEF PC
    <2>5. \A d \in Caller \ {c} : op'[d] = op[d] /\ left'[d] = left[d]
        BY <1>2, <2>1 DEF TypeOK
    <2> QED
        BY <1>1, <1>2, <2>1, <2>3, <2>4, <2>5, Alone
<1>4. ASSUME NEW p \in Path, NEW next \in PC, NEW missed \in BOOLEAN,
             Begin(c, "find", p, next, missed),
             \/ next \in {"check", "scan"}
             \/ next \in {"parkedCheck", "parkedScan"} /\ Writers # {}
      PROVE  TimedInv'
    <2>1. /\ pc[c] = "idle" /\ pc' = [pc EXCEPT ![c] = next]
          /\ op' = [op EXCEPT ![c] = "find"]
          /\ left' = [left EXCEPT ![c] = RefreshTimeout]
        BY <1>4 DEF Begin
    <2>2. /\ op'[c] = "find" /\ left'[c] = RefreshTimeout /\ pc'[c] = next
          /\ \A d \in Caller \ {c} :
                op'[d] = op[d] /\ left'[d] = left[d] /\ pc'[d] = pc[d]
        BY <1>2, <2>1 DEF TypeOK
    <2>3. waited'[c] = 0
        BY <1>1, <2>1 DEF TimedInv, Timely
    <2>4. RefreshTimeout \in Nat /\ RefreshTimeout <= Limit(c)' /\ Limit(c)' \in Nat
        BY <1>4, <2>2, StoreAssumption DEF Limit
    <2>5. Writers' = Writers
        BY <1>4, <2>1, <2>2 DEF Writers
    <2>6. \A d \in Blockers(c)' : left'[d] \in 0 .. RefreshTimeout
        <3> SUFFICES ASSUME NEW d \in Blockers(c)' PROVE left'[d] \in 0 .. RefreshTimeout
            OBVIOUS
        <3>1. d \in Caller
            BY DEF Blockers, Writers, Ahead
        <3> QED
            BY <1>2, <2>2, <2>4, <3>1 DEF TypeOK
    <2>7. Waits(c)'
        <3>1. left'[c] = IF waited'[c] < RefreshTimeout THEN RefreshTimeout - waited'[c] ELSE 0
            BY <2>2, <2>3, <2>4
        <3>2. waited'[c] <= Limit(c)'
            BY <2>3, <2>4
        <3>3. \A d \in Blockers(c)' : waited'[c] + left'[d] <= Limit(c)'
            BY <2>3, <2>4, <2>6
        <3>4. pc'[c] \in {"parkedCheck", "parkedScan"} => Writers' # {}
            BY <1>4, <2>2, <2>5
        <3> QED
            BY <3>1, <3>2, <3>3, <3>4 DEF Waits
    <2>8. Timely(c)'
        BY <1>4, <2>2, <2>7 DEF Timely
    <2> QED
        BY <1>1, <1>2, <1>4, <2>1, <2>2, <2>8, Alone
<1>5. ASSUME NEW p \in Path, BeginFind(c, p) PROVE TimedInv'
    <2>1. RLock(c, "check", "parkedCheck") \in PC /\ FALSE \in BOOLEAN
        BY DEF RLock, PC
    <2> QED
        BY <1>4, <1>5, <2>1 DEF BeginFind, RLock
<1>6. ASSUME NEW p \in Path, BeginFindCancelled(c, p) PROVE TimedInv'
    <2>1. RLock(c, "scan", "parkedScan") \in PC /\ TRUE \in BOOLEAN
        BY DEF RLock, PC
    <2> QED
        BY <1>4, <1>6, <2>1 DEF BeginFindCancelled, RLock
<1> QED
    BY <1>3, <1>5, <1>6 DEF TimedBegin

\* Time passes only while somebody's fetch does, and takes from its timeout.
LEMMA TickTimed ==
    ASSUME IInv, TimedInv, TimedTick
    PROVE  TimedInv'
<1>1. /\ \A c \in Caller : Blocked(c)
      /\ UNCHANGED <<pc, op, queue, starving>>
      /\ left' = [c \in Caller |-> IF left[c] > 0 THEN left[c] - 1 ELSE 0]
      /\ waited' = [c \in Caller |->
                      IF pc[c] = "idle" \/ op[c] = "new" \/ waited[c] = WaitCap
                      THEN waited[c] ELSE waited[c] + 1]
    BY DEF TimedTick, Tick
<1>2. /\ waited \in [Caller -> Nat] /\ left \in [Caller -> 0 .. RefreshTimeout]
      /\ RefreshTimeout \in Nat
      /\ LockInv /\ NewInv
    BY StoreAssumption DEF TimedInv, IInv, TypeOK
<1>3. waited' \in [Caller -> Nat]
    BY <1>1, <1>2
<1>4. ASSUME NEW w \in Writers, NEW c \in Caller \ {w}, pc[c] # "idle"
      PROVE  left[w] \in Nat /\ left[w] >= 1
    <2>1. w \in Caller /\ pc[w] \in {"drain", "recheck", "fetch"}
        BY DEF Writers
    <2>2. Readers = {}
        BY <1>1 DEF Readers, Blocked
    <2>3. pc[w] = "fetch" /\ ~CtxDone(w)
        BY <1>1, <2>1, <2>2 DEF Blocked
    <2>4. op[w] # "new"
        BY <1>2, <1>4, <2>1 DEF NewInv
    <2>5. op[w] = "find"
        BY <2>1, <2>4, Looking
    <2> QED
        BY <1>2, <2>1, <2>3, <2>5 DEF CtxDone
<1>5. ASSUME NEW c \in Caller PROVE Timely(c)'
    <2>1. CASE pc[c] = "idle" \/ op[c] = "new"
        BY <1>1, <2>1 DEF TimedInv, Timely
    <2>2. CASE ~(pc[c] = "idle" \/ op[c] = "new")
        <3>1. Waits(c)
            BY <2>2 DEF TimedInv, Timely
        <3>2. Limit(c)' = Limit(c) /\ Writers' = Writers /\ Blockers(c)' = Blockers(c)
            BY <1>1 DEF Limit, Writers, Blockers, Ahead
        <3>3. Limit(c) \in Nat /\ Limit(c) <= 4 * RefreshTimeout
            <4>1. pc[c] \in PC
                BY DEF IInv, TypeOK
            <4> QED
                BY <1>2, <2>2, <4>1 DEF Limit, PC
        <3>4. waited'[c] = waited[c] + 1
            <4>1. waited[c] <= Limit(c)
                BY <3>1 DEF Waits
            <4>2. waited[c] # WaitCap
                BY <1>2, <3>3, <4>1 DEF WaitCap
            <4> QED
                BY <1>1, <2>2, <4>2
        <3>5. left'[c] = IF waited'[c] < RefreshTimeout THEN RefreshTimeout - waited'[c] ELSE 0
            <4>1. left[c] = IF waited[c] < RefreshTimeout THEN RefreshTimeout - waited[c] ELSE 0
                BY <3>1 DEF Waits
            <4>2. left'[c] = IF left[c] > 0 THEN left[c] - 1 ELSE 0
                BY <1>1
            <4>3. waited[c] \in Nat /\ left[c] \in Nat
                BY <1>2
            <4> QED
                BY <1>2, <3>4, <4>1, <4>2, <4>3
        <3>6. ASSUME pc[c] \in {"parkedCheck", "lock", "parkedScan"}
              PROVE  /\ waited'[c] <= Limit(c)
                     /\ \A d \in Blockers(c) : waited'[c] + left'[d] <= Limit(c)
            <4>1. PICK w \in Writers : TRUE
                <5>1. Writers # {}
                    BY <1>1, <3>1, <3>6 DEF Waits, Blocked, WriterMayEnter
                <5> QED
                    BY <5>1
            <4>2. c # w
                BY <3>6, <4>1 DEF Writers
            <4>3. left[w] \in Nat /\ left[w] >= 1
                BY <1>4, <2>2, <4>2
            <4>4. \A d \in Blockers(c) : d \in Caller /\ waited[c] + left[d] <= Limit(c)
                BY <3>1, <3>6 DEF Waits, Blockers, Writers, Ahead
            <4>5. waited[c] + left[w] <= Limit(c)
                BY <4>1, <4>4 DEF Blockers
            <4>6. waited[c] \in Nat
                BY <1>2
            <4>7. waited'[c] <= Limit(c)
                BY <3>3, <3>4, <4>3, <4>5, <4>6
            <4>8. ASSUME NEW d \in Blockers(c) PROVE waited'[c] + left'[d] <= Limit(c)
                <5>1. d \in Caller /\ waited[c] + left[d] <= Limit(c)
                    BY <4>4
                <5>2. left[d] \in Nat /\ left'[d] = IF left[d] > 0 THEN left[d] - 1 ELSE 0
                    BY <1>1, <1>2, <5>1
                <5> QED
                    BY <3>3, <3>4, <4>6, <4>7, <5>1, <5>2
            <4> QED
                BY <4>7, <4>8
        <3>7. waited'[c] <= Limit(c)
            <4>1. CASE pc[c] \in {"parkedCheck", "lock", "parkedScan"}
                BY <3>6, <4>1
            <4>2. CASE pc[c] \notin {"parkedCheck", "lock", "parkedScan"}
                <5>1. Readers = {}
                    BY <1>1 DEF Readers, Blocked
                <5>2. pc[c] = "fetch" /\ ~CtxDone(c)
                    BY <1>1, <2>2, <4>2, <5>1 DEF Blocked
                <5>3. op[c] = "find"
                    BY <2>2, Looking
                <5>4. left[c] # 0
                    BY <5>2, <5>3 DEF CtxDone
                <5>5. waited[c] < RefreshTimeout
                    BY <3>1, <5>4 DEF Waits
                <5>6. Limit(c) = 3 * RefreshTimeout
                    BY <5>2, Limits
                <5> QED
                    BY <1>2, <3>4, <5>5, <5>6
            <4> QED
                BY <4>1, <4>2
        <3>8. pc'[c] \in {"parkedCheck", "parkedScan"} => Writers' # {}
            BY <1>1, <3>1, <3>2 DEF Waits
        <3>9. Waits(c)'
            BY <1>1, <3>2, <3>5, <3>6, <3>7, <3>8 DEF Waits
        <3> QED
            BY <1>1, <2>2, <3>9 DEF Timely
    <2> QED
        BY <2>1, <2>2
<1>6. QueueInv'
    BY <1>1, QueueKept DEF TimedInv
<1> QED
    BY <1>1, <1>3, <1>5, <1>6 DEF TimedInv

\* An expired catalog sends the lookup to the end of the queue.
LEMMA CheckTimed ==
    ASSUME IInv, TimedInv, NEW c \in Caller, TimedCheck(c)
    PROVE  TimedInv'
<1>1. /\ pc[c] = "check" /\ pc' = [pc EXCEPT ![c] = IF Expired THEN "lock" ELSE AfterEnsure(c)]
      /\ UNCHANGED <<op, left>>
      /\ queue' = IF pc'[c] = "lock" THEN Append(queue, c) ELSE queue
      /\ starving' = starving /\ waited' = waited
    BY DEF TimedCheck, Check, callVars
<1>2. /\ TypeOK /\ QueueInv /\ waited \in [Caller -> Nat] /\ starving \in BOOLEAN
      /\ RefreshTimeout \in Nat /\ pc \in [Caller -> PC] /\ op[c] \in {"new", "find"}
      /\ left \in [Caller -> 0 .. RefreshTimeout]
    BY StoreAssumption DEF IInv, TimedInv, TypeOK
<1>3. Timely(c) /\ (op[c] = "find" => Waits(c))
    BY <1>1 DEF TimedInv, Timely
<1>4. op[c] = "find" => waited[c] <= RefreshTimeout
    BY <1>1, <1>3, Limits DEF Waits
<1>5. CASE ~Expired
    <2>1. pc' = [pc EXCEPT ![c] = AfterEnsure(c)] /\ AfterEnsure(c) \in {"idle", "find"}
        BY <1>1, <1>5 DEF AfterEnsure
    <2>2. pc'[c] = AfterEnsure(c)
        BY <1>2, <2>1
    <2>3. queue' = queue
        BY <1>1, <2>1, <2>2
    <2>4. Timely(c)'
        <3>1. CASE op[c] = "new"
            BY <1>1, <1>3, <3>1 DEF Timely
        <3>2. CASE op[c] = "find"
            <4>1. pc'[c] = "find"
                BY <2>2, <3>2 DEF AfterEnsure
            <4>2. Limit(c)' = 3 * RefreshTimeout
                BY <4>1 DEF Limit
            <4>3. waited[c] \in Nat
                BY <1>2
            <4>4. Waits(c)'
                BY <1>1, <1>2, <1>3, <1>4, <3>2, <4>1, <4>2, <4>3 DEF Waits
            <4> QED
                BY <1>1, <3>2, <4>1, <4>4 DEF Timely
        <3> QED
            BY <1>2, <3>1, <3>2
    <2>5. AfterEnsure(c) \in PC /\ AfterEnsure(c) \notin {"lock", "drain", "recheck", "fetch"}
        BY <2>1 DEF PC
    <2> QED
        BY <1>1, <1>2, <2>1, <2>3, <2>4, <2>5, Alone
<1>6. CASE Expired
    <2> DEFINE n == Len(queue)
    <2>1. pc' = [pc EXCEPT ![c] = "lock"]
        BY <1>1, <1>6
    <2>2. pc'[c] = "lock" /\ \A d \in Caller \ {c} : pc'[d] = pc[d]
        BY <1>2, <2>1
    <2>3. queue' = Append(queue, c) /\ queue \in Seq(Caller) /\ n \in Nat /\ DOMAIN queue = 1 .. n
        BY <1>1, <1>2, <2>2 DEF QueueInv
    <2>4. /\ queue' \in Seq(Caller) /\ DOMAIN queue' = 1 .. n + 1
          /\ \A k \in 1 .. n : queue'[k] = queue[k]
          /\ queue'[n + 1] = c
        BY <2>3, AppendProperties
    <2>5. \A k \in 1 .. n : queue[k] # c
        BY <1>1, <1>2, <2>3 DEF QueueInv
    <2> HIDE DEF n
    <2>6. QueueInv'
        <3>1. \A i, j \in 1 .. n + 1 : queue'[i] = queue'[j] => i = j
            <4> SUFFICES ASSUME NEW i \in 1 .. n + 1, NEW j \in 1 .. n + 1, queue'[i] = queue'[j]
                         PROVE  i = j
                OBVIOUS
            <4>1. (i \in 1 .. n \/ i = n + 1) /\ (j \in 1 .. n \/ j = n + 1)
                BY <2>3
            <4>2. CASE i \in 1 .. n /\ j \in 1 .. n
                <5>1. queue'[i] = queue[i] /\ queue'[j] = queue[j] /\ i \in DOMAIN queue /\ j \in DOMAIN queue
                    BY <2>3, <2>4, <4>2
                <5>2. queue[i] = queue[j]
                    BY <5>1
                <5> QED
                    BY <1>2, <5>1, <5>2, Zenon DEF QueueInv
            <4> QED
                BY <2>4, <2>5, <4>1, <4>2
        <3>2. ASSUME NEW d \in Caller
              PROVE  pc'[d] = "lock" <=> \E i \in 1 .. n + 1 : queue'[i] = d
            <4>1. CASE d = c
                BY <2>2, <2>3, <2>4, <4>1
            <4>2. CASE d # c
                <5>1. pc[d] = "lock" <=> \E i \in 1 .. n : queue[i] = d
                    BY <1>2, <2>3 DEF QueueInv
                <5>2. \A i \in 1 .. n + 1 : i \in 1 .. n \/ i = n + 1
                    BY <2>3
                <5>3. \A i \in 1 .. n : i \in 1 .. n + 1
                    BY <2>3
                <5> QED
                    BY <2>2, <2>4, <4>2, <5>1, <5>2, <5>3
            <4> QED
                BY <4>1, <4>2
        <3> QED
            BY <2>4, <3>1, <3>2 DEF QueueInv
    <2>7. ASSUME NEW d \in Caller \ {c} PROVE Ahead(d)' \subseteq Ahead(d)
        <3> SUFFICES ASSUME NEW e \in Ahead(d)' PROVE e \in Ahead(d)
            OBVIOUS
        <3>1. PICK i \in 1 .. n + 1, j \in 1 .. n + 1 :
                 i < j /\ queue'[i] = e /\ queue'[j] = d /\ e \in Caller
            BY <2>4 DEF Ahead
        <3>2. j # n + 1
            BY <2>4, <3>1
        <3>3. i \in 1 .. n /\ j \in 1 .. n
            BY <2>3, <3>1, <3>2
        <3> QED
            BY <2>3, <2>4, <3>1, <3>3 DEF Ahead
    <2>8. Writers' = Writers
        BY <1>1, <2>2 DEF Writers
    <2>9. \A d \in Caller \ {c} : Timely(d)'
        BY <1>1, <2>2, <2>7, <2>8, Quiet
    <2>10. Timely(c)'
        <3>1. CASE op[c] = "new"
            BY <1>1, <1>3, <3>1 DEF Timely
        <3>2. CASE op[c] = "find"
            <4>1. Limit(c)' >= 2 * RefreshTimeout /\ Limit(c)' \in Nat
                BY <1>1, <1>2, <2>2 DEF Limit
            <4>2. waited[c] \in Nat
                BY <1>2
            <4>3. \A d \in Blockers(c)' : left'[d] \in 0 .. RefreshTimeout
                BY <1>1, <1>2 DEF Blockers, Writers, Ahead
            <4>4. \A d \in Blockers(c)' : waited'[c] + left'[d] <= Limit(c)'
                BY <1>1, <1>2, <1>4, <3>2, <4>1, <4>2, <4>3
            <4>5. waited'[c] <= Limit(c)'
                BY <1>1, <1>2, <1>4, <3>2, <4>1, <4>2
            <4>6. left'[c] = IF waited'[c] < RefreshTimeout THEN RefreshTimeout - waited'[c] ELSE 0
                BY <1>1, <1>3, <3>2 DEF Waits
            <4>7. Waits(c)'
                BY <2>2, <4>4, <4>5, <4>6 DEF Waits
            <4> QED
                BY <1>1, <2>2, <3>2, <4>7 DEF Timely
        <3> QED
            BY <1>2, <3>1, <3>2
    <2> QED
        BY <1>1, <1>2, <2>6, <2>9, <2>10 DEF TimedInv
<1> QED
    BY <1>5, <1>6

\* The lock goes to the head of the queue, or once to one that overtakes it.
LEMMA LockTimed ==
    ASSUME IInv, TimedInv, NEW c \in Caller, TimedLock(c)
    PROVE  TimedInv'
<1> DEFINE n == Len(queue)
<1>1. /\ pc[c] = "lock" /\ Writers = {} /\ pc' = [pc EXCEPT ![c] = "drain"]
      /\ UNCHANGED <<op, left>>
      /\ starving => c = Head(queue)
      /\ starving' = (queue' # <<>> /\ (starving \/ c # Head(queue)))
      /\ waited' = waited
    BY DEF TimedLock, Lock, WriterMayEnter, callVars
<1>2. PICK k \in DOMAIN queue : queue[k] = c /\ queue' = RemoveAt(queue, k)
    BY DEF TimedLock
<1>3. /\ TypeOK /\ QueueInv /\ waited \in [Caller -> Nat] /\ starving \in BOOLEAN
      /\ RefreshTimeout \in Nat /\ pc \in [Caller -> PC] /\ op[c] \in {"new", "find"}
      /\ left \in [Caller -> 0 .. RefreshTimeout]
    BY StoreAssumption DEF IInv, TimedInv, TypeOK
<1>4. queue \in Seq(Caller) /\ n \in Nat /\ DOMAIN queue = 1 .. n /\ k \in 1 .. n
    <2>1. queue \in Seq(Caller)
        BY <1>3 DEF QueueInv
    <2>2. n \in Nat /\ DOMAIN queue = 1 .. n
        BY <2>1
    <2> QED
        BY <1>2, <2>1, <2>2
<1>5. Head(queue) = queue[1] /\ 1 \in 1 .. n
    BY <1>4
<1>6. /\ queue' \in Seq(Caller) /\ Len(queue') = n - 1 /\ DOMAIN queue' = 1 .. n - 1
      /\ \A i \in 1 .. n - 1 : queue'[i] = IF i < k THEN queue[i] ELSE queue[i + 1]
    <2>1. /\ RemoveAt(queue, k) \in Seq(Caller)
          /\ Len(RemoveAt(queue, k)) = Len(queue) - 1
          /\ \A i \in 1 .. Len(queue) - 1 :
                RemoveAt(queue, k)[i] = IF i < k THEN queue[i] ELSE queue[i + 1]
        BY <1>4, Removed
    <2> QED
        BY <1>2, <1>4, <2>1
<1> HIDE DEF n
<1>7. pc'[c] = "drain" /\ \A d \in Caller \ {c} : pc'[d] = pc[d]
    BY <1>1, <1>3
<1> DEFINE from(i) == IF i < k THEN i ELSE i + 1
<1>8. \A i \in 1 .. n - 1 : from(i) \in 1 .. n /\ from(i) # k /\ queue'[i] = queue[from(i)]
    BY <1>4, <1>6
<1>9. \A i, j \in 1 .. n - 1 : (i < j <=> from(i) < from(j)) /\ (from(i) = from(j) => i = j)
    BY <1>4
<1>10. \A j \in 1 .. n : j # k => \E i \in 1 .. n - 1 : from(i) = j
    <2> SUFFICES ASSUME NEW j \in 1 .. n, j # k PROVE \E i \in 1 .. n - 1 : from(i) = j
        OBVIOUS
    <2>1. CASE j < k
        <3>1. j \in 1 .. n - 1 /\ from(j) = j
            BY <1>4, <2>1
        <3> QED
            BY <3>1
    <2>2. CASE j > k
        <3>1. j - 1 \in 1 .. n - 1 /\ from(j - 1) = j
            BY <1>4, <2>2
        <3> QED
            BY <3>1
    <2> QED
        BY <1>4, <2>1, <2>2
<1> HIDE DEF from
<1>11. \A i, j \in 1 .. n : queue[i] = queue[j] => i = j
    BY <1>3, <1>4 DEF QueueInv
<1>12. QueueInv'
    <2>1. \A i, j \in 1 .. n - 1 : queue'[i] = queue'[j] => i = j
        BY <1>8, <1>9, <1>11
    <2>2. ASSUME NEW d \in Caller
          PROVE  pc'[d] = "lock" <=> \E i \in 1 .. n - 1 : queue'[i] = d
        <3>1. CASE d = c
            BY <1>2, <1>4, <1>7, <1>8, <1>11, <3>1
        <3>2. CASE d # c
            <4>1. pc[d] = "lock" <=> \E i \in 1 .. n : queue[i] = d
                BY <1>3, <1>4 DEF QueueInv
            <4> QED
                BY <1>2, <1>7, <1>8, <1>10, <3>2, <4>1
        <3> QED
            BY <3>1, <3>2
    <2> QED
        BY <1>6, <2>1, <2>2 DEF QueueInv
<1>13. ASSUME NEW d \in Caller, NEW e \in Ahead(d)' PROVE e \in Ahead(d)
    <2>1. PICK i \in 1 .. n - 1, j \in 1 .. n - 1 :
             i < j /\ queue'[i] = e /\ queue'[j] = d /\ e \in Caller
        BY <1>6 DEF Ahead
    <2>2. /\ from(i) \in 1 .. n /\ from(j) \in 1 .. n /\ from(i) < from(j)
          /\ queue[from(i)] = e /\ queue[from(j)] = d
        BY <1>8, <1>9, <2>1
    <2> QED
        BY <1>4, <2>1, <2>2 DEF Ahead
<1>14. Writers' = {c}
    BY <1>1, <1>7 DEF Writers
<1>15. ASSUME NEW d \in Caller \ {c} PROVE Timely(d)'
    <2>1. CASE pc[d] = "idle" \/ op[d] = "new"
        BY <1>1, <1>7, <2>1 DEF TimedInv, Timely
    <2>2. CASE ~(pc[d] = "idle" \/ op[d] = "new")
        <3>1. Waits(d)
            BY <2>2 DEF TimedInv, Timely
        <3>2. waited[d] \in Nat /\ left[c] \in 0 .. RefreshTimeout
            BY <1>3
        <3>3. CASE pc[d] # "lock"
            <4>1. pc[d] \notin {"parkedCheck", "lock", "parkedScan"}
                BY <1>1, <3>1, <3>3 DEF Waits
            <4>2. Limit(d)' = Limit(d)
                <5>1. pc'[d] = pc[d] /\ pc[d] \in PC
                    BY <1>3, <1>7
                <5> QED
                    BY <4>1, <5>1 DEF Limit, PC
            <4>3. Waits(d)'
                BY <1>1, <1>7, <3>1, <4>1, <4>2 DEF Waits
            <4> QED
                BY <1>1, <1>7, <2>2, <4>3 DEF Timely
        <3>4. CASE pc[d] = "lock"
            <4>1. PICK j \in 1 .. n : queue[j] = d
                BY <1>3, <1>4, <3>4 DEF QueueInv
            <4>2. j # k
                BY <1>2, <4>1
            <4>3. queue' # <<>>
                <5>1. PICK i \in 1 .. n - 1 : from(i) = j
                    BY <1>10, <4>2
                <5> QED
                    BY <1>6, <5>1
            <4>4. starving' = (starving \/ c # Head(queue))
                BY <1>1, <4>3
            <4>5. c \in Ahead(d) \/ (starving' /\ ~starving)
                <5>1. CASE k < j
                    BY <1>2, <1>4, <4>1, <5>1 DEF Ahead
                <5>2. CASE j < k
                    <6>1. k # 1
                        BY <1>4, <5>2
                    <6>2. queue[1] # c
                        BY <1>2, <1>4, <1>5, <1>11, <6>1
                    <6> QED
                        BY <1>1, <1>3, <1>5, <4>4, <6>2
                <5> QED
                    BY <1>4, <4>2, <5>1, <5>2
            <4>6. /\ pc'[d] = "lock"
                  /\ Limit(d) = IF starving THEN 3 * RefreshTimeout ELSE 2 * RefreshTimeout
                  /\ Limit(d)' = IF starving' THEN 3 * RefreshTimeout ELSE 2 * RefreshTimeout
                BY <1>7, <3>4 DEF Limit
            <4>7. Limit(d) <= Limit(d)' /\ Limit(d) \in Nat /\ Limit(d)' \in Nat
                BY <1>3, <4>4, <4>6
            <4>8. waited'[d] <= Limit(d)'
                BY <1>1, <3>1, <3>2, <4>7 DEF Waits
            <4>9. ASSUME NEW e \in Blockers(d)' PROVE waited'[d] + left'[e] <= Limit(d)'
                <5>1. e = c \/ e \in Ahead(d)
                    BY <1>13, <1>14 DEF Blockers
                <5>2. e \in Caller
                    BY <5>1 DEF Ahead
                <5>3. left[e] \in 0 .. RefreshTimeout
                    BY <1>3, <5>2
                <5>4. CASE e \in Ahead(d)
                    <6>1. waited[d] + left[e] <= Limit(d)
                        BY <3>1, <3>4, <5>4 DEF Waits, Blockers
                    <6> QED
                        BY <1>1, <3>2, <4>7, <5>3, <6>1
                <5>5. CASE e \notin Ahead(d)
                    <6>1. e = c /\ starving' /\ ~starving
                        BY <4>5, <5>1, <5>5
                    <6>2. waited[d] <= 2 * RefreshTimeout /\ Limit(d)' = 3 * RefreshTimeout
                        BY <3>1, <4>6, <6>1 DEF Waits
                    <6> QED
                        BY <1>1, <1>3, <3>2, <5>3, <6>2
                <5> QED
                    BY <5>4, <5>5
            <4>10. left'[d] = IF waited'[d] < RefreshTimeout THEN RefreshTimeout - waited'[d] ELSE 0
                BY <1>1, <3>1 DEF Waits
            <4>11. Waits(d)'
                BY <4>6, <4>8, <4>9, <4>10 DEF Waits
            <4> QED
                BY <1>1, <1>7, <2>2, <4>11 DEF Timely
        <3> QED
            BY <3>3, <3>4
    <2> QED
        BY <2>1, <2>2
<1>16. Timely(c)'
    <2>1. CASE op[c] = "new"
        BY <1>1, <2>1 DEF TimedInv, Timely
    <2>2. CASE op[c] = "find"
        <3>1. Waits(c)
            BY <1>1, <2>2 DEF TimedInv, Timely
        <3>2. waited[c] \in Nat /\ waited[c] <= 3 * RefreshTimeout
            BY <1>1, <1>3, <3>1, Limits DEF Waits
        <3>3. Limit(c)' = 3 * RefreshTimeout
            BY <1>7 DEF Limit
        <3>4. Waits(c)'
            BY <1>1, <1>7, <3>1, <3>2, <3>3 DEF Waits
        <3> QED
            BY <1>1, <1>7, <2>2, <3>4 DEF Timely
    <2> QED
        BY <1>3, <2>1, <2>2
<1>17. starving' \in BOOLEAN
    BY <1>1
<1> QED
    BY <1>1, <1>3, <1>12, <1>15, <1>16, <1>17 DEF TimedInv

\* Whoever unlocks lets the parked readers in, within their limits.
LEMMA UnlockTimed ==
    ASSUME IInv, TimedInv, NEW c \in Caller, pc[c] \in {"recheck", "fetch"},
           NEW next \in {"idle", "find"}, pc' = Unlock(c, next),
           UNCHANGED <<op, queue, starving>>, waited' \in [Caller -> Nat],
           \A d \in Caller \ {c} : waited'[d] = waited[d] /\ left'[d] = left[d],
           \/ next = "idle" /\ waited'[c] = 0
           \/ /\ next = "find" /\ op[c] = "find"
              /\ waited'[c] = waited[c] /\ left'[c] = left[c]
    PROVE  TimedInv'
<1>1. /\ TypeOK /\ LockInv /\ QueueInv /\ waited \in [Caller -> Nat]
      /\ RefreshTimeout \in Nat /\ pc \in [Caller -> PC] /\ op[c] \in {"new", "find"}
    BY StoreAssumption DEF IInv, TimedInv, TypeOK
<1>2. next \in PC
    BY DEF PC
<1>3. Writers' = {}
    BY <1>1, <1>2, NobodyWrites DEF Writers
<1>4. /\ pc'[c] = next
      /\ \A d \in Caller \ {c} :
            pc'[d] = CASE pc[d] = "parkedCheck" -> "check"
                       [] pc[d] = "parkedScan" -> "scan"
                       [] OTHER -> pc[d]
    BY DEF Unlock
<1>5. QueueInv'
    <2>1. \A d \in Caller : pc'[d] = "lock" <=> pc[d] = "lock"
        BY <1>2, <1>4
    <2> QED
        BY <1>1, <2>1, QueueKept
<1>6. ASSUME NEW d \in Caller \ {c} PROVE Timely(d)'
    <2>1. CASE pc[d] = "idle" \/ op[d] = "new"
        <3>1. waited[d] = 0 /\ (pc[d] = "idle" => pc'[d] = "idle")
            BY <1>4, <2>1 DEF TimedInv, Timely
        <3> QED
            BY <2>1, <3>1 DEF Timely
    <2>2. CASE ~(pc[d] = "idle" \/ op[d] = "new")
        <3>1. Waits(d)
            BY <2>2 DEF TimedInv, Timely
        <3>2. Limit(d)' = Limit(d)
            BY <1>4 DEF Limit
        <3>3. pc'[d] # "idle" /\ pc'[d] \notin {"parkedCheck", "parkedScan"}
            BY <1>4, <2>2
        <3>4. pc'[d] = "lock" => pc[d] = "lock"
            BY <1>4
        <3>5. \A e \in Blockers(d)' : e \in Blockers(d) /\ left'[e] = left[e]
            <4>1. \A e \in Blockers(d)' : e \in Ahead(d)
                BY <1>3 DEF Blockers, Ahead
            <4>2. \A e \in Ahead(d) : e \in Caller \ {c}
                BY <1>1, AheadOf
            <4> QED
                BY <4>1, <4>2 DEF Blockers
        <3>6. Waits(d)'
            BY <3>1, <3>2, <3>3, <3>4, <3>5 DEF Waits
        <3> QED
            BY <2>2, <3>3, <3>6 DEF Timely
    <2> QED
        BY <2>1, <2>2
<1>7. Timely(c)'
    <2>1. CASE next = "idle"
        BY <1>4, <2>1 DEF Timely
    <2>2. CASE next = "find"
        <3>1. Waits(c) /\ pc'[c] = "find" /\ op[c] = "find"
            BY <1>4, <2>2 DEF TimedInv, Timely
        <3>2. Limit(c) = 3 * RefreshTimeout /\ Limit(c)' = 3 * RefreshTimeout
            BY <3>1 DEF Limit
        <3>3. waited'[c] = waited[c] /\ left'[c] = left[c]
            BY <2>2
        <3>4. Waits(c)'
            BY <3>1, <3>2, <3>3 DEF Waits
        <3> QED
            BY <3>1, <3>4 DEF Timely
    <2> QED
        BY <2>1, <2>2
<1> QED
    BY <1>1, <1>5, <1>6, <1>7 DEF TimedInv

\* ensureCatalog returns to New, or to the rest of FindMatch.
LEMMA EnsuredTimed ==
    ASSUME IInv, TimedInv, NEW c \in Caller, pc[c] \in {"recheck", "fetch"},
           pc' = Unlock(c, AfterEnsure(c)),
           UNCHANGED <<op, left, queue, starving, waited>>
    PROVE  TimedInv'
<1>1. waited \in [Caller -> Nat] /\ op[c] \in {"new", "find"}
    BY DEF IInv, TimedInv, TypeOK
<1>2. CASE op[c] = "new"
    <2>1. AfterEnsure(c) = "idle" /\ waited[c] = 0
        BY <1>2 DEF AfterEnsure, TimedInv, Timely
    <2> QED
        BY <1>1, <2>1, UnlockTimed
<1>3. CASE op[c] = "find"
    <2>1. AfterEnsure(c) = "find"
        BY <1>3 DEF AfterEnsure
    <2> QED
        BY <1>1, <1>3, <2>1, UnlockTimed
<1> QED
    BY <1>1, <1>2, <1>3

\* The panic ends the call of one goroutine and holds nobody else up.
LEMMA PanicTimed ==
    ASSUME IInv, TimedInv, NEW c \in Caller, TimedPanic(c)
    PROVE  TimedInv'
<1>1. /\ pc[c] = "fetch" /\ pc' = Unlock(c, "idle") /\ op' = op
      /\ left' = [left EXCEPT ![c] = 0]
      /\ waited' = [waited EXCEPT ![c] = 0] /\ queue' = queue /\ starving' = starving
    BY DEF TimedPanic, FetchPanic
<1>2. waited \in [Caller -> Nat] /\ left \in [Caller -> 0 .. RefreshTimeout]
    BY DEF IInv, TypeOK, TimedInv
<1>3. waited' \in [Caller -> Nat] /\ waited'[c] = 0
    BY <1>1, <1>2
<1>4. \A d \in Caller \ {c} : waited'[d] = waited[d] /\ left'[d] = left[d]
    BY <1>1, <1>2
<1> QED
    BY <1>1, <1>3, <1>4, UnlockTimed

\* The other steps of a goroutine.
LEMMA OtherTimed ==
    ASSUME IInv, TimedInv, NEW c \in Caller, TimedOther(c)
    PROVE  TimedInv'
<1>1. queue' = queue /\ starving' = starving /\ waited' = waited
    BY DEF TimedOther
<1>2. /\ TypeOK /\ waited \in [Caller -> Nat] /\ RefreshTimeout \in Nat
      /\ pc \in [Caller -> PC] /\ op[c] \in {"new", "find"}
      /\ left \in [Caller -> 0 .. RefreshTimeout]
    BY StoreAssumption DEF IInv, TimedInv, TypeOK
<1>3. ASSUME NEW next \in {"recheck", "fetch"}, pc[c] \in {"drain", "recheck"},
             pc' = [pc EXCEPT ![c] = next], UNCHANGED <<op, left>>
      PROVE  TimedInv'
    <2>1. pc'[c] = next
        BY <1>2, <1>3
    <2>2. Limit(c)' = Limit(c)
        BY <1>3, <2>1 DEF Limit
    <2>3. Timely(c)'
        BY <1>1, <1>3, <2>1, <2>2 DEF TimedInv, Timely, Waits
    <2>4. next \in PC
        BY <1>3 DEF PC
    <2> QED
        BY <1>1, <1>2, <1>3, <2>3, <2>4, Alone
<1>4. CASE Drain(c)
    BY <1>3, <1>4 DEF Drain, callVars
<1>5. CASE Recheck(c)
    <2>1. UNCHANGED <<op, left>> /\ pc[c] = "recheck"
        BY <1>5 DEF Recheck
    <2>2. CASE Expired
        BY <1>3, <1>5, <2>1, <2>2 DEF Recheck
    <2>3. CASE ~Expired
        BY <1>1, <1>5, <2>1, <2>3, EnsuredTimed DEF Recheck
    <2> QED
        BY <2>2, <2>3
<1>6. CASE RLockEntries(c)
    <2>1. /\ pc[c] = "find" /\ UNCHANGED <<op, left>>
          /\ pc' = [pc EXCEPT ![c] = RLock(c, "scan", "parkedScan")]
        BY <1>6 DEF RLockEntries, callVars
    <2>2. /\ RLock(c, "scan", "parkedScan") \in {"scan", "parkedScan"}
          /\ RLock(c, "scan", "parkedScan") = "parkedScan" => Writers # {}
        BY DEF RLock
    <2> DEFINE next == RLock(c, "scan", "parkedScan")
    <2> HIDE DEF next
    <2>3. pc' = [pc EXCEPT ![c] = next] /\ next \in {"scan", "parkedScan"}
        BY <2>1, <2>2 DEF next
    <2>4. pc'[c] = next /\ \A d \in Caller \ {c} : pc'[d] = pc[d]
        BY <1>2, <2>3
    <2>5. op[c] = "find" /\ Waits(c)
        BY <2>1 DEF IInv, NewInv, TimedInv, Timely
    <2>6. waited[c] \in Nat /\ waited[c] <= 3 * RefreshTimeout
        BY <1>2, <2>1, <2>5, Limits DEF Waits
    <2>7. Limit(c)' = 4 * RefreshTimeout
        BY <2>3, <2>4 DEF Limit
    <2>8. \A d \in Blockers(c)' : left'[d] \in 0 .. RefreshTimeout
        BY <1>2, <2>1 DEF Blockers, Writers, Ahead
    <2>9. Writers' = Writers
        BY <2>1, <2>3, <2>4 DEF Writers
    <2>10. Waits(c)'
        <3>1. \A d \in Blockers(c)' : waited'[c] + left'[d] <= Limit(c)'
            BY <1>1, <1>2, <2>6, <2>7, <2>8
        <3>2. waited'[c] <= Limit(c)'
            BY <1>1, <1>2, <2>6, <2>7
        <3>3. pc'[c] \in {"parkedCheck", "parkedScan"} => Writers' # {}
            BY <2>2, <2>3, <2>4, <2>9 DEF next
        <3>4. left'[c] = IF waited'[c] < RefreshTimeout THEN RefreshTimeout - waited'[c] ELSE 0
            BY <1>1, <2>1, <2>5 DEF Waits
        <3> QED
            BY <3>1, <3>2, <3>3, <3>4 DEF Waits
    <2>11. Timely(c)'
        BY <2>1, <2>3, <2>4, <2>5, <2>10 DEF Timely
    <2>12. next \in PC /\ next \notin {"lock", "drain", "recheck", "fetch"}
        BY <2>3 DEF PC
    <2> QED
        BY <1>1, <1>2, <2>1, <2>3, <2>11, <2>12, Alone
<1>7. CASE FetchOk(c) \/ FetchFail(c)
    <2>1. /\ pc[c] = "fetch" /\ UNCHANGED <<op, left>>
          /\ pc' = Unlock(c, AfterEnsure(c))
        BY <1>7 DEF FetchOk, FetchFail, FetchError
    <2> QED
        BY <1>1, <2>1, EnsuredTimed
<1>8. CASE Cancel(c)
    <2>1. UNCHANGED <<pc, op, left>>
        BY <1>8 DEF Cancel
    <2>2. QueueInv'
        BY <1>1, <2>1, QueueKept DEF TimedInv
    <2>3. \A d \in Caller : Timely(d)' <=> Timely(d)
        BY <1>1, <2>1 DEF Timely, Waits, Limit, Blockers, Writers, Ahead
    <2> QED
        BY <1>1, <2>2, <2>3 DEF TimedInv
<1> QED
    BY <1>4, <1>5, <1>6, <1>7, <1>8 DEF TimedOther

\* A lookup answers, and the next one starts from nothing.
LEMMA ScanTimed ==
    ASSUME IInv, TimedInv, NEW c \in Caller, TimedScan(c)
    PROVE  TimedInv'
<1>1. /\ pc[c] = "scan" /\ pc' = [pc EXCEPT ![c] = "idle"] /\ op' = op
      /\ left' = [left EXCEPT ![c] = 0]
      /\ waited' = [waited EXCEPT ![c] = 0] /\ queue' = queue /\ starving' = starving
    BY DEF TimedScan, Scan
<1>2. /\ waited \in [Caller -> Nat] /\ pc \in [Caller -> PC]
      /\ left \in [Caller -> 0 .. RefreshTimeout]
    BY DEF IInv, TypeOK, TimedInv
<1>3. waited' \in [Caller -> Nat] /\ waited'[c] = 0 /\ pc'[c] = "idle"
    BY <1>1, <1>2
<1>4. \A d \in Caller \ {c} : waited'[d] = waited[d] /\ left'[d] = left[d]
    BY <1>1, <1>2
<1>5. Timely(c)'
    BY <1>3 DEF Timely
<1>6. "idle" \in PC
    BY DEF PC
<1> QED
    BY <1>1, <1>3, <1>4, <1>5, <1>6, Alone

\* The queue and the limits hold at the start, and every step keeps them.
LEMMA TimedInductive ==
    (TimedInit => TimedInv) /\ (IInv /\ TimedInv /\ [TimedNext]_timedVars => TimedInv')
<1>1. TimedInit => TimedInv
    <2> SUFFICES ASSUME TimedInit PROVE TimedInv
        OBVIOUS
    <2>1. /\ \A c \in Caller : pc[c] = "idle" /\ waited[c] = 0
          /\ queue = <<>> /\ starving = FALSE
          /\ waited \in [Caller -> Nat]
        BY DEF TimedInit, Init
    <2>2. QueueInv
        BY <2>1 DEF QueueInv
    <2> QED
        BY <2>1, <2>2 DEF TimedInv, Timely
<1>2. ASSUME IInv, TimedInv, [TimedNext]_timedVars PROVE TimedInv'
    <2>1. CASE TimedTick
        BY <1>2, <2>1, TickTimed
    <2>2. ASSUME NEW c \in Caller, TimedBegin(c) PROVE TimedInv'
        BY <1>2, <2>2, BeginTimed
    <2>3. ASSUME NEW c \in Caller, TimedCheck(c) PROVE TimedInv'
        BY <1>2, <2>3, CheckTimed
    <2>4. ASSUME NEW c \in Caller, TimedLock(c) PROVE TimedInv'
        BY <1>2, <2>4, LockTimed
    <2>5. ASSUME NEW c \in Caller, TimedOther(c) PROVE TimedInv'
        BY <1>2, <2>5, OtherTimed
    <2>6. ASSUME NEW c \in Caller, TimedScan(c) PROVE TimedInv'
        BY <1>2, <2>6, ScanTimed
    <2>8. ASSUME NEW c \in Caller, TimedPanic(c) PROVE TimedInv'
        BY <1>2, <2>8, PanicTimed
    <2>7. CASE UNCHANGED timedVars
        <3>1. UNCHANGED <<pc, op, left, queue, starving, waited>>
            BY <2>7 DEF timedVars, vars, callVars
        <3>2. QueueInv'
            BY <1>2, <3>1, QueueKept DEF TimedInv
        <3>3. \A d \in Caller : Timely(d)' <=> Timely(d)
            BY <3>1 DEF Timely, Waits, Limit, Blockers, Writers, Ahead
        <3> QED
            BY <1>2, <3>1, <3>2, <3>3 DEF TimedInv
    <2> QED
        BY <1>2, <2>1, <2>2, <2>3, <2>4, <2>5, <2>6, <2>7, <2>8 DEF TimedNext
<1> QED
    BY <1>1, <1>2

\* However many goroutines contend for the lock, and whatever the service does,
\* no lookup takes longer than four refresh timeouts.
THEOREM LookupsReturnInTime == TimedSpec => []LookupBounded
<1>1. TimedInit => IInv /\ TimedInv
    BY Inductive, TimedInductive DEF TimedInit
<1>2. IInv /\ TimedInv /\ [TimedNext]_timedVars => IInv' /\ TimedInv'
    BY Inductive, TimedInductive, TimedIsStep
<1>3. IInv /\ TimedInv => LookupBounded
    <2> SUFFICES ASSUME IInv, TimedInv, NEW c \in Caller PROVE waited[c] <= 4 * RefreshTimeout
        BY DEF LookupBounded
    <2>1. RefreshTimeout \in Nat /\ waited[c] \in Nat /\ pc[c] \in PC
        BY StoreAssumption DEF IInv, TypeOK, TimedInv
    <2>2. CASE pc[c] = "idle" \/ op[c] = "new"
        BY <2>1, <2>2 DEF TimedInv, Timely
    <2>3. CASE ~(pc[c] = "idle" \/ op[c] = "new")
        <3>1. waited[c] <= Limit(c)
            BY <2>3 DEF TimedInv, Timely, Waits
        <3>2. Limit(c) \in Nat /\ Limit(c) <= 4 * RefreshTimeout
            BY <2>1, <2>3 DEF Limit, PC
        <3> QED
            BY <2>1, <3>1, <3>2
    <2> QED
        BY <2>2, <2>3
<1> QED
    BY <1>1, <1>2, <1>3, PTL DEF TimedSpec
=============================================================================
