--------------------------- MODULE RegistryProofs ---------------------------
(***************************************************************************)
(* Proofs about Registry, for any goroutines, documents, match loaders,    *)
(* schemas and catalogs: the inductive invariant IInv and what follows     *)
(* from it about which schema decides about which document.                *)
(***************************************************************************)
EXTENDS Registry, CatalogProofs, TLAPS

\* What the world outside can only add to.
Grows ==
    /\ held \in Nat /\ held' \in Nat /\ held <= held'
    /\ \A l \in Location : now[l] \in Nat /\ now'[l] \in Nat /\ now[l] <= now'[l]

\* Goroutine d does not move.
Still(d) ==
    /\ pc'[d] = pc[d] /\ file'[d] = file[d] /\ pos'[d] = pos[d] /\ at'[d] = at[d]
    /\ location'[d] = location[d] /\ data'[d] = data[d]
    /\ validator'[d] = validator[d] /\ verdict'[d] = verdict[d]
    /\ asking'[d] = asking[d]

\* Everything a goroutine may do in one step.
Moves(c) ==
    \/ StorePanic(c)
    \/ \E f \in File : BeginFile(c, f)
    \/ MatchDirective(c) \/ MatchFunc(c) \/ AskStore(c) \/ MatchStore(c) \/ NoMatch(c)
    \/ LoadDirective(c) \/ LoadFunc(c) \/ LoadStore(c)
    \/ FetchOk(c) \/ FetchFail(c)
    \/ Get(c) \/ CompileOk(c) \/ CompileFail(c) \/ Validate(c)

-----------------------------------------------------------------------------
(* Steps.                                                                  *)

\* A step is a goroutine's, an edit, the store's, or nothing.
LEMMA NextCases ==
    ASSUME [Next]_vars
    PROVE  \/ \E c \in Caller : Moves(c)
           \/ \E l \in Location : Edit(l)
           \/ StoreStep
           \/ UNCHANGED vars
    BY DEF Next, Step, Moves

\* No step takes back a catalog or a schema that has been served.
LEMMA Growth ==
    ASSUME TypeOK, [Next]_vars
    PROVE  Grows
<1>1. /\ held \in Nat
      /\ \A l \in Location : now[l] \in Nat
      /\ now \in [Location -> Nat]
    <2>1. published \in Nat
        BY CatalogAssumption DEF TypeOK, SharedType, Version
    <2> QED
        BY <2>1 DEF TypeOK, SharedType
<1>2. CASE \E c \in Caller : Moves(c)
    <2>1. held' = held /\ now' = now
        BY <1>2 DEF Moves, BeginFile, MatchDirective, MatchFunc, AskStore, MatchStore,
            NoMatch, LoadDirective, LoadFunc, LoadStore, FetchOk, FetchFail, Get,
            CompileOk, CacheAndUse, CompileFail, Validate, storeVars, shared,
            store!Ask, store!Decline, store!Answer, StorePanic, store!Panic
    <2> QED
        BY <1>1, <2>1 DEF Grows
<1>3. CASE \E l \in Location : Edit(l)
    BY <1>1, <1>3 DEF Grows, Edit, storeVars
<1>4. CASE StoreStep
    <2>1. now' = now
        BY <1>4 DEF StoreStep, shared
    <2>2. held' = held \/ held' \in held .. published
        BY <1>4 DEF StoreStep, store!Publish, store!Tick, store!Refresh
    <2>3. published \in Nat
        BY CatalogAssumption DEF TypeOK, SharedType, Version
    <2> QED
        BY <1>1, <2>1, <2>2, <2>3 DEF Grows
<1>5. CASE UNCHANGED vars
    BY <1>1, <1>5 DEF Grows, vars, storeVars, shared
<1> QED
    BY <1>2, <1>3, <1>4, <1>5, NextCases

\* A goroutine moves alone.
LEMMA OneMoves ==
    ASSUME TypeOK, NEW c \in Caller, NEW d \in Caller, c # d, Moves(c)
    PROVE  Still(d)
    BY ZenonT(30) DEF TypeOK, SharedType, CallerType, Still, Moves, BeginFile, MatchDirective, MatchFunc, AskStore,
        MatchStore, NoMatch, LoadDirective, LoadFunc, LoadStore, FetchOk, FetchFail,
        Get, CompileOk, CacheAndUse, CompileFail, Validate, LoadFrom, Finish, Goto,
        NextLoader, NextDocument, Use, storeVars, shared, callerVars,
        store!Ask, store!Decline, store!Answer, StorePanic, store!Panic

\* The world outside moves no goroutine.
LEMMA NobodyMoves ==
    ASSUME NEW d \in Caller,
           (\E l \in Location : Edit(l)) \/ StoreStep \/ UNCHANGED vars
    PROVE  Still(d)
    BY DEF Still, Edit, StoreStep, vars, storeVars, shared, callerVars,
        store!Publish, store!Tick, store!Refresh

-----------------------------------------------------------------------------
(* What is once so stays so, because served schemas and catalogs add up.   *)

\* A schema that has been served remains one that has.
LEMMA ServedKept ==
    ASSUME Grows, NEW l \in Location
    PROVE  /\ ServedSoFar(l) \subseteq ServedSoFar(l)'
           /\ HasServed(l) \subseteq HasServed(l)'
<1>1. 1 .. now[l] \subseteq 1 .. now'[l]
    BY DEF Grows
<1> QED
    BY <1>1 DEF ServedSoFar, HasServed

\* The grounds on which a match loader took or left a document remain.
LEMMA GroundsKept ==
    ASSUME Grows, NEW d, NEW i, NEW l
    PROVE  /\ Unclaimed(i, d) => Unclaimed(i, d)'
           /\ Claimed(i, d) => Claimed(i, d)'
           /\ LoadsFrom(i, d, l) => LoadsFrom(i, d, l)'
           /\ MatchLost(d) => MatchLost(d)'
<1>1. 1 .. held \subseteq 1 .. held'
    BY DEF Grows
<1>2. \A u : Cataloged(d, u) => Cataloged(d, u)'
    BY <1>1 DEF Cataloged
<1>3. SurelyMatches(i, d)' <=> SurelyMatches(i, d)
    BY DEF SurelyMatches
<1> QED
    BY <1>1, <1>2, <1>3 DEF Unclaimed, Claimed, LoadsFrom, MatchLost

\* So does the right of a location to decide about a document.
LEMMA AcceptedKept ==
    ASSUME Grows, NEW d
    PROVE  AcceptedByRight(d) => AcceptedByRight(d)'
<1>1. \A l \in Location : Governs(l, d) => Governs(l, d)'
    BY GroundsKept DEF Governs, SurelyMatches
<1> QED
    BY <1>1, ServedKept DEF AcceptedByRight

\* A goroutine that stands still loses nothing of what it knows.
LEMMA StillKept ==
    ASSUME Grows, NEW d \in Caller, Still(d), CallerInv(d)
    PROVE  CallerInv(d)'
<1>1. doc(d)' = doc(d) /\ loader(d)' = loader(d)
    BY DEF Still, doc, loader
<1>2. Underway(d)'
    BY <1>1, GroundsKept, AcceptedKept DEF CallerInv, Underway, Still
<1>3. Asking(d)'
    BY <1>1 DEF CallerInv, Asking, Still, Grows
<1>4. Matched(d)'
    BY <1>1, GroundsKept DEF CallerInv, Matched, Still
<1>5. Loaded(d)'
    BY <1>1, GroundsKept, ServedKept DEF CallerInv, Loaded, Still
<1>6. Ended(d)'
    BY <1>1, GroundsKept, AcceptedKept DEF CallerInv, Ended, Still
<1> QED
    BY <1>2, <1>3, <1>4, <1>5, <1>6 DEF CallerInv

-----------------------------------------------------------------------------
(* Types.                                                                  *)

\* The store reads its catalog as this module does.
LEMMA SameLookup ==
    \A v, p : store!FirstMatch(store!EntriesOf(v), p) = FirstMatch(EntriesOf(v), p)
    BY DEF store!FirstMatch, store!EntriesOf, store!FilterAndNormalize, store!Usable,
        store!SupportedPatterns, store!MatchesEntry, FirstMatch, EntriesOf,
        FilterAndNormalize, Usable, SupportedPatterns, MatchesEntry

\* What the store answers, and that it changes nothing else by answering.
LEMMA AnswerIs ==
    ASSUME TypeOK, NEW c \in Caller, store!Answer(c)
    PROVE  /\ answer'[c] = FirstMatch(EntriesOf(held), asking[c])
           /\ answer'[c] \in URL \cup {NoURL}
           /\ answer' \in [Caller -> URL \cup {NoURL, Panicked}]
           /\ asking' \in [Caller -> Path \cup {NoPath}]
           /\ UNCHANGED <<published, held, age>>
<1>1. held \in Version \cup {0}
    BY CatalogAssumption DEF TypeOK, SharedType, Version
<1>2. answer' = [answer EXCEPT ![c] = FirstMatch(EntriesOf(held), asking[c])]
    BY SameLookup DEF store!Answer
<1>3. FirstMatch(EntriesOf(held), asking[c]) \in URL \cup {NoURL}
    BY <1>1, FirstMatchType
<1> QED
    BY <1>2, <1>3 DEF TypeOK, SharedType, store!Answer

\* A schema that has been served is a schema.
LEMMA ServedType ==
    ASSUME TypeOK, NEW l \in Location
    PROVE  /\ Served[l][now[l]] \in ServedSoFar(l)
           /\ ServedSoFar(l) \subseteq Schema
<1>1. now[l] \in 1 .. Len(Served[l]) /\ now[l] \in Nat
    BY RegistryAssumption DEF TypeOK, SharedType
<1>2. \A k \in 1 .. now[l] : Served[l][k] \in Schema
    BY <1>1, RegistryAssumption
<1> QED
    BY <1>1, <1>2 DEF ServedSoFar

\* The initial state is well typed, and nobody knows anything yet.
LEMMA InitInv == Init => IInv
<1> SUFFICES ASSUME Init PROVE IInv
    OBVIOUS
<1>1. TypeOK
    <2>1. 1 \in Version /\ 0 \in 0 .. 1
        BY CatalogAssumption DEF Version
    <2>2. \A l \in Location : 1 \in DOMAIN Served[l]
        BY RegistryAssumption
    <2> QED
        BY <2>1, <2>2 DEF Init, store!Init, TypeOK, SharedType, CallerType, Phase, Verdict
<1>2. SharedInv
    BY DEF Init, SharedInv
<1>3. \A c \in Caller : CallerInv(c)
    BY DEF Init, CallerInv, Underway, Asking, Matched, Loaded, Ended
<1> QED
    BY <1>1, <1>2, <1>3 DEF IInv

\* The document at hand is one of the file's.
LEMMA DocType ==
    ASSUME IInv, NEW c \in Caller, pc[c] # "idle"
    PROVE  doc(c) \in Doc
<1>1. file[c] \in Seq(Doc) /\ pos[c] \in DOMAIN file[c]
    BY RegistryAssumption DEF IInv, CallerInv, Underway
<1> QED
    BY <1>1 DEF doc

\* A goroutine that goes on keeps its types.
LEMMA GotoType ==
    ASSUME CallerType, NEW c \in Caller, NEW phase \in Phase, Goto(c, phase),
           UNCHANGED <<file, pos, location, data, validator, verdict>>,
           UNCHANGED at \/ at' = [at EXCEPT ![c] = @ + 1]
    PROVE  CallerType'
    BY DEF CallerType, Goto

\* So does one that has found where to load from.
LEMMA LoadFromType ==
    ASSUME CallerType, NEW c \in Caller, NEW l \in Location, LoadFrom(c, l)
    PROVE  CallerType'
    BY DEF CallerType, LoadFrom, Goto, Phase

\* So does one that is done.
LEMMA FinishType ==
    ASSUME CallerType, NEW c \in Caller, NEW how \in Verdict, Finish(c, how)
    PROVE  CallerType'
    BY DEF CallerType, Finish, Goto, Phase

\* The steps of Lookup's loop keep the types.
LEMMA MatchTypes ==
    ASSUME IInv, NEW c \in Caller,
           \/ \E f \in File : BeginFile(c, f)
           \/ MatchDirective(c) \/ MatchFunc(c) \/ AskStore(c) \/ MatchStore(c)
           \/ NoMatch(c)
    PROVE  SharedType' /\ CallerType'
<1>0. SharedType /\ CallerType
    BY DEF IInv, TypeOK
<1>p. {"match", "matching", "load", "loading", "fetch"} \subseteq Phase
    BY DEF Phase
<1>1. ASSUME NEW f \in File, BeginFile(c, f)
      PROVE  SharedType' /\ CallerType'
    <2>1. CallerType'
        BY <1>0, <1>1, <1>p DEF CallerType, BeginFile, Goto, Verdict
    <2> QED
        BY <1>0, <1>1, <2>1 DEF SharedType, BeginFile, storeVars, shared
<1>2. CASE MatchDirective(c)
    <2>1. doc(c) \in Doc
        BY <1>2, DocType DEF MatchDirective, Reached
    <2>2. slotDoc' \in Doc \cup {NoDoc} /\ slotDirective' \in Ref \cup {NoRef}
        BY <1>0, <1>2, <2>1, RegistryAssumption DEF MatchDirective, ParseAndCache, SharedType
    <2>3. CallerType'
        BY <1>0, <1>2, <1>p, GotoType DEF MatchDirective, NextLoader
    <2> QED
        BY <1>0, <1>2, <2>2, <2>3 DEF SharedType, MatchDirective, storeVars
<1>3. CASE MatchFunc(c)
    <2>1. CallerType'
        BY <1>0, <1>3, <1>p, GotoType DEF MatchFunc, NextLoader
    <2> QED
        BY <1>0, <1>3, <2>1 DEF SharedType, MatchFunc, storeVars, shared
<1>4. CASE AskStore(c)
    <2>1. CallerType'
        BY <1>0, <1>4, <1>p, GotoType DEF AskStore, NextLoader
    <2>2. PathOf[doc(c)] \in Path \cup {NoPath}
        BY <1>4, DocType, RegistryAssumption DEF AskStore, Reached
    <2>3. /\ asking' \in [Caller -> Path \cup {NoPath}]
          /\ answer' \in [Caller -> URL \cup {NoURL, Panicked}]
          /\ UNCHANGED <<published, held, shared>>
        BY <1>0, <1>4, <2>2 DEF SharedType, AskStore, store!Ask, store!Decline
    <2> QED
        BY <1>0, <2>1, <2>3 DEF SharedType, shared
<1>5. CASE MatchStore(c)
    <2>1. CallerType'
        BY <1>0, <1>5, <1>p, GotoType DEF MatchStore, NextLoader
    <2>2. store!Answer(c) /\ UNCHANGED shared
        BY <1>5 DEF MatchStore
    <2> QED
        BY <1>0, <2>1, <2>2, AnswerIs DEF SharedType, TypeOK, shared
<1>6. CASE NoMatch(c)
    <2>1. CallerType'
        BY <1>0, <1>6, FinishType DEF NoMatch, Verdict
    <2> QED
        BY <1>0, <1>6, <2>1 DEF SharedType, NoMatch, storeVars, shared
<1> QED
    BY <1>1, <1>2, <1>3, <1>4, <1>5, <1>6

\* So do loadValidator's and those of the validation itself.
LEMMA LoadTypes ==
    ASSUME IInv, NEW c \in Caller,
           \/ LoadDirective(c) \/ LoadFunc(c) \/ LoadStore(c)
           \/ FetchOk(c) \/ FetchFail(c)
           \/ Get(c) \/ CompileOk(c) \/ CompileFail(c) \/ Validate(c)
    PROVE  SharedType' /\ CallerType'
<1>0. SharedType /\ CallerType
    BY DEF IInv, TypeOK
<1>p. {"match", "get", "compile", "validate"} \subseteq Phase
    BY DEF Phase
<1>v. {"valid", "invalid", "no file path", "no catalog match", "load", "compile", "panic"}
          \subseteq Verdict
    BY DEF Verdict
<1>1. CASE LoadDirective(c)
    <2>1. doc(c) \in Doc
        BY <1>1, DocType DEF LoadDirective, Reached
    <2>2. slotDoc' \in Doc \cup {NoDoc} /\ slotDirective' \in Ref \cup {NoRef}
        <3>1. DirectiveOf[doc(c)] \in Ref \cup {NoRef}
            BY <2>1, RegistryAssumption
        <3> QED
            BY <1>0, <1>1, <2>1, <3>1 DEF LoadDirective, ParseAndCache, SharedType
    <2>3. slotDirective' # NoRef => Resolve[doc(c)][slotDirective'] \in Location
        BY <2>1, <2>2, RegistryAssumption DEF Location
    <2>4. CallerType'
        BY <1>0, <1>1, <1>v, <2>3, LoadFromType, FinishType DEF LoadDirective
    <2> QED
        BY <1>0, <1>1, <2>2, <2>4 DEF SharedType, LoadDirective, storeVars
<1>2. CASE LoadFunc(c)
    <2>1. FuncLocation[loader(c)] \in Location
        BY <1>2, RegistryAssumption DEF LoadFunc, Reached, Location
    <2>2. CallerType'
        BY <1>0, <1>2, <2>1, LoadFromType DEF LoadFunc
    <2> QED
        BY <1>0, <1>2, <2>2 DEF SharedType, LoadFunc, storeVars, shared
<1>3. CASE LoadStore(c)
    <2>1. store!Answer(c) /\ UNCHANGED shared
        BY <1>3 DEF LoadStore
    <2>2. answer'[c] # NoURL => answer'[c] \in Location
        BY <1>0, <2>1, AnswerIs DEF TypeOK, Location
    <2>3. CallerType'
        BY <1>0, <1>3, <1>v, <2>2, LoadFromType, FinishType DEF LoadStore
    <2> QED
        BY <1>0, <2>1, <2>3, AnswerIs DEF SharedType, TypeOK, shared
<1>4. CASE FetchOk(c)
    <2>1. location[c] \in Location
        BY <1>4 DEF FetchOk, IInv, CallerInv, Loaded
    <2>2. Served[location[c]][now[location[c]]] \in Schema
        BY <1>0, <2>1, ServedType DEF TypeOK
    <2>3. CASE Finish(c, "panic")
        BY <1>0, <1>4, <1>v, <2>3, FinishType DEF FetchOk, SharedType, storeVars, shared
    <2>4. CASE ~Finish(c, "panic")
        <3>1. /\ Goto(c, "get")
              /\ data' = [data EXCEPT ![c] = Served[location[c]][now[location[c]]]]
              /\ UNCHANGED <<file, pos, at, location, validator, verdict, storeVars, shared>>
            BY <1>4, <2>4 DEF FetchOk
        <3>2. CallerType'
            BY <1>0, <1>p, <2>2, <3>1 DEF CallerType, Goto
        <3> QED
            BY <1>0, <3>1, <3>2 DEF SharedType, storeVars, shared
    <2> QED
        BY <2>3, <2>4
<1>5. CASE FetchFail(c)
    BY <1>0, <1>5, <1>v, FinishType DEF SharedType, FetchFail, storeVars, shared
<1>6. CASE Get(c)
    <2>1. cache[UrlOf(location[c])] \in (Schema \ BadSchema) \cup {NoSchema}
        BY <1>0 DEF SharedType, UrlOf
    <2>2. CallerType'
        <3> DEFINE v == cache[UrlOf(location[c])]
        <3>1. v \in (Schema \ BadSchema) \cup {NoSchema}
            BY <2>1
        <3>2. /\ \/ v # NoSchema /\ Use(c, v)
                 \/ v = NoSchema /\ Goto(c, "compile") /\ UNCHANGED <<data, validator>>
              /\ UNCHANGED <<storeVars, shared, file, pos, at, location, verdict>>
            BY <1>6, Zenon DEF Get
        <3> HIDE DEF v
        <3>3. CASE v # NoSchema /\ Use(c, v)
            BY <1>0, <1>p, <3>1, <3>2, <3>3 DEF CallerType, Use, Goto
        <3>4. CASE v = NoSchema /\ Goto(c, "compile") /\ UNCHANGED <<data, validator>>
            BY <1>0, <1>p, <3>2, <3>4 DEF CallerType, Goto
        <3> QED
            BY <3>2, <3>3, <3>4
    <2> QED
        BY <1>0, <1>6, <2>2 DEF SharedType, Get, storeVars, shared
<1>7. CASE CompileOk(c)
    <2>1. location[c] \in Location /\ data[c] \in ServedSoFar(location[c])
        BY <1>7 DEF CompileOk, CacheAndUse, IInv, CallerInv, Loaded
    <2>2. data[c] \in Schema \ BadSchema
        BY <1>0, <1>7, <2>1, ServedType DEF CompileOk, CacheAndUse, Compiles, TypeOK
    <2>3. cache' \in [URL \cup {NoURL} -> (Schema \ BadSchema) \cup {NoSchema}]
        BY <1>0, <1>7, <2>2 DEF SharedType, CompileOk, CacheAndUse
    <2>4. CallerType'
        BY <1>0, <1>7, <1>p, <2>2 DEF CallerType, CompileOk, CacheAndUse, Use, Goto
    <2> QED
        BY <1>0, <1>7, <2>3, <2>4 DEF SharedType, CompileOk, CacheAndUse, storeVars
<1>8. CASE CompileFail(c)
    BY <1>0, <1>8, <1>v, FinishType DEF SharedType, CompileFail, storeVars, shared
<1>9. CASE Validate(c)
    <2>1. NextDocument(c) => CallerType'
        BY <1>0, <1>p DEF CallerType, NextDocument, Goto
    <2>2. CallerType'
        BY <1>0, <1>9, <1>v, <2>1, FinishType DEF Validate
    <2> QED
        BY <1>0, <1>9, <2>2 DEF SharedType, Validate, storeVars, shared
<1> QED
    BY <1>1, <1>2, <1>3, <1>4, <1>5, <1>6, <1>7, <1>8, <1>9

\* A panic in the store leaves the types as well.
LEMMA PanicTypes ==
    ASSUME IInv, NEW c \in Caller, StorePanic(c)
    PROVE  SharedType' /\ CallerType'
<1>1. SharedType /\ CallerType /\ "panic" \in Verdict
    BY DEF IInv, TypeOK, Verdict
<1>2. CallerType'
    BY <1>1, FinishType DEF StorePanic
<1>3. /\ asking' \in [Caller -> Path \cup {NoPath}]
      /\ answer' \in [Caller -> URL \cup {NoURL, Panicked}]
      /\ UNCHANGED <<published, held, shared>>
    BY <1>1 DEF SharedType, StorePanic, store!Panic
<1> QED
    BY <1>1, <1>2, <1>3 DEF SharedType, shared

\* Every step keeps the types.
LEMMA TypeStep ==
    ASSUME IInv, [Next]_vars
    PROVE  TypeOK'
<1>0. TypeOK
    BY DEF IInv
<1>1. CASE \E c \in Caller : Moves(c)
    BY <1>1, MatchTypes, LoadTypes, PanicTypes DEF Moves, TypeOK
<1>2. ASSUME NEW l \in Location, Edit(l)
      PROVE  TypeOK'
    <2>1. now'[l] \in DOMAIN Served[l]
        BY <1>0, <1>2, RegistryAssumption DEF TypeOK, SharedType, CallerType, Edit
    <2> QED
        BY <1>0, <1>2, <2>1 DEF TypeOK, SharedType, CallerType, Edit, storeVars, callerVars
<1>3. CASE StoreStep
    <2>1. published \in Nat /\ Len(Catalogs) \in Nat
        BY <1>0, CatalogAssumption DEF TypeOK, SharedType, Version
    <2>2. published' \in Version /\ held' \in 0 .. published'
        BY <1>0, <1>3, <2>1 DEF TypeOK, SharedType, Version, StoreStep, store!Publish, store!Tick,
            store!Refresh
    <2> QED
        BY <1>0, <1>3, <2>2 DEF TypeOK, SharedType, CallerType, StoreStep, shared, callerVars, store!Publish,
            store!Tick, store!Refresh
<1>4. CASE UNCHANGED vars
    BY <1>0, <1>4 DEF TypeOK, SharedType, CallerType, vars, storeVars, shared, callerVars
<1> QED
    BY <1>1, <1>2, <1>3, <1>4, NextCases

-----------------------------------------------------------------------------
(* What each goroutine knows, and what they share.                         *)

\* Whoever asks the Directive loader is told of its own document's directive.
LEMMA OwnDirective ==
    ASSUME IInv, NEW d \in Doc, ParseAndCache(d)
    PROVE  slotDirective' = DirectiveOf[d] /\ slotDoc' = d
    BY RegistryAssumption DEF IInv, SharedInv, ParseAndCache

\* Every step keeps the slot and the cache genuine.
LEMMA SharedStep ==
    ASSUME IInv, [Next]_vars, Grows
    PROVE  SharedInv'
<1>1. CASE slotDoc' = slotDoc /\ slotDirective' = slotDirective /\ cache' = cache
    BY <1>1, ServedKept DEF IInv, SharedInv, Location
<1>2. ASSUME NEW c \in Caller, MatchDirective(c) \/ LoadDirective(c)
      PROVE  SharedInv'
    <2>1. doc(c) \in Doc
        BY <1>2, DocType DEF MatchDirective, LoadDirective, Reached
    <2>2. slotDirective' = DirectiveOf[slotDoc'] /\ cache' = cache
        BY <1>2, <2>1, OwnDirective DEF MatchDirective, LoadDirective
    <2> QED
        BY <2>2, ServedKept DEF IInv, SharedInv, Location
<1>3. ASSUME NEW c \in Caller, CompileOk(c)
      PROVE  SharedInv'
    <2>1. /\ location[c] \in Location
          /\ data[c] \in HasServed(location[c])
        BY <1>3 DEF CompileOk, CacheAndUse, Compiles, IInv, CallerInv, Loaded, HasServed
    <2>2. /\ slotDoc' = slotDoc /\ slotDirective' = slotDirective
          /\ \A u \in URL : \/ cache'[u] = cache[u]
                            \/ u = location[c] /\ cache'[u] = data[c]
          /\ cache'[NoURL] = cache[NoURL]
        <3>1. NoURL \notin URL /\ cache \in [URL \cup {NoURL} -> (Schema \ BadSchema) \cup {NoSchema}]
            BY CatalogAssumption DEF IInv, TypeOK, SharedType
        <3>2. CASE location[c] \in URL
            <4>1. cache' = [cache EXCEPT ![location[c]] = data[c]]
                BY <1>3, <3>1, <3>2 DEF CompileOk, CacheAndUse, UrlOf
            <4> QED
                BY <1>3, <3>1, <3>2, <4>1 DEF CompileOk, CacheAndUse
        <3>3. CASE location[c] \notin URL
            BY <1>3, <3>3 DEF CompileOk, CacheAndUse, UrlOf
        <3> QED
            BY <3>2, <3>3
    <2>3. cache'[NoURL] = NoSchema
        BY <2>2 DEF IInv, SharedInv
    <2>4. \A u \in URL : cache'[u] # NoSchema => cache'[u] \in HasServed(u)'
        BY <2>1, <2>2, ServedKept DEF IInv, SharedInv, Location
    <2> QED
        BY <2>2, <2>3, <2>4 DEF IInv, SharedInv
<1>4. CASE \E c \in Caller : Moves(c)
    <2>1. PICK c \in Caller : Moves(c)
        BY <1>4
    <2>2. CASE MatchDirective(c) \/ LoadDirective(c) \/ CompileOk(c)
        BY <1>2, <1>3, <2>2
    <2>3. CASE ~(MatchDirective(c) \/ LoadDirective(c) \/ CompileOk(c))
        BY <1>1, <2>1, <2>3 DEF Moves, BeginFile, MatchFunc, AskStore, MatchStore, NoMatch,
            LoadFunc, LoadStore, FetchOk, FetchFail, Get, CompileFail, Validate, StorePanic,
            shared
    <2> QED
        BY <2>2, <2>3
<1>5. CASE ~\E c \in Caller : Moves(c)
    BY <1>1, <1>5, NextCases DEF Edit, StoreStep, vars, shared
<1> QED
    BY <1>4, <1>5

\* What a goroutine knows in the middle of a file.
LEMMA Busy ==
    ASSUME IInv, NEW c \in Caller, pc[c] # "idle"
    PROVE  /\ file[c] \in File /\ pos[c] \in DOMAIN file[c] /\ verdict[c] = "none"
           /\ pos[c] \in Nat /\ at[c] \in Nat /\ Len(MatchLoaders) \in Nat
           /\ \A k \in 1 .. pos[c] - 1 : AcceptedByRight(file[c][k])
           /\ at[c] \in 1 .. Len(MatchLoaders) + 1
           /\ DOMAIN MatchLoaders = 1 .. Len(MatchLoaders)
           /\ \A j \in 1 .. at[c] - 1 : Unclaimed(j, doc(c))
<1>1. Underway(c)
    BY DEF IInv, CallerInv
<1>2. pos[c] \in Nat /\ at[c] \in Nat
    BY DEF IInv, TypeOK, CallerType
<1>3. Len(MatchLoaders) \in Nat /\ DOMAIN MatchLoaders = 1 .. Len(MatchLoaders)
    BY RegistryAssumption
<1> QED
    BY <1>1, <1>2, <1>3 DEF Underway

\* A match loader that leaves the document gives way to the next.
LEMMA LeavesIt ==
    ASSUME IInv, Grows, NEW c \in Caller, pc[c] # "idle",
           at[c] \in DOMAIN MatchLoaders, Unclaimed(at[c], doc(c)),
           NextLoader(c), UNCHANGED <<file, pos, location, data, validator, verdict>>
    PROVE  CallerInv(c)'
<1>1. pc'[c] = "match" /\ at'[c] = at[c] + 1 /\ doc(c)' = doc(c)
    BY DEF IInv, TypeOK, CallerType, NextLoader, Goto, doc
<1>2. \A j \in 1 .. at'[c] - 1 : Unclaimed(j, doc(c))
    BY <1>1, Busy
<1>3. at'[c] \in 1 .. Len(MatchLoaders) + 1
    BY <1>1, Busy
<1>4. Underway(c)'
    BY <1>1, <1>2, <1>3, Busy, GroundsKept, AcceptedKept DEF Underway
<1>5. Ended(c)'
    BY Busy DEF Ended
<1> QED
    BY <1>1, <1>4, <1>5 DEF CallerInv, Asking, Matched, Loaded

\* One that takes it will load its schema.
LEMMA TakesIt ==
    ASSUME IInv, Grows, NEW c \in Caller, pc[c] # "idle",
           at[c] \in DOMAIN MatchLoaders, Claimed(at[c], doc(c)),
           Goto(c, "load"), UNCHANGED <<file, pos, at, location, data, validator, verdict>>
    PROVE  CallerInv(c)'
<1>1. pc'[c] = "load" /\ doc(c)' = doc(c)
    BY DEF IInv, TypeOK, CallerType, Goto, doc
<1>2. Underway(c)'
    BY <1>1, Busy, GroundsKept, AcceptedKept DEF Underway
<1>3. Matched(c)'
    BY <1>1, GroundsKept DEF Matched
<1>4. Ended(c)'
    BY Busy DEF Ended
<1> QED
    BY <1>1, <1>2, <1>3, <1>4 DEF CallerInv, Asking, Loaded

\* One that asks the store has a path to ask about.
LEMMA AsksIt ==
    ASSUME IInv, Grows, NEW c \in Caller, NEW phase \in {"matching", "loading"},
           pc[c] # "idle", at[c] \in DOMAIN MatchLoaders, loader(c) = "schemastore",
           PathOf[doc(c)] # NoPath, phase = "loading" => Claimed(at[c], doc(c)),
           store!Ask(c, PathOf[doc(c)]), Goto(c, phase),
           UNCHANGED <<file, pos, at, location, data, validator, verdict>>
    PROVE  CallerInv(c)'
<1>1. /\ pc'[c] = phase /\ doc(c)' = doc(c) /\ loader(c)' = loader(c)
      /\ asking'[c] = PathOf[doc(c)] /\ held' > 0
    BY DEF IInv, TypeOK, SharedType, CallerType, Goto, doc, loader, store!Ask
<1>2. Underway(c)'
    BY <1>1, Busy, GroundsKept, AcceptedKept DEF Underway
<1>3. Matched(c)' /\ Asking(c)'
    BY <1>1, GroundsKept DEF Matched, Asking
<1>4. Ended(c)'
    BY Busy DEF Ended
<1> QED
    BY <1>1, <1>2, <1>3, <1>4 DEF CallerInv, Loaded

\* A location to load from is one that governs the document.
LEMMA LoadsIt ==
    ASSUME IInv, Grows, NEW c \in Caller, pc[c] # "idle", NEW l \in Location,
           at[c] \in DOMAIN MatchLoaders, LoadsFrom(at[c], doc(c), l), LoadFrom(c, l)
    PROVE  CallerInv(c)'
<1>1. /\ pc'[c] = "fetch" /\ doc(c)' = doc(c) /\ location'[c] = l
      /\ UNCHANGED <<file, pos, at, verdict>>
    BY DEF IInv, TypeOK, CallerType, LoadFrom, Goto, doc
<1>2. Underway(c)'
    BY <1>1, Busy, GroundsKept, AcceptedKept DEF Underway
<1>3. Loaded(c)'
    BY <1>1, GroundsKept DEF Loaded
<1>4. Ended(c)'
    BY <1>1, Busy DEF Ended
<1> QED
    BY <1>1, <1>2, <1>3, <1>4 DEF CallerInv, Matched, Asking

\* A load in progress goes on with what it knows of its location.
LEMMA LoadGoesOn ==
    ASSUME IInv, Grows, NEW c \in Caller, pc[c] \in {"fetch", "get", "compile"},
           at[c] \in DOMAIN MatchLoaders, location[c] \in Location,
           LoadsFrom(at[c], doc(c), location[c]),
           UNCHANGED <<file, pos, at, location, verdict>>,
           \/ pc'[c] \in {"get", "compile"} /\ data'[c] \in ServedSoFar(location[c])
           \/ pc'[c] = "validate" /\ validator'[c] \in HasServed(location[c])
    PROVE  CallerInv(c)'
<1>1. doc(c)' = doc(c)
    BY DEF doc
<1>2. Underway(c)'
    BY <1>1, Busy, GroundsKept, AcceptedKept DEF Underway
<1>3. Loaded(c)'
    BY <1>1, GroundsKept, ServedKept DEF Loaded
<1>4. Ended(c)'
    BY <1>1, Busy DEF Ended
<1> QED
    BY <1>2, <1>3, <1>4 DEF CallerInv, Matched, Asking

\* A file ends with a verdict that is earned.
LEMMA Finishes ==
    ASSUME IInv, Grows, NEW c \in Caller, NEW how, Finish(c, how),
           how = "valid" => \A k \in DOMAIN file[c] : AcceptedByRight(file[c][k]),
           how = "no catalog match" => MatchLost(doc(c)),
           how = "no match" => \A i \in DOMAIN MatchLoaders : Unclaimed(i, doc(c))
    PROVE  CallerInv(c)'
<1>1. /\ pc'[c] = "idle" /\ verdict'[c] = how /\ doc(c)' = doc(c) /\ file' = file
    BY DEF IInv, TypeOK, CallerType, Finish, Goto, doc
<1>2. Ended(c)'
    BY <1>1, GroundsKept, AcceptedKept DEF Ended
<1> QED
    BY <1>1, <1>2 DEF CallerInv, Underway, Asking, Matched, Loaded

\* Every step of Lookup's loop leaves the goroutine with what it must know.
LEMMA MatchStep ==
    ASSUME IInv, Grows, NEW c \in Caller,
           \/ \E f \in File : BeginFile(c, f)
           \/ MatchDirective(c) \/ MatchFunc(c) \/ AskStore(c) \/ MatchStore(c)
           \/ NoMatch(c)
    PROVE  CallerInv(c)'
<1>1. ASSUME NEW f \in File, BeginFile(c, f)
      PROVE  CallerInv(c)'
    <2>1. 1 \in DOMAIN f /\ 1 \in 1 .. Len(MatchLoaders) + 1
        <3>1. f \in Seq(Doc) /\ f # <<>> /\ Len(MatchLoaders) \in Nat
            BY RegistryAssumption
        <3> QED
            BY <3>1
    <2>2. /\ pc'[c] = "match" /\ file'[c] = f /\ pos'[c] = 1 /\ at'[c] = 1
          /\ verdict'[c] = "none"
        BY <1>1 DEF BeginFile, Goto, IInv, TypeOK, CallerType
    <2>3. Underway(c)'
        BY <2>1, <2>2 DEF Underway
    <2> QED
        BY <2>2, <2>3 DEF CallerInv, Asking, Matched, Loaded, Ended
<1>2. CASE MatchDirective(c)
    <2>1. /\ pc[c] = "match" /\ at[c] \in DOMAIN MatchLoaders
          /\ MatchLoaders[at[c]] = "directive" /\ "directive" \notin Func
        BY <1>2, RegistryAssumption DEF MatchDirective, Reached, loader
    <2>2. slotDirective' = DirectiveOf[doc(c)]
        BY <1>2, <2>1, DocType, OwnDirective DEF MatchDirective
    <2>3. CASE slotDirective' # NoRef
        <3>1. Claimed(at[c], doc(c))
            BY <2>1, <2>2, <2>3 DEF Claimed, SurelyMatches
        <3> QED
            BY <1>2, <2>1, <2>3, <3>1, TakesIt DEF MatchDirective
    <2>4. CASE slotDirective' = NoRef
        <3>1. Unclaimed(at[c], doc(c))
            BY <2>1, <2>2, <2>4 DEF Unclaimed, SurelyMatches
        <3> QED
            BY <1>2, <2>1, <2>4, <3>1, LeavesIt DEF MatchDirective
    <2> QED
        BY <2>3, <2>4
<1>3. CASE MatchFunc(c)
    <2>1. /\ pc[c] = "match" /\ at[c] \in DOMAIN MatchLoaders
          /\ MatchLoaders[at[c]] \in Func /\ {"directive", "schemastore"} \cap Func = {}
        BY <1>3, RegistryAssumption DEF MatchFunc, Reached, loader
    <2>2. CASE doc(c) \in FuncDocs[loader(c)]
        <3>1. Claimed(at[c], doc(c))
            BY <2>1, <2>2 DEF Claimed, SurelyMatches, loader
        <3> QED
            BY <1>3, <2>1, <2>2, <3>1, TakesIt DEF MatchFunc
    <2>3. CASE doc(c) \notin FuncDocs[loader(c)]
        <3>1. Unclaimed(at[c], doc(c))
            BY <2>1, <2>3 DEF Unclaimed, SurelyMatches, loader
        <3> QED
            BY <1>3, <2>1, <2>3, <3>1, LeavesIt DEF MatchFunc
    <2> QED
        BY <2>2, <2>3
<1>4. CASE AskStore(c)
    <2>1. /\ pc[c] \in {"match", "load"} /\ at[c] \in DOMAIN MatchLoaders
          /\ loader(c) = "schemastore" /\ "schemastore" \notin Func
        BY <1>4, RegistryAssumption DEF AskStore, Reached
    <2>2. CASE pc[c] = "match" /\ PathOf[doc(c)] # NoPath
        BY <1>4, <2>1, <2>2, AsksIt DEF AskStore, Reached
    <2>3. CASE pc[c] = "match" /\ PathOf[doc(c)] = NoPath
        <3>1. Unclaimed(at[c], doc(c))
            BY <2>1, <2>3 DEF Unclaimed, SurelyMatches, loader
        <3> QED
            BY <1>4, <2>1, <2>3, <3>1, LeavesIt DEF AskStore, Reached
    <2>4. CASE pc[c] = "load"
        <3>1. Claimed(at[c], doc(c))
            BY <2>4 DEF IInv, CallerInv, Matched
        <3>2. PathOf[doc(c)] # NoPath
            BY <2>1, <3>1 DEF Claimed, SurelyMatches, loader
        <3> QED
            BY <1>4, <2>1, <2>4, <3>1, <3>2, AsksIt DEF AskStore, Reached
    <2> QED
        BY <2>1, <2>2, <2>3, <2>4
<1>5. CASE MatchStore(c)
    <2>1. /\ pc[c] = "matching" /\ at[c] \in DOMAIN MatchLoaders
          /\ MatchLoaders[at[c]] = "schemastore" /\ "schemastore" \notin Func
          /\ PathOf[doc(c)] # NoPath /\ asking[c] = PathOf[doc(c)] /\ held > 0
        BY <1>5, RegistryAssumption DEF MatchStore, IInv, CallerInv, Underway, Asking, loader
    <2>2. /\ answer'[c] = FirstMatch(EntriesOf(held), PathOf[doc(c)])
          /\ held \in 1 .. held
        BY <1>5, <2>1, AnswerIs DEF MatchStore, IInv, Grows
    <2>3. CASE answer'[c] # NoURL
        <3>1. Claimed(at[c], doc(c))
            BY <2>1, <2>2, <2>3 DEF Claimed
        <3> QED
            BY <1>5, <2>1, <2>3, <3>1, TakesIt DEF MatchStore
    <2>4. CASE answer'[c] = NoURL
        <3>1. Unclaimed(at[c], doc(c))
            BY <2>1, <2>2, <2>4 DEF Unclaimed, SurelyMatches, Cataloged
        <3> QED
            BY <1>5, <2>1, <2>4, <3>1, LeavesIt DEF MatchStore
    <2> QED
        BY <2>3, <2>4
<1>6. CASE NoMatch(c)
    <2>1. pc[c] = "match" /\ at[c] = Len(MatchLoaders) + 1
        BY <1>6 DEF NoMatch
    <2>2. \A i \in DOMAIN MatchLoaders : Unclaimed(i, doc(c))
        BY <2>1, Busy
    <2> QED
        BY <1>6, <2>2, Finishes DEF NoMatch
<1> QED
    BY <1>1, <1>2, <1>3, <1>4, <1>5, <1>6

\* So does every step of loadValidator and of the validation itself.
LEMMA LoadStep ==
    ASSUME IInv, Grows, NEW c \in Caller,
           \/ LoadDirective(c) \/ LoadFunc(c) \/ LoadStore(c)
           \/ FetchOk(c) \/ FetchFail(c)
           \/ Get(c) \/ CompileOk(c) \/ CompileFail(c) \/ Validate(c)
    PROVE  CallerInv(c)'
<1>1. CASE LoadDirective(c)
    <2>1. /\ pc[c] = "load" /\ at[c] \in DOMAIN MatchLoaders
          /\ MatchLoaders[at[c]] = "directive"
        BY <1>1 DEF LoadDirective, Reached, loader
    <2>2. doc(c) \in Doc /\ slotDirective' = DirectiveOf[doc(c)]
        BY <1>1, <2>1, DocType, OwnDirective DEF LoadDirective
    <2>3. CASE slotDirective' # NoRef /\ PathOf[doc(c)] # NoPath
        <3> DEFINE l == Resolve[doc(c)][DirectiveOf[doc(c)]]
        <3>1. l \in Location
            BY <2>2, <2>3, RegistryAssumption DEF Location
        <3>2. LoadsFrom(at[c], doc(c), l)
            BY <2>1, <2>2, <2>3 DEF LoadsFrom
        <3>3. LoadFrom(c, l)
            BY <1>1, <2>2, <2>3 DEF LoadDirective
        <3> QED
            BY <2>1, <3>1, <3>2, <3>3, LoadsIt
    <2>4. CASE ~(slotDirective' # NoRef /\ PathOf[doc(c)] # NoPath)
        BY <1>1, <2>4, Finishes DEF LoadDirective
    <2> QED
        BY <2>3, <2>4
<1>2. CASE LoadFunc(c)
    <2>1. /\ pc[c] = "load" /\ at[c] \in DOMAIN MatchLoaders
          /\ MatchLoaders[at[c]] \in Func /\ {"directive", "schemastore"} \cap Func = {}
        BY <1>2, RegistryAssumption DEF LoadFunc, Reached, loader
    <2>2. Claimed(at[c], doc(c))
        BY <2>1 DEF IInv, CallerInv, Matched
    <2>3. LoadsFrom(at[c], doc(c), FuncLocation[loader(c)])
        BY <2>1, <2>2 DEF Claimed, SurelyMatches, LoadsFrom, loader
    <2>4. FuncLocation[loader(c)] \in Location
        BY <2>1, RegistryAssumption DEF Location, loader
    <2> QED
        BY <1>2, <2>1, <2>3, <2>4, LoadsIt DEF LoadFunc
<1>3. CASE LoadStore(c)
    <2>1. /\ pc[c] = "loading" /\ at[c] \in DOMAIN MatchLoaders
          /\ MatchLoaders[at[c]] = "schemastore" /\ "schemastore" \notin Func
          /\ PathOf[doc(c)] # NoPath /\ asking[c] = PathOf[doc(c)] /\ held > 0
        BY <1>3, RegistryAssumption DEF LoadStore, IInv, CallerInv, Underway, Asking, loader
    <2>2. /\ answer'[c] = FirstMatch(EntriesOf(held), PathOf[doc(c)])
          /\ answer'[c] \in URL \cup {NoURL}
          /\ held \in 1 .. held
        <3>1. TypeOK /\ store!Answer(c)
            BY <1>3 DEF LoadStore, IInv
        <3>2. held \in 1 .. held
            BY <2>1 DEF Grows
        <3>3. answer'[c] = FirstMatch(EntriesOf(held), asking[c])
            BY <3>1, AnswerIs
        <3>4. answer'[c] \in URL \cup {NoURL}
            BY <3>1, AnswerIs
        <3> QED
            BY <2>1, <3>2, <3>3, <3>4
    <2>3. CASE answer'[c] # NoURL
        <3>1. LoadsFrom(at[c], doc(c), answer'[c])
            BY <2>1, <2>2 DEF LoadsFrom, Cataloged
        <3>2. answer'[c] \in Location
            BY <2>2, <2>3 DEF Location
        <3>3. LoadFrom(c, answer'[c])
            BY <1>3, <2>3 DEF LoadStore
        <3> QED
            BY <2>1, <3>1, <3>2, <3>3, LoadsIt
    <2>4. CASE answer'[c] = NoURL
        <3>1. PICK v \in 1 .. held : FirstMatch(EntriesOf(v), PathOf[doc(c)]) # NoURL
            BY <2>1 DEF IInv, CallerInv, Matched, Claimed, SurelyMatches
        <3>2. v # held
            BY <2>2, <2>4, <3>1
        <3>3. v < held
            BY <3>1, <3>2 DEF Grows
        <3>4. MatchLost(doc(c))
            BY <2>2, <2>4, <3>1, <3>3 DEF MatchLost
        <3>5. Finish(c, "no catalog match")
            BY <1>3, <2>4 DEF LoadStore
        <3> QED
            BY <3>4, <3>5, Finishes
    <2> QED
        BY <2>3, <2>4
<1>4. CASE FetchOk(c) /\ ~Finish(c, "panic")
    <2>1. /\ pc[c] = "fetch" /\ location[c] \in Location
          /\ at[c] \in DOMAIN MatchLoaders /\ LoadsFrom(at[c], doc(c), location[c])
        BY <1>4 DEF FetchOk, IInv, CallerInv, Loaded, Underway
    <2>2. Served[location[c]][now[location[c]]] \in ServedSoFar(location[c])
        BY <2>1, ServedType DEF IInv
    <2>3. /\ pc'[c] = "get" /\ data'[c] \in ServedSoFar(location[c])
          /\ UNCHANGED <<file, pos, at, location, verdict>>
        BY <1>4, <2>2 DEF FetchOk, Goto, IInv, TypeOK, CallerType
    <2> QED
        BY <2>1, <2>3, LoadGoesOn
<1>5. CASE FetchOk(c) /\ Finish(c, "panic")
    BY <1>5, Finishes
<1>6. CASE FetchFail(c)
    BY <1>6, Finishes DEF FetchFail
<1>7. CASE Get(c)
    <2>1. /\ pc[c] = "get" /\ location[c] \in Location /\ at[c] \in DOMAIN MatchLoaders
          /\ LoadsFrom(at[c], doc(c), location[c])
          /\ data[c] \in ServedSoFar(location[c])
        BY <1>7 DEF Get, IInv, CallerInv, Loaded, Underway
    <2>2. UNCHANGED <<file, pos, at, location, verdict>>
        BY <1>7 DEF Get
    <2>3. CASE cache[UrlOf(location[c])] # NoSchema
        <3>1. location[c] \in URL /\ UrlOf(location[c]) = location[c]
            BY <2>3 DEF UrlOf, IInv, SharedInv
        <3>2. cache[location[c]] \in HasServed(location[c])
            BY <2>3, <3>1 DEF IInv, SharedInv
        <3>3. pc'[c] = "validate" /\ validator'[c] = cache[location[c]]
            BY <1>7, <2>3, <3>1 DEF Get, Use, Goto, IInv, TypeOK, CallerType
        <3> QED
            BY <2>1, <2>2, <3>2, <3>3, LoadGoesOn
    <2>4. CASE cache[UrlOf(location[c])] = NoSchema
        <3>1. pc'[c] = "compile" /\ data'[c] = data[c]
            BY <1>7, <2>4 DEF Get, Goto, IInv, TypeOK, CallerType
        <3> QED
            BY <2>1, <2>2, <3>1, LoadGoesOn
    <2> QED
        BY <2>3, <2>4
<1>8. CASE CompileOk(c)
    <2>1. /\ pc[c] = "compile" /\ location[c] \in Location /\ at[c] \in DOMAIN MatchLoaders
          /\ LoadsFrom(at[c], doc(c), location[c])
          /\ data[c] \in HasServed(location[c])
        BY <1>8 DEF CompileOk, CacheAndUse, Compiles, HasServed, IInv, CallerInv, Loaded,
            Underway
    <2>2. /\ pc'[c] = "validate" /\ validator'[c] = data[c]
          /\ UNCHANGED <<file, pos, at, location, verdict>>
        BY <1>8 DEF CompileOk, CacheAndUse, Use, Goto, IInv, TypeOK, CallerType
    <2> QED
        BY <2>1, <2>2, LoadGoesOn
<1>9. CASE CompileFail(c)
    BY <1>9, Finishes DEF CompileFail
<1>10. CASE Validate(c)
    <2>1. /\ pc[c] = "validate" /\ at[c] \in DOMAIN MatchLoaders
          /\ location[c] \in Location /\ LoadsFrom(at[c], doc(c), location[c])
          /\ validator[c] \in HasServed(location[c])
        BY <1>10 DEF Validate, IInv, CallerInv, Loaded, Underway
    <2>2. CASE doc(c) \in Accepts[validator[c]]
        <3>1. Governs(location[c], doc(c))
            BY <2>1, Busy DEF Governs, Unclaimed
        <3>2. AcceptedByRight(file[c][pos[c]])
            BY <2>1, <2>2, <3>1 DEF AcceptedByRight, doc
        <3>3. \A k \in 1 .. pos[c] : AcceptedByRight(file[c][k])
            BY <2>1, <3>2, Busy
        <3>4. DOMAIN file[c] = 1 .. Len(file[c]) /\ Len(file[c]) \in Nat
            BY <2>1, Busy, RegistryAssumption
        <3>5. CASE pos[c] < Len(file[c]) /\ NextDocument(c)
            <4>1. /\ pc'[c] = "match" /\ pos'[c] = pos[c] + 1 /\ at'[c] = 1
                  /\ file' = file /\ verdict' = verdict
                BY <3>5 DEF NextDocument, Goto, IInv, TypeOK, CallerType
            <4>2. pos'[c] \in DOMAIN file[c] /\ 1 \in 1 .. Len(MatchLoaders) + 1
                BY <2>1, <3>4, <3>5, <4>1, Busy
            <4>3. \A k \in 1 .. pos'[c] - 1 : AcceptedByRight(file[c][k])'
                BY <2>1, <3>3, <4>1, Busy, AcceptedKept
            <4>4. Underway(c)'
                BY <2>1, <4>1, <4>2, <4>3, Busy DEF Underway
            <4>5. Ended(c)'
                BY <2>1, <4>1, Busy DEF Ended
            <4> QED
                BY <4>1, <4>4, <4>5 DEF CallerInv, Asking, Matched, Loaded
        <3>6. CASE pos[c] = Len(file[c]) /\ Finish(c, "valid")
            BY <3>3, <3>4, <3>6, Finishes
        <3> QED
            BY <1>10, <2>2, <3>5, <3>6 DEF Validate
    <2>3. CASE doc(c) \notin Accepts[validator[c]]
        BY <1>10, <2>3, Finishes DEF Validate
    <2> QED
        BY <2>2, <2>3
<1> QED
    BY <1>1, <1>2, <1>3, <1>4, <1>5, <1>6, <1>7, <1>8, <1>9, <1>10

-----------------------------------------------------------------------------
(* Results.                                                                *)

\* IInv holds of the initial state and every step keeps it.
LEMMA Inductive == (Init => IInv) /\ (IInv /\ [Next]_vars => IInv')
<1>1. ASSUME IInv, [Next]_vars
      PROVE  IInv'
    <2>1. TypeOK' /\ Grows
        BY <1>1, TypeStep, Growth DEF IInv
    <2>2. SharedInv'
        BY <1>1, <2>1, SharedStep
    <2>3. ASSUME NEW d \in Caller
          PROVE  CallerInv(d)'
        <3>1. CASE Moves(d)
            BY <1>1, <2>1, <3>1, MatchStep, LoadStep, Finishes DEF Moves, StorePanic
        <3>2. CASE ~Moves(d)
            <4>1. Still(d)
                <5>1. CASE \E c \in Caller : Moves(c)
                    BY <1>1, <3>2, <5>1, OneMoves DEF IInv
                <5>2. CASE ~\E c \in Caller : Moves(c)
                    BY <1>1, <5>2, NextCases, NobodyMoves
                <5> QED
                    BY <5>1, <5>2
            <4> QED
                BY <1>1, <2>1, <4>1, StillKept DEF IInv
        <3> QED
            BY <3>1, <3>2
    <2> QED
        BY <2>1, <2>2, <2>3 DEF IInv
<1> QED
    BY <1>1, InitInv

\* The whole inductive invariant, from which the properties are read off.
THEOREM Invariance == Spec => []IInv
    BY Inductive, PTL DEF Spec

\* Every variable keeps its type; nothing that does not compile is cached.
THEOREM TypeCorrect == Spec => []TypeOK
<1>1. IInv => TypeOK
    BY DEF IInv
<1> QED
    BY <1>1, Invariance, PTL

\* A document is validated by a schema of the location that governs it,
\* although validators, directives and catalogs are shared by all goroutines.
THEOREM SchemasRight == Spec => []RightSchema
<1>1. IInv => RightSchema
    <2> SUFFICES ASSUME IInv, NEW c \in Caller, pc[c] = "validate"
                 PROVE  Governs(location[c], doc(c)) /\ validator[c] \in HasServed(location[c])
        BY DEF RightSchema
    <2>1. /\ at[c] \in DOMAIN MatchLoaders /\ LoadsFrom(at[c], doc(c), location[c])
          /\ validator[c] \in HasServed(location[c])
        BY DEF IInv, CallerInv, Loaded, Underway
    <2> QED
        BY <2>1, Busy DEF Governs, Unclaimed
<1> QED
    BY <1>1, Invariance, PTL

\* No file is reported valid that was not checked to its last document.
THEOREM VerdictsEarned == Spec => []VerdictEarned
<1>1. IInv => VerdictEarned
    BY DEF IInv, CallerInv, Ended, VerdictEarned
<1> QED
    BY <1>1, Invariance, PTL

\* Match and Load of the SchemaStore disagree only over a change of catalog.
THEOREM MatchesLostOnlyToCatalogs == Spec => []CatalogMatchLost
<1>1. IInv => CatalogMatchLost
    BY DEF IInv, CallerInv, Ended, CatalogMatchLost
<1> QED
    BY <1>1, Invariance, PTL

\* ErrNoMatch never hides a schema that was found and could not be loaded.
THEOREM NoMatchHonest == Spec => []NoMatchMeansUnclaimed
<1>1. IInv => NoMatchMeansUnclaimed
    BY DEF IInv, CallerInv, Ended, NoMatchMeansUnclaimed
<1> QED
    BY <1>1, Invariance, PTL
=============================================================================
