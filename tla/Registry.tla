------------------------------ MODULE Registry ------------------------------
(***************************************************************************)
(* The schema registry, its match loaders and the goroutines that validate *)
(* files through it.  A goroutine takes the documents of a file in order;  *)
(* for each it asks the match loaders in turn, loads the schema of the     *)
(* first that matches, takes the validator from the cache or compiles one, *)
(* and applies it.  The goroutines share the validator cache, the single   *)
(* slot of the Directive loader and the SchemaStore, which appears here as *)
(* the CatalogCache its own specification implements.  Meanwhile schemas   *)
(* are edited, the catalog is published anew, and loads fail.              *)
(***************************************************************************)
EXTENDS Catalog

CONSTANTS
    Caller,        \* goroutines
    NoPath,        \* the path of a document that has none
    TTL,           \* catalog lifetime, in ticks
    Doc,           \* documents (DocumentDecoder pointers)
    NoDoc,         \* the Directive loader's slot before its first document
    PathOf,        \* [Doc -> Path \cup {NoPath}]: DocumentDecoder.FilePath
    Ref, NoRef,    \* schema references a directive comment can name
    DirectiveOf,   \* [Doc -> Ref \cup {NoRef}]: ParseDocumentDirective
    Resolve,       \* [Doc -> [Ref -> URL]]: loader.Ref in the document's directory
    Anonymous,     \* schema sources whose Result has no URL
    Func,          \* matcher-loader pairs added with RegisterFunc
    FuncDocs,      \* [Func -> SUBSET Doc]: what the matcher matches
    FuncLocation,  \* [Func -> Location]: what the loader loads
    MatchLoaders,  \* the registered match loaders, in order
    Schema,        \* schema contents, or the ready-made validator of a Result
    BadSchema,     \* those that do not compile
    EmptySchema,   \* no bytes at all
    NoSchema,      \* absence of a validator
    Served,        \* Served[l]: the contents location l serves in succession
    Accepts,       \* [Schema -> SUBSET Doc]: the documents a schema accepts
    File           \* files: sequences of documents

Location == URL \cup Anonymous

ASSUME RegistryAssumption ==
    /\ Anonymous \cap (URL \cup {NoURL}) = {}
    /\ NoPath \notin Path
    /\ NoDoc \notin Doc
    /\ NoRef \notin Ref
    /\ NoSchema \notin Schema
    /\ EmptySchema \in BadSchema
    /\ BadSchema \subseteq Schema
    /\ {"directive", "schemastore"} \cap Func = {}
    /\ PathOf \in [Doc -> Path \cup {NoPath}]
    /\ DirectiveOf \in [Doc -> Ref \cup {NoRef}]
    /\ Resolve \in [Doc -> [Ref -> URL]]
    /\ FuncDocs \in [Func -> SUBSET Doc]
    /\ FuncLocation \in [Func -> Location]
    /\ MatchLoaders \in Seq({"directive", "schemastore"} \cup Func)
    /\ Served \in [Location -> Seq(Schema)]
    /\ \A l \in Location : Len(Served[l]) > 0
    /\ Accepts \in [Schema -> SUBSET Doc]
    /\ File \subseteq Seq(Doc) \ {<<>>}
    /\ TTL \in Nat

VARIABLES
    published, held, age, asking, answer,  \* the SchemaStore, as a CatalogCache
    now,        \* now[l]: which of Served[l] location l serves
    slotDoc, slotDirective,                \* the Directive loader's slot
    cache,      \* the registry's cache: [URL -> Schema \cup {NoSchema}]
    pc,         \* where the goroutine is in ValidateDocument
    file, pos,  \* the file it validates and the document it is at
    at,         \* index of the match loader it is at
    location,   \* the schema location its Load call settled on
    data,       \* Result.Data (or Result.Validator): what Load returned
    validator,  \* the validator Lookup returned
    verdict     \* how its last file ended

store    == INSTANCE CatalogCache
shared   == <<now, slotDoc, slotDirective, cache>>
storeVars == <<published, held, age, asking, answer>>
callerVars == <<pc, file, pos, at, location, data, validator, verdict>>
vars     == <<storeVars, shared, callerVars>>

Phase == {"idle", "match", "matching", "load", "loading", "fetch", "get",
          "compile", "validate"}
Verdict == {"none", "valid", "invalid", "no match", "no file path",
            "no catalog match", "load", "compile", "panic"}

\* Result.URL, the cache's key.
UrlOf(l) == IF l \in URL THEN l ELSE NoURL

doc(c) == file[c][pos[c]]
loader(c) == MatchLoaders[at[c]]
Reached(c, phase, kinds) ==
    pc[c] = phase /\ at[c] \in DOMAIN MatchLoaders /\ loader(c) \in kinds

Init ==
    /\ store!Init
    /\ now = [l \in Location |-> 1]
    /\ slotDoc = NoDoc
    /\ slotDirective = NoRef
    /\ cache = [u \in URL \cup {NoURL} |-> NoSchema]
    /\ pc = [c \in Caller |-> "idle"]
    /\ file = [c \in Caller |-> <<>>]
    /\ pos = [c \in Caller |-> 0]
    /\ at = [c \in Caller |-> 0]
    /\ location = [c \in Caller |-> NoURL]
    /\ data = [c \in Caller |-> NoSchema]
    /\ validator = [c \in Caller |-> NoSchema]
    /\ verdict = [c \in Caller |-> "none"]

-----------------------------------------------------------------------------
(* What a step of c leaves of its local state.                             *)

Goto(c, phase) == pc' = [pc EXCEPT ![c] = phase]

NextLoader(c) ==
    /\ Goto(c, "match")
    /\ at' = [at EXCEPT ![c] = @ + 1]

\* The file's validation ends: validateFile returns at its first error, which
\* names the document it is at.
Finish(c, how) ==
    /\ Goto(c, "idle")
    /\ verdict' = [verdict EXCEPT ![c] = how]
    /\ at' = [at EXCEPT ![c] = 0]
    /\ location' = [location EXCEPT ![c] = NoURL]
    /\ data' = [data EXCEPT ![c] = NoSchema]
    /\ validator' = [validator EXCEPT ![c] = NoSchema]
    /\ UNCHANGED <<file, pos>>

-----------------------------------------------------------------------------
(* ValidateDocument: Lookup's loop over the match loaders.                 *)

\* The registry is built, with a store that New has filled if it has one.
Built == held > 0 \/ \A i \in DOMAIN MatchLoaders : MatchLoaders[i] # "schemastore"

BeginFile(c, f) ==
    /\ Built
    /\ pc[c] = "idle"
    /\ Goto(c, "match")
    /\ file' = [file EXCEPT ![c] = f]
    /\ pos' = [pos EXCEPT ![c] = 1]
    /\ at' = [at EXCEPT ![c] = 1]
    /\ verdict' = [verdict EXCEPT ![c] = "none"]
    /\ UNCHANGED <<storeVars, shared, location, data, validator>>

\* A parseAndCache that takes the slot for the document's own if it is full.
TrustSlot(d) ==
    \/ slotDoc # NoDoc /\ UNCHANGED <<slotDoc, slotDirective>>
    \/ slotDoc = NoDoc /\ slotDoc' = d /\ slotDirective' = DirectiveOf[d]

\* Under the loader's mutex: the slot serves the same document again, and is
\* refilled for any other.  slotDirective' is what the call returns.
ParseAndCache(d) ==
    \/ /\ slotDoc = d
       /\ UNCHANGED <<slotDoc, slotDirective>>
    \/ /\ slotDoc # d
       /\ slotDoc' = d
       /\ slotDirective' = DirectiveOf[d]

MatchDirective(c) ==
    /\ Reached(c, "match", {"directive"})
    /\ ParseAndCache(doc(c))
    /\ \/ slotDirective' # NoRef /\ Goto(c, "load") /\ UNCHANGED at
       \/ slotDirective' = NoRef /\ NextLoader(c)
    /\ UNCHANGED <<storeVars, now, cache, file, pos, location, data, validator, verdict>>

MatchFunc(c) ==
    /\ Reached(c, "match", Func)
    /\ \/ doc(c) \in FuncDocs[loader(c)] /\ Goto(c, "load") /\ UNCHANGED at
       \/ doc(c) \notin FuncDocs[loader(c)] /\ NextLoader(c)
    /\ UNCHANGED <<storeVars, shared, file, pos, location, data, validator, verdict>>

\* SchemaStore.Match and, later, SchemaStore.Load each make a FindMatch call
\* of their own; a document without a path is declined at once.
AskStore(c) ==
    \/ /\ Reached(c, "match", {"schemastore"})
       /\ PathOf[doc(c)] # NoPath
       /\ store!Ask(c, PathOf[doc(c)])
       /\ Goto(c, "matching")
       /\ UNCHANGED <<shared, file, pos, at, location, data, validator, verdict>>
    \/ /\ Reached(c, "match", {"schemastore"})
       /\ PathOf[doc(c)] = NoPath
       /\ store!Decline(c)
       /\ NextLoader(c)
       /\ UNCHANGED <<shared, file, pos, location, data, validator, verdict>>
    \/ /\ Reached(c, "load", {"schemastore"})
       /\ store!Ask(c, PathOf[doc(c)])
       /\ Goto(c, "loading")
       /\ UNCHANGED <<shared, file, pos, at, location, data, validator, verdict>>

\* The catalog is refreshed in FindMatch and comes back empty.
StorePanic(c) ==
    /\ pc[c] \in {"matching", "loading"}
    /\ store!Panic(c)
    /\ Finish(c, "panic")
    /\ UNCHANGED shared

\* A store that claims every document it is asked about.
MatchAlways(c) ==
    /\ pc[c] = "matching"
    /\ store!Answer(c)
    /\ Goto(c, "load")
    /\ UNCHANGED <<shared, file, pos, at, location, data, validator, verdict>>

MatchStore(c) ==
    /\ pc[c] = "matching"
    /\ store!Answer(c)
    /\ \/ answer'[c] # NoURL /\ Goto(c, "load") /\ UNCHANGED at
       \/ answer'[c] = NoURL /\ NextLoader(c)
    /\ UNCHANGED <<shared, file, pos, location, data, validator, verdict>>

NoMatch(c) ==
    /\ pc[c] = "match"
    /\ at[c] = Len(MatchLoaders) + 1
    /\ Finish(c, "no match")
    /\ UNCHANGED <<storeVars, shared>>

-----------------------------------------------------------------------------
(* ValidateDocument: loadValidator, then the validation itself.            *)

LoadFrom(c, l) ==
    /\ Goto(c, "fetch")
    /\ location' = [location EXCEPT ![c] = l]
    /\ UNCHANGED <<file, pos, at, data, validator, verdict>>

\* A Match before it always found a directive in the same document, so Load
\* does not come to ErrNoDirective.
LoadDirective(c) ==
    /\ Reached(c, "load", {"directive"})
    /\ ParseAndCache(doc(c))
    /\ \/ /\ slotDirective' # NoRef
          /\ PathOf[doc(c)] # NoPath
          /\ LoadFrom(c, Resolve[doc(c)][slotDirective'])
       \/ /\ slotDirective' # NoRef
          /\ PathOf[doc(c)] = NoPath
          /\ Finish(c, "no file path")
    /\ UNCHANGED <<storeVars, now, cache>>

LoadFunc(c) ==
    /\ Reached(c, "load", Func)
    /\ LoadFrom(c, FuncLocation[loader(c)])
    /\ UNCHANGED <<storeVars, shared>>

LoadStore(c) ==
    /\ pc[c] = "loading"
    /\ store!Answer(c)
    /\ \/ answer'[c] # NoURL /\ LoadFrom(c, answer'[c])
       \/ answer'[c] = NoURL /\ Finish(c, "no catalog match")
    /\ UNCHANGED shared

\* The file is read or the URL fetched; the bytes are whatever is served now.
\* NewResult panics on no bytes, and a panic ends the goroutine's work.
FetchOk(c) ==
    LET bytes == Served[location[c]][now[location[c]]] IN
    /\ pc[c] = "fetch"
    /\ \/ /\ bytes # EmptySchema
          /\ Goto(c, "get")
          /\ data' = [data EXCEPT ![c] = bytes]
          /\ UNCHANGED <<file, pos, at, location, validator, verdict>>
       \/ /\ bytes = EmptySchema
          /\ Finish(c, "panic")
    /\ UNCHANGED <<storeVars, shared>>

\* A registry that goes on to the next match loader when a load fails.
FetchFailContinues(c) ==
    /\ pc[c] = "fetch"
    /\ NextLoader(c)
    /\ location' = [location EXCEPT ![c] = NoURL]
    /\ UNCHANGED <<storeVars, shared, file, pos, data, validator, verdict>>

\* No such file, a status other than 200, too many bytes, a cancelled context.
FetchFail(c) ==
    /\ pc[c] = "fetch"
    /\ Finish(c, "load")
    /\ UNCHANGED <<storeVars, shared>>

Use(c, v) ==
    /\ Goto(c, "validate")
    /\ validator' = [validator EXCEPT ![c] = v]
    /\ data' = [data EXCEPT ![c] = NoSchema]

\* Cache.Get, under the cache's lock.
Get(c) ==
    LET cached == cache[UrlOf(location[c])] IN
    /\ pc[c] = "get"
    /\ \/ cached # NoSchema /\ Use(c, cached)
       \/ cached = NoSchema /\ Goto(c, "compile") /\ UNCHANGED <<data, validator>>
    /\ UNCHANGED <<storeVars, shared, file, pos, at, location, verdict>>

\* A compiler that takes anything.
CompilesAnything(c) == data[c] # NoSchema

Compiles(c) == data[c] \notin BadSchema

CacheAndUse(c, url) ==
    /\ pc[c] = "compile"
    /\ Compiles(c)
    /\ Use(c, data[c])
    /\ \/ url # NoURL /\ cache' = [cache EXCEPT ![url] = data[c]]
       \/ url = NoURL /\ UNCHANGED cache
    /\ UNCHANGED <<storeVars, now, slotDoc, slotDirective, file, pos, at, location, verdict>>

\* A registry that caches the validator of a Result without a URL as well.
CompileCachesAll(c) ==
    /\ pc[c] = "compile"
    /\ Compiles(c)
    /\ Use(c, data[c])
    /\ cache' = [cache EXCEPT ![UrlOf(location[c])] = data[c]]
    /\ UNCHANGED <<storeVars, now, slotDoc, slotDirective, file, pos, at, location, verdict>>

\* CompileJSON, then Cache.Set under the cache's lock: whatever has been
\* cached for the URL since Get is replaced.
CompileOk(c) == CacheAndUse(c, UrlOf(location[c]))

CompileFail(c) ==
    /\ pc[c] = "compile"
    /\ ~Compiles(c)
    /\ Finish(c, "compile")
    /\ UNCHANGED <<storeVars, shared>>

NextDocument(c) ==
    /\ Goto(c, "match")
    /\ pos' = [pos EXCEPT ![c] = @ + 1]
    /\ at' = [at EXCEPT ![c] = 1]
    /\ location' = [location EXCEPT ![c] = NoURL]
    /\ validator' = [validator EXCEPT ![c] = NoSchema]
    /\ UNCHANGED <<file, data, verdict>>

Validate(c) ==
    LET accepted == doc(c) \in Accepts[validator[c]] IN
    /\ pc[c] = "validate"
    /\ \/ accepted /\ pos[c] < Len(file[c]) /\ NextDocument(c)
       \/ accepted /\ pos[c] = Len(file[c]) /\ Finish(c, "valid")
       \/ ~accepted /\ Finish(c, "invalid")
    /\ UNCHANGED <<storeVars, shared>>

-----------------------------------------------------------------------------
(* The world outside: schemas are edited, and the store lives its own life.*)

Edit(l) ==
    /\ now[l] < Len(Served[l])
    /\ now' = [now EXCEPT ![l] = @ + 1]
    /\ UNCHANGED <<storeVars, slotDoc, slotDirective, cache, callerVars>>

StoreStep ==
    /\ store!Publish \/ store!Tick \/ store!Refresh
    /\ UNCHANGED <<shared, callerVars>>

Step(c) ==
    \/ MatchDirective(c) \/ MatchFunc(c) \/ AskStore(c) \/ MatchStore(c) \/ NoMatch(c)
    \/ LoadDirective(c) \/ LoadFunc(c) \/ LoadStore(c)
    \/ Get(c) \/ CompileOk(c) \/ CompileFail(c) \/ Validate(c)

Next ==
    \/ \E c \in Caller :
          \/ \E f \in File : BeginFile(c, f)
          \/ Step(c)
          \/ FetchOk(c)
          \/ FetchFail(c)
          \/ StorePanic(c)
    \/ \E l \in Location : Edit(l)
    \/ StoreStep

Spec == Init /\ [][Next]_vars

-----------------------------------------------------------------------------
(* Properties.                                                             *)

SharedType ==
    /\ published \in Version
    /\ held \in 0 .. published
    /\ asking \in [Caller -> Path \cup {NoPath}]
    /\ answer \in [Caller -> URL \cup {NoURL, Panicked}]
    /\ now \in [Location -> Nat]
    /\ \A l \in Location : now[l] \in DOMAIN Served[l]
    /\ slotDoc \in Doc \cup {NoDoc}
    /\ slotDirective \in Ref \cup {NoRef}
    /\ cache \in [URL \cup {NoURL} -> (Schema \ BadSchema) \cup {NoSchema}]

CallerType ==
    /\ pc \in [Caller -> Phase]
    /\ file \in [Caller -> File \cup {<<>>}]
    /\ pos \in [Caller -> Nat]
    /\ at \in [Caller -> Nat]
    /\ location \in [Caller -> Location \cup {NoURL}]
    /\ data \in [Caller -> Schema \cup {NoSchema}]
    /\ validator \in [Caller -> (Schema \ BadSchema) \cup {NoSchema}]
    /\ verdict \in [Caller -> Verdict]

\* Every variable keeps its type; the cache in particular holds nothing that
\* does not compile.
TypeOK == SharedType /\ CallerType

\* The i-th match loader matches d whatever the catalog is.
SurelyMatches(i, d) ==
    \/ MatchLoaders[i] = "directive" /\ DirectiveOf[d] # NoRef
    \/ MatchLoaders[i] \in Func /\ d \in FuncDocs[MatchLoaders[i]]

\* The schema that a catalog held so far assigns to d.
Cataloged(d, l) ==
    PathOf[d] # NoPath /\ \E v \in 1 .. held : l = FirstMatch(EntriesOf(v), PathOf[d])

\* The i-th match loader takes the schema of d from l.
LoadsFrom(i, d, l) ==
    \/ /\ MatchLoaders[i] = "directive"
       /\ DirectiveOf[d] # NoRef
       /\ l = Resolve[d][DirectiveOf[d]]
    \/ /\ MatchLoaders[i] \in Func
       /\ d \in FuncDocs[MatchLoaders[i]]
       /\ l = FuncLocation[MatchLoaders[i]]
    \/ MatchLoaders[i] = "schemastore" /\ Cataloged(d, l)

\* The i-th match loader may have had reason to leave d to the next.
Unclaimed(i, d) ==
    /\ ~SurelyMatches(i, d)
    /\ MatchLoaders[i] = "schemastore" => PathOf[d] = NoPath \/ Cataloged(d, NoURL)

\* The i-th match loader may have had reason to take d.
Claimed(i, d) ==
    \/ SurelyMatches(i, d)
    \/ /\ MatchLoaders[i] = "schemastore"
       /\ PathOf[d] # NoPath
       /\ \E v \in 1 .. held : FirstMatch(EntriesOf(v), PathOf[d]) # NoURL

\* Location l may decide about d: the user's registrations send d there.
Governs(l, d) ==
    \E i \in DOMAIN MatchLoaders :
        /\ \A j \in 1 .. i - 1 : ~SurelyMatches(j, d)
        /\ LoadsFrom(i, d, l)

\* What l has served until now, and what of it is a usable schema.
ServedSoFar(l) == {Served[l][k] : k \in 1 .. now[l]}
HasServed(l) == ServedSoFar(l) \ BadSchema

\* A document is validated against a schema of the location that its own
\* directive, matcher or catalog entry names, and that no earlier match loader
\* takes from it; whichever goroutine filled the Directive loader's slot, or
\* compiled the validator and put it into the cache.
RightSchema ==
    \A c \in Caller : pc[c] = "validate" =>
        /\ Governs(location[c], doc(c))
        /\ validator[c] \in HasServed(location[c])

AcceptedByRight(d) ==
    \E l \in Location : Governs(l, d) /\ \E s \in HasServed(l) : d \in Accepts[s]

\* A file is reported valid only if each of its documents was accepted by a
\* schema of a location that governs that document: no document is skipped,
\* and no failed load, compilation or match ends as a success.
VerdictEarned ==
    \A c \in Caller : verdict[c] = "valid" =>
        \A k \in DOMAIN file[c] : AcceptedByRight(file[c][k])

\* One catalog held so far lists d, and a later one does not.
MatchLost(d) ==
    \E v, w \in 1 .. held :
        /\ v < w
        /\ FirstMatch(EntriesOf(v), PathOf[d]) # NoURL
        /\ FirstMatch(EntriesOf(w), PathOf[d]) = NoURL

\* Match and Load of the SchemaStore look the catalog up separately.  Load
\* fails to find what Match found only if the catalog was replaced in between
\* by one that no longer lists the file.
CatalogMatchLost ==
    \A c \in Caller : verdict[c] = "no catalog match" => MatchLost(doc(c))

\* ErrNoMatch, which callers may take for "this document needs no schema", is
\* given only for a document that no directive, matcher or catalog claims: the
\* failure to load a schema that was found never comes out as ErrNoMatch.
NoMatchMeansUnclaimed ==
    \A c \in Caller : verdict[c] = "no match" =>
        \A i \in DOMAIN MatchLoaders : Unclaimed(i, doc(c))

-----------------------------------------------------------------------------
(* The inductive invariant: what is shared, and what each goroutine knows. *)

\* The slot holds a document's own directive; the cache, under each URL, a
\* schema that URL has served.
SharedInv ==
    /\ slotDoc # NoDoc => slotDirective = DirectiveOf[slotDoc]
    /\ cache[NoURL] = NoSchema
    /\ \A u \in URL : cache[u] # NoSchema => cache[u] \in HasServed(u)

\* The documents before this one passed, the match loaders before this one
\* left it alone.
Underway(c) == pc[c] # "idle" =>
    /\ file[c] \in File
    /\ pos[c] \in DOMAIN file[c]
    /\ verdict[c] = "none"
    /\ \A k \in 1 .. pos[c] - 1 : AcceptedByRight(file[c][k])
    /\ at[c] \in 1 .. Len(MatchLoaders) + 1
    /\ pc[c] # "match" => at[c] \in DOMAIN MatchLoaders
    /\ \A j \in 1 .. at[c] - 1 : Unclaimed(j, doc(c))

Asking(c) == pc[c] \in {"matching", "loading"} =>
    /\ loader(c) = "schemastore"
    /\ PathOf[doc(c)] # NoPath
    /\ asking[c] = PathOf[doc(c)]
    /\ held > 0

Matched(c) == pc[c] \in {"load", "loading"} => Claimed(at[c], doc(c))

Loaded(c) == pc[c] \in {"fetch", "get", "compile", "validate"} =>
    /\ location[c] \in Location
    /\ LoadsFrom(at[c], doc(c), location[c])
    /\ pc[c] \in {"get", "compile"} => data[c] \in ServedSoFar(location[c])
    /\ pc[c] = "validate" => validator[c] \in HasServed(location[c])

Ended(c) ==
    /\ verdict[c] = "valid" => \A k \in DOMAIN file[c] : AcceptedByRight(file[c][k])
    /\ verdict[c] = "no catalog match" => MatchLost(doc(c))
    /\ verdict[c] = "no match" => \A i \in DOMAIN MatchLoaders : Unclaimed(i, doc(c))

CallerInv(c) == Underway(c) /\ Asking(c) /\ Matched(c) /\ Loaded(c) /\ Ended(c)

IInv == TypeOK /\ SharedInv /\ \A c \in Caller : CallerInv(c)
=============================================================================
