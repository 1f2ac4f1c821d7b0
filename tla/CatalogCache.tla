---------------------------- MODULE CatalogCache ----------------------------
(***************************************************************************)
(* What a SchemaStore promises to those who call FindMatch, without locks, *)
(* contexts or timeouts.  The store holds one published catalog at a time. *)
(* It replaces it only once it has expired, only by one that is at least   *)
(* as recent, and answers a lookup from the catalog it holds at one        *)
(* instant between the call and the return.  While the catalog is expired  *)
(* a lookup may panic instead, and the store stays as it was.              *)
(***************************************************************************)
EXTENDS Catalog

CONSTANTS Caller, NoPath, TTL

VARIABLES
    published,   \* version of the catalog the service serves
    held,        \* version the store holds, 0 before the first fetch
    age,         \* time since the store fetched it, saturating at TTL
    asking,      \* asking[c]: the path c waits for, NoPath when c is idle
    answer       \* answer[c]: what c's last lookup gave: a URL, NoURL or Panicked

abstractVars == <<published, held, age, asking, answer>>

Init ==
    /\ published = 1
    /\ held = 0
    /\ age = TTL
    /\ asking = [c \in Caller |-> NoPath]
    /\ answer = [c \in Caller |-> NoURL]

Publish ==
    /\ published < Len(Catalogs)
    /\ published' = published + 1
    /\ UNCHANGED <<held, age, asking, answer>>

Tick ==
    /\ age < TTL
    /\ age' = age + 1
    /\ UNCHANGED <<published, held, asking, answer>>

Refresh ==
    /\ age = TTL
    /\ held' \in held .. published
    /\ held' > 0
    /\ age' = 0
    /\ UNCHANGED <<published, asking, answer>>

Ask(c, path) ==
    /\ held > 0
    /\ asking[c] = NoPath
    /\ asking' = [asking EXCEPT ![c] = path]
    /\ answer' = [answer EXCEPT ![c] = NoURL]
    /\ UNCHANGED <<published, held, age>>

\* A lookup of the empty path is answered without looking at the catalog.
Decline(c) ==
    /\ held > 0
    /\ asking[c] = NoPath
    /\ answer' = [answer EXCEPT ![c] = NoURL]
    /\ UNCHANGED <<published, held, age, asking>>

Answer(c) ==
    /\ asking[c] # NoPath
    /\ asking' = [asking EXCEPT ![c] = NoPath]
    /\ answer' = [answer EXCEPT ![c] = FirstMatch(EntriesOf(held), asking[c])]
    /\ UNCHANGED <<published, held, age>>

\* The response to a lookup's refresh is empty.
Panic(c) ==
    /\ age = TTL
    /\ asking[c] # NoPath
    /\ asking' = [asking EXCEPT ![c] = NoPath]
    /\ answer' = [answer EXCEPT ![c] = Panicked]
    /\ UNCHANGED <<published, held, age>>

Next ==
    \/ Publish
    \/ Tick
    \/ Refresh
    \/ \E c \in Caller :
          \/ \E path \in Path : Ask(c, path)
          \/ Decline(c)
          \/ Answer(c)
          \/ Panic(c)

Spec == Init /\ [][Next]_abstractVars
=============================================================================
