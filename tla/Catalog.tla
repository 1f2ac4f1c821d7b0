------------------------------ MODULE Catalog ------------------------------
(***************************************************************************)
(* The SchemaStore catalog as data: what the service publishes, what       *)
(* filterAndNormalizeEntries keeps of it, and which entry answers a path.  *)
(* A pattern is a member of a small set; Covers says which paths its glob  *)
(* matches (by full path or by base name).                                 *)
(***************************************************************************)
EXTENDS Integers, Sequences, FiniteSets

CONSTANTS
    Pattern,     \* glob patterns a catalog entry may list
    Supported,   \* the patterns ending in .yaml, .yml or .json
    Path,        \* file paths a lookup may ask about
    Covers,      \* [Pattern -> SUBSET Path]: MatchAnyWithBase, per pattern
    URL,         \* schema URLs
    NoURL,       \* the empty URL
    Panicked,    \* what a lookup gives that ends in a panic
    Accepted,    \* the URLs the user's filter function accepts
    Catalogs     \* Catalogs[v]: the v-th catalog the service publishes

RawEntry == [url : URL \cup {NoURL}, patterns : SUBSET Pattern]
Entry    == [url : URL, patterns : (SUBSET Supported) \ {{}}]

ASSUME CatalogAssumption ==
    /\ Supported \subseteq Pattern
    /\ Covers \in [Pattern -> SUBSET Path]
    /\ NoURL \notin URL
    /\ Panicked \notin URL \cup {NoURL}
    /\ Accepted \subseteq URL
    /\ Catalogs \in Seq(Seq(RawEntry))
    /\ Len(Catalogs) > 0

Version == 1 .. Len(Catalogs)

\* filterSupportedPatterns.
SupportedPatterns(e) == e.patterns \cap Supported

\* A filter that asks for a pattern before it drops the unsupported ones.
UsableAnyPattern(e) == e.url # NoURL /\ e.url \in Accepted /\ e.patterns # {}

\* An entry with no URL, with no pattern the library can use, or refused by
\* the filter is dropped.
Usable(e) ==
    /\ e.url # NoURL
    /\ e.url \in Accepted
    /\ SupportedPatterns(e) # {}

\* filterAndNormalizeEntries.  Entries keep the positions they have in the
\* catalog: only their order matters to a lookup, so the gaps are harmless.
FilterAndNormalize(catalog) ==
    [i \in {k \in DOMAIN catalog : Usable(catalog[k])} |->
        [url |-> catalog[i].url, patterns |-> SupportedPatterns(catalog[i])]]

MatchesEntry(e, path) == \E p \in e.patterns : path \in Covers[p]

\* The URL of the first entry that matches, NoURL when none does.
FirstMatch(entries, path) ==
    LET hits == {i \in DOMAIN entries : MatchesEntry(entries[i], path)}
    IN  IF hits = {} THEN NoURL
        ELSE entries[CHOOSE i \in hits : \A j \in hits : i <= j].url

\* The entries held after a successful fetch of version v; 0 is "never".
EntriesOf(v) == IF v = 0 THEN <<>> ELSE FilterAndNormalize(Catalogs[v])
=============================================================================
