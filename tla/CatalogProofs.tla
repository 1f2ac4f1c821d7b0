---------------------------- MODULE CatalogProofs ----------------------------
(***************************************************************************)
(* What the catalog's operators return, whatever is published and whatever *)
(* its patterns match.                                                     *)
(***************************************************************************)
EXTENDS Catalog, TLAPS, WellFoundedInduction

\* A set of positions that is not empty has a least one.
LEMMA LeastPosition ==
    ASSUME NEW S \in SUBSET Nat, S # {}
    PROVE  \E i \in S : \A j \in S : i <= j
<1>1. IsWellFoundedOn(OpToRel(<, Nat), Nat)
    BY NatLessThanWellFounded
<1>2. PICK i \in S : \A j \in S : ~(<<j, i>> \in OpToRel(<, Nat))
    BY <1>1, WFMin, Zenon
<1>3. \A j \in S : ~(j < i)
    BY <1>2 DEF OpToRel
<1> QED
    BY <1>3

\* What the filter leaves is made of entries a lookup can use.
LEMMA EntriesOfType ==
    ASSUME NEW v \in Version \cup {0}
    PROVE  /\ DOMAIN EntriesOf(v) \subseteq Nat
           /\ \A i \in DOMAIN EntriesOf(v) : EntriesOf(v)[i] \in Entry
<1>1. CASE v = 0
    BY <1>1 DEF EntriesOf
<1>2. CASE v \in Version
    <2>1. Catalogs[v] \in Seq(RawEntry)
        BY <1>2, CatalogAssumption DEF Version
    <2>2. DOMAIN Catalogs[v] = 1 .. Len(Catalogs[v]) /\ Len(Catalogs[v]) \in Nat
        BY <2>1
    <2>3. \A k \in DOMAIN Catalogs[v] : Catalogs[v][k] \in RawEntry
        BY <2>1, <2>2
    <2>4. v # 0
        BY <1>2, CatalogAssumption DEF Version
    <2>5. EntriesOf(v) = FilterAndNormalize(Catalogs[v])
        BY <2>4 DEF EntriesOf
    <2>6. ASSUME NEW i \in DOMAIN Catalogs[v], Usable(Catalogs[v][i])
          PROVE  [url |-> Catalogs[v][i].url,
                  patterns |-> SupportedPatterns(Catalogs[v][i])] \in Entry
        BY <2>3, <2>6, CatalogAssumption DEF RawEntry, Entry, Usable, SupportedPatterns
    <2> QED
        BY <2>2, <2>5, <2>6 DEF FilterAndNormalize
<1> QED
    BY <1>1, <1>2

\* The answer to a lookup is a URL of the catalog or the empty one.
LEMMA FirstMatchType ==
    ASSUME NEW v \in Version \cup {0}, NEW p
    PROVE  FirstMatch(EntriesOf(v), p) \in URL \cup {NoURL}
<1> DEFINE es == EntriesOf(v)
           hits == {i \in DOMAIN es : MatchesEntry(es[i], p)}
<1>1. CASE hits = {}
    BY <1>1 DEF FirstMatch
<1>2. CASE hits # {}
    <2>1. hits \in SUBSET Nat
        BY EntriesOfType
    <2>2. \E i \in hits : \A j \in hits : i <= j
        BY <1>2, <2>1, LeastPosition
    <2> DEFINE i == CHOOSE i \in hits : \A j \in hits : i <= j
    <2>3. i \in hits
        BY <2>2
    <2>4. es[i] \in Entry
        BY <2>3, EntriesOfType
    <2>5. es[i].url \in URL
        BY <2>4 DEF Entry
    <2>6. FirstMatch(es, p) = es[i].url
        BY <1>2 DEF FirstMatch
    <2> QED
        BY <2>5, <2>6
<1> QED
    BY <1>1, <1>2
=============================================================================
