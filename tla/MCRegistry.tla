----------------------------- MODULE MCRegistry -----------------------------
(* Two goroutines and seven documents, one for each way to a schema or past it. *)
EXTENDS Registry, TLC

\* The registry of "nyaml validate" between two matchers of the user's.
MCMatchLoaders == <<"directive", "f1", "schemastore", "f2">>

\* d1 and d2 name their schemas, by the same relative reference from two
\* directories; d3 is cataloged, until the second catalog drops it; d4 and d5
\* get schemas without a URL from two matchers, d4 has no path and d5 one that
\* is in no catalog; d6 has a directive but no path, d7 neither.
MCDirectiveOf == [d \in Doc |-> IF d \in {"d1", "d2", "d6"} THEN "r" ELSE "noref"]
MCPathOf == [d \in Doc |-> CASE d \in {"d4", "d6", "d7"} -> "nopath"
                               [] d = "d5" -> "q"
                               [] OTHER -> "p"]
MCResolve == [d \in Doc |-> [r \in Ref |-> IF d = "d1" THEN "u1" ELSE "u2"]]
MCFuncDocs == [f \in Func |-> IF f = "f1" THEN {"d4"} ELSE {"d2", "d5"}]
MCFuncLocation == [f \in Func |-> IF f = "f1" THEN "a1" ELSE "a2"]

\* u1 is edited once, to a schema that no longer takes d1; u2 has been
\* emptied by mistake and is restored to one that does not compile.
MCServed == [l \in Location |->
                CASE l = "u1" -> <<"s1", "s2">>
                  [] l = "u2" -> <<"s2", "empty", "bad">>
                  [] l = "a1" -> <<"s1">>
                  [] l = "a2" -> <<"s2">>]
MCAccepts == [s \in Schema |->
                CASE s = "s1" -> {"d1", "d4", "d5"}
                  [] s = "s2" -> {"d2", "d3"}
                  [] OTHER -> {}]

MCCovers == [k \in Pattern |-> {"p"}]
MCCatalogs == << << [url |-> "u1", patterns |-> Pattern] >>, << >> >>

MCFile == {<<"d1", "d3">>, <<"d2">>, <<"d4", "d5">>, <<"d6">>, <<"d7">>}

Symmetry == Permutations(Caller)
=============================================================================
