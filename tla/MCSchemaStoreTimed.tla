------------------------- MODULE MCSchemaStoreTimed -------------------------
(* Three goroutines contending for one path and one catalog.                *)
EXTENDS SchemaStoreTimed, TLC

MCCovers == [k \in {"x"} |-> {"p1"}]

MCCatalogs == << << [url |-> "u1", patterns |-> {"x"}] >> >>

Symmetry == Permutations(Caller)
=============================================================================
