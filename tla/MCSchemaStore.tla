--------------------------- MODULE MCSchemaStore ---------------------------
(* Two goroutines, two catalogs in succession, two schemas.                 *)
EXTENDS SchemaStore

\* "x" is a YAML pattern that covers both paths, "y" one that covers p2, "t"
\* a pattern of a type the library does not read.
MCCovers == [k \in {"x", "y", "t"} |->
                CASE k = "x" -> {"p1", "p2"} [] k = "y" -> {"p2"} [] k = "t" -> {"p1"}]

\* The second catalog puts another schema first.  Both hold entries the filter
\* must drop.
MCCatalogs ==
    << << [url |-> "u1", patterns |-> {"x", "t"}],
          [url |-> "u2", patterns |-> {"y"}],
          [url |-> "none", patterns |-> {"y"}] >>,
       << [url |-> "bad", patterns |-> {"x"}],
          [url |-> "u2", patterns |-> {"t"}],
          [url |-> "u2", patterns |-> {"y"}],
          [url |-> "u1", patterns |-> {"x"}] >> >>
=============================================================================
