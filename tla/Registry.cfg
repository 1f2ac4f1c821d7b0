SPECIFICATION Spec
CONSTANTS
    Pattern = {"x"}
    Supported = {"x"}
    Path = {"p", "q"}
    Covers <- MCCovers
    URL = {"u1", "u2"}
    NoURL = "none"
    Panicked = "panicked"
    Accepted = {"u1", "u2"}
    Catalogs <- MCCatalogs
    Caller = {c1, c2}
    NoPath = "nopath"
    TTL = 1
    Doc = {"d1", "d2", "d3", "d4", "d5", "d6", "d7"}
    NoDoc = "nodoc"
    PathOf <- MCPathOf
    Ref = {"r"}
    NoRef = "noref"
    DirectiveOf <- MCDirectiveOf
    Resolve <- MCResolve
    Anonymous = {"a1", "a2"}
    Func = {"f1", "f2"}
    FuncDocs <- MCFuncDocs
    FuncLocation <- MCFuncLocation
    MatchLoaders <- MCMatchLoaders
    Schema = {"s1", "s2", "bad", "empty"}
    BadSchema = {"bad", "empty"}
    EmptySchema = "empty"
    NoSchema = "noschema"
    Served <- MCServed
    Accepts <- MCAccepts
    File <- MCFile
SYMMETRY Symmetry
INVARIANTS TypeOK RightSchema VerdictEarned CatalogMatchLost NoMatchMeansUnclaimed
