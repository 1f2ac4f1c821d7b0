SPECIFICATION TimedSpec
CONSTANTS
    Pattern = {"x"}
    Supported = {"x"}
    Path = {"p1"}
    Covers <- MCCovers
    URL = {"u1"}
    NoURL = "none"
    Panicked = "panicked"
    Accepted = {"u1"}
    Catalogs <- MCCatalogs
    Caller = {c1, c2, c3}
    NoPath = "nopath"
    TTL = 1
    RefreshTimeout = 2
SYMMETRY Symmetry
INVARIANTS LookupBounded
