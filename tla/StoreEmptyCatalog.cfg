SPECIFICATION Spec
CONSTANTS
    Pattern = {"x", "y", "t"}
    Supported = {"x", "y"}
    Path = {"p1", "p2"}
    Covers <- MCCovers
    URL = {"u1", "u2", "bad"}
    NoURL = "none"
    Panicked = "panicked"
    Accepted = {"u1", "u2"}
    Catalogs <- MCCatalogs
    Caller = {c1, c2}
    NoPath = "nopath"
    TTL = 1
    RefreshTimeout = 1
INVARIANTS StaleAnswers
