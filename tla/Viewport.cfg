SPECIFICATION BrowseSpec
CONSTANTS
    NoTerm = NoTerm
    Blank = Blank
    Texts <- MCTexts
    Sources <- MCSources
    Terms <- MCTerms
    Contains <- MCContains
    Script <- MCScript
    Rows <- MCRows
    Heights = {2}
    Widths = {}
    Contexts = {3}
    MaxRevisions = 3
INVARIANTS TypeOK ShowsRevisions SearchCurrent HighlightsRight RedrawStable
PROPERTIES MatchVisible LandsInside
