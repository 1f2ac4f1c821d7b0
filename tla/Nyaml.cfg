SPECIFICATION NyamlSpec
CONSTANTS
    Blank = Blank
    Texts <- MCTexts
    Sources <- MCSources
    NoTerm <- MCNoTerm
    Terms <- MCByteTerms
    Contains <- MCFound
    Script <- MCScript
    Rows <- MCRows
    Heights = {}
    Widths = {}
    Contexts = {}
    MaxRevisions = 2
    Typed <- MCTyped
    Sizes <- MCSizes
    Sessions <- MCSessions
    MaxInput = 2
CHECK_DEADLOCK FALSE
INVARIANTS PickerHonest MatchesStandOut
