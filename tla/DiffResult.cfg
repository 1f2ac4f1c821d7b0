SPECIFICATION Spec
CONSTANTS
    MaxOps = 6
    Script <- MCScript
    Context <- MCContext
INVARIANTS TypeOK SpansExact HeadersRead PanesFaithful PanesTight
