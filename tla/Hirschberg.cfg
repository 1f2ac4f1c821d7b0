SPECIFICATION Spec
CONSTANTS
    Content = {a, b}
    MaxLen = 4
    Input <- MCInput
SYMMETRY Symmetry
INVARIANTS TypeOK EditScript Shortest DeletionsFirst
PROPERTIES EachCallCounts
