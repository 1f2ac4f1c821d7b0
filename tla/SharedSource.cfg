SPECIFICATION FairSpec
CONSTANTS
    Threads = {t1, t2}
    NoThread = NoThread
    MaxCol = 99
    NormalForm <- MCNormalForm
    Works <- MCWorks
INVARIANTS TypeOK TextFaithful StreamFaithful HighlightsExact MessagesPlaced HunksShowContext
PROPERTIES SpansAreSnapshots EveryoneReturns
CHECK_DEADLOCK FALSE
