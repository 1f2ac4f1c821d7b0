SPECIFICATION FairSpec
CONSTANTS
    Threads = {t1, t2}
    NoThread = NoThread
    MaxCol = 99
    NormalForm <- MCNormalForm
    Works <- Endless
PROPERTY FindReturns
CHECK_DEADLOCK FALSE
