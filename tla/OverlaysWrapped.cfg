SPECIFICATION Spec
CONSTANTS
    Threads = {t1, t2}
    NoThread = NoThread
    MaxCol = 99
    NormalForm <- MCNormalForm
    Works <- Narrow
INVARIANT OverlaysOnColumns
CHECK_DEADLOCK FALSE
