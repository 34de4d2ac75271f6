SPECIFICATION Spec
CONSTANTS
    Threads = {m, n, t}
    Managers = {m, n}
    Paths = {p1}
    Queues = {q1, q2, q3, q4}
    NoThread = NoThread
    NoPath = NoPath
    NoQueue = NoQueue
    NeedEncrypted = TRUE
    Discipline = "any"
INVARIANTS TypeOK LockOwned ForceClosedNotOpened OpenedReady ClosedHoldsNoKey NoLeakedConnection
PROPERTIES BlockKeepsConnection ReopenNeedsSetup
SYMMETRY SafetySymmetry
