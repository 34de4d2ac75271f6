SPECIFICATION Spec
CONSTANTS
    Threads = {m, t1, t2}
    Managers = {m}
    Paths = {p1, p2}
    Queues = {q1, q2, q3, q4}
    NoThread = NoThread
    NoPath = NoPath
    NoQueue = NoQueue
    NeedEncrypted = TRUE
    Discipline = "quiescent"
INVARIANTS ClosedMeansClosed StatusMatchesFile PointersLive
SYMMETRY SafetySymmetry
