SPECIFICATION FairSpec
CONSTANTS
    Threads = {m, t1}
    Managers = {m}
    Paths = {p1, p2}
    Queues = {q1, q2, q3}
    NoThread = NoThread
    NoPath = NoPath
    NoQueue = NoQueue
    NeedEncrypted = FALSE
    Discipline = "closed_first"
INVARIANTS BlockRunsWhereAdmitted SessionMatchesPath
PROPERTIES LockReleased AdmittedEnds
