----------------------- MODULE DBSessionClientProofs -----------------------
(***************************************************************************)
(* What holds of DBSession for a client that keeps to a discipline: one    *)
(* manager, which closes before it configures another path (ClosedFirst),  *)
(* and which closes while no operation is at work (Quiescent).  The        *)
(* threads that run operations, the paths and the queue objects are any.   *)
(***************************************************************************)
EXTENDS DBSessionProofs

ClosedFirst ==
    /\ Discipline # "any"
    /\ \A a, b \in Managers : a = b

Quiescent == ClosedFirst /\ Discipline = "quiescent"

\* Only a manager is inside setup or close.
ManagersManage ==
    \A t \in Threads : pc[t] \in {"setup_lock", "setup_clear"} \cup Closing => t \in Managers

\* A setup finds the database closed, or never configured, until it is done.
SetupFindsClosed ==
    \A t \in Threads :
      /\ pc[t] = "setup_lock" => isForceClosed \/ dbPath = NoPath
      /\ pc[t] = "setup_clear" => ~isOpened

\* The queue that is being opened is on the configured path.
OpeningPath ==
    \A t \in Threads : pc[t] \in {"open_configure", "open_migrate"} => path[fmdbQueue] = dbPath

\* The invariant of a client that closes first.
PathInv ==
    /\ ManagersManage
    /\ SetupFindsClosed
    /\ OpeningPath
    /\ isOpened => dbPath # NoPath /\ fmdbQueue # NoQueue
    /\ SessionMatchesPath

\* Until closeDB has returned, an operation that openDB let through is one on
\* the configured database, and on its queue.
RunsOnConfigured ==
    \A t \in Threads : pc[t] \in Running /\ admitted[t] # NoPath =>
      /\ isOpened \/ \E u \in Threads : pc[u] = "close_forced"
      /\ admitted[t] = dbPath
      /\ fmdbQueue # NoQueue /\ path[fmdbQueue] = dbPath
      /\ loaded[t] \in {NoQueue, fmdbQueue}
      /\ held[t] \in {NoQueue, fmdbQueue}

\* closeDB runs alone, and leaves no connection.
ClosesAlone ==
    \A t \in Threads :
      /\ pc[t] \in Closing => \A u \in Threads \ {t} : pc[u] \in {"idle", "setup_lock"}
      /\ pc[t] \in {"close_opened", "close_forced"} => \A q \in Queues : conn[q] = "closed"

\* An operation at work is one on the open database, and on its queue.
RunsOnOpened ==
    \A t \in Threads : pc[t] \in Running =>
      /\ isOpened
      /\ loaded[t] \in {NoQueue, fmdbQueue}
      /\ held[t] \in {NoQueue, fmdbQueue}

StatusNeedsKey == \A p \in Paths : status[p] => NeedEncrypted

\* The invariant of a quiescent client.
QuietInv ==
    /\ ClosesAlone
    /\ RunsOnOpened
    /\ ClosedMeansClosed
    /\ StatusNeedsKey
    /\ StatusMatchesFile

-----------------------------------------------------------------------------
(* One manager that closes first: the open database is the configured one *)

\* A process starts with nothing open and nothing configured.
LEMMA PathInit == Init => PathInv
<1>1. QED
  BY DEF Init, PathInv, ManagersManage, SetupFindsClosed, OpeningPath,
     SessionMatchesPath, Closing

\* The path changes under the lock of a setup that found the database closed;
\* only a manager clears the flag that said so, and it is in no other setup.
LEMMA SetupKeepsPath ==
    ASSUME ClosedFirst, SessionInv, PathInv, NEW t \in Threads, Setup(t)
    PROVE  PathInv'
<1>1. ASSUME NEW p \in Paths, SetupCheck(t, p) PROVE PathInv'
  BY SessionAssumption, <1>1 DEF ClosedFirst, PathInv, ManagersManage,
     SetupFindsClosed, OpeningPath, SessionMatchesPath, SessionInv, TypeOK,
     LockOwned, Locked, Closing, Opening, Goto, SetupCheck, MaySetup, flags,
     queues, op
<1>2. ASSUME SetupPath(t) PROVE PathInv'
  BY SessionAssumption, <1>2 DEF ClosedFirst, PathInv, ManagersManage,
     SetupFindsClosed, OpeningPath, SessionMatchesPath, SessionInv, TypeOK,
     LockOwned, Locked, Closing, Opening, Goto, SetupPath, queues, op,
     OpeningFacts, ForceClosedNotOpened
<1>3. ASSUME SetupClear(t) PROVE PathInv'
  BY SessionAssumption, <1>3 DEF ClosedFirst, PathInv, ManagersManage,
     SetupFindsClosed, OpeningPath, SessionMatchesPath, SessionInv, TypeOK,
     LockOwned, Locked, Closing, Opening, Goto, SetupClear, queues, op
<1>4. QED
  BY <1>1, <1>2, <1>3 DEF Setup

\* closeDB takes the lock, and clears isOpened before it sets the other flag.
LEMMA CloseKeepsPath ==
    ASSUME ClosedFirst, SessionInv, PathInv, NEW t \in Threads, Close(t)
    PROVE  PathInv'
<1>1. ASSUME CloseLock(t) PROVE PathInv'
  BY SessionAssumption, <1>1 DEF ClosedFirst, PathInv, ManagersManage,
     SetupFindsClosed, OpeningPath, SessionMatchesPath, SessionInv, TypeOK,
     LockOwned, Locked, Closing, Opening, Goto, CloseLock, MayClose, flags,
     queues, op
<1>2. ASSUME CloseDrain(t) PROVE PathInv'
  BY SessionAssumption, <1>2 DEF ClosedFirst, PathInv, ManagersManage,
     SetupFindsClosed, OpeningPath, SessionMatchesPath, SessionInv, TypeOK,
     LockOwned, Locked, Closing, Opening, Goto, CloseDrain, flags, op
<1>3. ASSUME CloseOpened(t) PROVE PathInv'
  BY SessionAssumption, <1>3 DEF ClosedFirst, PathInv, ManagersManage,
     SetupFindsClosed, OpeningPath, SessionMatchesPath, SessionInv, TypeOK,
     LockOwned, Locked, Closing, Opening, Goto, CloseOpened, queues, op
<1>4. ASSUME CloseForced(t) PROVE PathInv'
  BY SessionAssumption, <1>4 DEF ClosedFirst, PathInv, ManagersManage,
     SetupFindsClosed, OpeningPath, SessionMatchesPath, SessionInv, TypeOK,
     LockOwned, Locked, Closing, Opening, Goto, CloseForced, queues, op,
     ClosingFacts
<1>5. QED
  BY <1>1, <1>2, <1>3, <1>4 DEF Close

\* openDB publishes a queue on the configured path, with the lock that every
\* change of the path needs.
LEMMA OpenDBKeepsPath ==
    ASSUME ClosedFirst, SessionInv, PathInv, NEW t \in Threads, OpenDB(t)
    PROVE  PathInv'
<1>1. ASSUME OpenFast(t) \/ OpenAlready(t) PROVE PathInv'
  BY SessionAssumption, <1>1 DEF ClosedFirst, PathInv, ManagersManage,
     SetupFindsClosed, OpeningPath, SessionMatchesPath, SessionInv, TypeOK,
     LockOwned, Locked, Closing, Opening, Goto, OpenFast, OpenAlready,
     Admit, flags, queues
<1>2. ASSUME OpenSlow(t) \/ OpenCheck(t) \/ OpenRefused(t) PROVE PathInv'
  BY SessionAssumption, <1>2 DEF ClosedFirst, PathInv, ManagersManage,
     SetupFindsClosed, OpeningPath, SessionMatchesPath, SessionInv, TypeOK,
     LockOwned, Locked, Closing, Opening, Goto, OpenSlow, OpenCheck,
     OpenRefused, flags, queues, op
<1>3. ASSUME OpenLock(t) \/ OpenUpgrade(t) PROVE PathInv'
  BY SessionAssumption, <1>3 DEF ClosedFirst, PathInv, ManagersManage,
     SetupFindsClosed, OpeningPath, SessionMatchesPath, SessionInv, TypeOK,
     LockOwned, Locked, Closing, Opening, Goto, OpenLock, OpenUpgrade,
     flags, queues, op
<1>4. ASSUME NEW q \in Queues, OpenPublish(t, q) PROVE PathInv'
  BY SessionAssumption, <1>4 DEF ClosedFirst, PathInv, ManagersManage,
     SetupFindsClosed, OpeningPath, SessionMatchesPath, SessionInv, TypeOK,
     LockOwned, Locked, Closing, Opening, Goto, OpenPublish, Without, flags,
     op, OpeningFacts
<1>5. ASSUME OpenFail(t) PROVE PathInv'
  BY SessionAssumption, <1>5 DEF ClosedFirst, PathInv, ManagersManage,
     SetupFindsClosed, OpeningPath, SessionMatchesPath, SessionInv, TypeOK,
     LockOwned, Locked, Closing, Opening, Goto, OpenFail, op
<1>6. ASSUME OpenConfigure(t) PROVE PathInv'
  BY SessionAssumption, <1>6 DEF ClosedFirst, PathInv, ManagersManage,
     SetupFindsClosed, OpeningPath, SessionMatchesPath, SessionInv, TypeOK,
     LockOwned, Locked, Closing, Opening, Goto, OpenConfigure, flags, op
<1>7. ASSUME NEW tables \in BOOLEAN, OpenMigrate(t, tables) PROVE PathInv'
  BY SessionAssumption, <1>7 DEF ClosedFirst, PathInv, ManagersManage,
     SetupFindsClosed, OpeningPath, SessionMatchesPath, SessionInv, TypeOK,
     LockOwned, Locked, Closing, Opening, Goto, OpenMigrate, Admit,
     OpeningFacts
<1>8. QED
  BY <1>1, <1>2, <1>3, <1>4, <1>5, <1>6, <1>7 DEF OpenDB

\* A block that ends never takes the published queue with it.
LEMMA OperateKeepsPath ==
    ASSUME ClosedFirst, SessionInv, PathInv, NEW t \in Threads, Operate(t)
    PROVE  PathInv'
<1>1. ASSUME UpdateTableInDB(t) \/ OpLoad(t) \/ OpNil(t) \/ OpRetain(t) PROVE PathInv'
  BY SessionAssumption, <1>1 DEF ClosedFirst, PathInv, ManagersManage,
     SetupFindsClosed, OpeningPath, SessionMatchesPath, SessionInv, TypeOK,
     LockOwned, Locked, Closing, Opening, Goto, UpdateTableInDB, OpLoad,
     OpNil, OpRetain, EndOperation, flags, queues
<1>2. ASSUME OpEnter(t) PROVE PathInv'
  BY SessionAssumption, <1>2 DEF ClosedFirst, PathInv, ManagersManage,
     SetupFindsClosed, OpeningPath, SessionMatchesPath, SessionInv, TypeOK,
     LockOwned, Locked, Closing, Opening, Goto, OpEnter, flags, op
<1>3. ASSUME NEW creates \in BOOLEAN, OpBlock(t, creates) PROVE PathInv'
  BY SessionAssumption, <1>3 DEF ClosedFirst, PathInv, ManagersManage,
     SetupFindsClosed, OpeningPath, SessionMatchesPath, SessionInv, TypeOK,
     LockOwned, Locked, Closing, Opening, Goto, OpBlock, LeaveBlock,
     EndOperation, Without, flags, OpeningFacts
<1>4. ASSUME OpExists(t) PROVE PathInv'
  BY SessionAssumption, <1>4 DEF ClosedFirst, PathInv, ManagersManage,
     SetupFindsClosed, OpeningPath, SessionMatchesPath, SessionInv, TypeOK,
     LockOwned, Locked, Closing, Opening, Goto, OpExists, LeaveBlock,
     Without, flags, OpeningFacts
<1>5. ASSUME OpDangling(t) PROVE PathInv'
  BY <1>5 DEF PathInv, ManagersManage, SetupFindsClosed, OpeningPath,
     SessionMatchesPath, Closing, OpDangling
<1>6. QED
  BY <1>1, <1>2, <1>3, <1>4, <1>5 DEF Operate

\* Every step of a client that closes first keeps its invariant.
LEMMA PathKeeps ==
    ASSUME ClosedFirst
    PROVE  SessionInv /\ PathInv /\ [Next]_vars => PathInv'
<1>1. ASSUME PathInv, UNCHANGED vars PROVE PathInv'
  BY <1>1 DEF PathInv, ManagersManage, SetupFindsClosed, OpeningPath,
     SessionMatchesPath, vars, flags, queues
<1>2. QED
  BY <1>1, SetupKeepsPath, CloseKeepsPath, OpenDBKeepsPath, OperateKeepsPath DEF Next

\* Of a single manager that closes before it configures another path, the open
\* database is always the configured one.
THEOREM OpensConfigured ==
    ASSUME ClosedFirst
    PROVE  Spec => []SessionMatchesPath
<1>1. SessionInv /\ PathInv /\ [Next]_vars => PathInv'
  BY PathKeeps
<1>2. PathInv => SessionMatchesPath
  BY DEF PathInv
<1>3. QED
  BY <1>1, <1>2, PathInit, SessionInvariant, PTL DEF Spec

-----------------------------------------------------------------------------
(* The same client: blocks run where their operations were admitted *)

\* A setup finds the database closed, and so no operation that counts.
LEMMA SetupKeepsAdmitted ==
    ASSUME ClosedFirst, SessionInv, PathInv, RunsOnConfigured, NEW t \in Threads, Setup(t)
    PROVE  RunsOnConfigured'
<1>1. ASSUME NEW p \in Paths, SetupCheck(t, p) PROVE RunsOnConfigured'
  BY <1>1 DEF RunsOnConfigured, SessionInv, TypeOK, Running, Goto, SetupCheck, flags,
     queues, op
<1>2. ASSUME SetupPath(t) PROVE RunsOnConfigured'
  BY SessionAssumption, <1>2 DEF PathInv, SetupFindsClosed, RunsOnConfigured, SessionInv,
     TypeOK, LockOwned, Locked, Closing, Running, Goto, SetupPath, queues, op,
     ForceClosedNotOpened
<1>3. ASSUME SetupClear(t) PROVE RunsOnConfigured'
  BY <1>3 DEF RunsOnConfigured, SessionInv, TypeOK, Running, Goto, SetupClear, queues, op
<1>4. QED
  BY <1>1, <1>2, <1>3 DEF Setup

\* When closeDB returns no operation counts any more.
LEMMA CloseKeepsAdmitted ==
    ASSUME ClosedFirst, SessionInv, PathInv, RunsOnConfigured, NEW t \in Threads, Close(t)
    PROVE  RunsOnConfigured'
<1>1. ASSUME CloseLock(t) PROVE RunsOnConfigured'
  BY <1>1 DEF RunsOnConfigured, SessionInv, TypeOK, Running, Goto, CloseLock, flags,
     queues, op
<1>2. ASSUME CloseDrain(t) PROVE RunsOnConfigured'
  BY <1>2 DEF RunsOnConfigured, SessionInv, TypeOK, Running, Goto, CloseDrain, flags, op
<1>3. ASSUME CloseOpened(t) PROVE RunsOnConfigured'
  BY <1>3 DEF RunsOnConfigured, SessionInv, TypeOK, Running, Goto, CloseOpened, queues, op
<1>4. ASSUME CloseForced(t) PROVE RunsOnConfigured'
  BY <1>4 DEF RunsOnConfigured, CloseForced
<1>5. QED
  BY <1>1, <1>2, <1>3, <1>4 DEF Close

\* An opener finds the database closed; one that is open admits to it.
LEMMA OpenDBKeepsAdmitted ==
    ASSUME ClosedFirst, SessionInv, PathInv, RunsOnConfigured, NEW t \in Threads, OpenDB(t)
    PROVE  RunsOnConfigured'
<1>1. ASSUME OpenFast(t) \/ OpenAlready(t) PROVE RunsOnConfigured'
  BY SessionAssumption, <1>1 DEF PathInv, SessionMatchesPath, RunsOnConfigured, SessionInv,
     TypeOK, HoldsQueue, Running, Goto, OpenFast, OpenAlready, Admit, flags, queues
<1>2. ASSUME OpenSlow(t) \/ OpenCheck(t) \/ OpenRefused(t) \/ OpenLock(t) \/ OpenUpgrade(t)
      PROVE  RunsOnConfigured'
  BY <1>2 DEF RunsOnConfigured, SessionInv, TypeOK, Running, Goto, OpenSlow, OpenCheck,
     OpenRefused, OpenLock, OpenUpgrade, flags, queues, op
<1>3. ASSUME pc[t] \in Opening, NEW u \in Threads, pc[u] \in Running
      PROVE  admitted[u] = NoPath
  BY SessionAssumption, <1>3 DEF RunsOnConfigured, SessionInv, TypeOK, LockOwned, Locked,
     Closing, Opening, OpeningFacts
<1>4. ASSUME NEW q \in Queues, OpenPublish(t, q) PROVE RunsOnConfigured'
  BY <1>3, <1>4 DEF RunsOnConfigured, SessionInv, TypeOK, Opening, Running, Goto,
     OpenPublish, op
<1>5. ASSUME OpenFail(t) PROVE RunsOnConfigured'
  BY <1>3, <1>5 DEF RunsOnConfigured, SessionInv, TypeOK, Opening, Running, Goto, OpenFail,
     op
<1>6. ASSUME OpenConfigure(t) PROVE RunsOnConfigured'
  BY <1>6 DEF RunsOnConfigured, SessionInv, TypeOK, Running, Goto, OpenConfigure, flags, op
<1>7. ASSUME NEW tables \in BOOLEAN, OpenMigrate(t, tables) PROVE RunsOnConfigured'
  BY <1>3, <1>7 DEF PathInv, OpeningPath, OpeningFacts, RunsOnConfigured, SessionInv, TypeOK, HoldsQueue,
     Opening, Running, Goto, OpenMigrate, Admit
<1>8. QED
  BY <1>1, <1>2, <1>4, <1>5, <1>6, <1>7 DEF OpenDB

\* An operation loads the published queue, which is the configured one.
LEMMA OperateKeepsAdmitted ==
    ASSUME ClosedFirst, SessionInv, PathInv, RunsOnConfigured, NEW t \in Threads, Operate(t)
    PROVE  RunsOnConfigured'
<1>1. ASSUME UpdateTableInDB(t) PROVE FALSE
  BY <1>1 DEF ClosedFirst, UpdateTableInDB
<1>2. ASSUME OpLoad(t) \/ OpNil(t) \/ OpRetain(t) PROVE RunsOnConfigured'
  BY <1>2 DEF RunsOnConfigured, SessionInv, TypeOK, Running, Goto, OpLoad, OpNil, OpRetain,
     EndOperation, flags, queues
<1>3. ASSUME OpDangling(t) PROVE RunsOnConfigured'
  BY <1>3 DEF RunsOnConfigured, Running, OpDangling
<1>4. ASSUME OpEnter(t) PROVE RunsOnConfigured'
  BY <1>4 DEF RunsOnConfigured, SessionInv, TypeOK, Running, Goto, OpEnter, flags, op
<1>5. ASSUME pc[t] = "op_block", LeaveBlock(t), UNCHANGED <<flags, fmdbQueue>>,
             EndOperation(t) \/ (Goto(t, "op_load") /\ UNCHANGED admitted)
      PROVE  RunsOnConfigured'
  <2> SUFFICES ASSUME NEW u \in Threads, pc'[u] \in Running, admitted'[u] # NoPath
               PROVE  /\ isOpened' \/ \E v \in Threads : pc'[v] = "close_forced"
                      /\ admitted'[u] = dbPath'
                      /\ fmdbQueue' # NoQueue /\ path'[fmdbQueue'] = dbPath'
                      /\ loaded'[u] \in {NoQueue, fmdbQueue'}
                      /\ held'[u] \in {NoQueue, fmdbQueue'}
    BY DEF RunsOnConfigured
  <2>1. pc[u] \in Running /\ admitted[u] # NoPath /\ admitted'[u] = admitted[u]
    BY <1>5 DEF SessionInv, TypeOK, EndOperation, Goto, Running
  <2>3. isOpened' \/ \E v \in Threads : pc'[v] = "close_forced"
    <3>1. CASE isOpened
      BY <1>5, <3>1 DEF flags
    <3>2. ASSUME NEW v \in Threads, pc[v] = "close_forced" PROVE pc'[v] = "close_forced"
      BY <1>5, <3>2 DEF SessionInv, TypeOK, EndOperation, Goto, LeaveBlock, HoldsQueue, Running
    <3> QED BY <2>1, <3>1, <3>2 DEF RunsOnConfigured
  <2>4. /\ admitted'[u] = dbPath'
        /\ loaded'[u] \in {NoQueue, fmdbQueue'}
        /\ held'[u] \in {NoQueue, fmdbQueue'}
    BY <1>5, <2>1 DEF RunsOnConfigured, SessionInv, TypeOK, LeaveBlock, flags
  <2>5. fmdbQueue' # NoQueue /\ path'[fmdbQueue'] = dbPath'
    BY <1>5, <2>1 DEF RunsOnConfigured, SessionInv, TypeOK, LeaveBlock, Without, flags
  <2> QED BY <2>3, <2>4, <2>5
<1>6. QED
  BY <1>1, <1>2, <1>3, <1>4, <1>5 DEF Operate, OpBlock, OpExists

\* A block of a single manager's client runs on the database its operation was
\* admitted to, although it loads the queue without the lock, unless closeDB
\* has returned in between.
THEOREM RunsWhereAdmitted ==
    ASSUME ClosedFirst
    PROVE  Spec => []BlockRunsWhereAdmitted
<1>1. Init => RunsOnConfigured
  BY DEF Init, RunsOnConfigured, Running
<1>2. SessionInv /\ PathInv /\ RunsOnConfigured /\ [Next]_vars => RunsOnConfigured'
  <2>1. ASSUME RunsOnConfigured, UNCHANGED vars PROVE RunsOnConfigured'
    BY <2>1 DEF RunsOnConfigured, vars, flags, queues, op
  <2>2. QED
    BY <2>1, SetupKeepsAdmitted, CloseKeepsAdmitted, OpenDBKeepsAdmitted,
       OperateKeepsAdmitted DEF Next
<1>3. SessionInv /\ RunsOnConfigured => BlockRunsWhereAdmitted
  BY DEF SessionInv, HoldsQueue, RunsOnConfigured, BlockRunsWhereAdmitted, Running
<1>4. SessionInv /\ PathInv /\ [Next]_vars => PathInv'
  BY PathKeeps
<1>5. QED
  BY <1>1, <1>2, <1>3, <1>4, PathInit, SessionInvariant, PTL DEF Spec

-----------------------------------------------------------------------------
(* A quiescent client: closed is closed, and no pointer dangles *)

\* A process starts with no connection and a status that fits the files.
LEMMA QuietInit == Init => QuietInv
<1>1. QED
  BY DEF Init, QuietInv, ClosesAlone, RunsOnOpened, ClosedMeansClosed,
     StatusNeedsKey, StatusMatchesFile, Closing, Running, Format

\* A setup that changes the path finds no operation at work.
LEMMA SetupKeepsQuiet ==
    ASSUME Quiescent, SessionInv, NoLeakedConnection, PathInv, QuietInv,
           NEW t \in Threads, Setup(t)
    PROVE  QuietInv'
<1>1. ASSUME NEW p \in Paths, SetupCheck(t, p) PROVE QuietInv'
  BY SessionAssumption, <1>1 DEF Quiescent, ClosedFirst, QuietInv,
     ClosesAlone, RunsOnOpened, ClosedMeansClosed, StatusNeedsKey,
     StatusMatchesFile, SessionInv, TypeOK, LockOwned, Locked, Closing,
     Opening, Running, Goto, SetupCheck, MaySetup, flags, queues, op, disk
<1>2. ASSUME SetupPath(t) PROVE QuietInv'
  BY SessionAssumption, <1>2 DEF Quiescent, ClosedFirst, QuietInv,
     ClosesAlone, RunsOnOpened, ClosedMeansClosed, StatusNeedsKey,
     StatusMatchesFile, SessionInv, TypeOK, LockOwned, Locked, Closing,
     Opening, Running, Goto, PathInv, ManagersManage, SetupFindsClosed,
     SetupPath, queues, op, disk, ForceClosedNotOpened
<1>3. ASSUME SetupClear(t) PROVE QuietInv'
  BY SessionAssumption, <1>3 DEF Quiescent, ClosedFirst, QuietInv,
     ClosesAlone, RunsOnOpened, ClosedMeansClosed, StatusNeedsKey,
     StatusMatchesFile, SessionInv, TypeOK, LockOwned, Locked, Closing,
     Opening, Running, Goto, SetupClear, queues, op, disk
<1>4. QED
  BY <1>1, <1>2, <1>3 DEF Setup

\* closeDB finds every other thread outside the library, so the connection it
\* closes is the only one.
LEMMA CloseKeepsQuiet ==
    ASSUME Quiescent, SessionInv, NoLeakedConnection, PathInv, QuietInv,
           NEW t \in Threads, Close(t)
    PROVE  QuietInv'
<1>1. ASSUME CloseLock(t) PROVE QuietInv'
  BY SessionAssumption, <1>1 DEF Quiescent, ClosedFirst, QuietInv,
     ClosesAlone, RunsOnOpened, ClosedMeansClosed, StatusNeedsKey,
     StatusMatchesFile, SessionInv, TypeOK, LockOwned, Locked, Closing,
     Opening, Running, Goto, CloseLock, MayClose, flags, queues, op, disk
<1>2. ASSUME CloseDrain(t) PROVE QuietInv'
  BY SessionAssumption, <1>2 DEF Quiescent, ClosedFirst, QuietInv,
     ClosesAlone, RunsOnOpened, ClosedMeansClosed, StatusNeedsKey,
     StatusMatchesFile, SessionInv, TypeOK, LockOwned, Locked, Closing,
     Opening, Running, Goto, CloseDrain, flags, op, disk,
     NoLeakedConnection, Live, HoldsQueue
<1>3. ASSUME CloseOpened(t) PROVE QuietInv'
  BY SessionAssumption, <1>3 DEF Quiescent, ClosedFirst, QuietInv,
     ClosesAlone, RunsOnOpened, ClosedMeansClosed, StatusNeedsKey,
     StatusMatchesFile, SessionInv, TypeOK, LockOwned, Locked, Closing,
     Opening, Running, Goto, CloseOpened, queues, op, disk
<1>4. ASSUME CloseForced(t) PROVE QuietInv'
  BY SessionAssumption, <1>4 DEF Quiescent, ClosedFirst, QuietInv,
     ClosesAlone, RunsOnOpened, ClosedMeansClosed, StatusNeedsKey,
     StatusMatchesFile, SessionInv, TypeOK, LockOwned, Locked, Closing,
     Opening, Running, Goto, CloseForced, queues, op, disk
<1>5. QED
  BY <1>1, <1>2, <1>3, <1>4 DEF Close

\* openDB opens with nobody at work, and writes with the key if the status says so.
LEMMA OpenDBKeepsQuiet ==
    ASSUME Quiescent, SessionInv, NoLeakedConnection, PathInv, QuietInv,
           NEW t \in Threads, OpenDB(t)
    PROVE  QuietInv'
<1>1. ASSUME OpenFast(t) \/ OpenAlready(t) PROVE QuietInv'
  BY SessionAssumption, <1>1 DEF Quiescent, ClosedFirst, QuietInv,
     ClosesAlone, RunsOnOpened, ClosedMeansClosed, StatusNeedsKey,
     StatusMatchesFile, SessionInv, TypeOK, LockOwned, Locked, Closing,
     Opening, Running, Goto, OpenFast, OpenAlready, MayStart, Admit, flags,
     queues, disk, HoldsQueue
<1>2. ASSUME OpenSlow(t) \/ OpenCheck(t) \/ OpenRefused(t) PROVE QuietInv'
  BY SessionAssumption, <1>2 DEF Quiescent, ClosedFirst, QuietInv,
     ClosesAlone, RunsOnOpened, ClosedMeansClosed, StatusNeedsKey,
     StatusMatchesFile, SessionInv, TypeOK, LockOwned, Locked, Closing,
     Opening, Running, Goto, OpenSlow, OpenCheck, OpenRefused, MayStart,
     flags, queues, op, disk
<1>3. ASSUME OpenLock(t) PROVE QuietInv'
  BY SessionAssumption, <1>3 DEF Quiescent, ClosedFirst, QuietInv,
     ClosesAlone, RunsOnOpened, ClosedMeansClosed, StatusNeedsKey,
     StatusMatchesFile, SessionInv, TypeOK, LockOwned, Locked, Closing,
     Opening, Running, Goto, OpenLock, flags, queues, op, disk
<1>4. ASSUME OpenUpgrade(t) PROVE QuietInv'
  BY SessionAssumption, <1>4 DEF Quiescent, ClosedFirst, QuietInv,
     ClosesAlone, RunsOnOpened, ClosedMeansClosed, StatusNeedsKey,
     StatusMatchesFile, SessionInv, TypeOK, LockOwned, Locked, Closing,
     Opening, Running, Goto, OpenUpgrade, flags, queues, op
<1>5. ASSUME NEW q \in Queues, OpenPublish(t, q) PROVE QuietInv'
  BY SessionAssumption, <1>5 DEF Quiescent, ClosedFirst, QuietInv,
     ClosesAlone, RunsOnOpened, ClosedMeansClosed, StatusNeedsKey,
     StatusMatchesFile, SessionInv, TypeOK, LockOwned, Locked, Closing,
     Opening, Running, Goto, OpenPublish, Without, flags, op, disk,
     OpeningFacts
<1>6. ASSUME OpenFail(t) PROVE QuietInv'
  BY SessionAssumption, <1>6 DEF Quiescent, ClosedFirst, QuietInv,
     ClosesAlone, RunsOnOpened, ClosedMeansClosed, StatusNeedsKey,
     StatusMatchesFile, SessionInv, TypeOK, LockOwned, Locked, Closing,
     Opening, Running, Goto, OpenFail, Without, op, disk, OpeningFacts
<1>7. ASSUME OpenConfigure(t) PROVE QuietInv'
  BY SessionAssumption, <1>7 DEF Quiescent, ClosedFirst, QuietInv,
     ClosesAlone, RunsOnOpened, ClosedMeansClosed, StatusNeedsKey,
     StatusMatchesFile, SessionInv, TypeOK, LockOwned, Locked, Closing,
     Opening, Running, Goto, OpenConfigure, flags, op, disk, OpeningFacts
<1>8. ASSUME NEW tables \in BOOLEAN, OpenMigrate(t, tables) PROVE QuietInv'
  BY SessionAssumption, <1>8 DEF Quiescent, ClosedFirst, QuietInv,
     ClosesAlone, RunsOnOpened, ClosedMeansClosed, StatusNeedsKey,
     StatusMatchesFile, SessionInv, TypeOK, LockOwned, Locked, Closing,
     Opening, Running, Goto, OpenMigrate, Admit, Reopened, Written, OpeningFacts,
     HoldsQueue, Format
<1>9. QED
  BY <1>1, <1>2, <1>3, <1>4, <1>5, <1>6, <1>7, <1>8 DEF OpenDB

\* An operation runs on the published queue, whose connection is as the status says.
LEMMA OperateKeepsQuiet ==
    ASSUME Quiescent, SessionInv, NoLeakedConnection, PathInv, QuietInv,
           NEW t \in Threads, Operate(t)
    PROVE  QuietInv'
<1>1. ASSUME UpdateTableInDB(t) PROVE QuietInv'
  BY SessionAssumption, <1>1 DEF Quiescent, ClosedFirst, QuietInv,
     ClosesAlone, RunsOnOpened, ClosedMeansClosed, StatusNeedsKey,
     StatusMatchesFile, SessionInv, TypeOK, LockOwned, Locked, Closing,
     Opening, Running, Goto, UpdateTableInDB
<1>2. ASSUME OpLoad(t) \/ OpNil(t) PROVE QuietInv'
  BY SessionAssumption, <1>2 DEF Quiescent, ClosedFirst, QuietInv,
     ClosesAlone, RunsOnOpened, ClosedMeansClosed, StatusNeedsKey,
     StatusMatchesFile, SessionInv, TypeOK, LockOwned, Locked, Closing,
     Opening, Running, Goto, OpLoad, OpNil, EndOperation, flags, queues,
     disk, HoldsQueue
<1>3. ASSUME OpEnter(t) PROVE QuietInv'
  BY SessionAssumption, <1>3 DEF Quiescent, ClosedFirst, QuietInv,
     ClosesAlone, RunsOnOpened, ClosedMeansClosed, StatusNeedsKey,
     StatusMatchesFile, SessionInv, TypeOK, LockOwned, Locked, Closing,
     Opening, Running, Goto, OpEnter, flags, op, disk, ForceClosedNotOpened
<1>4. ASSUME NEW creates \in BOOLEAN, OpBlock(t, creates) PROVE QuietInv'
  BY SessionAssumption, <1>4 DEF Quiescent, ClosedFirst, QuietInv,
     ClosesAlone, RunsOnOpened, ClosedMeansClosed, StatusNeedsKey,
     StatusMatchesFile, SessionInv, TypeOK, LockOwned, Locked, Closing,
     Opening, Running, Goto, OpBlock, LeaveBlock, EndOperation, Without, Written,
     flags, OpenedReady, HoldsQueue, Format
<1>5. ASSUME OpExists(t) PROVE QuietInv'
  BY SessionAssumption, <1>5 DEF Quiescent, ClosedFirst, QuietInv,
     ClosesAlone, RunsOnOpened, ClosedMeansClosed, StatusNeedsKey,
     StatusMatchesFile, SessionInv, TypeOK, LockOwned, Locked, Closing,
     Opening, Running, Goto, OpExists, LeaveBlock, Without, flags, disk
<1>6. ASSUME OpRetain(t) PROVE QuietInv'
  BY SessionAssumption, <1>6 DEF Quiescent, ClosedFirst, QuietInv,
     ClosesAlone, RunsOnOpened, ClosedMeansClosed, StatusNeedsKey,
     StatusMatchesFile, SessionInv, TypeOK, LockOwned, Locked, Closing,
     Opening, Running, Goto, OpRetain, flags, queues, disk
<1>7. ASSUME OpDangling(t) PROVE QuietInv'
  BY <1>7 DEF QuietInv, ClosesAlone, RunsOnOpened, ClosedMeansClosed, StatusNeedsKey,
     StatusMatchesFile, Closing, Running, OpDangling, disk
<1>8. QED
  BY <1>1, <1>2, <1>3, <1>4, <1>5, <1>6, <1>7 DEF Operate

\* Every step of a quiescent client keeps its invariant.
LEMMA QuietKeeps ==
    ASSUME Quiescent
    PROVE  /\ SessionInv /\ NoLeakedConnection /\ PathInv /\ QuietInv /\ [Next]_vars
             => QuietInv'
<1>1. ASSUME QuietInv, UNCHANGED vars PROVE QuietInv'
  BY <1>1 DEF QuietInv, ClosesAlone, RunsOnOpened, ClosedMeansClosed, StatusNeedsKey,
     StatusMatchesFile, vars, flags, queues, disk, op
<1>2. QED
  BY <1>1, SetupKeepsQuiet, CloseKeepsQuiet, OpenDBKeepsQuiet, OperateKeepsQuiet DEF Next

\* Both invariants of a quiescent client hold of every reachable state.
LEMMA QuietInvariant ==
    ASSUME Quiescent
    PROVE  Spec => [](SessionInv /\ PathInv /\ QuietInv)
<1>1. ClosedFirst
  BY DEF Quiescent
<1>2. SessionInv /\ PathInv /\ [Next]_vars => PathInv'
  BY <1>1, PathKeeps
<1>3. SessionInv /\ NoLeakedConnection /\ PathInv /\ QuietInv /\ [Next]_vars => QuietInv'
  BY QuietKeeps
<1>4. QED
  BY <1>2, <1>3, PathInit, QuietInit, SessionInvariant, NothingLeaks, PTL DEF Spec

\* After closeDB a quiescent client has no open connection left.
THEOREM ClosedIsClosed ==
    ASSUME Quiescent
    PROVE  Spec => []ClosedMeansClosed
<1>1. QuietInv => ClosedMeansClosed
  BY DEF QuietInv
<1>2. QED
  BY <1>1, QuietInvariant, PTL

\* A quiescent client never retains a deallocated queue object: no opener
\* replaces the queue of an operation at work.
THEOREM RetainsLive ==
    ASSUME Quiescent
    PROVE  Spec => []PointersLive
<1>1. SessionInv /\ PathInv /\ QuietInv => PointersLive
  BY DEF SessionInv, HoldsQueue, QuietInv, RunsOnOpened, Running, PointersLive, Live
<1>2. QED
  BY <1>1, QuietInvariant, PTL

\* Of a quiescent client the saved status never calls a plaintext file encrypted.
THEOREM StatusTrue ==
    ASSUME Quiescent
    PROVE  Spec => []StatusMatchesFile
<1>1. QuietInv => StatusMatchesFile
  BY DEF QuietInv
<1>2. QED
  BY <1>1, QuietInvariant, PTL
=============================================================================
