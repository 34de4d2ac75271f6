----------------------------- MODULE DBSession -----------------------------
(***************************************************************************)
(* The life of one NBDataBase instance (NBDataBase.m): threads configure   *)
(* it (setupDBWithDBPath:), close it (closeDB) and run operations on it,   *)
(* each of which first calls openDB.  openDB is double-checked locking     *)
(* over the pthread mutex _lock; an operation runs as a block on the       *)
(* serial dispatch queue of an FMDatabaseQueue object that it loads, with  *)
(* no lock, from self.fmdbQueue.                                           *)
(*                                                                         *)
(* What a database file holds is abstracted to how it is written: "empty"  *)
(* (absent or of zero length), "plain" or "cipher".  Queue objects are     *)
(* reference counted: one that nobody references is deallocated, which     *)
(* closes its connection, and its identity is free to be used again.       *)
(***************************************************************************)
EXTENDS Naturals

CONSTANTS
    Threads,        \* the threads that call the library
    Managers,       \* those among them that also call setup and close
    Paths,          \* database files, one for each user account
    Queues,         \* identities of FMDatabaseQueue objects
    NoThread, NoPath, NoQueue,
    NeedEncrypted,  \* what isNeedEncrypted answers in this process
    Discipline      \* how the client orders setup and close, see below

(***************************************************************************)
(* The code puts no order on its callers.  "any" is the code as it is;     *)
(* "closed_first" is a client that configures another path only after      *)
(* closeDB; "quiescent" also runs no operation while closeDB runs.         *)
(***************************************************************************)
ASSUME SessionAssumption ==
    /\ Managers \subseteq Threads
    /\ NoThread \notin Threads
    /\ NoPath \notin Paths
    /\ NoQueue \notin Queues
    /\ NeedEncrypted \in BOOLEAN
    /\ Discipline \in {"any", "closed_first", "quiescent"}

VARIABLES
    isOpened, isForceClosed, dbPath,   \* NBDataBase: read with and without _lock
    lock,                              \* the holder of _lock
    fmdbQueue,                         \* the published queue object
    path, conn, owner,                 \* each queue: its file, its connection, the running block
    file, status,                      \* each path: its file, its saved encrypted status
    pc, arg,                           \* each thread: control, setup's argument
    loaded, held, blocks,              \* each thread: pointer read, queue retained, blocks left
    admitted                           \* history: dbPath when openDB answered YES, if not closed since

flags  == <<isOpened, isForceClosed, dbPath>>
queues == <<fmdbQueue, path, conn, owner>>
disk   == <<file, status>>
op     == <<loaded, held, blocks, admitted>>
vars   == <<flags, lock, queues, disk, pc, arg, op>>

Formats == {"plain", "cipher"}
Conns   == {"closed", "plain", "cipher"}

\* How the files of this process are meant to be written, and read.
Format == IF NeedEncrypted THEN "cipher" ELSE "plain"

Closing == {"close_drain", "close_opened", "close_forced"}
Opening == {"open_upgrade", "open_publish", "open_configure", "open_migrate"}
\* Control points between pthread_mutex_lock and pthread_mutex_unlock.
Locked  == Closing \cup Opening \cup {"setup_clear"}
\* Control points of an operation between openDB's YES and its last block.
Running == {"op_load", "op_retain", "op_enter", "op_block"}
Labels  == Locked \cup Running \cup {"idle", "setup_lock", "open_check", "open_lock"}

TypeOK ==
    /\ isOpened \in BOOLEAN
    /\ isForceClosed \in BOOLEAN
    /\ dbPath \in Paths \cup {NoPath}
    /\ lock \in Threads \cup {NoThread}
    /\ fmdbQueue \in Queues \cup {NoQueue}
    /\ path \in [Queues -> Paths \cup {NoPath}]
    /\ conn \in [Queues -> Conns]
    /\ owner \in [Queues -> Threads \cup {NoThread}]
    /\ file \in [Paths -> Formats \cup {"empty"}]
    /\ status \in [Paths -> BOOLEAN]
    /\ pc \in [Threads -> Labels]
    /\ arg \in [Threads -> Paths \cup {NoPath}]
    /\ loaded \in [Threads -> Queues \cup {NoQueue}]
    /\ held \in [Threads -> Queues \cup {NoQueue}]
    /\ blocks \in [Threads -> {0, 1, 2}]
    /\ admitted \in [Threads -> Paths \cup {NoPath}]

(***************************************************************************)
(* The first start: the files were left readable by an earlier run, the    *)
(* saved status says how each is written.  (A cipher file in a process     *)
(* that does not encrypt is the subject of EncryptUpgrade.)                *)
(***************************************************************************)
Init ==
    /\ isOpened = FALSE /\ isForceClosed = FALSE /\ dbPath = NoPath
    /\ lock = NoThread
    /\ fmdbQueue = NoQueue
    /\ path = [q \in Queues |-> NoPath]
    /\ conn = [q \in Queues |-> "closed"]
    /\ owner = [q \in Queues |-> NoThread]
    /\ file \in [Paths -> {"empty", "plain", Format}]
    /\ status = [p \in Paths |-> file[p] = "cipher"]
    /\ pc = [t \in Threads |-> "idle"]
    /\ arg = [t \in Threads |-> NoPath]
    /\ loaded = [t \in Threads |-> NoQueue]
    /\ held = [t \in Threads |-> NoQueue]
    /\ blocks = [t \in Threads |-> 0]
    /\ admitted = [t \in Threads |-> NoPath]

Goto(t, l) == pc' = [pc EXCEPT ![t] = l]

-----------------------------------------------------------------------------
(* Queue objects *)

\* Somebody references q: the published one, or one a thread loaded.
Live(q) == q = fmdbQueue \/ \E t \in Threads : held[t] = q

\* MUTANT: a replaced object is never released.
Unused_Leaks(ts) == {}

\* The published object, unless a thread of ts uses it.
Unused(ts) == {q \in {fmdbQueue} : \A u \in ts : held[u] # q}

\* Deallocating the objects gone, in one of the functions that describe them.
Without(f, gone, none) == [q \in Queues |-> IF q \in gone THEN none ELSE f[q]]

\* FMDatabaseQueue's database method opens a closed connection again, by path
\* and flags only, so that the new connection has no key.  If that fails, the
\* block runs without a connection.
Reopened(q) == IF conn[q] = "closed" THEN {"plain", "closed"} ELSE {conn[q]}

\* A statement that makes a table in an empty file writes it as connection c does.
Written(f, c) == IF f = "empty" /\ c # "closed" THEN c ELSE f

-----------------------------------------------------------------------------
(* setupDBWithDBPath: *)

MaySetup(t) ==
    /\ t \in Managers
    /\ Discipline # "any" => (isForceClosed \/ dbPath = NoPath)

\* The unlocked comparison of pointers: an equal path in another NSString is
\* a different pointer, so the early return may or may not be taken when the
\* paths are equal.  (Taking it changes nothing and is a stuttering step.)
SetupCheck(t, p) ==
    /\ pc[t] = "idle" /\ MaySetup(t)
    /\ arg' = [arg EXCEPT ![t] = p]
    /\ Goto(t, "setup_lock")
    /\ UNCHANGED <<flags, lock, queues, disk, op>>

SetupPath(t) ==
    /\ pc[t] = "setup_lock" /\ lock = NoThread
    /\ lock' = t
    /\ dbPath' = arg[t]
    /\ arg' = [arg EXCEPT ![t] = NoPath]
    /\ Goto(t, "setup_clear")
    /\ UNCHANGED <<isOpened, isForceClosed, queues, disk, op>>

SetupClear(t) ==
    /\ pc[t] = "setup_clear"
    /\ isForceClosed' = FALSE
    /\ lock' = NoThread
    /\ Goto(t, "idle")
    /\ UNCHANGED <<isOpened, dbPath, queues, disk, arg, op>>

-----------------------------------------------------------------------------
(* closeDB *)

MayClose(t) ==
    /\ t \in Managers
    /\ Discipline = "quiescent" =>
         \A u \in Threads \ {t} : pc[u] \in {"idle", "setup_lock"}

CloseLock(t) ==
    /\ pc[t] = "idle" /\ MayClose(t) /\ lock = NoThread
    /\ lock' = t
    /\ Goto(t, "close_drain")
    /\ UNCHANGED <<flags, queues, disk, arg, op>>

\* MUTANT: the connection is closed without waiting for the serial queue.
CloseDrain_NoWait(t) ==
    /\ pc[t] = "close_drain"
    /\ conn' = [q \in Queues |-> IF q = fmdbQueue THEN "closed" ELSE conn[q]]
    /\ Goto(t, "close_opened")
    /\ UNCHANGED <<flags, lock, fmdbQueue, path, owner, disk, arg, op>>

\* MUTANT: the flags change, the connection stays.
CloseDrain_Skipped(t) ==
    /\ pc[t] = "close_drain"
    /\ Goto(t, "close_opened")
    /\ UNCHANGED <<flags, lock, queues, disk, arg, op>>

\* [self.fmdbQueue close]: waits for the serial queue; nil ignores it.
CloseDrain(t) ==
    /\ pc[t] = "close_drain"
    /\ \/ fmdbQueue = NoQueue /\ UNCHANGED conn
       \/ /\ fmdbQueue # NoQueue
          /\ owner[fmdbQueue] = NoThread
          /\ conn' = [conn EXCEPT ![fmdbQueue] = "closed"]
    /\ Goto(t, "close_opened")
    /\ UNCHANGED <<flags, lock, fmdbQueue, path, owner, disk, arg, op>>

\* MUTANT: isOpened is not cleared.
CloseOpened_KeepsFlag(t) ==
    /\ pc[t] = "close_opened"
    /\ Goto(t, "close_forced")
    /\ UNCHANGED <<flags, lock, queues, disk, arg, op>>

CloseOpened(t) ==
    /\ pc[t] = "close_opened"
    /\ isOpened' = FALSE
    /\ Goto(t, "close_forced")
    /\ UNCHANGED <<isForceClosed, dbPath, lock, queues, disk, arg, op>>

CloseForced(t) ==
    /\ pc[t] = "close_forced"
    /\ isForceClosed' = TRUE
    /\ lock' = NoThread
    /\ admitted' = [u \in Threads |-> NoPath]
    /\ Goto(t, "idle")
    /\ UNCHANGED <<isOpened, dbPath, queues, disk, arg, loaded, held, blocks>>

-----------------------------------------------------------------------------
(* openDB, called first by every operation *)

MayStart(t) ==
    Discipline = "quiescent" => \A u \in Threads : pc[u] \notin Closing

\* openDB answers YES: the operation goes on.
Admit(t) ==
    /\ admitted' = [admitted EXCEPT ![t] = dbPath]
    /\ blocks' = [blocks EXCEPT ![t] = 2]
    /\ UNCHANGED <<loaded, held>>
    /\ Goto(t, "op_load")

OpenFast(t) ==
    /\ pc[t] = "idle" /\ MayStart(t)
    /\ isOpened
    /\ Admit(t)
    /\ UNCHANGED <<flags, lock, queues, disk, arg>>

OpenSlow(t) ==
    /\ pc[t] = "idle" /\ MayStart(t)
    /\ ~isOpened
    /\ Goto(t, "open_check")
    /\ UNCHANGED <<flags, lock, queues, disk, arg, op>>

\* The unlocked read of isForceClosed; YES ends the operation.
OpenCheck(t) ==
    /\ pc[t] = "open_check"
    /\ Goto(t, IF isForceClosed THEN "idle" ELSE "open_lock")
    /\ UNCHANGED <<flags, lock, queues, disk, arg, op>>

\* Under the lock both flags are read again.  A thread that finds nothing to
\* do locks and unlocks in one step.
OpenAlready(t) ==
    /\ pc[t] = "open_lock" /\ lock = NoThread
    /\ isOpened
    /\ Admit(t)
    /\ UNCHANGED <<flags, lock, queues, disk, arg>>

\* MUTANT: the early return forgets to unlock.
OpenRefused_KeepsLock(t) ==
    /\ pc[t] = "open_lock" /\ lock = NoThread
    /\ ~isOpened
    /\ isForceClosed \/ dbPath = NoPath
    /\ lock' = t
    /\ Goto(t, "idle")
    /\ UNCHANGED <<flags, queues, disk, arg, op>>

OpenRefused(t) ==
    /\ pc[t] = "open_lock" /\ lock = NoThread
    /\ ~isOpened
    /\ isForceClosed \/ dbPath = NoPath
    /\ Goto(t, "idle")
    /\ UNCHANGED <<flags, lock, queues, disk, arg, op>>

\* MUTANT: isForceClosed is not read again under the lock.
OpenLock_NoRecheck(t) ==
    /\ pc[t] = "open_lock" /\ lock = NoThread
    /\ ~isOpened /\ dbPath # NoPath
    /\ lock' = t
    /\ Goto(t, "open_upgrade")
    /\ UNCHANGED <<flags, queues, disk, arg, op>>

\* MUTANT: isOpened is not read again under the lock.
OpenLock_OpensAgain(t) ==
    /\ pc[t] = "open_lock" /\ lock = NoThread
    /\ ~isForceClosed /\ dbPath # NoPath
    /\ lock' = t
    /\ Goto(t, "open_upgrade")
    /\ UNCHANGED <<flags, queues, disk, arg, op>>

OpenLock(t) ==
    /\ pc[t] = "open_lock" /\ lock = NoThread
    /\ ~isOpened /\ ~isForceClosed /\ dbPath # NoPath
    /\ lock' = t
    /\ Goto(t, "open_upgrade")
    /\ UNCHANGED <<flags, queues, disk, arg, op>>

\* upgradeDatabase: by what it leaves on disk when nothing goes wrong.
OpenUpgrade(t) ==
    /\ pc[t] = "open_upgrade"
    /\ file' = [file EXCEPT ![dbPath] =
                  IF @ = "plain" /\ NeedEncrypted /\ ~status[dbPath] THEN "cipher" ELSE @]
    /\ status' = [status EXCEPT ![dbPath] = NeedEncrypted]
    /\ Goto(t, "open_publish")
    /\ UNCHANGED <<flags, lock, queues, arg, op>>

\* The published object is replaced; the old one goes unless a thread uses it.
OpenPublish(t, q) ==
    /\ pc[t] = "open_publish"
    /\ ~Live(q)
    /\ fmdbQueue' = q
    /\ path' = [Without(path, Unused(Threads), NoPath) EXCEPT ![q] = dbPath]
    /\ conn' = [Without(conn, Unused(Threads), "closed") EXCEPT ![q] = "plain"]
    /\ Goto(t, "open_configure")
    /\ UNCHANGED <<flags, lock, owner, disk, arg, op>>

\* databaseQueueWithPath: answers nil: so does openDB, and the old object goes.
OpenFail(t) ==
    /\ pc[t] = "open_publish"
    /\ fmdbQueue' = NoQueue
    /\ path' = Without(path, Unused(Threads), NoPath)
    /\ conn' = Without(conn, Unused(Threads), "closed")
    /\ isOpened' = FALSE
    /\ lock' = NoThread
    /\ Goto(t, "idle")
    /\ UNCHANGED <<isForceClosed, dbPath, owner, disk, arg, op>>

\* MUTANT: the connection gets no key.
OpenConfigure_NoKey(t) ==
    /\ pc[t] = "open_configure"
    /\ owner[fmdbQueue] = NoThread
    /\ \E c \in Reopened(fmdbQueue) : conn' = [conn EXCEPT ![fmdbQueue] = c]
    /\ Goto(t, "open_migrate")
    /\ UNCHANGED <<flags, lock, fmdbQueue, path, owner, disk, arg, op>>

\* The block that gives the connection its key, when the files are encrypted;
\* a message to no connection does nothing.
OpenConfigure(t) ==
    /\ pc[t] = "open_configure"
    /\ owner[fmdbQueue] = NoThread
    /\ \E c \in Reopened(fmdbQueue) :
         conn' = [conn EXCEPT ![fmdbQueue] =
                    IF NeedEncrypted /\ c # "closed" THEN "cipher" ELSE c]
    /\ Goto(t, "open_migrate")
    /\ UNCHANGED <<flags, lock, fmdbQueue, path, owner, disk, arg, op>>

\* updateTableInDB in a transaction: every failure is only logged, and openDB
\* answers YES.  tables says whether any class is registered.
OpenMigrate(t, tables) ==
    /\ pc[t] = "open_migrate"
    /\ owner[fmdbQueue] = NoThread
    /\ \E c \in Reopened(fmdbQueue) :
         /\ conn' = [conn EXCEPT ![fmdbQueue] = c]
         /\ file' = [file EXCEPT ![path[fmdbQueue]] = IF tables THEN Written(@, c) ELSE @]
    /\ isOpened' = TRUE
    /\ lock' = NoThread
    /\ Admit(t)
    /\ UNCHANGED <<isForceClosed, dbPath, fmdbQueue, path, owner, status, arg>>

-----------------------------------------------------------------------------
(* The rest of an operation: one block, or two *)

\* updateTableInDB is public too: called directly, it does not call openDB.
UpdateTableInDB(t) ==
    /\ pc[t] = "idle" /\ Discipline = "any"
    /\ admitted' = [admitted EXCEPT ![t] = dbPath]
    /\ blocks' = [blocks EXCEPT ![t] = 1]
    /\ Goto(t, "op_load")
    /\ UNCHANGED <<flags, lock, queues, disk, arg, loaded, held>>

EndOperation(t) ==
    /\ Goto(t, "idle")
    /\ blocks' = [blocks EXCEPT ![t] = 0]
    /\ admitted' = [admitted EXCEPT ![t] = NoPath]

\* self.fmdbQueue is read with no lock.  The property is nonatomic: its getter
\* loads the pointer and retains the object in two steps.
OpLoad(t) ==
    /\ pc[t] = "op_load"
    /\ fmdbQueue # NoQueue
    /\ loaded' = [loaded EXCEPT ![t] = fmdbQueue]
    /\ Goto(t, "op_retain")
    /\ UNCHANGED <<flags, lock, queues, disk, arg, held, blocks, admitted>>

\* A message to nil runs no block.
OpNil(t) ==
    /\ pc[t] = "op_load"
    /\ fmdbQueue = NoQueue
    /\ EndOperation(t)
    /\ UNCHANGED <<flags, lock, queues, disk, arg, loaded, held>>

\* The object is still there, or another one has got its address.
OpRetain(t) ==
    /\ pc[t] = "op_retain"
    /\ Live(loaded[t])
    /\ held' = [held EXCEPT ![t] = loaded[t]]
    /\ loaded' = [loaded EXCEPT ![t] = NoQueue]
    /\ Goto(t, "op_enter")
    /\ UNCHANGED <<flags, lock, queues, disk, arg, blocks, admitted>>

\* The object was deallocated in between: the process dies, and a new one
\* starts with what is on disk.
OpDangling(t) ==
    /\ pc[t] = "op_retain"
    /\ ~Live(loaded[t])
    /\ isOpened' = FALSE /\ isForceClosed' = FALSE /\ dbPath' = NoPath
    /\ lock' = NoThread
    /\ fmdbQueue' = NoQueue
    /\ path' = [q \in Queues |-> NoPath]
    /\ conn' = [q \in Queues |-> "closed"]
    /\ owner' = [q \in Queues |-> NoThread]
    /\ pc' = [u \in Threads |-> "idle"]
    /\ arg' = [u \in Threads |-> NoPath]
    /\ loaded' = [u \in Threads |-> NoQueue]
    /\ held' = [u \in Threads |-> NoQueue]
    /\ blocks' = [u \in Threads |-> 0]
    /\ admitted' = [u \in Threads |-> NoPath]
    /\ UNCHANGED disk

\* inDatabase: dispatch_sync waits its turn, then opens the connection if needed.
OpEnter(t) ==
    /\ pc[t] = "op_enter"
    /\ owner[held[t]] = NoThread
    /\ owner' = [owner EXCEPT ![held[t]] = t]
    /\ \E c \in Reopened(held[t]) : conn' = [conn EXCEPT ![held[t]] = c]
    /\ Goto(t, "op_block")
    /\ UNCHANGED <<flags, lock, fmdbQueue, path, disk, arg, op>>

\* MUTANT: the serial queue is not given to the next block.
LeaveBlock_KeepsTurn(t) ==
    /\ held' = [held EXCEPT ![t] = NoQueue]
    /\ UNCHANGED <<path, conn, owner, loaded>>

\* A block ends and drops its reference, with the object if it was the last.
LeaveBlock(t) ==
    LET gone == {q \in {held[t]} \ {fmdbQueue} : \A u \in Threads \ {t} : held[u] # q}
    IN  /\ owner' = [owner EXCEPT ![held[t]] = NoThread]
        /\ held' = [held EXCEPT ![t] = NoQueue]
        /\ UNCHANGED loaded
        /\ path' = Without(path, gone, NoPath)
        /\ conn' = Without(conn, gone, "closed")

\* The operation's last block.  creates: it issues a CREATE TABLE first, which
\* writes an empty file; without tables its other statements fail.
OpBlock(t, creates) ==
    /\ pc[t] = "op_block"
    /\ file' = [file EXCEPT ![path[held[t]]] =
                  IF creates THEN Written(@, conn[held[t]]) ELSE @]
    /\ LeaveBlock(t)
    /\ EndOperation(t)
    /\ UNCHANGED <<flags, lock, fmdbQueue, status, arg>>

\* MUTANT: the update asks again whether the row exists.
OpExists_Again(t) ==
    /\ pc[t] = "op_block"
    /\ file[path[held[t]]] = conn[held[t]]
    /\ LeaveBlock(t)
    /\ blocks' = [blocks EXCEPT ![t] = @ - 1]
    /\ Goto(t, "op_load")
    /\ UNCHANGED <<flags, lock, fmdbQueue, disk, arg, admitted>>

\* The existence query of an upsert found the row: the update follows in a
\* block of its own, with no new call of openDB.
OpExists(t) ==
    /\ pc[t] = "op_block"
    /\ blocks[t] = 2
    /\ file[path[held[t]]] = conn[held[t]]
    /\ LeaveBlock(t)
    /\ blocks' = [blocks EXCEPT ![t] = @ - 1]
    /\ Goto(t, "op_load")
    /\ UNCHANGED <<flags, lock, fmdbQueue, disk, arg, admitted>>

-----------------------------------------------------------------------------
Setup(t) == (\E p \in Paths : SetupCheck(t, p)) \/ SetupPath(t) \/ SetupClear(t)

Close(t) == CloseLock(t) \/ CloseDrain(t) \/ CloseOpened(t) \/ CloseForced(t)

OpenDB(t) ==
    \/ OpenFast(t) \/ OpenSlow(t) \/ OpenCheck(t)
    \/ OpenAlready(t) \/ OpenRefused(t) \/ OpenLock(t)
    \/ OpenUpgrade(t)
    \/ \E q \in Queues : OpenPublish(t, q)
    \/ OpenFail(t)
    \/ OpenConfigure(t)
    \/ \E tables \in BOOLEAN : OpenMigrate(t, tables)

Operate(t) ==
    \/ UpdateTableInDB(t)
    \/ OpLoad(t) \/ OpNil(t) \/ OpRetain(t) \/ OpDangling(t) \/ OpEnter(t)
    \/ \E creates \in BOOLEAN : OpBlock(t, creates)
    \/ OpExists(t)

Next == \E t \in Threads : Setup(t) \/ Close(t) \/ OpenDB(t) \/ Operate(t)

Spec == Init /\ [][Next]_vars

\* Steps that a thread inside a call takes whatever the other threads do.
Proceed(t) ==
    \/ SetupClear(t) \/ CloseOpened(t) \/ CloseForced(t)
    \/ OpenCheck(t) \/ OpenUpgrade(t)
    \/ OpenFail(t) \/ \E q \in Queues : OpenPublish(t, q)
    \/ OpLoad(t) \/ OpNil(t) \/ OpRetain(t) \/ OpDangling(t)
    \/ OpExists(t) \/ \E creates \in BOOLEAN : OpBlock(t, creates)

\* Steps for which a thread waits for its turn on a serial queue.
TakeTurn(t) ==
    \/ CloseDrain(t) \/ OpenConfigure(t) \/ OpEnter(t)
    \/ \E tables \in BOOLEAN : OpenMigrate(t, tables)

(***************************************************************************)
(* Fairness.  A thread that has entered a call keeps running it; a serial  *)
(* dispatch queue is first in, first out, so waiting for one is strongly   *)
(* fair.  The mutex of NBDataBase promises no order among its waiters, and *)
(* nobody has to call the library: taking the lock and starting a call are *)
(* not fair.                                                               *)
(***************************************************************************)
Fairness == \A t \in Threads : WF_vars(Proceed(t)) /\ SF_vars(TakeTurn(t))

FairSpec == Spec /\ Fairness

-----------------------------------------------------------------------------
(* Properties of the code as it is, whatever its callers do *)

\* _lock is held by exactly the thread that is between lock and unlock: no two
\* threads ever close, configure or open the database at the same time.
LockOwned == \A t \in Threads : pc[t] \in Locked <=> lock = t

\* A force-closed database is never open: an openDB that read the flags before
\* closeDB finds them changed under the lock and gives up.
ForceClosedNotOpened == isForceClosed => ~isOpened

\* What the fast path of openDB relies on: whoever reads isOpened = YES finds
\* a published queue whose connection has its key, except while closeDB has
\* closed the connection and not yet cleared the flag.
OpenedReady ==
    isOpened /\ (\A t \in Threads : pc[t] # "close_opened")
      => fmdbQueue # NoQueue /\ conn[fmdbQueue] = Format

\* Nobody opens, closes, gives a key to or deallocates a connection under a
\* running block: it ends on the connection and the file it began on.
BlockKeepsConnection ==
    [][\A q \in Queues :
         owner[q] # NoThread /\ owner'[q] = owner[q]
           => path'[q] = path[q] /\ conn'[q] = conn[q]]_vars

\* Once closeDB has returned, no connection that has the key is left, although
\* operations admitted before may still run and open a connection without it.
ClosedHoldsNoKey == isForceClosed => \A q \in Queues : conn[q] # "cipher"

\* Open connections do not leak: each is the published one or is in the hands
\* of an operation, the connections of replaced queues included.
NoLeakedConnection == \A q \in Queues : conn[q] # "closed" => Live(q)

\* After closeDB, no queue is published until a setup clears the flag.
ReopenNeedsSetup ==
    [][fmdbQueue' \notin {fmdbQueue, NoQueue} => ~isForceClosed]_vars

\* Nobody keeps the lock for ever: not the opener that waits for blocks on its
\* queue, not closeDB that waits for the block it interrupts.
LockReleased == \A t \in Threads : lock = t ~> lock # t

\* An operation that openDB let through ends, even if its queue is closed,
\* replaced or deallocated meanwhile (in the last case with the process, it may be).
AdmittedEnds == \A t \in Threads : pc[t] \in Running ~> pc[t] = "idle"

-----------------------------------------------------------------------------
(* Properties that need a discipline of the client *)

\* The open database is the configured one (a single manager that closes
\* before it configures another path).
SessionMatchesPath == isOpened => path[fmdbQueue] = dbPath

\* Nobody is about to retain a deallocated queue object: threads that open the
\* database at the same time do not replace each other's queue.
PointersLive == \A t \in Threads : pc[t] = "op_retain" => Live(loaded[t])

\* A closed database has no open connection.
ClosedMeansClosed == isForceClosed => \A q \in Queues : conn[q] = "closed"

\* A block runs on the database that openDB let its operation into, unless
\* closeDB has returned in between.
BlockRunsWhereAdmitted ==
    \A t \in Threads :
      pc[t] = "op_block" /\ admitted[t] # NoPath => path[held[t]] = admitted[t]

\* The saved status never calls a plaintext file encrypted.
StatusMatchesFile == \A p \in Paths : status[p] => file[p] # "plain"
=============================================================================
