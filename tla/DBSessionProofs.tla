-------------------------- MODULE DBSessionProofs --------------------------
(***************************************************************************)
(* What holds of DBSession for any threads, paths and queue objects,       *)
(* whatever the discipline of the client.                                  *)
(***************************************************************************)
EXTENDS DBSession, TLAPS

\* A thread holds a queue object exactly while it waits for or runs a block,
\* and has a bare pointer to one just before.
HoldsQueue ==
    \A t \in Threads :
      /\ held[t] # NoQueue <=> pc[t] \in {"op_enter", "op_block"}
      /\ loaded[t] # NoQueue <=> pc[t] = "op_retain"

\* A serial queue is owned by the thread whose block runs on it.
SerialOwned ==
    \A q \in Queues, t \in Threads : owner[q] = t <=> pc[t] = "op_block" /\ held[t] = q

\* What openDB has established when it gets to each of its steps.
OpeningFacts ==
    \A t \in Threads :
      /\ pc[t] \in Opening => ~isOpened /\ ~isForceClosed /\ dbPath # NoPath
      /\ pc[t] \in {"open_configure", "open_migrate"} => fmdbQueue # NoQueue
      /\ pc[t] = "open_configure" => conn[fmdbQueue] # "closed"
      /\ pc[t] = "open_migrate" => conn[fmdbQueue] = Format

\* What closeDB has established when it gets to each of its steps.
ClosingFacts ==
    \A t \in Threads :
      /\ pc[t] = "close_forced" => ~isOpened
      /\ pc[t] \in {"close_opened", "close_forced"} => \A q \in Queues : conn[q] # "cipher"

\* A connection that has the key is the published one, of a database that is
\* open or whose openDB is in its last step.
KeyPublished ==
    \A q \in Queues : conn[q] = "cipher" =>
      /\ q = fmdbQueue
      /\ NeedEncrypted
      /\ isOpened \/ \E t \in Threads : pc[t] = "open_migrate"

\* The inductive invariant.
SessionInv ==
    /\ TypeOK
    /\ LockOwned
    /\ HoldsQueue
    /\ SerialOwned
    /\ OpeningFacts
    /\ ClosingFacts
    /\ ForceClosedNotOpened
    /\ OpenedReady
    /\ KeyPublished

-----------------------------------------------------------------------------
(* One lemma for each action: it keeps the inductive invariant.  The first step
   of each proof collects the conjuncts the action does not disturb. *)

\* setupDBWithDBPath: up to its lock touches nothing shared.
LEMMA SetupCheckKeeps ==
    ASSUME SessionInv, NEW t \in Threads, NEW p \in Paths, SetupCheck(t, p)
    PROVE  SessionInv'
<1>1. LockOwned' /\ HoldsQueue' /\ SerialOwned' /\ OpeningFacts'
     /\ ClosingFacts' /\ ForceClosedNotOpened' /\ OpenedReady' /\ KeyPublished'
  BY DEF SessionInv, SetupCheck, Goto, op, queues, flags, LockOwned, HoldsQueue,
         SerialOwned, OpeningFacts, ClosingFacts,
         ForceClosedNotOpened, OpenedReady, KeyPublished, Locked, Closing,
         Opening, Format
<1>2. TypeOK'
  BY DEF SessionInv, SetupCheck, Goto, flags, queues, disk, op, TypeOK, Locked,
         Closing, Opening, Running, Labels, Conns, Formats
<1>3. QED
  BY <1>1, <1>2 DEF SessionInv

\* dbPath changes under the lock, so under no opener that relies on it.
LEMMA SetupPathKeeps ==
    ASSUME SessionInv, NEW t \in Threads, SetupPath(t)
    PROVE  SessionInv'
<1>1. HoldsQueue' /\ SerialOwned' /\ ClosingFacts' /\
     ForceClosedNotOpened' /\ OpenedReady' /\ KeyPublished'
  BY DEF SessionInv, SetupPath, Goto, op, queues, HoldsQueue, SerialOwned,
         ClosingFacts, ForceClosedNotOpened, OpenedReady,
         KeyPublished, Format
<1>2. TypeOK'
  BY DEF SessionInv, SetupPath, Goto, queues, disk, op, TypeOK, Locked, Closing,
         Opening, Running, Labels, Conns, Formats
<1>3. LockOwned'
  BY SessionAssumption DEF SessionInv, SetupPath, Goto, queues, disk, op,
         TypeOK, LockOwned, Locked, Closing, Opening, Running, Labels, Conns,
         Formats
<1>4. OpeningFacts'
  BY SessionAssumption DEF SessionInv, SetupPath, Goto, queues, LockOwned,
         OpeningFacts, Locked, Closing, Opening, Format
<1>5. QED
  BY <1>1, <1>2, <1>3, <1>4 DEF SessionInv

\* setupDBWithDBPath: clears the flag that closeDB has set, and unlocks.
LEMMA SetupClearKeeps ==
    ASSUME SessionInv, NEW t \in Threads, SetupClear(t)
    PROVE  SessionInv'
<1>1. HoldsQueue' /\ SerialOwned' /\ OpeningFacts' /\
     ClosingFacts' /\ ForceClosedNotOpened' /\ OpenedReady' /\ KeyPublished'
  BY DEF SessionInv, SetupClear, Goto, op, queues, HoldsQueue, SerialOwned,
         OpeningFacts, ClosingFacts, ForceClosedNotOpened,
         OpenedReady, KeyPublished, Opening, Format
<1>2. TypeOK'
  BY DEF SessionInv, SetupClear, Goto, queues, disk, op, TypeOK, Locked,
         Closing, Opening, Running, Labels, Conns, Formats
<1>3. LockOwned'
  BY SessionAssumption DEF SessionInv, SetupClear, Goto, queues, disk, op,
         TypeOK, LockOwned, Locked, Closing, Opening, Running, Labels, Conns,
         Formats
<1>4. QED
  BY <1>1, <1>2, <1>3 DEF SessionInv

\* closeDB gets the lock that nobody holds.
LEMMA CloseLockKeeps ==
    ASSUME SessionInv, NEW t \in Threads, CloseLock(t)
    PROVE  SessionInv'
<1>1. HoldsQueue' /\ SerialOwned' /\ OpeningFacts' /\
     ClosingFacts' /\ ForceClosedNotOpened' /\ OpenedReady' /\ KeyPublished'
  BY DEF SessionInv, CloseLock, Goto, op, queues, flags, HoldsQueue,
         SerialOwned, OpeningFacts, ClosingFacts,
         ForceClosedNotOpened, OpenedReady, KeyPublished, Opening, Format
<1>2. TypeOK'
  BY DEF SessionInv, CloseLock, Goto, flags, queues, disk, op, TypeOK, Locked,
         Closing, Opening, Running, Labels, Conns, Formats
<1>3. LockOwned'
  BY SessionAssumption DEF SessionInv, CloseLock, Goto, flags, queues, disk, op,
         TypeOK, LockOwned, Locked, Closing, Opening, Running, Labels, Conns,
         Formats
<1>4. QED
  BY <1>1, <1>2, <1>3 DEF SessionInv

\* Closing the published connection leaves none with the key.
LEMMA CloseDrainKeeps ==
    ASSUME SessionInv, NEW t \in Threads, CloseDrain(t)
    PROVE  SessionInv'
<1>1. LockOwned' /\ HoldsQueue' /\ SerialOwned' /\ ForceClosedNotOpened'
  BY DEF SessionInv, CloseDrain, Goto, op, flags, LockOwned, HoldsQueue,
         SerialOwned, ForceClosedNotOpened, Locked, Closing, Opening
<1>2. TypeOK'
  BY DEF SessionInv, CloseDrain, Goto, flags, disk, op, TypeOK, Locked, Closing,
         Opening, Running, Labels, Conns, Formats
<1>3. OpeningFacts'
  BY DEF SessionInv, CloseDrain, Goto, flags, LockOwned, OpeningFacts, Locked,
         Closing, Opening, Format
<1>4. ClosingFacts'
  BY SessionAssumption DEF SessionInv, CloseDrain, Goto, flags, disk, op,
         TypeOK, LockOwned, OpeningFacts, ClosingFacts, KeyPublished, Locked,
         Closing, Opening, Running, Labels, Conns, Formats, Format
<1>5. OpenedReady'
  BY DEF SessionInv, CloseDrain, Goto, flags, disk, op, TypeOK, OpenedReady,
         Locked, Closing, Opening, Running, Labels, Conns, Formats, Format
<1>6. KeyPublished'
  BY DEF SessionInv, CloseDrain, Goto, flags, disk, op, TypeOK, KeyPublished,
         Locked, Closing, Opening, Running, Labels, Conns, Formats
<1>7. QED
  BY <1>1, <1>2, <1>3, <1>4, <1>5, <1>6 DEF SessionInv

\* Clearing isOpened needs no connection with the key to be left.
LEMMA CloseOpenedKeeps ==
    ASSUME SessionInv, NEW t \in Threads, CloseOpened(t)
    PROVE  SessionInv'
<1>1. LockOwned' /\ HoldsQueue' /\ SerialOwned' /\ OpeningFacts'
     /\ ClosingFacts' /\ ForceClosedNotOpened' /\ OpenedReady'
  BY DEF SessionInv, CloseOpened, Goto, op, queues, LockOwned, HoldsQueue,
         SerialOwned, OpeningFacts, ClosingFacts,
         ForceClosedNotOpened, OpenedReady, Locked, Closing, Opening, Format
<1>2. TypeOK'
  BY DEF SessionInv, CloseOpened, Goto, queues, disk, op, TypeOK, Locked,
         Closing, Opening, Running, Labels, Conns, Formats
<1>3. KeyPublished'
  BY DEF SessionInv, CloseOpened, Goto, queues, disk, op, TypeOK, LockOwned,
         ClosingFacts, KeyPublished, Locked, Closing, Opening, Running, Labels,
         Conns, Formats
<1>4. QED
  BY <1>1, <1>2, <1>3 DEF SessionInv

\* The force-closed flag is set after isOpened is cleared.
LEMMA CloseForcedKeeps ==
    ASSUME SessionInv, NEW t \in Threads, CloseForced(t)
    PROVE  SessionInv'
<1>1. HoldsQueue' /\ SerialOwned' /\ ClosingFacts' /\ OpenedReady'
     /\ KeyPublished'
  BY DEF SessionInv, CloseForced, Goto, op, queues, HoldsQueue, SerialOwned,
         ClosingFacts, OpenedReady, KeyPublished, Format
<1>2. TypeOK'
  BY DEF SessionInv, CloseForced, Goto, queues, disk, op, TypeOK, Locked,
         Closing, Opening, Running, Labels, Conns, Formats
<1>3. LockOwned'
  BY SessionAssumption DEF SessionInv, CloseForced, Goto, queues, disk, op,
         TypeOK, LockOwned, Locked, Closing, Opening, Running, Labels, Conns,
         Formats
<1>4. OpeningFacts'
  BY DEF SessionInv, CloseForced, Goto, queues, LockOwned, OpeningFacts, Locked,
         Closing, Opening, Format
<1>5. ForceClosedNotOpened'
  BY DEF SessionInv, CloseForced, Goto, queues, disk, op, TypeOK, LockOwned,
         ClosingFacts, ForceClosedNotOpened, Locked, Closing, Opening, Running,
         Labels, Conns, Formats
<1>6. QED
  BY <1>1, <1>2, <1>3, <1>4, <1>5 DEF SessionInv

\* The fast path of openDB changes no shared state.
LEMMA OpenFastKeeps ==
    ASSUME SessionInv, NEW t \in Threads, OpenFast(t)
    PROVE  SessionInv'
<1>1. LockOwned' /\ HoldsQueue' /\ SerialOwned' /\ OpeningFacts'
     /\ ClosingFacts' /\ ForceClosedNotOpened' /\ OpenedReady' /\ KeyPublished'
  BY DEF SessionInv, OpenFast, Goto, Admit, queues, flags, LockOwned,
         HoldsQueue, SerialOwned, OpeningFacts, ClosingFacts,
         ForceClosedNotOpened, OpenedReady, KeyPublished, Locked, Closing,
         Opening, Format
<1>2. TypeOK'
  BY DEF SessionInv, OpenFast, Goto, Admit, flags, queues, disk, TypeOK, Locked,
         Closing, Opening, Running, Labels, Conns, Formats
<1>3. QED
  BY <1>1, <1>2 DEF SessionInv

\* So does the first read of its slow path.
LEMMA OpenSlowKeeps ==
    ASSUME SessionInv, NEW t \in Threads, OpenSlow(t)
    PROVE  SessionInv'
<1>1. LockOwned' /\ HoldsQueue' /\ SerialOwned' /\ OpeningFacts'
     /\ ClosingFacts' /\ ForceClosedNotOpened' /\ OpenedReady' /\ KeyPublished'
  BY DEF SessionInv, OpenSlow, Goto, op, queues, flags, LockOwned, HoldsQueue,
         SerialOwned, OpeningFacts, ClosingFacts,
         ForceClosedNotOpened, OpenedReady, KeyPublished, Locked, Closing,
         Opening, Format
<1>2. TypeOK'
  BY DEF SessionInv, OpenSlow, Goto, flags, queues, disk, op, TypeOK, Locked,
         Closing, Opening, Running, Labels, Conns, Formats
<1>3. QED
  BY <1>1, <1>2 DEF SessionInv

\* And the second.
LEMMA OpenCheckKeeps ==
    ASSUME SessionInv, NEW t \in Threads, OpenCheck(t)
    PROVE  SessionInv'
<1>1. LockOwned' /\ HoldsQueue' /\ SerialOwned' /\ OpeningFacts'
     /\ ClosingFacts' /\ ForceClosedNotOpened' /\ OpenedReady' /\ KeyPublished'
  BY DEF SessionInv, OpenCheck, Goto, op, queues, flags, LockOwned, HoldsQueue,
         SerialOwned, OpeningFacts, ClosingFacts,
         ForceClosedNotOpened, OpenedReady, KeyPublished, Locked, Closing,
         Opening, Format
<1>2. TypeOK'
  BY DEF SessionInv, OpenCheck, Goto, flags, queues, disk, op, TypeOK, Locked,
         Closing, Opening, Running, Labels, Conns, Formats
<1>3. QED
  BY <1>1, <1>2 DEF SessionInv

\* A thread that finds the database opened under the lock leaves it alone.
LEMMA OpenAlreadyKeeps ==
    ASSUME SessionInv, NEW t \in Threads, OpenAlready(t)
    PROVE  SessionInv'
<1>1. LockOwned' /\ HoldsQueue' /\ SerialOwned' /\ OpeningFacts'
     /\ ClosingFacts' /\ ForceClosedNotOpened' /\ OpenedReady' /\ KeyPublished'
  BY DEF SessionInv, OpenAlready, Goto, Admit, queues, flags, LockOwned,
         HoldsQueue, SerialOwned, OpeningFacts, ClosingFacts,
         ForceClosedNotOpened, OpenedReady, KeyPublished, Locked, Closing,
         Opening, Format
<1>2. TypeOK'
  BY DEF SessionInv, OpenAlready, Goto, Admit, flags, queues, disk, TypeOK,
         Locked, Closing, Opening, Running, Labels, Conns, Formats
<1>3. QED
  BY <1>1, <1>2 DEF SessionInv

\* A thread that finds it closed or not configured leaves it alone.
LEMMA OpenRefusedKeeps ==
    ASSUME SessionInv, NEW t \in Threads, OpenRefused(t)
    PROVE  SessionInv'
<1>1. LockOwned' /\ HoldsQueue' /\ SerialOwned' /\ OpeningFacts'
     /\ ClosingFacts' /\ ForceClosedNotOpened' /\ OpenedReady' /\ KeyPublished'
  BY DEF SessionInv, OpenRefused, Goto, op, queues, flags, LockOwned,
         HoldsQueue, SerialOwned, OpeningFacts, ClosingFacts,
         ForceClosedNotOpened, OpenedReady, KeyPublished, Locked, Closing,
         Opening, Format
<1>2. TypeOK'
  BY DEF SessionInv, OpenRefused, Goto, flags, queues, disk, op, TypeOK, Locked,
         Closing, Opening, Running, Labels, Conns, Formats
<1>3. QED
  BY <1>1, <1>2 DEF SessionInv

\* The checks made under the lock are what an opener relies on.
LEMMA OpenLockKeeps ==
    ASSUME SessionInv, NEW t \in Threads, OpenLock(t)
    PROVE  SessionInv'
<1>1. HoldsQueue' /\ SerialOwned' /\ OpeningFacts' /\
     ClosingFacts' /\ ForceClosedNotOpened' /\ OpenedReady' /\ KeyPublished'
  BY DEF SessionInv, OpenLock, Goto, op, queues, flags, HoldsQueue, SerialOwned,
         OpeningFacts, ClosingFacts, ForceClosedNotOpened,
         OpenedReady, KeyPublished, Opening, Format
<1>2. TypeOK'
  BY DEF SessionInv, OpenLock, Goto, flags, queues, disk, op, TypeOK, Locked,
         Closing, Opening, Running, Labels, Conns, Formats
<1>3. LockOwned'
  BY SessionAssumption DEF SessionInv, OpenLock, Goto, flags, queues, disk, op,
         TypeOK, LockOwned, Locked, Closing, Opening, Running, Labels, Conns,
         Formats
<1>4. QED
  BY <1>1, <1>2, <1>3 DEF SessionInv

\* The upgrade changes the disk only.
LEMMA OpenUpgradeKeeps ==
    ASSUME SessionInv, NEW t \in Threads, OpenUpgrade(t)
    PROVE  SessionInv'
<1>1. LockOwned' /\ HoldsQueue' /\ SerialOwned' /\ OpeningFacts'
     /\ ClosingFacts' /\ ForceClosedNotOpened' /\ OpenedReady' /\ KeyPublished'
  BY DEF SessionInv, OpenUpgrade, Goto, op, queues, flags, LockOwned,
         HoldsQueue, SerialOwned, OpeningFacts, ClosingFacts,
         ForceClosedNotOpened, OpenedReady, KeyPublished, Locked, Closing,
         Opening, Format
<1>2. TypeOK'
  BY SessionAssumption DEF SessionInv, OpenUpgrade, Goto, flags, queues, op,
         TypeOK, LockOwned, OpeningFacts, Locked, Closing, Opening, Running,
         Labels, Conns, Formats, Format
<1>3. QED
  BY <1>1, <1>2 DEF SessionInv

\* The queue object that is published was nobody's, and has no key yet.
LEMMA OpenPublishKeeps ==
    ASSUME SessionInv, NEW t \in Threads, NEW q \in Queues, OpenPublish(t, q)
    PROVE  SessionInv'
<1>1. LockOwned' /\ HoldsQueue' /\ SerialOwned' /\ ClosingFacts' /\
     ForceClosedNotOpened'
  BY DEF SessionInv, OpenPublish, Goto, Live, Without, Unused, op, flags,
         LockOwned, HoldsQueue, SerialOwned, ClosingFacts, ForceClosedNotOpened,
         Locked, Closing, Opening
<1>2. TypeOK'
  BY DEF SessionInv, OpenPublish, Goto, Live, Without, Unused, flags, disk, op,
         TypeOK, Locked, Closing, Opening, Running, Labels, Conns, Formats
<1>3. OpeningFacts'
  BY SessionAssumption DEF SessionInv, OpenPublish, Goto, Live, Without, Unused,
         flags, LockOwned, OpeningFacts, Locked, Closing, Opening, Format
<1>4. OpenedReady'
  BY DEF SessionInv, OpenPublish, Goto, Live, Without, Unused, flags, disk, op,
         TypeOK, LockOwned, OpeningFacts, OpenedReady, Locked, Closing, Opening,
         Running, Labels, Conns, Formats, Format
<1>5. KeyPublished'
  BY DEF SessionInv, OpenPublish, Goto, Live, Without, Unused, flags, disk, op,
         TypeOK, LockOwned, OpeningFacts, KeyPublished, Locked, Closing,
         Opening, Running, Labels, Conns, Formats, Format
<1>6. QED
  BY <1>1, <1>2, <1>3, <1>4, <1>5 DEF SessionInv

\* The opener that got no queue object leaves the database not opened.
LEMMA OpenFailKeeps ==
    ASSUME SessionInv, NEW t \in Threads, OpenFail(t)
    PROVE  SessionInv'
<1>1. HoldsQueue' /\ SerialOwned' /\ ClosingFacts' /\ ForceClosedNotOpened' /\
     OpenedReady'
  BY DEF SessionInv, OpenFail, Goto, Without, Unused, op, HoldsQueue,
         SerialOwned, ClosingFacts, ForceClosedNotOpened, OpenedReady, Format
<1>2. TypeOK'
  <2>1. path' \in [Queues -> Paths \cup {NoPath}] /\ conn' \in [Queues -> Conns]
    BY DEF SessionInv, OpenFail, Unused, Without, TypeOK, Conns
  <2>2. lock' \in Threads \cup {NoThread} /\ fmdbQueue' \in Queues \cup {NoQueue}
    BY DEF OpenFail
  <2>3. pc' \in [Threads -> Labels]
    BY DEF SessionInv, OpenFail, Goto, TypeOK, Labels
  <2>4. QED
    BY <2>1, <2>2, <2>3 DEF SessionInv, OpenFail, disk, op, TypeOK
<1>3. LockOwned'
  BY SessionAssumption DEF SessionInv, OpenFail, Goto, Without, Unused, disk,
         op, TypeOK, LockOwned, Locked, Closing, Opening, Running, Labels,
         Conns, Formats
<1>4. OpeningFacts'
  BY DEF SessionInv, OpenFail, Goto, Without, Unused, LockOwned, OpeningFacts,
         Locked, Closing, Opening, Format
<1>5. KeyPublished'
  BY DEF SessionInv, OpenFail, Goto, Without, Unused, disk, op, TypeOK,
         LockOwned, OpeningFacts, KeyPublished, Locked, Closing, Opening,
         Running, Labels, Conns, Formats, Format
<1>6. QED
  BY <1>1, <1>2, <1>3, <1>4, <1>5 DEF SessionInv

\* The published connection gets its key.
LEMMA OpenConfigureKeeps ==
    ASSUME SessionInv, NEW t \in Threads, OpenConfigure(t)
    PROVE  SessionInv'
<1>1. LockOwned' /\ HoldsQueue' /\ SerialOwned' /\ ForceClosedNotOpened' /\ OpenedReady'
  BY DEF SessionInv, OpenConfigure, Goto, Reopened, op, flags, LockOwned,
         HoldsQueue, SerialOwned, ForceClosedNotOpened, OpenedReady,
         Locked, Closing, Opening, Format
<1>2. TypeOK'
  BY DEF SessionInv, OpenConfigure, Goto, Reopened, flags, disk, op, TypeOK,
         LockOwned, OpeningFacts, Locked, Closing, Opening, Running, Labels,
         Conns, Formats, Format
<1>3. OpeningFacts'
  BY DEF SessionInv, OpenConfigure, Goto, Reopened, flags, disk, op, TypeOK,
         LockOwned, OpeningFacts, ClosingFacts, KeyPublished, Locked, Closing,
         Opening, Running, Labels, Conns, Formats, Format
<1>4. ClosingFacts'
  BY DEF SessionInv, OpenConfigure, Goto, Reopened, flags, LockOwned,
         ClosingFacts, Locked, Closing, Opening
<1>5. KeyPublished'
  BY DEF SessionInv, OpenConfigure, Goto, Reopened, flags, disk, op, TypeOK,
         KeyPublished, Locked, Closing, Opening, Running, Labels, Conns, Formats
<1>6. QED
  BY <1>1, <1>2, <1>3, <1>4, <1>5 DEF SessionInv

\* The database is opened, with the key and under the lock.
LEMMA OpenMigrateKeeps ==
    ASSUME SessionInv, NEW t \in Threads, NEW tables \in BOOLEAN, OpenMigrate(t, tables)
    PROVE  SessionInv'
<1>1. HoldsQueue' /\ SerialOwned' /\ KeyPublished'
  BY DEF SessionInv, OpenMigrate, Goto, Reopened, Written, Admit, HoldsQueue,
         SerialOwned, KeyPublished
<1>2. TypeOK'
  <2>1. PICK c \in Reopened(fmdbQueue) :
          /\ conn' = [conn EXCEPT ![fmdbQueue] = c]
          /\ file' = [file EXCEPT ![path[fmdbQueue]] = IF tables THEN Written(@, c) ELSE @]
    BY DEF OpenMigrate
  <2>2. c \in Conns
    BY <2>1 DEF SessionInv, TypeOK, OpeningFacts, OpenMigrate, Reopened, Conns
  <2>3. conn' \in [Queues -> Conns] /\ file' \in [Paths -> Formats \cup {"empty"}]
    BY <2>1, <2>2 DEF SessionInv, TypeOK, Written, Conns, Formats
  <2>4. pc' \in [Threads -> Labels]
    BY DEF SessionInv, OpenMigrate, Admit, Goto, TypeOK, Labels, Running
  <2>5. QED
    BY <2>3, <2>4 DEF SessionInv, OpenMigrate, Admit, TypeOK
<1>3. LockOwned'
  BY SessionAssumption DEF SessionInv, OpenMigrate, Goto, Reopened, Written, Admit,
         TypeOK, LockOwned, Locked, Closing, Opening, Running, Labels, Conns,
         Formats
<1>4. OpeningFacts'
  BY DEF SessionInv, OpenMigrate, Goto, Reopened, Written, Admit, TypeOK, LockOwned,
         OpeningFacts, Locked, Closing, Opening, Running, Labels, Conns,
         Formats, Format
<1>5. ClosingFacts'
  BY DEF SessionInv, OpenMigrate, Goto, Reopened, Written, Admit, LockOwned,
         ClosingFacts, Locked, Closing, Opening
<1>6. ForceClosedNotOpened'
  BY DEF SessionInv, OpenMigrate, Goto, Reopened, Written, Admit, TypeOK, LockOwned,
         OpeningFacts, ForceClosedNotOpened, Locked, Closing, Opening, Running,
         Labels, Conns, Formats, Format
<1>7. OpenedReady'
  BY DEF SessionInv, OpenMigrate, Goto, Reopened, Written, Admit, TypeOK, LockOwned,
         OpeningFacts, OpenedReady, Locked, Closing, Opening, Running, Labels,
         Conns, Formats, Format
<1>8. QED
  BY <1>1, <1>2, <1>3, <1>4, <1>5, <1>6, <1>7 DEF SessionInv

\* A direct call of updateTableInDB changes no shared state.
LEMMA UpdateTableInDBKeeps ==
    ASSUME SessionInv, NEW t \in Threads, UpdateTableInDB(t)
    PROVE  SessionInv'
<1>1. LockOwned' /\ HoldsQueue' /\ SerialOwned' /\ OpeningFacts'
     /\ ClosingFacts' /\ ForceClosedNotOpened' /\ OpenedReady' /\ KeyPublished'
  BY DEF SessionInv, UpdateTableInDB, Goto, queues, flags, LockOwned,
         HoldsQueue, SerialOwned, OpeningFacts, ClosingFacts,
         ForceClosedNotOpened, OpenedReady, KeyPublished, Locked, Closing,
         Opening, Format
<1>2. TypeOK'
  BY DEF SessionInv, UpdateTableInDB, Goto, flags, queues, disk, TypeOK, Locked,
         Closing, Opening, Running, Labels, Conns, Formats
<1>3. QED
  BY <1>1, <1>2 DEF SessionInv

\* A thread reads the pointer to the published object.
LEMMA OpLoadKeeps ==
    ASSUME SessionInv, NEW t \in Threads, OpLoad(t)
    PROVE  SessionInv'
<1>1. LockOwned' /\ SerialOwned' /\ OpeningFacts' /\ ClosingFacts'
     /\ ForceClosedNotOpened' /\ OpenedReady' /\ KeyPublished'
  BY DEF SessionInv, OpLoad, Goto, queues, flags, LockOwned, SerialOwned,
         OpeningFacts, ClosingFacts, ForceClosedNotOpened,
         OpenedReady, KeyPublished, Locked, Closing, Opening, Format
<1>2. TypeOK'
  BY DEF SessionInv, OpLoad, Goto, flags, queues, disk, TypeOK, Locked, Closing,
         Opening, Running, Labels, Conns, Formats
<1>3. HoldsQueue'
  BY DEF SessionInv, OpLoad, Goto, flags, queues, disk, TypeOK, HoldsQueue,
         Locked, Closing, Opening, Running, Labels, Conns, Formats
<1>4. QED
  BY <1>1, <1>2, <1>3 DEF SessionInv

\* A thread takes a reference to the object at its pointer, if there is one.
LEMMA OpRetainKeeps ==
    ASSUME SessionInv, NEW t \in Threads, OpRetain(t)
    PROVE  SessionInv'
<1>1. LockOwned' /\ SerialOwned' /\ OpeningFacts' /\ ClosingFacts'
     /\ ForceClosedNotOpened' /\ OpenedReady' /\ KeyPublished'
  BY DEF SessionInv, OpRetain, Goto, queues, flags, LockOwned, SerialOwned,
         OpeningFacts, ClosingFacts, ForceClosedNotOpened,
         OpenedReady, KeyPublished, Locked, Closing, Opening, Format
<1>2. TypeOK'
  BY DEF SessionInv, OpRetain, Goto, flags, queues, disk, TypeOK, Locked, Closing,
         Opening, Running, Labels, Conns, Formats
<1>3. HoldsQueue'
  BY DEF SessionInv, OpRetain, Goto, flags, queues, disk, TypeOK, HoldsQueue,
         Locked, Closing, Opening, Running, Labels, Conns, Formats
<1>4. QED
  BY <1>1, <1>2, <1>3 DEF SessionInv

\* A new process is as the first one, but for the disk.
LEMMA OpDanglingKeeps ==
    ASSUME SessionInv, NEW t \in Threads, OpDangling(t)
    PROVE  SessionInv'
<1>1. TypeOK'
  BY DEF SessionInv, OpDangling, disk, TypeOK, Labels, Conns
<1>2. LockOwned' /\ HoldsQueue' /\ SerialOwned'
  BY SessionAssumption DEF OpDangling, LockOwned, HoldsQueue, SerialOwned,
         Locked, Closing, Opening
<1>3. OpeningFacts' /\ ClosingFacts' /\ ForceClosedNotOpened' /\ OpenedReady' /\ KeyPublished'
  BY DEF OpDangling, OpeningFacts, ClosingFacts, ForceClosedNotOpened, OpenedReady,
         KeyPublished, Opening
<1>4. QED
  BY <1>1, <1>2, <1>3 DEF SessionInv

\* A thread that reads nil ends its operation.
LEMMA OpNilKeeps ==
    ASSUME SessionInv, NEW t \in Threads, OpNil(t)
    PROVE  SessionInv'
<1>1. LockOwned' /\ HoldsQueue' /\ SerialOwned' /\ OpeningFacts'
     /\ ClosingFacts' /\ ForceClosedNotOpened' /\ OpenedReady' /\ KeyPublished'
  BY DEF SessionInv, OpNil, Goto, EndOperation, queues, flags, LockOwned,
         HoldsQueue, SerialOwned, OpeningFacts, ClosingFacts,
         ForceClosedNotOpened, OpenedReady, KeyPublished, Locked, Closing,
         Opening, Format
<1>2. TypeOK'
  BY DEF SessionInv, OpNil, Goto, EndOperation, flags, queues, disk, TypeOK,
         Locked, Closing, Opening, Running, Labels, Conns, Formats
<1>3. QED
  BY <1>1, <1>2 DEF SessionInv

\* The block that starts owns the serial queue and an open connection.
LEMMA OpEnterKeeps ==
    ASSUME SessionInv, NEW t \in Threads, OpEnter(t)
    PROVE  SessionInv'
<1>1. LockOwned' /\ HoldsQueue' /\ OpeningFacts' /\ ClosingFacts' /\
     ForceClosedNotOpened' /\ OpenedReady' /\ KeyPublished'
  BY DEF SessionInv, OpEnter, Goto, Reopened, op, flags, LockOwned, HoldsQueue,
         OpeningFacts, ClosingFacts, ForceClosedNotOpened, OpenedReady,
         KeyPublished, Locked, Closing, Opening, Format
<1>2. TypeOK'
  BY DEF SessionInv, OpEnter, Goto, Reopened, flags, disk, op, TypeOK,
         HoldsQueue, SerialOwned, Locked, Closing, Opening, Running, Labels,
         Conns, Formats
<1>3. SerialOwned'
  BY SessionAssumption DEF SessionInv, OpEnter, Goto, Reopened, flags, disk, op,
         TypeOK, SerialOwned, Locked, Closing, Opening, Running, Labels, Conns,
         Formats
<1>4. QED
  BY <1>1, <1>2, <1>3 DEF SessionInv

\* The last block gives the serial queue back, and the object if nobody needs it.
LEMMA OpBlockKeeps ==
    ASSUME SessionInv, NEW t \in Threads, NEW creates \in BOOLEAN, OpBlock(t, creates)
    PROVE  SessionInv'
<1>1. LockOwned' /\ ClosingFacts' /\ ForceClosedNotOpened' /\ KeyPublished'
  BY DEF SessionInv, OpBlock, Goto, LeaveBlock, EndOperation, Without, flags,
         LockOwned, ClosingFacts, ForceClosedNotOpened, KeyPublished, Locked,
         Closing, Opening
<1>2. TypeOK'
  <2>1. path' \in [Queues -> Paths \cup {NoPath}] /\ conn' \in [Queues -> Conns]
    BY DEF SessionInv, OpBlock, LeaveBlock, Without, TypeOK, Conns
  <2>2. owner' \in [Queues -> Threads \cup {NoThread}] /\ held' \in [Threads -> Queues \cup {NoQueue}]
    BY DEF SessionInv, OpBlock, LeaveBlock, TypeOK
  <2>3. conn[held[t]] \in Conns
    BY DEF SessionInv, OpBlock, TypeOK, HoldsQueue
  <2>4. file' \in [Paths -> Formats \cup {"empty"}]
    BY <2>3 DEF SessionInv, OpBlock, TypeOK, Written, Conns, Formats
  <2>5. pc' \in [Threads -> Labels]
    BY DEF SessionInv, OpBlock, EndOperation, Goto, TypeOK, Labels
  <2>6. blocks' \in [Threads -> {0, 1, 2}] /\ admitted' \in [Threads -> Paths \cup {NoPath}]
    BY DEF SessionInv, OpBlock, EndOperation, TypeOK
  <2>7. QED
    BY <2>1, <2>2, <2>4, <2>5, <2>6 DEF SessionInv, OpBlock, LeaveBlock, flags, TypeOK
<1>3. HoldsQueue'
  BY DEF SessionInv, OpBlock, Goto, LeaveBlock, EndOperation, Without, flags,
         TypeOK, HoldsQueue, Locked, Closing, Opening, Running, Labels, Conns,
         Formats
<1>4. SerialOwned'
  BY SessionAssumption DEF SessionInv, OpBlock, Goto, LeaveBlock, EndOperation,
         Without, flags, TypeOK, SerialOwned, Locked, Closing, Opening, Running,
         Labels, Conns, Formats
<1>5. OpeningFacts'
  BY DEF SessionInv, OpBlock, Goto, LeaveBlock, EndOperation, Without, flags,
         TypeOK, OpeningFacts, Locked, Closing, Opening, Running, Labels, Conns,
         Formats, Format
<1>6. OpenedReady'
  BY DEF SessionInv, OpBlock, Goto, LeaveBlock, EndOperation, Without, flags,
         TypeOK, OpenedReady, Locked, Closing, Opening, Running, Labels, Conns,
         Formats, Format
<1>7. QED
  BY <1>1, <1>2, <1>3, <1>4, <1>5, <1>6 DEF SessionInv

\* So does the first block of an upsert.
LEMMA OpExistsKeeps ==
    ASSUME SessionInv, NEW t \in Threads, OpExists(t)
    PROVE  SessionInv'
<1>1. LockOwned' /\ ClosingFacts' /\ ForceClosedNotOpened' /\ KeyPublished'
  BY DEF SessionInv, OpExists, Goto, LeaveBlock, Without, flags, LockOwned,
         ClosingFacts, ForceClosedNotOpened, KeyPublished, Locked, Closing,
         Opening
<1>2. TypeOK'
  BY DEF SessionInv, OpExists, Goto, LeaveBlock, Without, flags, disk, TypeOK,
         HoldsQueue, SerialOwned, Locked, Closing, Opening, Running, Labels,
         Conns, Formats
<1>3. HoldsQueue'
  BY DEF SessionInv, OpExists, Goto, LeaveBlock, Without, flags, disk, TypeOK,
         HoldsQueue, Locked, Closing, Opening, Running, Labels, Conns, Formats
<1>4. SerialOwned'
  BY SessionAssumption DEF SessionInv, OpExists, Goto, LeaveBlock, Without,
         flags, disk, TypeOK, SerialOwned, Locked, Closing, Opening, Running,
         Labels, Conns, Formats
<1>5. OpeningFacts'
  BY DEF SessionInv, OpExists, Goto, LeaveBlock, Without, flags, disk, TypeOK,
         OpeningFacts, Locked, Closing, Opening, Running, Labels, Conns,
         Formats, Format
<1>6. OpenedReady'
  BY DEF SessionInv, OpExists, Goto, LeaveBlock, Without, flags, disk, TypeOK,
         OpenedReady, Locked, Closing, Opening, Running, Labels, Conns, Formats,
         Format
<1>7. QED
  BY <1>1, <1>2, <1>3, <1>4, <1>5, <1>6 DEF SessionInv

-----------------------------------------------------------------------------
(* The theorems *)

\* A process starts with the database neither open nor closed.
LEMMA InitEstablishes == Init => SessionInv
<1> SUFFICES ASSUME Init PROVE SessionInv
  OBVIOUS
<1>1. TypeOK
  BY DEF Init, TypeOK, Labels, Conns, Formats, Format
<1>2. LockOwned /\ HoldsQueue /\ SerialOwned
  BY SessionAssumption DEF Init, LockOwned, HoldsQueue, SerialOwned, Locked, Closing, Opening
<1>3. OpeningFacts /\ ClosingFacts /\ ForceClosedNotOpened /\ OpenedReady /\ KeyPublished
  BY DEF Init, OpeningFacts, ClosingFacts, ForceClosedNotOpened, OpenedReady,
         KeyPublished, Opening
<1>4. QED
  BY <1>1, <1>2, <1>3 DEF SessionInv

\* Every step of the library and of its callers keeps the invariant.
LEMMA NextKeeps == SessionInv /\ [Next]_vars => SessionInv'
<1> SUFFICES ASSUME SessionInv, [Next]_vars PROVE SessionInv'
  OBVIOUS
<1>1. CASE UNCHANGED vars
  BY <1>1 DEF SessionInv, TypeOK, LockOwned, HoldsQueue, SerialOwned, OpeningFacts, ClosingFacts, ForceClosedNotOpened, OpenedReady, KeyPublished,
         vars, flags, queues, disk, op
<1>2. ASSUME NEW t \in Threads, Setup(t) PROVE SessionInv'
  BY <1>2, SetupCheckKeeps, SetupPathKeeps, SetupClearKeeps DEF Setup
<1>3. ASSUME NEW t \in Threads, Close(t) PROVE SessionInv'
  BY <1>3, CloseLockKeeps, CloseDrainKeeps, CloseOpenedKeeps, CloseForcedKeeps DEF Close
<1>4. ASSUME NEW t \in Threads, OpenDB(t) PROVE SessionInv'
  BY <1>4, OpenFastKeeps, OpenSlowKeeps, OpenCheckKeeps, OpenAlreadyKeeps,
     OpenRefusedKeeps, OpenLockKeeps, OpenUpgradeKeeps, OpenPublishKeeps,
     OpenFailKeeps, OpenConfigureKeeps, OpenMigrateKeeps DEF OpenDB
<1>5. ASSUME NEW t \in Threads, Operate(t) PROVE SessionInv'
  BY <1>5, UpdateTableInDBKeeps, OpLoadKeeps, OpNilKeeps, OpRetainKeeps, OpDanglingKeeps,
     OpEnterKeeps, OpBlockKeeps, OpExistsKeeps DEF Operate
<1>6. QED
  BY <1>1, <1>2, <1>3, <1>4, <1>5 DEF Next

\* The inductive invariant holds of every reachable state.
THEOREM SessionInvariant == Spec => []SessionInv
<1>1. QED
  BY InitEstablishes, NextKeeps, PTL DEF Spec

\* Every variable keeps its type.
THEOREM TypeCorrect == Spec => []TypeOK
<1>1. SessionInv => TypeOK
  BY DEF SessionInv
<1>2. QED
  BY <1>1, SessionInvariant, PTL

\* Mutual exclusion: the lock protects closing, configuring and opening.
THEOREM MutualExclusion == Spec => []LockOwned
<1>1. SessionInv => LockOwned
  BY DEF SessionInv
<1>2. QED
  BY <1>1, SessionInvariant, PTL

\* The double-checked flags agree: closed excludes open.
THEOREM ClosedExcludesOpen == Spec => []ForceClosedNotOpened
<1>1. SessionInv => ForceClosedNotOpened
  BY DEF SessionInv
<1>2. QED
  BY <1>1, SessionInvariant, PTL

\* The fast path of openDB is sound: isOpened means a connection with its key.
THEOREM FastPathSound == Spec => []OpenedReady
<1>1. SessionInv => OpenedReady
  BY DEF SessionInv
<1>2. QED
  BY <1>1, SessionInvariant, PTL

\* A block ends on the connection and the file it began on, whoever closes,
\* configures, replaces or finishes meanwhile.
THEOREM BlockSafe == Spec => BlockKeepsConnection
<1> DEFINE Kept(q) == path'[q] = path[q] /\ conn'[q] = conn[q]
<1> DEFINE Step == \A q \in Queues : owner[q] # NoThread /\ owner'[q] = owner[q] => Kept(q)
<1>1. SessionInv /\ Next => Step
  <2> SUFFICES ASSUME SessionInv, Next, NEW q \in Queues,
                      owner[q] # NoThread, owner'[q] = owner[q]
               PROVE  Kept(q)
    OBVIOUS
  <2>1. owner[q] \in Threads /\ held[owner[q]] = q /\ pc[owner[q]] = "op_block"
    BY DEF SessionInv, TypeOK, SerialOwned
  <2>2. q \notin Unused(Threads) /\ Live(q)
    BY <2>1 DEF Unused, Live
  <2>3. CASE UNCHANGED <<path, conn>>
    BY <2>3
  <2>4. ASSUME NEW t \in Threads, CloseDrain(t) PROVE Kept(q)
    BY <2>4 DEF SessionInv, TypeOK, CloseDrain
  <2>5. ASSUME NEW t \in Threads, NEW r \in Queues, OpenPublish(t, r) PROVE Kept(q)
    BY <2>2, <2>5 DEF SessionInv, TypeOK, OpenPublish, Without
  <2>6. ASSUME NEW t \in Threads, OpenFail(t) PROVE Kept(q)
    BY <2>2, <2>6 DEF OpenFail, Without
  <2>7. ASSUME NEW t \in Threads, OpenConfigure(t) PROVE Kept(q)
    BY <2>7 DEF SessionInv, TypeOK, OpenConfigure
  <2>8. ASSUME NEW t \in Threads, NEW b \in BOOLEAN, OpenMigrate(t, b) PROVE Kept(q)
    BY <2>8 DEF SessionInv, TypeOK, OpenMigrate
  <2>9. ASSUME NEW t \in Threads, OpDangling(t) PROVE Kept(q)
    BY <2>9 DEF OpDangling
  <2>10. ASSUME NEW t \in Threads, OpEnter(t) PROVE Kept(q)
    BY <2>10 DEF SessionInv, TypeOK, OpEnter
  <2>11. ASSUME NEW t \in Threads, pc[t] = "op_block", LeaveBlock(t) PROVE Kept(q)
    <3>1. held[t] # q
      <4>1. CASE held[t] = q
        <5>1. owner'[q] = NoThread
          BY <2>11, <4>1 DEF SessionInv, TypeOK, LeaveBlock
        <5>2. QED
          BY <5>1
      <4>2. QED
        BY <4>1
    <3>2. QED
      BY <2>11, <3>1 DEF LeaveBlock, Without
  <2>12. ASSUME NEW t \in Threads, Setup(t) \/ Close(t) PROVE Kept(q)
    BY <2>3, <2>4, <2>12 DEF Setup, SetupCheck, SetupPath, SetupClear,
       Close, CloseLock, CloseOpened, CloseForced, queues
  <2>13. ASSUME NEW t \in Threads, OpenDB(t) PROVE Kept(q)
    BY <2>3, <2>5, <2>6, <2>7, <2>8, <2>13 DEF OpenDB, OpenFast, OpenSlow, OpenCheck,
       OpenAlready, OpenRefused, OpenLock, OpenUpgrade, queues
  <2>14. ASSUME NEW t \in Threads, Operate(t) PROVE Kept(q)
    <3>1. ASSUME NEW b \in BOOLEAN, OpBlock(t, b) PROVE Kept(q)
      BY <2>11, <3>1 DEF OpBlock
    <3>2. ASSUME OpExists(t) PROVE Kept(q)
      BY <2>11, <3>2 DEF OpExists
    <3>3. ASSUME UpdateTableInDB(t) \/ OpLoad(t) \/ OpNil(t) \/ OpRetain(t) PROVE Kept(q)
      BY <2>3, <3>3 DEF UpdateTableInDB, OpLoad, OpNil, OpRetain, queues
    <3>4. QED
      BY <2>9, <2>10, <2>14, <3>1, <3>2, <3>3 DEF Operate
  <2>15. QED
    BY <2>12, <2>13, <2>14 DEF Next
<1>2. SessionInv /\ [Next]_vars => [Step]_vars
  BY <1>1
<1>3. BlockKeepsConnection <=> [][Step]_vars
  BY DEF BlockKeepsConnection
<1>4. QED
  BY <1>2, <1>3, SessionInvariant, PTL DEF Spec

\* After closeDB no connection has the key, whatever operations are under way.
THEOREM ClosedWithoutKey == Spec => []ClosedHoldsNoKey
<1>1. SessionInv => ClosedHoldsNoKey
  <2> SUFFICES ASSUME SessionInv, isForceClosed, NEW q \in Queues, conn[q] = "cipher"
               PROVE  FALSE
    BY DEF ClosedHoldsNoKey
  <2>1. ~isOpened
    BY DEF SessionInv, ForceClosedNotOpened
  <2>2. PICK t \in Threads : pc[t] = "open_migrate"
    BY <2>1 DEF SessionInv, KeyPublished
  <2>3. QED
    BY <2>2 DEF SessionInv, OpeningFacts, Opening
<1>2. QED
  BY <1>1, SessionInvariant, PTL

\* A closed database is published again only after a setup.
THEOREM NoReopenBeforeSetup == Spec => ReopenNeedsSetup
<1>1. SessionInv /\ [Next]_vars
        => [fmdbQueue' \notin {fmdbQueue, NoQueue} => ~isForceClosed]_vars
  <2> SUFFICES ASSUME SessionInv, Next, fmdbQueue' \notin {fmdbQueue, NoQueue}
               PROVE  ~isForceClosed
    OBVIOUS
  <2>1. PICK t \in Threads, q \in Queues : OpenPublish(t, q)
    BY DEF Next, Setup, SetupCheck, SetupPath, SetupClear,
       Close, CloseLock, CloseDrain, CloseOpened, CloseForced,
       OpenDB, OpenFast, OpenSlow, OpenCheck, OpenAlready, OpenRefused, OpenLock,
       OpenUpgrade, OpenFail, OpenConfigure, OpenMigrate,
       Operate, UpdateTableInDB, OpLoad, OpNil, OpRetain, OpDangling, OpEnter, OpBlock,
       OpExists, queues
  <2>2. pc[t] = "open_publish"
    BY <2>1 DEF OpenPublish
  <2>3. QED
    BY <2>2 DEF SessionInv, OpeningFacts, Opening
<1>2. QED
  BY <1>1, SessionInvariant, PTL DEF Spec, ReopenNeedsSetup

\* A replaced or failed publication releases the old object unless a thread
\* uses it; the thread that used it last does.
LEMMA LeakFree == SessionInv /\ NoLeakedConnection /\ [Next]_vars => NoLeakedConnection'
<1> SUFFICES ASSUME SessionInv, NoLeakedConnection, [Next]_vars,
                    NEW q \in Queues, conn'[q] # "closed"
             PROVE  Live(q)'
  BY DEF NoLeakedConnection
<1>1. CASE UNCHANGED <<fmdbQueue, conn, held>>
  BY <1>1 DEF NoLeakedConnection, Live
<1>2. ASSUME NEW t \in Threads, CloseDrain(t) PROVE Live(q)'
  BY <1>2 DEF SessionInv, TypeOK, CloseDrain, op, NoLeakedConnection, Live
<1>3. ASSUME NEW t \in Threads, NEW r \in Queues, OpenPublish(t, r) PROVE Live(q)'
  <2>1. CASE q = r
    BY <1>3, <2>1 DEF OpenPublish, Live
  <2>2. CASE q # r
    <3>1. q \notin Unused(Threads) /\ conn[q] # "closed"
      BY <1>3, <2>2 DEF OpenPublish, Without
    <3>2. \E u \in Threads : held[u] = q
      BY <3>1 DEF NoLeakedConnection, Live, Unused
    <3>3. QED
      BY <1>3, <3>2 DEF OpenPublish, op, Live
  <2>3. QED
    BY <2>1, <2>2
<1>4. ASSUME NEW t \in Threads, OpenFail(t) PROVE Live(q)'
  <2>1. q \notin Unused(Threads) /\ conn[q] # "closed"
    BY <1>4 DEF OpenFail, Without
  <2>2. \E u \in Threads : held[u] = q
    BY <2>1 DEF NoLeakedConnection, Live, Unused
  <2>3. QED
    BY <1>4, <2>2 DEF OpenFail, op, Live
<1>5. ASSUME NEW t \in Threads, OpenConfigure(t) PROVE Live(q)'
  BY <1>5 DEF SessionInv, TypeOK, OpenConfigure, op, NoLeakedConnection, Live
<1>6. ASSUME NEW t \in Threads, NEW b \in BOOLEAN, OpenMigrate(t, b) PROVE Live(q)'
  BY <1>6 DEF SessionInv, TypeOK, OpenMigrate, Admit, NoLeakedConnection, Live
<1>7. ASSUME NEW t \in Threads, OpRetain(t) PROVE Live(q)'
  <2>1. held[t] = NoQueue
    BY <1>7 DEF SessionInv, HoldsQueue, OpRetain
  <2>2. q # NoQueue
    BY SessionAssumption
  <2>3. QED
    BY <1>7, <2>1, <2>2 DEF SessionInv, TypeOK, OpRetain, queues, NoLeakedConnection, Live
<1>8. ASSUME NEW t \in Threads, OpEnter(t) PROVE Live(q)'
  BY <1>8 DEF SessionInv, TypeOK, OpEnter, op, NoLeakedConnection, Live
<1>9. ASSUME NEW t \in Threads, LeaveBlock(t), UNCHANGED fmdbQueue PROVE Live(q)'
  <2>1. conn[q] # "closed"
    BY <1>9 DEF LeaveBlock, Without
  <2>2. CASE q = held[t] /\ q # fmdbQueue
    <3>1. PICK u \in Threads \ {t} : held[u] = q
      BY <1>9, <2>2 DEF LeaveBlock, Without
    <3>2. QED
      BY <1>9, <3>1 DEF SessionInv, TypeOK, LeaveBlock, Live
  <2>3. CASE q # held[t] \/ q = fmdbQueue
    BY <1>9, <2>1, <2>3 DEF SessionInv, TypeOK, LeaveBlock, NoLeakedConnection, Live
  <2>4. QED
    BY <2>2, <2>3
<1>10. ASSUME NEW t \in Threads, Setup(t) \/ Close(t) PROVE Live(q)'
  BY <1>1, <1>2, <1>10 DEF Setup, SetupCheck, SetupPath, SetupClear,
     Close, CloseLock, CloseOpened, CloseForced, queues, op
<1>11. ASSUME NEW t \in Threads, OpenDB(t) PROVE Live(q)'
  BY <1>1, <1>3, <1>4, <1>5, <1>6, <1>11 DEF OpenDB, OpenFast, OpenSlow, OpenCheck,
     OpenAlready, OpenRefused, OpenLock, OpenUpgrade, Admit, queues, op
<1>12. ASSUME NEW t \in Threads, Operate(t) PROVE Live(q)'
  <2>1. ASSUME NEW b \in BOOLEAN, OpBlock(t, b) PROVE Live(q)'
    BY <1>9, <2>1 DEF OpBlock
  <2>2. ASSUME OpExists(t) PROVE Live(q)'
    BY <1>9, <2>2 DEF OpExists
  <2>3. ASSUME UpdateTableInDB(t) \/ OpLoad(t) \/ OpNil(t) PROVE Live(q)'
    BY <1>1, <2>3 DEF UpdateTableInDB, OpLoad, OpNil, queues
  <2>4. ASSUME OpDangling(t) PROVE Live(q)'
    BY <2>4 DEF OpDangling
  <2>5. QED
    BY <1>7, <1>8, <1>12, <2>1, <2>2, <2>3, <2>4 DEF Operate
<1>13. CASE UNCHANGED vars
  BY <1>1, <1>13 DEF vars, queues, op
<1>14. QED
  BY <1>10, <1>11, <1>12, <1>13 DEF Next

\* No connection leaks: whoever replaces, fails or finishes releases it.
THEOREM NothingLeaks == Spec => []NoLeakedConnection
<1>1. Init => NoLeakedConnection
  BY DEF Init, NoLeakedConnection
<1>2. QED
  BY <1>1, LeakFree, SessionInvariant, PTL DEF Spec
=============================================================================
