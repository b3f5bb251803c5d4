---------------------------- MODULE PagerProofs ----------------------------
(***************************************************************************)
(* Theorems about the locking side of the pager: what the level that the   *)
(* pager believes it has (eLock), the level that the system has granted    *)
(* (lock), the state of the pager and the step it is at say of each other. *)
(* They hold for any number of connections and processes, any              *)
(* configuration and any sequence of I/O errors, kills and power losses.   *)
(***************************************************************************)
EXTENDS Pager, TLAPS

Writers == WRITER_LOCKED..WRITER_FINISHED

HotSteps == {"hot_exists", "hot_resv", "hot_delete", "hot_read"}
EndSteps == {"end_journal", "end_sync", "end_unlock", "end_failing"}

PagerPc == {"idle", "hot_excl", "hot_open", "check", "failed", "begin_excl", "first_write",
            "must_rollback"}
             \cup HotSteps \cup PlaybackSteps \cup EndSteps
             \cup {"sj_lock"} \cup SyncSteps \cup CommitSteps

PgTypeOK ==
  /\ lock \in [Conn -> L!Level]
  /\ resv \subseteq Conn
  /\ eState \in [Conn -> OPEN..ERROR]
  /\ eLock \in [Conn -> {NO_LOCK, SHARED_LOCK, RESERVED_LOCK, EXCLUSIVE_LOCK, UNKNOWN_LOCK}]
  /\ pc \in [Conn -> PagerPc]
  /\ op \in [Conn -> {"none", "shared", "commit", "rollback", "spill"}]

\* Which operation a step belongs to, and in which states of the pager it is taken
StepAt(c) ==
  /\ pc[c] \in {"idle", "begin_excl", "first_write", "must_rollback"} <=> op[c] = "none"
  /\ pc[c] \in HotSteps \cup {"hot_excl", "hot_open", "hot_sync", "check", "failed"}
       => op[c] = "shared"
  /\ op[c] = "shared" => eState[c] = OPEN \/ (eState[c] = ERROR /\ pc[c] = "failed")
  /\ op[c] = "shared" => pc[c] \notin SyncSteps \cup CommitSteps \cup {"sj_lock"}
  /\ op[c] \in {"commit", "rollback", "spill"} => eState[c] \in Writers
  /\ pc[c] \in {"first_write", "must_rollback"} => eState[c] \in Writers
  /\ pc[c] = "begin_excl" => eState[c] = READER

\* What is known of the lock the system has granted, whatever eLock says
LockAt(c) ==
  /\ eLock[c] # UNKNOWN_LOCK => eLock[c] <= lock[c]
  /\ op[c] = "shared" => lock[c] >= SHARED_LOCK
  /\ eState[c] \in READER..WRITER_FINISHED => lock[c] >= SHARED_LOCK
  /\ pc[c] = "begin_excl" => lock[c] >= RESERVED_LOCK
  /\ eState[c] \in Writers => lock[c] >= RESERVED_LOCK
  /\ op[c] = "shared" /\ pc[c] \in {"hot_open"} \cup PlaybackSteps \cup EndSteps
       => lock[c] = EXCLUSIVE_LOCK
  /\ eState[c] \in {WRITER_DBMOD, WRITER_FINISHED} => lock[c] = EXCLUSIVE_LOCK
  /\ pc[c] \in SyncSteps \cup {"c1_truncate", "c1_sync"} => lock[c] = EXCLUSIVE_LOCK

\* EXCLUSIVE excludes every lock of the others, the process notwithstanding.
ExclInv == \A c, d \in Conn : c # d /\ lock[c] = EXCLUSIVE_LOCK => lock[d] = NO_LOCK

\* Where xUnlock fails in the error state only, a writer has the reservation.
ResvAt(c) ==
  /\ eState[c] \in Writers => c \in resv
  /\ pc[c] = "begin_excl" => c \in resv
  /\ lock[c] \in {NO_LOCK, SHARED_LOCK} => c \notin resv
  /\ eState[c] = READER => lock[c] = SHARED_LOCK \/ c \in resv
  /\ eState[c] = OPEN /\ op[c] = "none" /\ eLock[c] # UNKNOWN_LOCK => lock[c] = NO_LOCK
  /\ pc[c] \in HotSteps \cup {"check"} => lock[c] = SHARED_LOCK

OneReservation == \A c, d \in resv : c = d

PgInv == /\ PgTypeOK /\ ExclInv /\ OneReservation
         /\ \A c \in Conn : StepAt(c) /\ LockAt(c) /\ (LooseUnlock \/ ResvAt(c))

-----------------------------------------------------------------------------
USE DEF NO_LOCK, L!NO_LOCK, SHARED_LOCK, L!SHARED_LOCK, RESERVED_LOCK, L!RESERVED_LOCK,
        L!PENDING_LOCK, EXCLUSIVE_LOCK, L!EXCLUSIVE_LOCK, UNKNOWN_LOCK, L!Level,
        OPEN, READER, WRITER_LOCKED, WRITER_CACHEMOD, WRITER_DBMOD, WRITER_FINISHED, ERROR,
        Writers

\* A step of one connection may change its own lock only, and leaves the locks compatible.
LockFrame(c) ==
  /\ lock' \in [Conn -> L!Level] /\ resv' \subseteq Conn
  /\ ExclInv' /\ OneReservation'
  /\ \A d \in Conn \ {c} : lock'[d] = lock[d] /\ (d \in resv' <=> d \in resv)

LEMMA LockSame ==
  ASSUME PgInv, NEW c \in Conn, UNCHANGED lockVars
  PROVE  LockFrame(c)
BY DEF LockFrame, PgInv, PgTypeOK, ExclInv, OneReservation, lockVars

\* What xLock() does when it succeeds: sqlite3OsLock().
LEMMA OsLockFrame ==
  ASSUME PgInv, NEW c \in Conn, NEW l \in {SHARED_LOCK, RESERVED_LOCK, EXCLUSIVE_LOCK},
         OsLock(c, l)
  PROVE  /\ LockFrame(c)
         /\ lock'[c] >= l
         /\ lock[c] < l => lock'[c] = l
         /\ lock[c] >= l => lock'[c] = lock[c] /\ resv' = resv
         /\ l = RESERVED_LOCK /\ lock[c] < l => c \in resv'
         /\ l = EXCLUSIVE_LOCK => resv' = resv
         /\ l = SHARED_LOCK => resv' = resv
<1> USE DEF PgInv, PgTypeOK, ExclInv, OneReservation
<1>1. CASE lock[c] >= l /\ UNCHANGED lockVars
  BY <1>1, LockSame DEF lockVars
<1>2. CASE lock[c] < l /\ l = SHARED_LOCK /\ L!GetShared(c)
  BY <1>2 DEF L!GetShared, L!Others, LockFrame
<1>3. CASE lock[c] < l /\ l = RESERVED_LOCK /\ L!GetReserved(c)
  BY <1>3 DEF L!GetReserved, LockFrame
<1>4. CASE lock[c] < l /\ l = EXCLUSIVE_LOCK /\ UNCHANGED resv /\ L!GetExclusive(c)
  BY <1>4 DEF L!GetExclusive, L!Others, LockFrame
<1> QED BY <1>1, <1>2, <1>3, <1>4 DEF OsLock

\* What it may do when it fails: the handle of a reader is left with PENDING.
LEMMA OsRefusedFrame ==
  ASSUME PgInv, NEW c \in Conn, OsLockRefused(c, EXCLUSIVE_LOCK)
  PROVE  /\ LockFrame(c) /\ resv' = resv
         /\ lock'[c] >= lock[c]
         /\ lock'[c] = lock[c] \/ lock'[c] \notin {NO_LOCK, SHARED_LOCK}
<1> USE DEF PgInv, PgTypeOK, ExclInv, OneReservation
<1>1. CASE UNCHANGED lockVars
  BY <1>1, LockSame DEF lockVars
<1>2. CASE UNCHANGED resv /\ L!GetPending(c)
  BY <1>2 DEF L!GetPending, L!Others, LockFrame
<1> QED BY <1>1, <1>2 DEF OsLockRefused

\* xUnlock()
LEMMA OsUnlockFrame ==
  ASSUME PgInv, NEW c \in Conn, NEW l \in {NO_LOCK, SHARED_LOCK}, OsUnlock(c, l)
  PROVE  /\ LockFrame(c)
         /\ lock[c] >= l => lock'[c] = l
         /\ lock'[c] <= l
         /\ lock[c] > l => c \notin resv'
         /\ lock[c] <= l => resv' = resv
<1> USE DEF PgInv, PgTypeOK, ExclInv, OneReservation
<1>1. CASE lock[c] > l
  BY <1>1 DEF OsUnlock, L!Release, LockFrame
<1>2. CASE ~(lock[c] > l)
  BY <1>2, LockSame DEF OsUnlock, lockVars
<1> QED BY <1>1, <1>2

\* pagerLockDb()
LEMMA LockDbFrame ==
  ASSUME PgInv, NEW c \in Conn, NEW l \in {SHARED_LOCK, RESERVED_LOCK, EXCLUSIVE_LOCK},
         LockDb(c, l)
  PROVE  /\ eLock' = [eLock EXCEPT ![c] = eLock'[c]]
         /\ eLock'[c] \in {l, eLock[c], UNKNOWN_LOCK}
         /\ LockFrame(c)
         /\ lock'[c] >= l
         /\ eLock'[c] # UNKNOWN_LOCK => eLock'[c] <= lock'[c]
         /\ l = EXCLUSIVE_LOCK => eLock'[c] = EXCLUSIVE_LOCK /\ resv' = resv
         /\ l = SHARED_LOCK => resv' = resv
         /\ lock[c] < l => lock'[c] = l
         /\ lock[c] >= l => lock'[c] = lock[c] /\ resv' = resv
         /\ l = RESERVED_LOCK /\ lock[c] < l => c \in resv'
         /\ eLock[c] = UNKNOWN_LOCK /\ l # EXCLUSIVE_LOCK => eLock'[c] = UNKNOWN_LOCK
         /\ eLock[c] # UNKNOWN_LOCK => eLock'[c] # UNKNOWN_LOCK /\ eLock'[c] >= l
<1> USE DEF PgInv, PgTypeOK
<1>0. eLock[c] # UNKNOWN_LOCK => eLock[c] <= lock[c]
  BY DEF LockAt
<1>1. lock[c] \in 0..4 /\ eLock[c] \in {0, 1, 2, 4, 5} /\ l \in {1, 2, 4}
  OBVIOUS
<1>2. CASE eLock[c] >= l /\ eLock[c] # UNKNOWN_LOCK /\ UNCHANGED <<lockVars, eLock>>
  <2>1. eLock' = [eLock EXCEPT ![c] = eLock'[c]] /\ eLock'[c] = eLock[c]
    BY <1>2
  <2>2. LockFrame(c) /\ lock' = lock /\ resv' = resv
    BY <1>2, LockSame DEF lockVars
  <2> HIDE DEF PgInv, PgTypeOK
  <2> QED BY <1>0, <1>1, <1>2, <2>1, <2>2
<1>3. CASE /\ eLock[c] < l \/ eLock[c] = UNKNOWN_LOCK
           /\ OsLock(c, l)
           /\ eLock' = [eLock EXCEPT ![c] = LockedLevel(c, l)]
  <2>1. eLock' = [eLock EXCEPT ![c] = eLock'[c]] /\ eLock'[c] = LockedLevel(c, l)
    BY <1>3
  <2>2. eLock'[c] = IF eLock[c] = UNKNOWN_LOCK /\ l # EXCLUSIVE_LOCK THEN UNKNOWN_LOCK ELSE l
    BY <2>1 DEF LockedLevel
  <2>3. /\ LockFrame(c) /\ lock'[c] >= l
        /\ lock[c] < l => lock'[c] = l
        /\ lock[c] >= l => lock'[c] = lock[c] /\ resv' = resv
        /\ l = RESERVED_LOCK /\ lock[c] < l => c \in resv'
        /\ l = EXCLUSIVE_LOCK => resv' = resv
        /\ l = SHARED_LOCK => resv' = resv
    BY <1>3, OsLockFrame
  <2> HIDE DEF PgInv, PgTypeOK
  <2> QED BY <1>1, <1>3, <2>1, <2>2, <2>3
<1> QED BY <1>2, <1>3 DEF LockDb

\* pagerUnlockDb()
LEMMA UnlockDbFrame ==
  ASSUME PgInv, NEW c \in Conn, NEW l \in {NO_LOCK, SHARED_LOCK}, UnlockDb(c, l), lock[c] >= l
  PROVE  /\ eLock' = [eLock EXCEPT ![c] = eLock'[c]]
         /\ eLock'[c] = IF eLock[c] = UNKNOWN_LOCK THEN UNKNOWN_LOCK ELSE l
         /\ LockFrame(c)
         /\ lock'[c] = l
         /\ lock[c] > l => c \notin resv'
         /\ lock[c] <= l => resv' = resv
<1>1. eLock' = [eLock EXCEPT ![c] = eLock'[c]] /\ eLock'[c] = UnlockedLevel(c, l)
  BY DEF UnlockDb, PgInv, PgTypeOK
<1> QED BY <1>1, OsUnlockFrame DEF UnlockDb, UnlockedLevel

-----------------------------------------------------------------------------
(* Steps *)

\* The steps of a connection leave what the others know alone.
LEMMA StepFrame ==
  ASSUME PgInv, NEW c \in Conn,
         eState' = [eState EXCEPT ![c] = eState'[c]], eState'[c] \in OPEN..ERROR,
         eLock' = [eLock EXCEPT ![c] = eLock'[c]],
         eLock'[c] \in {NO_LOCK, SHARED_LOCK, RESERVED_LOCK, EXCLUSIVE_LOCK, UNKNOWN_LOCK},
         pc' = [pc EXCEPT ![c] = pc'[c]], pc'[c] \in PagerPc,
         op' = [op EXCEPT ![c] = op'[c]],
         op'[c] \in {"none", "shared", "commit", "rollback", "spill"},
         LockFrame(c), StepAt(c)', LockAt(c)', LooseUnlock \/ ResvAt(c)'
  PROVE  PgInv'
<1>1. PgTypeOK'
  BY DEF PgInv, PgTypeOK, LockFrame
<1>2. ExclInv' /\ OneReservation'
  BY DEF LockFrame
<1>3. ASSUME NEW d \in Conn
      PROVE  StepAt(d)' /\ LockAt(d)' /\ (LooseUnlock \/ ResvAt(d)')
  <2>1. CASE d = c
    BY <2>1
  <2>2. CASE d # c
    <3>1. /\ eState'[d] = eState[d] /\ eLock'[d] = eLock[d] /\ pc'[d] = pc[d]
          /\ op'[d] = op[d] /\ lock'[d] = lock[d] /\ (d \in resv' <=> d \in resv)
      BY <2>2 DEF PgInv, PgTypeOK, LockFrame
    <3>2. StepAt(d) /\ LockAt(d) /\ (LooseUnlock \/ ResvAt(d))
      BY DEF PgInv
    <3>3. StepAt(d)'
      BY <3>1, <3>2 DEF StepAt
    <3>4. LockAt(d)'
      BY <3>1, <3>2 DEF LockAt
    <3>5. LooseUnlock \/ ResvAt(d)'
      BY <3>1, <3>2 DEF ResvAt
    <3> QED BY <3>3, <3>4, <3>5
  <2> QED BY <2>1, <2>2
<1> QED BY <1>1, <1>2, <1>3 DEF PgInv

LEMMA AtHere ==
  ASSUME PgInv, NEW c \in Conn
  PROVE  /\ StepAt(c) /\ LockAt(c) /\ (LooseUnlock \/ ResvAt(c))
         /\ lock[c] \in 0..4 /\ eState[c] \in 0..6 /\ eLock[c] \in {0, 1, 2, 4, 5}
         /\ pc[c] \in PagerPc /\ op[c] \in {"none", "shared", "commit", "rollback", "spill"}
         /\ DOMAIN pc = Conn /\ DOMAIN op = Conn /\ DOMAIN eState = Conn /\ DOMAIN eLock = Conn
BY DEF PgInv, PgTypeOK

\* Steps that ask nothing of the VFS's locks
LEMMA QuietFrame ==
  ASSUME PgInv, NEW c \in Conn, UNCHANGED <<lockVars, eLock>>,
         eState' = [eState EXCEPT ![c] = eState'[c]], eState'[c] \in OPEN..ERROR,
         pc' = [pc EXCEPT ![c] = pc'[c]], pc'[c] \in PagerPc,
         op' = [op EXCEPT ![c] = op'[c]],
         op'[c] \in {"none", "shared", "commit", "rollback", "spill"},
         StepAt(c)', LockAt(c)', LooseUnlock \/ ResvAt(c)'
  PROVE  PgInv'
<1>1. LockFrame(c)
  BY LockSame
<1>2. /\ eLock' = [eLock EXCEPT ![c] = eLock'[c]]
      /\ eLock'[c] \in {NO_LOCK, SHARED_LOCK, RESERVED_LOCK, EXCLUSIVE_LOCK, UNKNOWN_LOCK}
  BY DEF PgInv, PgTypeOK
<1> QED BY <1>1, <1>2, StepFrame

\* hasHotJournal(): the journal may be there.
LEMMA PgHotExists ==
  ASSUME PgInv, NEW c \in Conn, HotExists(c)
  PROVE  PgInv'
<1>1. /\ UNCHANGED <<lockVars, eLock>>
      /\ eState' = [eState EXCEPT ![c] = eState'[c]]
      /\ pc' = [pc EXCEPT ![c] = pc'[c]]
      /\ op' = [op EXCEPT ![c] = op'[c]]
  BY DEF PgInv, PgTypeOK, HotExists, Goto
<1>2. /\ eState'[c] \in OPEN..ERROR /\ pc'[c] \in PagerPc
      /\ op'[c] \in {"none", "shared", "commit", "rollback", "spill"}
      /\ StepAt(c)' /\ LockAt(c)' /\ (LooseUnlock \/ ResvAt(c)')
  <2>1. lock'[c] = lock[c] /\ eLock'[c] = eLock[c] /\ (c \in resv' <=> c \in resv)
    BY <1>1 DEF lockVars
  <2> QED
    BY <1>1, <2>1, AtHere DEF StepAt, LockAt, ResvAt,
       PagerPc, HotSteps, EndSteps, PlaybackSteps, SyncSteps, CommitSteps,
       HotExists, Goto
<1> QED BY <1>1, <1>2, QuietFrame

\* hasHotJournal(): nobody has reserved the database.
LEMMA PgHotReserved ==
  ASSUME PgInv, NEW c \in Conn, HotReserved(c)
  PROVE  PgInv'
<1>1. /\ UNCHANGED <<lockVars, eLock>>
      /\ eState' = [eState EXCEPT ![c] = eState'[c]]
      /\ pc' = [pc EXCEPT ![c] = pc'[c]]
      /\ op' = [op EXCEPT ![c] = op'[c]]
  BY DEF PgInv, PgTypeOK, HotReserved, Goto
<1>2. /\ eState'[c] \in OPEN..ERROR /\ pc'[c] \in PagerPc
      /\ op'[c] \in {"none", "shared", "commit", "rollback", "spill"}
      /\ StepAt(c)' /\ LockAt(c)' /\ (LooseUnlock \/ ResvAt(c)')
  <2>1. lock'[c] = lock[c] /\ eLock'[c] = eLock[c] /\ (c \in resv' <=> c \in resv)
    BY <1>1 DEF lockVars
  <2> QED
    BY <1>1, <2>1, AtHere DEF StepAt, LockAt, ResvAt,
       PagerPc, HotSteps, EndSteps, PlaybackSteps, SyncSteps, CommitSteps,
       HotReserved, Goto
<1> QED BY <1>1, <1>2, QuietFrame

\* hasHotJournal(): the journal of an empty database goes.
LEMMA PgHotDelete ==
  ASSUME PgInv, NEW c \in Conn, HotDelete(c)
  PROVE  PgInv'
<1>1. /\ UNCHANGED <<lockVars, eLock>>
      /\ eState' = [eState EXCEPT ![c] = eState'[c]]
      /\ pc' = [pc EXCEPT ![c] = pc'[c]]
      /\ op' = [op EXCEPT ![c] = op'[c]]
  BY DEF PgInv, PgTypeOK, HotDelete, Goto
<1>2. /\ eState'[c] \in OPEN..ERROR /\ pc'[c] \in PagerPc
      /\ op'[c] \in {"none", "shared", "commit", "rollback", "spill"}
      /\ StepAt(c)' /\ LockAt(c)' /\ (LooseUnlock \/ ResvAt(c)')
  <2>1. lock'[c] = lock[c] /\ eLock'[c] = eLock[c] /\ (c \in resv' <=> c \in resv)
    BY <1>1 DEF lockVars
  <2> QED
    BY <1>1, <2>1, AtHere DEF StepAt, LockAt, ResvAt,
       PagerPc, HotSteps, EndSteps, PlaybackSteps, SyncSteps, CommitSteps,
       HotDelete, Goto
<1> QED BY <1>1, <1>2, QuietFrame

\* hasHotJournal(): the first byte of the journal.
LEMMA PgHotRead ==
  ASSUME PgInv, NEW c \in Conn, HotRead(c)
  PROVE  PgInv'
<1>1. /\ UNCHANGED <<lockVars, eLock>>
      /\ eState' = [eState EXCEPT ![c] = eState'[c]]
      /\ pc' = [pc EXCEPT ![c] = pc'[c]]
      /\ op' = [op EXCEPT ![c] = op'[c]]
  BY DEF PgInv, PgTypeOK, HotRead, Goto
<1>2. /\ eState'[c] \in OPEN..ERROR /\ pc'[c] \in PagerPc
      /\ op'[c] \in {"none", "shared", "commit", "rollback", "spill"}
      /\ StepAt(c)' /\ LockAt(c)' /\ (LooseUnlock \/ ResvAt(c)')
  <2>1. lock'[c] = lock[c] /\ eLock'[c] = eLock[c] /\ (c \in resv' <=> c \in resv)
    BY <1>1 DEF lockVars
  <2> QED
    BY <1>1, <2>1, AtHere DEF StepAt, LockAt, ResvAt,
       PagerPc, HotSteps, EndSteps, PlaybackSteps, SyncSteps, CommitSteps,
       HotRead, Goto
<1> QED BY <1>1, <1>2, QuietFrame

\* sqlite3PagerSharedLock(): the read transaction is open.
LEMMA PgCheckCache ==
  ASSUME PgInv, NEW c \in Conn, CheckCache(c)
  PROVE  PgInv'
<1>1. /\ UNCHANGED <<lockVars, eLock>>
      /\ eState' = [eState EXCEPT ![c] = eState'[c]]
      /\ pc' = [pc EXCEPT ![c] = pc'[c]]
      /\ op' = [op EXCEPT ![c] = op'[c]]
  BY DEF PgInv, PgTypeOK, CheckCache, Goto
<1>2. /\ eState'[c] \in OPEN..ERROR /\ pc'[c] \in PagerPc
      /\ op'[c] \in {"none", "shared", "commit", "rollback", "spill"}
      /\ StepAt(c)' /\ LockAt(c)' /\ (LooseUnlock \/ ResvAt(c)')
  <2>1. lock'[c] = lock[c] /\ eLock'[c] = eLock[c] /\ (c \in resv' <=> c \in resv)
    BY <1>1 DEF lockVars
  <2> QED
    BY <1>1, <2>1, AtHere DEF StepAt, LockAt, ResvAt,
       PagerPc, HotSteps, EndSteps, PlaybackSteps, SyncSteps, CommitSteps,
       CheckCache, Goto
<1> QED BY <1>1, <1>2, QuietFrame

\* sqlite3PagerSharedLock(): a system call fails.
LEMMA PgSharedLockFails ==
  ASSUME PgInv, NEW c \in Conn, SharedLockFails(c)
  PROVE  PgInv'
<1>1. /\ UNCHANGED <<lockVars, eLock>>
      /\ eState' = [eState EXCEPT ![c] = eState'[c]]
      /\ pc' = [pc EXCEPT ![c] = pc'[c]]
      /\ op' = [op EXCEPT ![c] = op'[c]]
  BY DEF PgInv, PgTypeOK, SharedLockFails, Goto
<1>2. /\ eState'[c] \in OPEN..ERROR /\ pc'[c] \in PagerPc
      /\ op'[c] \in {"none", "shared", "commit", "rollback", "spill"}
      /\ StepAt(c)' /\ LockAt(c)' /\ (LooseUnlock \/ ResvAt(c)')
  <2>1. lock'[c] = lock[c] /\ eLock'[c] = eLock[c] /\ (c \in resv' <=> c \in resv)
    BY <1>1 DEF lockVars
  <2> QED
    BY <1>1, <2>1, AtHere DEF StepAt, LockAt, ResvAt,
       PagerPc, HotSteps, EndSteps, PlaybackSteps, SyncSteps, CommitSteps,
       SharedLockFails, Goto
<1> QED BY <1>1, <1>2, QuietFrame

\* pagerSyncHotJournal()
LEMMA PgHotSync ==
  ASSUME PgInv, NEW c \in Conn, HotSync(c)
  PROVE  PgInv'
<1>1. /\ UNCHANGED <<lockVars, eLock>>
      /\ eState' = [eState EXCEPT ![c] = eState'[c]]
      /\ pc' = [pc EXCEPT ![c] = pc'[c]]
      /\ op' = [op EXCEPT ![c] = op'[c]]
  BY DEF PgInv, PgTypeOK, HotSync, StartPlayback, Goto
<1>2. /\ eState'[c] \in OPEN..ERROR /\ pc'[c] \in PagerPc
      /\ op'[c] \in {"none", "shared", "commit", "rollback", "spill"}
      /\ StepAt(c)' /\ LockAt(c)' /\ (LooseUnlock \/ ResvAt(c)')
  <2>1. lock'[c] = lock[c] /\ eLock'[c] = eLock[c] /\ (c \in resv' <=> c \in resv)
    BY <1>1 DEF lockVars
  <2>2. /\ pc[c] = "hot_sync" /\ pc'[c] \in {"pb_sync", "pb_truncate"}
        /\ eState' = eState /\ op' = op
    BY AtHere DEF HotSync, StartPlayback, Goto
  <2> QED
    BY <1>1, <2>1, <2>2, AtHere DEF StepAt, LockAt, ResvAt,
       PagerPc, HotSteps, EndSteps, PlaybackSteps, SyncSteps, CommitSteps
<1> QED BY <1>1, <1>2, QuietFrame

\* pager_playback(): the file is cut or extended.
LEMMA PgPlaybackTruncate ==
  ASSUME PgInv, NEW c \in Conn, PlaybackTruncate(c)
  PROVE  PgInv'
<1>1. /\ UNCHANGED <<lockVars, eLock>>
      /\ eState' = [eState EXCEPT ![c] = eState'[c]]
      /\ pc' = [pc EXCEPT ![c] = pc'[c]]
      /\ op' = [op EXCEPT ![c] = op'[c]]
  BY DEF PgInv, PgTypeOK, PlaybackTruncate, Goto
<1>2. /\ eState'[c] \in OPEN..ERROR /\ pc'[c] \in PagerPc
      /\ op'[c] \in {"none", "shared", "commit", "rollback", "spill"}
      /\ StepAt(c)' /\ LockAt(c)' /\ (LooseUnlock \/ ResvAt(c)')
  <2>1. lock'[c] = lock[c] /\ eLock'[c] = eLock[c] /\ (c \in resv' <=> c \in resv)
    BY <1>1 DEF lockVars
  <2> QED
    BY <1>1, <2>1, AtHere DEF StepAt, LockAt, ResvAt,
       PagerPc, HotSteps, EndSteps, PlaybackSteps, SyncSteps, CommitSteps,
       PlaybackTruncate, Goto
<1> QED BY <1>1, <1>2, QuietFrame

\* pager_playback_one_page()
LEMMA PgPlaybackPage ==
  ASSUME PgInv, NEW c \in Conn, PlaybackPage(c)
  PROVE  PgInv'
<1>1. /\ UNCHANGED <<lockVars, eLock>>
      /\ eState' = [eState EXCEPT ![c] = eState'[c]]
      /\ pc' = [pc EXCEPT ![c] = pc'[c]]
      /\ op' = [op EXCEPT ![c] = op'[c]]
  BY DEF PgInv, PgTypeOK, PlaybackPage, Goto
<1>2. /\ eState'[c] \in OPEN..ERROR /\ pc'[c] \in PagerPc
      /\ op'[c] \in {"none", "shared", "commit", "rollback", "spill"}
      /\ StepAt(c)' /\ LockAt(c)' /\ (LooseUnlock \/ ResvAt(c)')
  <2>1. lock'[c] = lock[c] /\ eLock'[c] = eLock[c] /\ (c \in resv' <=> c \in resv)
    BY <1>1 DEF lockVars
  <2>2. pc[c] = "pb_page" /\ pc'[c] \in {"pb_sync", "pb_page"} /\ eState' = eState /\ op' = op
    BY AtHere DEF PlaybackPage, Goto
  <2> QED
    BY <1>1, <2>1, <2>2, AtHere DEF StepAt, LockAt, ResvAt,
       PagerPc, HotSteps, EndSteps, PlaybackSteps, SyncSteps, CommitSteps
<1> QED BY <1>1, <1>2, QuietFrame

\* pager_playback(): the file is synced.
LEMMA PgPlaybackSync ==
  ASSUME PgInv, NEW c \in Conn, PlaybackSync(c)
  PROVE  PgInv'
<1>1. /\ UNCHANGED <<lockVars, eLock>>
      /\ eState' = [eState EXCEPT ![c] = eState'[c]]
      /\ pc' = [pc EXCEPT ![c] = pc'[c]]
      /\ op' = [op EXCEPT ![c] = op'[c]]
  BY DEF PgInv, PgTypeOK, PlaybackSync, Goto
<1>2. /\ eState'[c] \in OPEN..ERROR /\ pc'[c] \in PagerPc
      /\ op'[c] \in {"none", "shared", "commit", "rollback", "spill"}
      /\ StepAt(c)' /\ LockAt(c)' /\ (LooseUnlock \/ ResvAt(c)')
  <2>1. lock'[c] = lock[c] /\ eLock'[c] = eLock[c] /\ (c \in resv' <=> c \in resv)
    BY <1>1 DEF lockVars
  <2> QED
    BY <1>1, <2>1, AtHere DEF StepAt, LockAt, ResvAt,
       PagerPc, HotSteps, EndSteps, PlaybackSteps, SyncSteps, CommitSteps,
       PlaybackSync, Goto
<1> QED BY <1>1, <1>2, QuietFrame

\* pager_end_transaction(): the journal is finalized.
LEMMA PgFinalizeJournal ==
  ASSUME PgInv, NEW c \in Conn, FinalizeJournal(c)
  PROVE  PgInv'
<1>1. /\ UNCHANGED <<lockVars, eLock>>
      /\ eState' = [eState EXCEPT ![c] = eState'[c]]
      /\ pc' = [pc EXCEPT ![c] = pc'[c]]
      /\ op' = [op EXCEPT ![c] = op'[c]]
  BY DEF PgInv, PgTypeOK, FinalizeJournal, Goto
<1>2. /\ eState'[c] \in OPEN..ERROR /\ pc'[c] \in PagerPc
      /\ op'[c] \in {"none", "shared", "commit", "rollback", "spill"}
      /\ StepAt(c)' /\ LockAt(c)' /\ (LooseUnlock \/ ResvAt(c)')
  <2>1. lock'[c] = lock[c] /\ eLock'[c] = eLock[c] /\ (c \in resv' <=> c \in resv)
    BY <1>1 DEF lockVars
  <2>2. /\ pc[c] = "end_journal" /\ pc'[c] \in {"end_unlock", "end_sync"}
        /\ eState' = eState /\ op' = op
    BY AtHere DEF FinalizeJournal, Goto
  <2> QED
    BY <1>1, <2>1, <2>2, AtHere DEF StepAt, LockAt, ResvAt,
       PagerPc, HotSteps, EndSteps, PlaybackSteps, SyncSteps, CommitSteps
<1> QED BY <1>1, <1>2, QuietFrame

\* zeroJournalHdr(): the zeroed header is synced.
LEMMA PgFinalizeSync ==
  ASSUME PgInv, NEW c \in Conn, FinalizeSync(c)
  PROVE  PgInv'
<1>1. /\ UNCHANGED <<lockVars, eLock>>
      /\ eState' = [eState EXCEPT ![c] = eState'[c]]
      /\ pc' = [pc EXCEPT ![c] = pc'[c]]
      /\ op' = [op EXCEPT ![c] = op'[c]]
  BY DEF PgInv, PgTypeOK, FinalizeSync, Goto
<1>2. /\ eState'[c] \in OPEN..ERROR /\ pc'[c] \in PagerPc
      /\ op'[c] \in {"none", "shared", "commit", "rollback", "spill"}
      /\ StepAt(c)' /\ LockAt(c)' /\ (LooseUnlock \/ ResvAt(c)')
  <2>1. lock'[c] = lock[c] /\ eLock'[c] = eLock[c] /\ (c \in resv' <=> c \in resv)
    BY <1>1 DEF lockVars
  <2> QED
    BY <1>1, <2>1, AtHere DEF StepAt, LockAt, ResvAt,
       PagerPc, HotSteps, EndSteps, PlaybackSteps, SyncSteps, CommitSteps,
       FinalizeSync, Goto
<1> QED BY <1>1, <1>2, QuietFrame

\* sqlite3PagerAcquire()
LEMMA PgReadPage ==
  ASSUME PgInv, NEW c \in Conn, NEW p \in Page, ReadPage(c, p)
  PROVE  PgInv'
<1>1. /\ UNCHANGED <<lockVars, eLock>>
      /\ eState' = [eState EXCEPT ![c] = eState'[c]]
      /\ pc' = [pc EXCEPT ![c] = pc'[c]]
      /\ op' = [op EXCEPT ![c] = op'[c]]
  BY DEF PgInv, PgTypeOK, ReadPage, ctlVars
<1>2. /\ eState'[c] \in OPEN..ERROR /\ pc'[c] \in PagerPc
      /\ op'[c] \in {"none", "shared", "commit", "rollback", "spill"}
      /\ StepAt(c)' /\ LockAt(c)' /\ (LooseUnlock \/ ResvAt(c)')
  <2>1. lock'[c] = lock[c] /\ eLock'[c] = eLock[c] /\ (c \in resv' <=> c \in resv)
    BY <1>1 DEF lockVars
  <2> QED
    BY <1>1, <2>1, AtHere DEF StepAt, LockAt, ResvAt,
       PagerPc, HotSteps, EndSteps, PlaybackSteps, SyncSteps, CommitSteps,
       ReadPage, ctlVars
<1> QED BY <1>1, <1>2, QuietFrame

\* A clean page leaves the cache.
LEMMA PgEvict ==
  ASSUME PgInv, NEW c \in Conn, NEW p \in Page, Evict(c, p)
  PROVE  PgInv'
<1>1. /\ UNCHANGED <<lockVars, eLock>>
      /\ eState' = [eState EXCEPT ![c] = eState'[c]]
      /\ pc' = [pc EXCEPT ![c] = pc'[c]]
      /\ op' = [op EXCEPT ![c] = op'[c]]
  BY DEF PgInv, PgTypeOK, Evict, ctlVars
<1>2. /\ eState'[c] \in OPEN..ERROR /\ pc'[c] \in PagerPc
      /\ op'[c] \in {"none", "shared", "commit", "rollback", "spill"}
      /\ StepAt(c)' /\ LockAt(c)' /\ (LooseUnlock \/ ResvAt(c)')
  <2>1. lock'[c] = lock[c] /\ eLock'[c] = eLock[c] /\ (c \in resv' <=> c \in resv)
    BY <1>1 DEF lockVars
  <2> QED
    BY <1>1, <2>1, AtHere DEF StepAt, LockAt, ResvAt,
       PagerPc, HotSteps, EndSteps, PlaybackSteps, SyncSteps, CommitSteps,
       Evict, ctlVars
<1> QED BY <1>1, <1>2, QuietFrame

\* pager_write()
LEMMA PgWritePage ==
  ASSUME PgInv, NEW c \in Conn, NEW p \in Page, WritePage(c, p)
  PROVE  PgInv'
<1>1. /\ UNCHANGED <<lockVars, eLock>>
      /\ eState' = [eState EXCEPT ![c] = eState'[c]]
      /\ pc' = [pc EXCEPT ![c] = pc'[c]]
      /\ op' = [op EXCEPT ![c] = op'[c]]
  BY DEF PgInv, PgTypeOK, WritePage, Writable, Goto
<1>2. /\ eState'[c] \in OPEN..ERROR /\ pc'[c] \in PagerPc
      /\ op'[c] \in {"none", "shared", "commit", "rollback", "spill"}
      /\ StepAt(c)' /\ LockAt(c)' /\ (LooseUnlock \/ ResvAt(c)')
  <2>1. lock'[c] = lock[c] /\ eLock'[c] = eLock[c] /\ (c \in resv' <=> c \in resv)
    BY <1>1 DEF lockVars
  <2> QED
    BY <1>1, <2>1, AtHere DEF StepAt, LockAt, ResvAt,
       PagerPc, HotSteps, EndSteps, PlaybackSteps, SyncSteps, CommitSteps,
       WritePage, Writable, Goto
<1> QED BY <1>1, <1>2, QuietFrame

\* pagerStress()
LEMMA PgSpill ==
  ASSUME PgInv, NEW c \in Conn, NEW p \in Page, Spill(c, p)
  PROVE  PgInv'
<1>1. /\ UNCHANGED <<lockVars, eLock>>
      /\ eState' = [eState EXCEPT ![c] = eState'[c]]
      /\ pc' = [pc EXCEPT ![c] = pc'[c]]
      /\ op' = [op EXCEPT ![c] = op'[c]]
  BY DEF PgInv, PgTypeOK, Spill, Goto
<1>2. /\ eState'[c] \in OPEN..ERROR /\ pc'[c] \in PagerPc
      /\ op'[c] \in {"none", "shared", "commit", "rollback", "spill"}
      /\ StepAt(c)' /\ LockAt(c)' /\ (LooseUnlock \/ ResvAt(c)')
  <2>1. lock'[c] = lock[c] /\ eLock'[c] = eLock[c] /\ (c \in resv' <=> c \in resv)
    BY <1>1 DEF lockVars
  <2> QED
    BY <1>1, <2>1, AtHere DEF StepAt, LockAt, ResvAt,
       PagerPc, HotSteps, EndSteps, PlaybackSteps, SyncSteps, CommitSteps,
       Spill, Goto
<1> QED BY <1>1, <1>2, QuietFrame

\* sqlite3PagerTruncateImage()
LEMMA PgTruncateImage ==
  ASSUME PgInv, NEW c \in Conn, NEW n \in Page, TruncateImage(c, n)
  PROVE  PgInv'
<1>1. /\ UNCHANGED <<lockVars, eLock>>
      /\ eState' = [eState EXCEPT ![c] = eState'[c]]
      /\ pc' = [pc EXCEPT ![c] = pc'[c]]
      /\ op' = [op EXCEPT ![c] = op'[c]]
  BY DEF PgInv, PgTypeOK, TruncateImage, ctlVars
<1>2. /\ eState'[c] \in OPEN..ERROR /\ pc'[c] \in PagerPc
      /\ op'[c] \in {"none", "shared", "commit", "rollback", "spill"}
      /\ StepAt(c)' /\ LockAt(c)' /\ (LooseUnlock \/ ResvAt(c)')
  <2>1. lock'[c] = lock[c] /\ eLock'[c] = eLock[c] /\ (c \in resv' <=> c \in resv)
    BY <1>1 DEF lockVars
  <2> QED
    BY <1>1, <2>1, AtHere DEF StepAt, LockAt, ResvAt,
       PagerPc, HotSteps, EndSteps, PlaybackSteps, SyncSteps, CommitSteps,
       TruncateImage, ctlVars
<1> QED BY <1>1, <1>2, QuietFrame

\* pager_open_journal()
LEMMA PgOpenJournal ==
  ASSUME PgInv, NEW c \in Conn, OpenJournal(c)
  PROVE  PgInv'
<1>1. /\ UNCHANGED <<lockVars, eLock>>
      /\ eState' = [eState EXCEPT ![c] = eState'[c]]
      /\ pc' = [pc EXCEPT ![c] = pc'[c]]
      /\ op' = [op EXCEPT ![c] = op'[c]]
  BY DEF PgInv, PgTypeOK, OpenJournal, Goto
<1>2. /\ eState'[c] \in OPEN..ERROR /\ pc'[c] \in PagerPc
      /\ op'[c] \in {"none", "shared", "commit", "rollback", "spill"}
      /\ StepAt(c)' /\ LockAt(c)' /\ (LooseUnlock \/ ResvAt(c)')
  <2>1. lock'[c] = lock[c] /\ eLock'[c] = eLock[c] /\ (c \in resv' <=> c \in resv)
    BY <1>1 DEF lockVars
  <2>2. /\ pc[c] = "idle" /\ eState[c] = WRITER_LOCKED
        /\ pc'[c] = "first_write" /\ eState'[c] = WRITER_CACHEMOD /\ op' = op
    BY AtHere DEF OpenJournal, Goto
  <2> QED
    BY <1>1, <2>1, <2>2, AtHere DEF StepAt, LockAt, ResvAt,
       PagerPc, HotSteps, EndSteps, PlaybackSteps, SyncSteps, CommitSteps
<1> QED BY <1>1, <1>2, QuietFrame

\* pager_write() fails.
LEMMA PgWriteFails ==
  ASSUME PgInv, NEW c \in Conn, WriteFails(c)
  PROVE  PgInv'
<1>1. /\ UNCHANGED <<lockVars, eLock>>
      /\ eState' = [eState EXCEPT ![c] = eState'[c]]
      /\ pc' = [pc EXCEPT ![c] = pc'[c]]
      /\ op' = [op EXCEPT ![c] = op'[c]]
  BY DEF PgInv, PgTypeOK, WriteFails, Writable, Goto
<1>2. /\ eState'[c] \in OPEN..ERROR /\ pc'[c] \in PagerPc
      /\ op'[c] \in {"none", "shared", "commit", "rollback", "spill"}
      /\ StepAt(c)' /\ LockAt(c)' /\ (LooseUnlock \/ ResvAt(c)')
  <2>1. lock'[c] = lock[c] /\ eLock'[c] = eLock[c] /\ (c \in resv' <=> c \in resv)
    BY <1>1 DEF lockVars
  <2> QED
    BY <1>1, <2>1, AtHere DEF StepAt, LockAt, ResvAt,
       PagerPc, HotSteps, EndSteps, PlaybackSteps, SyncSteps, CommitSteps,
       WriteFails, Writable, Goto
<1> QED BY <1>1, <1>2, QuietFrame

\* syncJournal(): a stale header is made invalid.
LEMMA PgSyncNextHeader ==
  ASSUME PgInv, NEW c \in Conn, SyncNextHeader(c)
  PROVE  PgInv'
<1>1. /\ UNCHANGED <<lockVars, eLock>>
      /\ eState' = [eState EXCEPT ![c] = eState'[c]]
      /\ pc' = [pc EXCEPT ![c] = pc'[c]]
      /\ op' = [op EXCEPT ![c] = op'[c]]
  BY DEF PgInv, PgTypeOK, SyncNextHeader, Goto
<1>2. /\ eState'[c] \in OPEN..ERROR /\ pc'[c] \in PagerPc
      /\ op'[c] \in {"none", "shared", "commit", "rollback", "spill"}
      /\ StepAt(c)' /\ LockAt(c)' /\ (LooseUnlock \/ ResvAt(c)')
  <2>1. lock'[c] = lock[c] /\ eLock'[c] = eLock[c] /\ (c \in resv' <=> c \in resv)
    BY <1>1 DEF lockVars
  <2>2. /\ pc[c] = "sj_next" /\ pc'[c] \in {"sj_records", "sj_header"}
        /\ eState' = eState /\ op' = op
    BY AtHere DEF SyncNextHeader, Goto
  <2> QED
    BY <1>1, <2>1, <2>2, AtHere DEF StepAt, LockAt, ResvAt,
       PagerPc, HotSteps, EndSteps, PlaybackSteps, SyncSteps, CommitSteps
<1> QED BY <1>1, <1>2, QuietFrame

\* syncJournal(): the records are synced.
LEMMA PgSyncRecords ==
  ASSUME PgInv, NEW c \in Conn, SyncRecords(c)
  PROVE  PgInv'
<1>1. /\ UNCHANGED <<lockVars, eLock>>
      /\ eState' = [eState EXCEPT ![c] = eState'[c]]
      /\ pc' = [pc EXCEPT ![c] = pc'[c]]
      /\ op' = [op EXCEPT ![c] = op'[c]]
  BY DEF PgInv, PgTypeOK, SyncRecords, Goto
<1>2. /\ eState'[c] \in OPEN..ERROR /\ pc'[c] \in PagerPc
      /\ op'[c] \in {"none", "shared", "commit", "rollback", "spill"}
      /\ StepAt(c)' /\ LockAt(c)' /\ (LooseUnlock \/ ResvAt(c)')
  <2>1. lock'[c] = lock[c] /\ eLock'[c] = eLock[c] /\ (c \in resv' <=> c \in resv)
    BY <1>1 DEF lockVars
  <2> QED
    BY <1>1, <2>1, AtHere DEF StepAt, LockAt, ResvAt,
       PagerPc, HotSteps, EndSteps, PlaybackSteps, SyncSteps, CommitSteps,
       SyncRecords, Goto
<1> QED BY <1>1, <1>2, QuietFrame

\* syncJournal(): the header counts them.
LEMMA PgSyncHeader ==
  ASSUME PgInv, NEW c \in Conn, SyncHeader(c)
  PROVE  PgInv'
<1>1. /\ UNCHANGED <<lockVars, eLock>>
      /\ eState' = [eState EXCEPT ![c] = eState'[c]]
      /\ pc' = [pc EXCEPT ![c] = pc'[c]]
      /\ op' = [op EXCEPT ![c] = op'[c]]
  BY DEF PgInv, PgTypeOK, SyncHeader, Goto
<1>2. /\ eState'[c] \in OPEN..ERROR /\ pc'[c] \in PagerPc
      /\ op'[c] \in {"none", "shared", "commit", "rollback", "spill"}
      /\ StepAt(c)' /\ LockAt(c)' /\ (LooseUnlock \/ ResvAt(c)')
  <2>1. lock'[c] = lock[c] /\ eLock'[c] = eLock[c] /\ (c \in resv' <=> c \in resv)
    BY <1>1 DEF lockVars
  <2>2. /\ pc[c] = "sj_header" /\ pc'[c] = "sj_sync"
        /\ eState' = eState /\ op' = op
    BY AtHere DEF SyncHeader, Goto
  <2> QED
    BY <1>1, <2>1, <2>2, AtHere DEF StepAt, LockAt, ResvAt,
       PagerPc, HotSteps, EndSteps, PlaybackSteps, SyncSteps, CommitSteps
<1> QED BY <1>1, <1>2, QuietFrame

\* syncJournal(): the header is synced.
LEMMA PgSyncJournal ==
  ASSUME PgInv, NEW c \in Conn, SyncJournal(c)
  PROVE  PgInv'
<1>1. /\ UNCHANGED <<lockVars, eLock>>
      /\ eState' = [eState EXCEPT ![c] = eState'[c]]
      /\ pc' = [pc EXCEPT ![c] = pc'[c]]
      /\ op' = [op EXCEPT ![c] = op'[c]]
  BY DEF PgInv, PgTypeOK, SyncJournal, Goto
<1>2. /\ eState'[c] \in OPEN..ERROR /\ pc'[c] \in PagerPc
      /\ op'[c] \in {"none", "shared", "commit", "rollback", "spill"}
      /\ StepAt(c)' /\ LockAt(c)' /\ (LooseUnlock \/ ResvAt(c)')
  <2>1. lock'[c] = lock[c] /\ eLock'[c] = eLock[c] /\ (c \in resv' <=> c \in resv)
    BY <1>1 DEF lockVars
  <2> QED
    BY <1>1, <2>1, AtHere DEF StepAt, LockAt, ResvAt,
       PagerPc, HotSteps, EndSteps, PlaybackSteps, SyncSteps, CommitSteps,
       SyncJournal, Goto
<1> QED BY <1>1, <1>2, QuietFrame

\* syncJournal(): a new header after a spill.
LEMMA PgSyncNewHeader ==
  ASSUME PgInv, NEW c \in Conn, SyncNewHeader(c)
  PROVE  PgInv'
<1>1. /\ UNCHANGED <<lockVars, eLock>>
      /\ eState' = [eState EXCEPT ![c] = eState'[c]]
      /\ pc' = [pc EXCEPT ![c] = pc'[c]]
      /\ op' = [op EXCEPT ![c] = op'[c]]
  BY DEF PgInv, PgTypeOK, SyncNewHeader, Goto
<1>2. /\ eState'[c] \in OPEN..ERROR /\ pc'[c] \in PagerPc
      /\ op'[c] \in {"none", "shared", "commit", "rollback", "spill"}
      /\ StepAt(c)' /\ LockAt(c)' /\ (LooseUnlock \/ ResvAt(c)')
  <2>1. lock'[c] = lock[c] /\ eLock'[c] = eLock[c] /\ (c \in resv' <=> c \in resv)
    BY <1>1 DEF lockVars
  <2> QED
    BY <1>1, <2>1, AtHere DEF StepAt, LockAt, ResvAt,
       PagerPc, HotSteps, EndSteps, PlaybackSteps, SyncSteps, CommitSteps,
       SyncNewHeader, Goto
<1> QED BY <1>1, <1>2, QuietFrame

\* pager_write_pagelist(): one page.
LEMMA PgWriteToFile ==
  ASSUME PgInv, NEW c \in Conn, WriteToFile(c)
  PROVE  PgInv'
<1>1. /\ UNCHANGED <<lockVars, eLock>>
      /\ eState' = [eState EXCEPT ![c] = eState'[c]]
      /\ pc' = [pc EXCEPT ![c] = pc'[c]]
      /\ op' = [op EXCEPT ![c] = op'[c]]
  BY DEF PgInv, PgTypeOK, WriteToFile, ctlVars
<1>2. /\ eState'[c] \in OPEN..ERROR /\ pc'[c] \in PagerPc
      /\ op'[c] \in {"none", "shared", "commit", "rollback", "spill"}
      /\ StepAt(c)' /\ LockAt(c)' /\ (LooseUnlock \/ ResvAt(c)')
  <2>1. lock'[c] = lock[c] /\ eLock'[c] = eLock[c] /\ (c \in resv' <=> c \in resv)
    BY <1>1 DEF lockVars
  <2> QED
    BY <1>1, <2>1, AtHere DEF StepAt, LockAt, ResvAt,
       PagerPc, HotSteps, EndSteps, PlaybackSteps, SyncSteps, CommitSteps,
       WriteToFile, ctlVars
<1> QED BY <1>1, <1>2, QuietFrame

\* pager_write_pagelist() returns.
LEMMA PgWriteToFileDone ==
  ASSUME PgInv, NEW c \in Conn, WriteToFileDone(c)
  PROVE  PgInv'
<1>1. /\ UNCHANGED <<lockVars, eLock>>
      /\ eState' = [eState EXCEPT ![c] = eState'[c]]
      /\ pc' = [pc EXCEPT ![c] = pc'[c]]
      /\ op' = [op EXCEPT ![c] = op'[c]]
  BY DEF PgInv, PgTypeOK, WriteToFileDone, Goto
<1>2. /\ eState'[c] \in OPEN..ERROR /\ pc'[c] \in PagerPc
      /\ op'[c] \in {"none", "shared", "commit", "rollback", "spill"}
      /\ StepAt(c)' /\ LockAt(c)' /\ (LooseUnlock \/ ResvAt(c)')
  <2>1. lock'[c] = lock[c] /\ eLock'[c] = eLock[c] /\ (c \in resv' <=> c \in resv)
    BY <1>1 DEF lockVars
  <2> QED
    BY <1>1, <2>1, AtHere DEF StepAt, LockAt, ResvAt,
       PagerPc, HotSteps, EndSteps, PlaybackSteps, SyncSteps, CommitSteps,
       WriteToFileDone, Goto
<1> QED BY <1>1, <1>2, QuietFrame

\* sqlite3PagerCommitPhaseOne()
LEMMA PgCommitPhaseOne ==
  ASSUME PgInv, NEW c \in Conn, CommitPhaseOne(c)
  PROVE  PgInv'
<1>1. /\ UNCHANGED <<lockVars, eLock>>
      /\ eState' = [eState EXCEPT ![c] = eState'[c]]
      /\ pc' = [pc EXCEPT ![c] = pc'[c]]
      /\ op' = [op EXCEPT ![c] = op'[c]]
  BY DEF PgInv, PgTypeOK, CommitPhaseOne, Goto
<1>2. /\ eState'[c] \in OPEN..ERROR /\ pc'[c] \in PagerPc
      /\ op'[c] \in {"none", "shared", "commit", "rollback", "spill"}
      /\ StepAt(c)' /\ LockAt(c)' /\ (LooseUnlock \/ ResvAt(c)')
  <2>1. lock'[c] = lock[c] /\ eLock'[c] = eLock[c] /\ (c \in resv' <=> c \in resv)
    BY <1>1 DEF lockVars
  <2> QED
    BY <1>1, <2>1, AtHere DEF StepAt, LockAt, ResvAt,
       PagerPc, HotSteps, EndSteps, PlaybackSteps, SyncSteps, CommitSteps,
       CommitPhaseOne, Goto
<1> QED BY <1>1, <1>2, QuietFrame

\* sqlite3PagerCommitPhaseOne(): pages that are cut off are journalled.
LEMMA PgCommitJournalTail ==
  ASSUME PgInv, NEW c \in Conn, CommitJournalTail(c)
  PROVE  PgInv'
<1>1. /\ UNCHANGED <<lockVars, eLock>>
      /\ eState' = [eState EXCEPT ![c] = eState'[c]]
      /\ pc' = [pc EXCEPT ![c] = pc'[c]]
      /\ op' = [op EXCEPT ![c] = op'[c]]
  BY DEF PgInv, PgTypeOK, CommitJournalTail, Goto
<1>2. /\ eState'[c] \in OPEN..ERROR /\ pc'[c] \in PagerPc
      /\ op'[c] \in {"none", "shared", "commit", "rollback", "spill"}
      /\ StepAt(c)' /\ LockAt(c)' /\ (LooseUnlock \/ ResvAt(c)')
  <2>1. lock'[c] = lock[c] /\ eLock'[c] = eLock[c] /\ (c \in resv' <=> c \in resv)
    BY <1>1 DEF lockVars
  <2>2. /\ pc[c] = "c1_journal" /\ (pc'[c] = pc[c] \/ pc'[c] = "sj_lock")
        /\ eState'[c] = eState[c] /\ op'[c] = op[c]
    BY AtHere DEF PgInv, PgTypeOK, CommitJournalTail, Goto
  <2> QED
    BY <1>1, <2>1, <2>2, AtHere DEF StepAt, LockAt, ResvAt, 
       PagerPc, HotSteps, EndSteps, PlaybackSteps, SyncSteps, CommitSteps
<1> QED BY <1>1, <1>2, QuietFrame

\* sqlite3PagerCommitPhaseOne(): the file is cut.
LEMMA PgCommitTruncate ==
  ASSUME PgInv, NEW c \in Conn, CommitTruncate(c)
  PROVE  PgInv'
<1>1. /\ UNCHANGED <<lockVars, eLock>>
      /\ eState' = [eState EXCEPT ![c] = eState'[c]]
      /\ pc' = [pc EXCEPT ![c] = pc'[c]]
      /\ op' = [op EXCEPT ![c] = op'[c]]
  BY DEF PgInv, PgTypeOK, CommitTruncate, Goto
<1>2. /\ eState'[c] \in OPEN..ERROR /\ pc'[c] \in PagerPc
      /\ op'[c] \in {"none", "shared", "commit", "rollback", "spill"}
      /\ StepAt(c)' /\ LockAt(c)' /\ (LooseUnlock \/ ResvAt(c)')
  <2>1. lock'[c] = lock[c] /\ eLock'[c] = eLock[c] /\ (c \in resv' <=> c \in resv)
    BY <1>1 DEF lockVars
  <2> QED
    BY <1>1, <2>1, AtHere DEF StepAt, LockAt, ResvAt,
       PagerPc, HotSteps, EndSteps, PlaybackSteps, SyncSteps, CommitSteps,
       CommitTruncate, Goto
<1> QED BY <1>1, <1>2, QuietFrame

\* sqlite3PagerCommitPhaseOne(): the file is synced.
LEMMA PgCommitSync ==
  ASSUME PgInv, NEW c \in Conn, CommitSync(c)
  PROVE  PgInv'
<1>1. /\ UNCHANGED <<lockVars, eLock>>
      /\ eState' = [eState EXCEPT ![c] = eState'[c]]
      /\ pc' = [pc EXCEPT ![c] = pc'[c]]
      /\ op' = [op EXCEPT ![c] = op'[c]]
  BY DEF PgInv, PgTypeOK, CommitSync, Goto
<1>2. /\ eState'[c] \in OPEN..ERROR /\ pc'[c] \in PagerPc
      /\ op'[c] \in {"none", "shared", "commit", "rollback", "spill"}
      /\ StepAt(c)' /\ LockAt(c)' /\ (LooseUnlock \/ ResvAt(c)')
  <2>1. lock'[c] = lock[c] /\ eLock'[c] = eLock[c] /\ (c \in resv' <=> c \in resv)
    BY <1>1 DEF lockVars
  <2> QED
    BY <1>1, <2>1, AtHere DEF StepAt, LockAt, ResvAt,
       PagerPc, HotSteps, EndSteps, PlaybackSteps, SyncSteps, CommitSteps,
       CommitSync, Goto
<1> QED BY <1>1, <1>2, QuietFrame

\* sqlite3PagerCommitPhaseTwo()
LEMMA PgCommitPhaseTwo ==
  ASSUME PgInv, NEW c \in Conn, CommitPhaseTwo(c)
  PROVE  PgInv'
<1>1. /\ UNCHANGED <<lockVars, eLock>>
      /\ eState' = [eState EXCEPT ![c] = eState'[c]]
      /\ pc' = [pc EXCEPT ![c] = pc'[c]]
      /\ op' = [op EXCEPT ![c] = op'[c]]
  BY DEF PgInv, PgTypeOK, CommitPhaseTwo, Goto
<1>2. /\ eState'[c] \in OPEN..ERROR /\ pc'[c] \in PagerPc
      /\ op'[c] \in {"none", "shared", "commit", "rollback", "spill"}
      /\ StepAt(c)' /\ LockAt(c)' /\ (LooseUnlock \/ ResvAt(c)')
  <2>1. lock'[c] = lock[c] /\ eLock'[c] = eLock[c] /\ (c \in resv' <=> c \in resv)
    BY <1>1 DEF lockVars
  <2> QED
    BY <1>1, <2>1, AtHere DEF StepAt, LockAt, ResvAt,
       PagerPc, HotSteps, EndSteps, PlaybackSteps, SyncSteps, CommitSteps,
       CommitPhaseTwo, Goto
<1> QED BY <1>1, <1>2, QuietFrame

\* sqlite3PagerRollback()
LEMMA PgRollback ==
  ASSUME PgInv, NEW c \in Conn, Rollback(c)
  PROVE  PgInv'
<1>1. /\ UNCHANGED <<lockVars, eLock>>
      /\ eState' = [eState EXCEPT ![c] = eState'[c]]
      /\ pc' = [pc EXCEPT ![c] = pc'[c]]
      /\ op' = [op EXCEPT ![c] = op'[c]]
  BY DEF PgInv, PgTypeOK, Rollback, StartPlayback, Goto
<1>2. /\ eState'[c] \in OPEN..ERROR /\ pc'[c] \in PagerPc
      /\ op'[c] \in {"none", "shared", "commit", "rollback", "spill"}
      /\ StepAt(c)' /\ LockAt(c)' /\ (LooseUnlock \/ ResvAt(c)')
  <2>1. lock'[c] = lock[c] /\ eLock'[c] = eLock[c] /\ (c \in resv' <=> c \in resv)
    BY <1>1 DEF lockVars
  <2>2. /\ pc[c] \in {"idle", "must_rollback"} /\ eState[c] \in Writers
        /\ pc'[c] \in {"end_journal", "pb_sync", "pb_truncate"}
        /\ eState'[c] = eState[c] /\ op'[c] = "rollback"
    BY AtHere DEF PgInv, PgTypeOK, Rollback, StartPlayback, Goto
  <2> QED
    BY <1>1, <2>1, <2>2, AtHere DEF StepAt, LockAt, ResvAt, 
       PagerPc, HotSteps, EndSteps, PlaybackSteps, SyncSteps, CommitSteps
<1> QED BY <1>1, <1>2, QuietFrame

\* An I/O error in a playback, a spill, a commit or a finalization.
LEMMA PgIoError ==
  ASSUME PgInv, NEW c \in Conn, IoError(c)
  PROVE  PgInv'
<1>1. /\ UNCHANGED <<lockVars, eLock>>
      /\ eState' = [eState EXCEPT ![c] = eState'[c]]
      /\ pc' = [pc EXCEPT ![c] = pc'[c]]
      /\ op' = [op EXCEPT ![c] = op'[c]]
  BY DEF PgInv, PgTypeOK, IoError, Goto
<1>2. /\ eState'[c] \in OPEN..ERROR /\ pc'[c] \in PagerPc
      /\ op'[c] \in {"none", "shared", "commit", "rollback", "spill"}
      /\ StepAt(c)' /\ LockAt(c)' /\ (LooseUnlock \/ ResvAt(c)')
  <2>1. lock'[c] = lock[c] /\ eLock'[c] = eLock[c] /\ (c \in resv' <=> c \in resv)
    BY <1>1 DEF lockVars
  <2> QED
    BY <1>1, <2>1, AtHere DEF StepAt, LockAt, ResvAt,
       PagerPc, HotSteps, EndSteps, PlaybackSteps, SyncSteps, CommitSteps,
       IoError, Goto
<1> QED BY <1>1, <1>2, QuietFrame

-----------------------------------------------------------------------------
(* Steps that take and give back locks *)

\* What each of these steps changes of the control
CtlFrame(c) ==
  /\ eState' = [eState EXCEPT ![c] = eState'[c]]
  /\ pc' = [pc EXCEPT ![c] = pc'[c]]
  /\ op' = [op EXCEPT ![c] = op'[c]]

\* sqlite3PagerSharedLock() asks for SHARED.
LEMMA PgSharedLock ==
  ASSUME PgInv, NEW c \in Conn, SharedLock(c)
  PROVE  PgInv'
<1>1. CtlFrame(c) /\ eState'[c] = eState[c]
  BY DEF CtlFrame, SharedLock, Goto, PgInv, PgTypeOK
<1>2. /\ pc[c] = "idle" /\ eState[c] = OPEN /\ op'[c] = "shared"
      /\ pc'[c] = IF eLock'[c] <= SHARED_LOCK THEN "hot_exists" ELSE "hot_excl"
  BY DEF SharedLock, Goto, PgInv, PgTypeOK
<1>3. /\ eLock' = [eLock EXCEPT ![c] = eLock'[c]]
      /\ eLock'[c] \in {SHARED_LOCK, eLock[c], UNKNOWN_LOCK}
      /\ LockFrame(c) /\ resv' = resv
      /\ lock'[c] >= SHARED_LOCK
      /\ eLock'[c] # UNKNOWN_LOCK => eLock'[c] <= lock'[c]
      /\ lock[c] < SHARED_LOCK => lock'[c] = SHARED_LOCK
      /\ lock[c] >= SHARED_LOCK => lock'[c] = lock[c]
      /\ eLock[c] = UNKNOWN_LOCK => eLock'[c] = UNKNOWN_LOCK
  BY LockDbFrame DEF SharedLock
<1>4. eState'[c] \in OPEN..ERROR /\ pc'[c] \in PagerPc
  BY <1>1, <1>2 DEF PagerPc, HotSteps
<1>5. lock'[c] \in 0..4 /\ StepAt(c)' /\ LockAt(c)'
  BY <1>1, <1>2, <1>3, AtHere
     DEF StepAt, LockAt, LockFrame, HotSteps, EndSteps, PlaybackSteps, SyncSteps, CommitSteps
<1>6. LooseUnlock \/ ResvAt(c)'
  BY <1>1, <1>2, <1>3, <1>5, AtHere DEF ResvAt, StepAt, HotSteps
<1> QED BY <1>1, <1>2, <1>3, <1>4, <1>5, <1>6, AtHere, StepFrame DEF CtlFrame

\* The EXCLUSIVE lock of a hot journal's rollback: granted or refused
LEMMA PgHotExclusive ==
  ASSUME PgInv, NEW c \in Conn, HotExclusive(c)
  PROVE  PgInv'
<1>1. CtlFrame(c) /\ eState'[c] = eState[c] /\ op'[c] = op[c] /\ pc[c] = "hot_excl"
  BY DEF CtlFrame, HotExclusive, Goto, PgInv, PgTypeOK
<1>2. CASE LockDb(c, EXCLUSIVE_LOCK) /\ Goto(c, "hot_open")
  <2>1. pc'[c] = "hot_open"
    BY <1>2 DEF Goto, PgInv, PgTypeOK
  <2>2. /\ eLock' = [eLock EXCEPT ![c] = eLock'[c]] /\ eLock'[c] = EXCLUSIVE_LOCK
        /\ LockFrame(c) /\ resv' = resv /\ lock'[c] >= EXCLUSIVE_LOCK
    BY <1>2, LockDbFrame
  <2>3. lock'[c] = EXCLUSIVE_LOCK
    BY <2>2 DEF LockFrame
  <2>4. StepAt(c)' /\ LockAt(c)' /\ pc'[c] \in PagerPc
    BY <1>1, <2>1, <2>2, <2>3, AtHere
       DEF StepAt, LockAt, PagerPc, HotSteps, EndSteps, PlaybackSteps, SyncSteps, CommitSteps
  <2>5. LooseUnlock \/ ResvAt(c)'
    BY <1>1, <2>1, <2>2, <2>3, AtHere DEF ResvAt, StepAt, HotSteps
  <2> QED BY <1>1, <2>2, <2>4, <2>5, AtHere, StepFrame DEF CtlFrame
<1>3. CASE OsLockRefused(c, EXCLUSIVE_LOCK) /\ Goto(c, "failed") /\ UNCHANGED eLock
  <2>1. pc'[c] = "failed" /\ eLock' = [eLock EXCEPT ![c] = eLock'[c]] /\ eLock'[c] = eLock[c]
    BY <1>3 DEF Goto, PgInv, PgTypeOK
  <2>2. /\ LockFrame(c) /\ resv' = resv /\ lock'[c] >= lock[c]
        /\ lock'[c] = lock[c] \/ lock'[c] \notin {NO_LOCK, SHARED_LOCK}
    BY <1>3, OsRefusedFrame
  <2>3. lock'[c] \in 0..4
    BY <2>2 DEF LockFrame
  <2>4. StepAt(c)' /\ LockAt(c)' /\ pc'[c] \in PagerPc
    BY <1>1, <2>1, <2>2, <2>3, AtHere
       DEF StepAt, LockAt, PagerPc, HotSteps, EndSteps, PlaybackSteps, SyncSteps, CommitSteps
  <2>5. LooseUnlock \/ ResvAt(c)'
    BY <1>1, <2>1, <2>2, <2>3, AtHere DEF ResvAt, StepAt, HotSteps
  <2> QED BY <1>1, <2>1, <2>2, <2>4, <2>5, AtHere, StepFrame DEF CtlFrame
<1> QED BY <1>2, <1>3 DEF HotExclusive

\* sqlite3PagerSharedLock(): the journal is opened, or has gone.
LEMMA PgHotOpen ==
  ASSUME PgInv, NEW c \in Conn, HotOpen(c)
  PROVE  PgInv'
<1>1. CtlFrame(c) /\ eState'[c] = eState[c] /\ op'[c] = op[c] /\ pc[c] = "hot_open"
  BY DEF CtlFrame, HotOpen, Goto, PgInv, PgTypeOK
<1>2. CASE UnlockDb(c, SHARED_LOCK) /\ Goto(c, "check")
  <2>1. pc'[c] = "check"
    BY <1>2 DEF Goto, PgInv, PgTypeOK
  <2>2. lock[c] = EXCLUSIVE_LOCK
    BY <1>1, AtHere DEF LockAt, StepAt
  <2>3. /\ eLock' = [eLock EXCEPT ![c] = eLock'[c]] /\ eLock'[c] \in {SHARED_LOCK, UNKNOWN_LOCK}
        /\ LockFrame(c) /\ c \notin resv' /\ lock'[c] = SHARED_LOCK
    BY <1>2, <2>2, UnlockDbFrame
  <2>4. StepAt(c)' /\ LockAt(c)' /\ pc'[c] \in PagerPc
    BY <1>1, <2>1, <2>3, AtHere
       DEF StepAt, LockAt, PagerPc, HotSteps, EndSteps, PlaybackSteps, SyncSteps, CommitSteps
  <2>5. LooseUnlock \/ ResvAt(c)'
    BY <1>1, <2>1, <2>3, AtHere DEF ResvAt, StepAt, HotSteps
  <2> QED BY <1>1, <2>3, <2>4, <2>5, AtHere, StepFrame DEF CtlFrame
<1>3. CASE Goto(c, "hot_sync") /\ UNCHANGED <<lockVars, eLock>>
  <2>1. pc'[c] = "hot_sync"
    BY <1>3 DEF Goto, PgInv, PgTypeOK
  <2>2. lock'[c] = lock[c] /\ eLock'[c] = eLock[c] /\ (c \in resv' <=> c \in resv)
    BY <1>3 DEF lockVars
  <2>3. StepAt(c)' /\ LockAt(c)' /\ pc'[c] \in PagerPc
    BY <1>1, <2>1, <2>2, AtHere
       DEF StepAt, LockAt, PagerPc, HotSteps, EndSteps, PlaybackSteps, SyncSteps, CommitSteps
  <2>4. LooseUnlock \/ ResvAt(c)'
    BY <1>1, <2>1, <2>2, AtHere DEF ResvAt, StepAt, HotSteps
  <2> QED BY <1>1, <1>3, <2>3, <2>4, AtHere, QuietFrame DEF CtlFrame
<1> QED BY <1>2, <1>3 DEF HotOpen

\* pager_unlock(), which may leave the lock where it is
LEMMA PgUnlock ==
  ASSUME PgInv, NEW c \in Conn, PagerUnlock(c, eState[c] = ERROR)
  PROVE  PgInv'
<1>1. CtlFrame(c) /\ eState'[c] = OPEN /\ op'[c] = "none" /\ pc'[c] = "idle"
  BY DEF CtlFrame, PagerUnlock, Goto, PgInv, PgTypeOK
<1>2. CASE UnlockDb(c, NO_LOCK)
  <2>1. /\ eLock' = [eLock EXCEPT ![c] = eLock'[c]] /\ eLock'[c] \in {NO_LOCK, UNKNOWN_LOCK}
        /\ LockFrame(c) /\ lock'[c] = NO_LOCK
        /\ lock[c] > NO_LOCK => c \notin resv'
        /\ lock[c] <= NO_LOCK => resv' = resv
    BY <1>2, UnlockDbFrame, AtHere
  <2>2. StepAt(c)' /\ LockAt(c)' /\ pc'[c] \in PagerPc
    BY <1>1, <2>1, AtHere
       DEF StepAt, LockAt, PagerPc, HotSteps, EndSteps, PlaybackSteps, SyncSteps, CommitSteps
  <2>3. LooseUnlock \/ ResvAt(c)'
    BY <1>1, <2>1, AtHere DEF ResvAt, HotSteps
  <2> QED BY <1>1, <2>1, <2>2, <2>3, StepFrame DEF CtlFrame
<1>3. CASE /\ eState[c] = ERROR \/ LooseUnlock
           /\ UNCHANGED lockVars
           /\ eLock' = [eLock EXCEPT ![c] =
                          IF eState[c] = ERROR THEN UNKNOWN_LOCK ELSE UnlockedLevel(c, NO_LOCK)]
  <2>1. /\ eLock' = [eLock EXCEPT ![c] = eLock'[c]]
        /\ eLock'[c] = IF eState[c] = ERROR THEN UNKNOWN_LOCK
                       ELSE IF eLock[c] = UNKNOWN_LOCK THEN UNKNOWN_LOCK ELSE NO_LOCK
    BY <1>3 DEF UnlockedLevel, PgInv, PgTypeOK
  <2>2. LockFrame(c) /\ lock' = lock /\ resv' = resv
    BY <1>3, LockSame DEF lockVars
  <2>3. StepAt(c)' /\ LockAt(c)' /\ pc'[c] \in PagerPc
    BY <1>1, <2>1, <2>2, AtHere
       DEF StepAt, LockAt, PagerPc, HotSteps, EndSteps, PlaybackSteps, SyncSteps, CommitSteps
  <2>4. LooseUnlock \/ ResvAt(c)'
    BY <1>1, <1>3, <2>1, <2>2, AtHere DEF ResvAt, HotSteps
  <2> QED BY <1>1, <2>1, <2>2, <2>3, <2>4, StepFrame DEF CtlFrame
<1> QED BY <1>2, <1>3 DEF PagerUnlock

\* pager_end_transaction() goes back to SHARED, or fails to.
LEMMA PgEndUnlock ==
  ASSUME PgInv, NEW c \in Conn, EndUnlock(c)
  PROVE  PgInv'
<1>0. pc[c] \in {"end_unlock", "end_failing"} /\ op[c] # "none"
      /\ (op[c] = "shared" => eState[c] = OPEN /\ lock[c] = EXCLUSIVE_LOCK)
      /\ (op[c] # "shared" => eState[c] \in Writers /\ lock[c] >= RESERVED_LOCK)
  BY AtHere DEF EndUnlock, StepAt, LockAt, EndSteps
<1>1. CtlFrame(c)
  BY DEF CtlFrame, EndUnlock, Goto, PgInv, PgTypeOK
<1>2. /\ eState'[c] \in {ERROR, OPEN, READER}
      /\ op[c] = "shared" => /\ eState'[c] \in {ERROR, OPEN} /\ op'[c] = "shared"
                             /\ eState'[c] = OPEN => pc'[c] = "check"
                             /\ eState'[c] = ERROR => pc'[c] = "failed"
      /\ op[c] # "shared" => /\ eState'[c] \in {ERROR, READER} /\ op'[c] = "none"
                             /\ pc'[c] = "idle"
  BY DEF EndUnlock, Goto, PgInv, PgTypeOK
<1>3. pc'[c] \in PagerPc
  BY <1>2 DEF PagerPc
<1>4. CASE UnlockDb(c, SHARED_LOCK)
  <2>1. /\ eLock' = [eLock EXCEPT ![c] = eLock'[c]] /\ eLock'[c] \in {SHARED_LOCK, UNKNOWN_LOCK}
        /\ LockFrame(c) /\ c \notin resv' /\ lock'[c] = SHARED_LOCK
    BY <1>0, <1>4, UnlockDbFrame, AtHere
  <2>2. StepAt(c)' /\ LockAt(c)'
    BY <1>0, <1>2, <2>1, AtHere
       DEF StepAt, LockAt, HotSteps, EndSteps, PlaybackSteps, SyncSteps, CommitSteps
  <2>3. LooseUnlock \/ ResvAt(c)'
    BY <1>0, <1>2, <2>1, AtHere DEF ResvAt, HotSteps
  <2> QED BY <1>1, <1>2, <1>3, <2>1, <2>2, <2>3, AtHere, StepFrame DEF CtlFrame
<1>5. CASE /\ eLock' = [eLock EXCEPT ![c] = UnlockedLevel(c, SHARED_LOCK)]
           /\ UNCHANGED lockVars
           /\ eState'[c] = ERROR
  <2>1. /\ eLock' = [eLock EXCEPT ![c] = eLock'[c]]
        /\ eLock'[c] = IF eLock[c] = UNKNOWN_LOCK THEN UNKNOWN_LOCK ELSE SHARED_LOCK
    BY <1>5 DEF UnlockedLevel, PgInv, PgTypeOK
  <2>2. LockFrame(c) /\ lock' = lock /\ resv' = resv
    BY <1>5, LockSame DEF lockVars
  <2>3. StepAt(c)' /\ LockAt(c)'
    BY <1>0, <1>2, <1>5, <2>1, <2>2, AtHere
       DEF StepAt, LockAt, HotSteps, EndSteps, PlaybackSteps, SyncSteps, CommitSteps
  <2>4. LooseUnlock \/ ResvAt(c)'
    BY <1>0, <1>2, <1>5, <2>1, <2>2, AtHere DEF ResvAt, HotSteps
  <2> QED BY <1>1, <1>2, <1>3, <2>1, <2>2, <2>3, <2>4, AtHere, StepFrame DEF CtlFrame
<1> QED
  <2>1. UnlockDb(c, SHARED_LOCK)
        \/ /\ eLock' = [eLock EXCEPT ![c] = UnlockedLevel(c, SHARED_LOCK)]
           /\ UNCHANGED lockVars
           /\ eState'[c] = ERROR
    BY DEF EndUnlock, PgInv, PgTypeOK
  <2> QED BY <2>1, <1>4, <1>5

\* sqlite3PagerBegin() asks for RESERVED.
LEMMA PgBegin ==
  ASSUME PgInv, NEW c \in Conn, NEW exFlag \in BOOLEAN, Begin(c, exFlag)
  PROVE  PgInv'
<1>1. CtlFrame(c) /\ op'[c] = "none" /\ pc[c] = "idle" /\ eState[c] = READER
  BY AtHere DEF CtlFrame, Begin, StartWriting, Goto, PgInv, PgTypeOK, StepAt
<1>2. \/ eState'[c] = READER /\ pc'[c] = "begin_excl"
      \/ eState'[c] = WRITER_LOCKED /\ pc'[c] = "idle"
  BY DEF Begin, StartWriting, Goto, PgInv, PgTypeOK
<1>3. /\ eLock' = [eLock EXCEPT ![c] = eLock'[c]]
      /\ eLock'[c] \in {RESERVED_LOCK, eLock[c], UNKNOWN_LOCK}
      /\ LockFrame(c)
      /\ lock'[c] >= RESERVED_LOCK
      /\ eLock'[c] # UNKNOWN_LOCK => eLock'[c] <= lock'[c]
      /\ lock[c] < RESERVED_LOCK => c \in resv'
      /\ lock[c] >= RESERVED_LOCK => lock'[c] = lock[c] /\ resv' = resv
  BY LockDbFrame DEF Begin
<1>4. lock'[c] \in 0..4 /\ pc'[c] \in PagerPc
  BY <1>2, <1>3 DEF LockFrame, PagerPc
<1>5. StepAt(c)' /\ LockAt(c)'
  BY <1>1, <1>2, <1>3, <1>4, AtHere
     DEF StepAt, LockAt, HotSteps, EndSteps, PlaybackSteps, SyncSteps, CommitSteps
<1>6. LooseUnlock \/ ResvAt(c)'
  BY <1>1, <1>2, <1>3, <1>4, AtHere DEF ResvAt, HotSteps
<1> QED BY <1>1, <1>2, <1>3, <1>4, <1>5, <1>6, AtHere, StepFrame DEF CtlFrame

\* The locks after an EXCLUSIVE lock has been granted, or refused
LEMMA ExclusiveAsked ==
  ASSUME PgInv, NEW c \in Conn,
         \/ LockDb(c, EXCLUSIVE_LOCK)
         \/ OsLockRefused(c, EXCLUSIVE_LOCK) /\ UNCHANGED eLock
  PROVE  /\ LockFrame(c) /\ resv' = resv
         /\ eLock' = [eLock EXCEPT ![c] = eLock'[c]]
         /\ eLock'[c] \in {eLock[c], EXCLUSIVE_LOCK}
         /\ eLock'[c] # UNKNOWN_LOCK => eLock'[c] <= lock'[c]
         /\ lock'[c] \in 0..4 /\ lock'[c] >= lock[c]
         /\ LockDb(c, EXCLUSIVE_LOCK) => lock'[c] = EXCLUSIVE_LOCK
         /\ lock'[c] = lock[c] \/ lock'[c] \notin {NO_LOCK, SHARED_LOCK}
<1>1. CASE LockDb(c, EXCLUSIVE_LOCK)
  <2>1. /\ LockFrame(c) /\ resv' = resv /\ eLock' = [eLock EXCEPT ![c] = eLock'[c]]
        /\ eLock'[c] = EXCLUSIVE_LOCK /\ lock'[c] >= EXCLUSIVE_LOCK
    BY <1>1, LockDbFrame
  <2>2. lock'[c] = EXCLUSIVE_LOCK
    BY <2>1 DEF LockFrame
  <2> QED BY <2>1, <2>2, AtHere
<1>2. CASE ~LockDb(c, EXCLUSIVE_LOCK) /\ OsLockRefused(c, EXCLUSIVE_LOCK) /\ UNCHANGED eLock
  <2>1. eLock' = [eLock EXCEPT ![c] = eLock'[c]] /\ eLock'[c] = eLock[c]
    BY <1>2 DEF PgInv, PgTypeOK
  <2>2. /\ LockFrame(c) /\ resv' = resv /\ lock'[c] >= lock[c]
        /\ lock'[c] = lock[c] \/ lock'[c] \notin {NO_LOCK, SHARED_LOCK}
    BY <1>2, OsRefusedFrame
  <2>3. lock'[c] \in 0..4
    BY <2>2 DEF LockFrame
  <2> QED BY <1>2, <2>1, <2>2, <2>3, AtHere DEF LockAt
<1> QED BY <1>1, <1>2

\* BEGIN EXCLUSIVE
LEMMA PgBeginExclusive ==
  ASSUME PgInv, NEW c \in Conn, BeginExclusive(c)
  PROVE  PgInv'
<1>1. CtlFrame(c) /\ op'[c] = "none" /\ pc[c] = "begin_excl" /\ eState[c] = READER
      /\ pc'[c] = "idle" /\ eState'[c] \in {READER, WRITER_LOCKED}
  BY AtHere DEF CtlFrame, BeginExclusive, StartWriting, Goto, PgInv, PgTypeOK, StepAt
<1>2. /\ LockFrame(c) /\ resv' = resv
      /\ eLock' = [eLock EXCEPT ![c] = eLock'[c]]
      /\ eLock'[c] \in {eLock[c], EXCLUSIVE_LOCK}
      /\ eLock'[c] # UNKNOWN_LOCK => eLock'[c] <= lock'[c]
      /\ lock'[c] \in 0..4 /\ lock'[c] >= lock[c]
      /\ lock'[c] = lock[c] \/ lock'[c] \notin {NO_LOCK, SHARED_LOCK}
  BY ExclusiveAsked DEF BeginExclusive
<1>3. StepAt(c)' /\ LockAt(c)' /\ pc'[c] \in PagerPc
  BY <1>1, <1>2, AtHere
     DEF StepAt, LockAt, PagerPc, HotSteps, EndSteps, PlaybackSteps, SyncSteps, CommitSteps
<1>4. LooseUnlock \/ ResvAt(c)'
  BY <1>1, <1>2, AtHere DEF ResvAt, HotSteps
<1> QED BY <1>1, <1>2, <1>3, <1>4, AtHere, StepFrame DEF CtlFrame

\* syncJournal() and pager_wait_on_lock()
LEMMA PgSyncLock ==
  ASSUME PgInv, NEW c \in Conn, SyncLock(c)
  PROVE  PgInv'
<1>1. CtlFrame(c) /\ pc[c] = "sj_lock" /\ eState'[c] = eState[c]
      /\ op[c] \in {"commit", "spill", "rollback"} /\ eState[c] \in Writers
  BY AtHere DEF CtlFrame, SyncLock, Goto, PgInv, PgTypeOK, StepAt
<1>2. \/ LockDb(c, EXCLUSIVE_LOCK) /\ pc'[c] = "sj_next" /\ op'[c] = op[c]
      \/ pc'[c] = "idle" /\ op'[c] = "none"
  BY DEF SyncLock, Goto, PgInv, PgTypeOK
<1>3. /\ LockFrame(c) /\ resv' = resv
      /\ eLock' = [eLock EXCEPT ![c] = eLock'[c]]
      /\ eLock'[c] \in {eLock[c], EXCLUSIVE_LOCK}
      /\ eLock'[c] # UNKNOWN_LOCK => eLock'[c] <= lock'[c]
      /\ lock'[c] \in 0..4 /\ lock'[c] >= lock[c]
      /\ LockDb(c, EXCLUSIVE_LOCK) => lock'[c] = EXCLUSIVE_LOCK
      /\ lock'[c] = lock[c] \/ lock'[c] \notin {NO_LOCK, SHARED_LOCK}
  BY ExclusiveAsked DEF SyncLock
<1>4. StepAt(c)' /\ LockAt(c)' /\ pc'[c] \in PagerPc
  BY <1>1, <1>2, <1>3, AtHere
     DEF StepAt, LockAt, PagerPc, HotSteps, EndSteps, PlaybackSteps, SyncSteps, CommitSteps
<1>5. LooseUnlock \/ ResvAt(c)'
  BY <1>1, <1>2, <1>3, AtHere DEF ResvAt, HotSteps
<1> QED BY <1>1, <1>2, <1>3, <1>4, <1>5, AtHere, StepFrame DEF CtlFrame

-----------------------------------------------------------------------------
(* Processes that die, and the theorems *)

\* The locks of the dead are gone; they start again with nothing.
LEMMA PgReset ==
  ASSUME PgInv, NEW D \in SUBSET Conn, Reset(D)
  PROVE  PgInv'
<1>1. /\ lock' = [c \in Conn |-> IF c \in D THEN NO_LOCK ELSE lock[c]]
      /\ resv' = resv \ D
      /\ eState' = [c \in Conn |-> IF c \in D THEN OPEN ELSE eState[c]]
      /\ eLock' = [c \in Conn |-> IF c \in D THEN NO_LOCK ELSE eLock[c]]
      /\ pc' = [c \in Conn |-> IF c \in D THEN "idle" ELSE pc[c]]
      /\ op' = [c \in Conn |-> IF c \in D THEN "none" ELSE op[c]]
  BY DEF Reset, L!Die
<1>2. "idle" \in PagerPc
  BY DEF PagerPc
<1>3. PgTypeOK'
  BY <1>1, <1>2 DEF PgInv, PgTypeOK
<1>4. ExclInv' /\ OneReservation'
  BY <1>1 DEF PgInv, ExclInv, OneReservation, PgTypeOK
<1>5. ASSUME NEW c \in Conn
      PROVE  StepAt(c)' /\ LockAt(c)' /\ (LooseUnlock \/ ResvAt(c)')
  <2>1. CASE c \in D
    <3>1. /\ lock'[c] = NO_LOCK /\ c \notin resv' /\ eState'[c] = OPEN /\ eLock'[c] = NO_LOCK
          /\ pc'[c] = "idle" /\ op'[c] = "none"
      BY <1>1, <2>1
    <3> QED
      BY <3>1 DEF StepAt, LockAt, ResvAt, HotSteps, EndSteps, PlaybackSteps, SyncSteps,
                  CommitSteps
  <2>2. CASE c \notin D
    <3>1. /\ lock'[c] = lock[c] /\ (c \in resv' <=> c \in resv) /\ eState'[c] = eState[c]
          /\ eLock'[c] = eLock[c] /\ pc'[c] = pc[c] /\ op'[c] = op[c]
      BY <1>1, <2>2
    <3>2. StepAt(c)'
      BY <3>1, AtHere DEF StepAt
    <3>3. LockAt(c)'
      BY <3>1, AtHere DEF LockAt
    <3>4. LooseUnlock \/ ResvAt(c)'
      BY <3>1, AtHere DEF ResvAt
    <3> QED BY <3>2, <3>3, <3>4
  <2> QED BY <2>1, <2>2
<1> QED BY <1>3, <1>4, <1>5 DEF PgInv

\* Every step of every connection keeps what is known of the locks, whatever fails.
THEOREM PgInvInductive == PgInv /\ [Next]_vars => PgInv'
<1> SUFFICES ASSUME PgInv, [Next]_vars PROVE PgInv'
  OBVIOUS
<1>1. CASE UNCHANGED vars
  BY <1>1 DEF PgInv, PgTypeOK, ExclInv, OneReservation, StepAt, LockAt, ResvAt, vars, lockVars,
              ctlVars
<1>2. ASSUME NEW c \in Conn,
             \/ SharedLock(c) \/ HotExists(c) \/ HotReserved(c) \/ HotDelete(c) \/ HotRead(c)
             \/ HotExclusive(c) \/ HotOpen(c) \/ HotSync(c) \/ CheckCache(c)
             \/ SharedLockFails(c) \/ Failed(c)
             \/ PlaybackTruncate(c) \/ PlaybackPage(c) \/ PlaybackSync(c)
             \/ FinalizeJournal(c) \/ FinalizeSync(c) \/ EndUnlock(c)
             \/ UnlockIfUnused(c)
      PROVE  PgInv'
  <2>1. CASE Failed(c) \/ UnlockIfUnused(c)
    BY <2>1, PgUnlock DEF Failed, UnlockIfUnused
  <2> QED
    BY <1>2, <2>1, PgSharedLock, PgHotExists, PgHotReserved, PgHotDelete, PgHotRead,
       PgHotExclusive, PgHotOpen, PgHotSync, PgCheckCache, PgSharedLockFails,
       PgPlaybackTruncate, PgPlaybackPage, PgPlaybackSync, PgFinalizeJournal, PgFinalizeSync,
       PgEndUnlock
<1>3. ASSUME NEW c \in Conn,
             \/ \E exFlag \in BOOLEAN : Begin(c, exFlag)
             \/ BeginExclusive(c) \/ OpenJournal(c) \/ WriteFails(c)
             \/ \E p \in Page : ReadPage(c, p) \/ Evict(c, p) \/ WritePage(c, p) \/ Spill(c, p)
             \/ \E n \in Page : TruncateImage(c, n)
      PROVE  PgInv'
  BY <1>3, PgBegin, PgBeginExclusive, PgOpenJournal, PgWriteFails, PgReadPage, PgEvict,
     PgWritePage, PgSpill, PgTruncateImage
<1>4. ASSUME NEW c \in Conn,
             \/ SyncLock(c) \/ SyncNextHeader(c) \/ SyncRecords(c) \/ SyncHeader(c)
             \/ SyncJournal(c) \/ SyncNewHeader(c) \/ WriteToFile(c) \/ WriteToFileDone(c)
             \/ CommitPhaseOne(c) \/ CommitJournalTail(c) \/ CommitTruncate(c)
             \/ CommitSync(c) \/ CommitPhaseTwo(c) \/ Rollback(c) \/ IoError(c)
      PROVE  PgInv'
  BY <1>4, PgSyncLock, PgSyncNextHeader, PgSyncRecords, PgSyncHeader, PgSyncJournal,
     PgSyncNewHeader, PgWriteToFile, PgWriteToFileDone, PgCommitPhaseOne, PgCommitJournalTail,
     PgCommitTruncate, PgCommitSync, PgCommitPhaseTwo, PgRollback, PgIoError
<1>5. ASSUME NEW c \in Conn, Kill(ProcOf[c]) PROVE PgInv'
  BY <1>5, PgReset DEF Kill
<1>6. CASE PowerLoss
  BY <1>6, PgReset DEF PowerLoss
<1> QED BY <1>1, <1>2, <1>3, <1>4, <1>5, <1>6 DEF Next

\* It holds in every state the pagers can reach.
THEOREM PgInvHolds == Spec => []PgInv
<1>1. Init => PgInv
  <2> SUFFICES ASSUME Init PROVE PgInv
    OBVIOUS
  <2>1. PgTypeOK /\ ExclInv /\ OneReservation
    BY DEF Init, L!Init, PgTypeOK, ExclInv, OneReservation, PagerPc
  <2>2. ASSUME NEW c \in Conn
        PROVE  /\ lock[c] = NO_LOCK /\ c \notin resv /\ eState[c] = OPEN /\ eLock[c] = NO_LOCK
               /\ pc[c] = "idle" /\ op[c] = "none"
    BY DEF Init, L!Init
  <2>3. ASSUME NEW c \in Conn PROVE StepAt(c) /\ LockAt(c) /\ ResvAt(c)
    BY <2>2 DEF StepAt, LockAt, ResvAt, HotSteps, EndSteps, PlaybackSteps, SyncSteps, CommitSteps
  <2> QED BY <2>1, <2>3 DEF PgInv
<1> QED BY <1>1, PgInvInductive, PTL DEF Spec

\* hasHotJournal(), sqlite3PagerSharedLock(): while a pager rolls back a journal that it took
\* for one left by a crash, nobody is in a write transaction, whose journal it could be.
THEOREM NoLiveRollbackHolds == Spec => []NoLiveRollback
<1>1. PgInv => NoLiveRollback
  <2> SUFFICES ASSUME PgInv, NEW c \in Conn, op[c] = "shared",
                      pc[c] \in PlaybackSteps \cup {"end_journal", "end_sync"},
                      NEW d \in Conn \ {c}
               PROVE  eState[d] \notin Writers
    BY DEF NoLiveRollback
  <2>1. lock[c] = EXCLUSIVE_LOCK
    BY AtHere DEF LockAt, EndSteps
  <2>2. lock[d] = NO_LOCK
    BY <2>1 DEF PgInv, ExclInv
  <2> QED BY <2>2, AtHere DEF LockAt
<1> QED BY <1>1, PgInvHolds, PTL

\* sqlite3PagerBegin(): where xUnlock fails in the error state only, two connections are never
\* in a write transaction at a time, though RESERVED may be skipped on the way to EXCLUSIVE,
\* and a pager may have forgotten which lock it has.
THEOREM OneWriterHolds ==
  ASSUME LooseUnlock = FALSE
  PROVE  Spec => [](\A c, d \in Conn :
                      eState[c] \in Writers /\ eState[d] \in Writers => c = d)
<1>1. PgInv => \A c, d \in Conn : eState[c] \in Writers /\ eState[d] \in Writers => c = d
  BY AtHere DEF ResvAt, PgInv, OneReservation
<1> QED BY <1>1, PgInvHolds, PTL

\* pager_write_pagelist(), pager_playback(), pager_truncate(): but for a power loss, whoever
\* changes the database file has the EXCLUSIVE lock, so that nobody else can read what is half written.
THEOREM FileWrittenExclusively ==
  Spec => [][~PowerLoss /\ db' # db =>
               \E c \in Conn : /\ lock[c] = EXCLUSIVE_LOCK
                               /\ \A d \in Conn \ {c} : lock[d] = NO_LOCK]_vars
<1>1. PgInv /\ [Next]_vars =>
        [~PowerLoss /\ db' # db =>
           \E c \in Conn : /\ lock[c] = EXCLUSIVE_LOCK
                           /\ \A d \in Conn \ {c} : lock[d] = NO_LOCK]_vars
  <2> SUFFICES ASSUME PgInv, Next, ~PowerLoss, db' # db
               PROVE  \E c \in Conn : /\ lock[c] = EXCLUSIVE_LOCK
                                      /\ \A d \in Conn \ {c} : lock[d] = NO_LOCK
    OBVIOUS
  <2>1. \E c \in Conn : lock[c] = EXCLUSIVE_LOCK
    <3>1. \A c \in Conn : ~Kill(ProcOf[c])
      BY DEF Kill, dbVars
    <3>2. PICK c \in Conn : \/ PlaybackTruncate(c) \/ PlaybackPage(c) \/ WriteToFile(c)
                            \/ CommitTruncate(c) \/ IoError(c)
      <4> USE DEF dbVars
      <4>1. ASSUME NEW c \in Conn,
                   \/ SharedLock(c) \/ HotExists(c) \/ HotReserved(c) \/ HotDelete(c)
                   \/ HotRead(c) \/ HotExclusive(c) \/ HotOpen(c) \/ HotSync(c)
                   \/ CheckCache(c) \/ SharedLockFails(c) \/ Failed(c)
                   \/ PlaybackTruncate(c) \/ PlaybackPage(c) \/ PlaybackSync(c)
                   \/ FinalizeJournal(c) \/ FinalizeSync(c) \/ EndUnlock(c) \/ UnlockIfUnused(c)
        PROVE  \E d \in Conn : \/ PlaybackTruncate(d) \/ PlaybackPage(d) \/ WriteToFile(d)
                              \/ CommitTruncate(d) \/ IoError(d)
        BY <4>1 DEF SharedLock, HotExists, HotReserved, HotDelete, HotRead, HotExclusive,
                    HotOpen, HotSync, CheckCache, SharedLockFails, Failed, PlaybackSync,
                    FinalizeJournal, FinalizeSync, EndUnlock, UnlockIfUnused
      <4>2. ASSUME NEW c \in Conn,
                   \/ \E exFlag \in BOOLEAN : Begin(c, exFlag)
                   \/ BeginExclusive(c) \/ OpenJournal(c) \/ WriteFails(c)
                   \/ \E p \in Page : \/ ReadPage(c, p) \/ Evict(c, p)
                                     \/ WritePage(c, p) \/ Spill(c, p)
                   \/ \E n \in Page : TruncateImage(c, n)
        PROVE  \E d \in Conn : \/ PlaybackTruncate(d) \/ PlaybackPage(d) \/ WriteToFile(d)
                              \/ CommitTruncate(d) \/ IoError(d)
        BY <4>2 DEF Begin, BeginExclusive, OpenJournal, WriteFails, ReadPage, Evict, WritePage,
                    Spill, TruncateImage
      <4>3. ASSUME NEW c \in Conn,
                   \/ SyncLock(c) \/ SyncNextHeader(c) \/ SyncRecords(c) \/ SyncHeader(c)
                   \/ SyncJournal(c) \/ SyncNewHeader(c) \/ WriteToFile(c)
                   \/ WriteToFileDone(c) \/ CommitPhaseOne(c) \/ CommitJournalTail(c)
                   \/ CommitTruncate(c) \/ CommitSync(c) \/ CommitPhaseTwo(c) \/ Rollback(c)
                   \/ IoError(c)
        PROVE  \E d \in Conn : \/ PlaybackTruncate(d) \/ PlaybackPage(d) \/ WriteToFile(d)
                              \/ CommitTruncate(d) \/ IoError(d)
        BY <4>3 DEF SyncLock, SyncNextHeader, SyncRecords, SyncHeader, SyncJournal,
                    SyncNewHeader, WriteToFileDone, CommitPhaseOne, CommitJournalTail,
                    CommitSync, CommitPhaseTwo, Rollback
      <4> QED BY <3>1, <4>1, <4>2, <4>3 DEF Next
    <3>3. CASE PlaybackTruncate(c) \/ PlaybackPage(c)
      <4>1. pc[c] \in {"pb_truncate", "pb_page"} /\ FileModified(c)
        BY <3>3 DEF PlaybackTruncate, PlaybackPage
      <4>2. op[c] = "shared" \/ eState[c] \in {WRITER_DBMOD, WRITER_FINISHED}
        BY <4>1, AtHere DEF FileModified, StepAt, PlaybackSteps
      <4> QED BY <4>1, <4>2, AtHere DEF LockAt, PlaybackSteps
    <3>4. CASE WriteToFile(c) \/ CommitTruncate(c)
      <4>1. pc[c] \in {"write_pages", "c1_truncate"}
        BY <3>4 DEF WriteToFile, CommitTruncate
      <4> QED BY <4>1, AtHere DEF LockAt, SyncSteps
    <3>5. CASE IoError(c)
      <4>1. pc[c] = "write_pages"
        BY <3>5 DEF IoError, Torn
      <4> QED BY <4>1, AtHere DEF LockAt, SyncSteps
    <3> QED BY <3>2, <3>3, <3>4, <3>5
  <2> QED BY <2>1 DEF PgInv, ExclInv
<1> QED BY <1>1, PgInvHolds, PTL DEF Spec
=============================================================================
