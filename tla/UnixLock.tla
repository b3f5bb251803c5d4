------------------------------ MODULE UnixLock ------------------------------
(***************************************************************************)
(* The POSIX advisory locking of os_unix.c on one database file.           *)
(*                                                                         *)
(* Several processes each hold several unixFile handles on the same inode. *)
(* Handles of one process share a unixInodeInfo, guarded by the process's  *)
(* global mutex; processes see each other only through fcntl() locks on    *)
(* the pending byte, the reserved byte and the shared range.  Every action *)
(* makes at most one fcntl() call, so that the calls of different          *)
(* processes interleave as they do in the code.                            *)
(***************************************************************************)
EXTENDS Naturals, FiniteSets

CONSTANTS
  Proc,        \* processes
  Conn,        \* unixFile handles
  ProcOf,      \* the process each handle lives in
  ExclProc,    \* processes whose handles use the "unix-excl" VFS
  MaxFaults    \* bound: failing fcntl() calls in one behaviour

ASSUME ConstAssumption == /\ ProcOf \in [Conn -> Proc]
                          /\ ExclProc \subseteq Proc
                          /\ MaxFaults \in Nat
                          /\ IsFiniteSet(Conn)

NO_LOCK        == 0
SHARED_LOCK    == 1
RESERVED_LOCK  == 2
PENDING_LOCK   == 3
EXCLUSIVE_LOCK == 4

Level == NO_LOCK..EXCLUSIVE_LOCK

\* The three lockable regions of the file.
Byte == {"PENDING", "RESERVED", "SHARED"}

\* Where a handle stands: between calls, or about to make the named fcntl().
LockSteps   == {"lk_pending", "lk_shared", "lk_drop_ok", "lk_drop_fail", "lk_write"}
UnlockSteps == {"ul_rdlock", "ul_pending", "ul_all"}

VARIABLES
  pc,          \* Conn -> "closed", "opening", "idle", "closing" or a step above
  req,         \* Conn -> level asked of the unixLock()/unixUnlock() under way
  eFileLock,   \* Conn -> unixFile.eFileLock
  inode,       \* Proc -> unixInodeInfo (all zero when no handle refers to it)
  sys,         \* Proc -> Byte -> the fcntl() lock the process holds
  closing,     \* handles whose unixUnlock() was called by unixClose()
  faults       \* failing fcntl() calls so far

vars == <<pc, req, eFileLock, inode, sys, closing, faults>>

\* A unixInodeInfo as findInodeInfo() allocates it.
ZeroInode == [nShared |-> 0, eFileLock |-> NO_LOCK, bProcessLock |-> FALSE,
              nRef |-> 0, nLock |-> 0, nUnused |-> 0]

Unlocked == [b \in Byte |-> "none"]

InodeType == [nShared : Nat, eFileLock : Level, bProcessLock : BOOLEAN,
              nRef : Nat, nLock : Nat, nUnused : Nat]

TypeOK ==
  /\ pc \in [Conn -> {"closed", "opening", "idle", "closing"}
                     \cup LockSteps \cup UnlockSteps]
  /\ req \in [Conn -> Level]
  /\ eFileLock \in [Conn -> Level]
  /\ inode \in [Proc -> InodeType]
  /\ sys \in [Proc -> [Byte -> {"none", "rd", "wr"}]]
  /\ closing \subseteq Conn
  /\ faults \in 0..MaxFaults

Init ==
  /\ pc = [c \in Conn |-> "closed"]
  /\ req = [c \in Conn |-> NO_LOCK]
  /\ eFileLock = [c \in Conn |-> NO_LOCK]
  /\ inode = [p \in Proc |-> ZeroInode]
  /\ sys = [p \in Proc |-> Unlocked]
  /\ closing = {}
  /\ faults = 0

Handles(p) == {c \in Conn : ProcOf[c] = p}

\* Mutant: the call does not take the process's mutex.
MutexFreeAlways(p) == TRUE

\* unixEnterMutex() succeeds: no handle of the process is inside a call.
MutexFree(p) == \A c \in Handles(p) : pc[c] \notin LockSteps \cup UnlockSteps

-----------------------------------------------------------------------------
(* fcntl() and unixFileLock() *)

\* F_SETLK fails while another process holds an incompatible lock.
Conflict(p, type, bytes) ==
  \E q \in Proc \ {p}, b \in bytes :
    \/ type = "wr" /\ sys[q][b] # "none"
    \/ type = "rd" /\ sys[q][b] = "wr"

SetLk(p, type, bytes) ==
  [sys EXCEPT ![p] = [b \in Byte |-> IF b \in bytes THEN type ELSE @[b]]]

\* A close() of any descriptor drops every lock the process has on the file.
CloseFd(p) == [sys EXCEPT ![p] = Unlocked]

\* unixFileLock(): under unix-excl the first call write-locks the shared range
\* for the life of the inode object and every later call is a no-op.
NoSysCall(p) == inode[p].bProcessLock

EffType(p, type)   == IF p \in ExclProc THEN "wr" ELSE type
EffBytes(p, bytes) == IF p \in ExclProc THEN {"SHARED"} ELSE bytes

FileLockOk(p, type, bytes) ==
  \/ NoSysCall(p)
  \/ ~Conflict(p, EffType(p, type), EffBytes(p, bytes))

SysAfter(p, type, bytes) ==
  IF NoSysCall(p) THEN sys
                  ELSE SetLk(p, EffType(p, type), EffBytes(p, bytes))

InodeAfter(p) ==
  IF p \in ExclProc /\ ~NoSysCall(p)
  THEN [inode[p] EXCEPT !.bProcessLock = TRUE, !.nLock = @ + 1]
  ELSE inode[p]

\* The call succeeds: the locks change and the inode becomes "ino".
FileLock(p, type, bytes, ino) ==
  /\ FileLockOk(p, type, bytes)
  /\ sys' = SysAfter(p, type, bytes)
  /\ inode' = [inode EXCEPT ![p] = ino]
  /\ UNCHANGED faults

\* The call returns -1: refused (SQLITE_BUSY) or an I/O error; no lock changes.
FileLockFails(p, type, bytes, ino) ==
  /\ ~NoSysCall(p)
  /\ \/ Conflict(p, EffType(p, type), EffBytes(p, bytes)) /\ UNCHANGED faults
     \/ faults < MaxFaults /\ faults' = faults + 1
  /\ inode' = [inode EXCEPT ![p] = ino]
  /\ UNCHANGED sys

-----------------------------------------------------------------------------
(* unixOpen(): findReusableFd() or open(), then findInodeInfo() *)

Open(c) ==
  LET p == ProcOf[c] IN
  /\ pc[c] = "closed"
  /\ MutexFree(p)
  /\ pc' = [pc EXCEPT ![c] = "opening"]
  /\ inode' = [inode EXCEPT ![p].nUnused = IF @ > 0 THEN @ - 1 ELSE @]
  /\ UNCHANGED <<req, eFileLock, sys, closing, faults>>

FindInodeInfo(c) ==
  LET p == ProcOf[c] IN
  /\ pc[c] = "opening"
  /\ MutexFree(p)
  /\ pc' = [pc EXCEPT ![c] = "idle"]
  /\ inode' = [inode EXCEPT ![p].nRef = @ + 1]
  /\ UNCHANGED <<req, eFileLock, sys, closing, faults>>

\* malloc() for a new unixInodeInfo fails: the descriptor is closed at once.
FindInodeInfoFails(c) ==
  LET p == ProcOf[c] IN
  /\ pc[c] = "opening"
  /\ MutexFree(p)
  /\ inode[p].nRef = 0
  /\ pc' = [pc EXCEPT ![c] = "closed"]
  /\ sys' = CloseFd(p)
  /\ UNCHANGED <<req, eFileLock, inode, closing, faults>>

-----------------------------------------------------------------------------
(* unixLock() *)

\* Mutant: only a sibling that waits for the whole file is in the way.
SiblingBlocksPendingOnly(c, l) ==
  LET ino == inode[ProcOf[c]] IN
  /\ eFileLock[c] # ino.eFileLock
  /\ ino.eFileLock >= PENDING_LOCK

\* A sibling handle holds a lock that precludes the request: SQLITE_BUSY.
SiblingBlocks(c, l) ==
  LET ino == inode[ProcOf[c]] IN
  /\ eFileLock[c] # ino.eFileLock
  /\ ino.eFileLock >= PENDING_LOCK \/ l > SHARED_LOCK

\* Mutant: the handles of the own process are not counted.
SiblingReadsNever(p, l) == FALSE

\* EXCLUSIVE is wanted but a sibling still reads: BUSY, the handle is PENDING.
SiblingReads(p, l) == l = EXCLUSIVE_LOCK /\ inode[p].nShared > 1

LockEnter(c, l) ==
  LET p == ProcOf[c] IN
  /\ pc[c] = "idle"
  /\ l > eFileLock[c]
  /\ eFileLock[c] # NO_LOCK \/ l = SHARED_LOCK
  /\ l # PENDING_LOCK
  /\ l = RESERVED_LOCK => eFileLock[c] = SHARED_LOCK
  /\ MutexFree(p)
  /\ ~SiblingBlocks(c, l)
  /\ \/ /\ l = SHARED_LOCK
        /\ inode[p].eFileLock \in {SHARED_LOCK, RESERVED_LOCK}
        /\ eFileLock' = [eFileLock EXCEPT ![c] = SHARED_LOCK]
        /\ inode' = [inode EXCEPT ![p].nShared = @ + 1, ![p].nLock = @ + 1]
        /\ UNCHANGED <<pc, req>>
     \/ /\ ~(l = SHARED_LOCK /\ inode[p].eFileLock \in {SHARED_LOCK, RESERVED_LOCK})
        /\ \/ /\ l = SHARED_LOCK \/ (l = EXCLUSIVE_LOCK /\ eFileLock[c] < PENDING_LOCK)
              /\ pc' = [pc EXCEPT ![c] = "lk_pending"]
           \/ /\ l = RESERVED_LOCK \/ (l = EXCLUSIVE_LOCK /\ eFileLock[c] = PENDING_LOCK)
              /\ ~SiblingReads(p, l)
              /\ pc' = [pc EXCEPT ![c] = "lk_write"]
        /\ req' = [req EXCEPT ![c] = l]
        /\ UNCHANGED <<eFileLock, inode>>
  /\ UNCHANGED <<sys, closing, faults>>

\* Mutant: SHARED is taken without looking at the pending byte.
LockPendingSkipped(c) ==
  LET p   == ProcOf[c]
      ino == InodeAfter(p)
  IN
  /\ pc[c] = "lk_pending"
  /\ \/ /\ req[c] = SHARED_LOCK
        /\ pc' = [pc EXCEPT ![c] = "lk_shared"]
        /\ UNCHANGED <<eFileLock, sys, inode, faults>>
     \/ /\ req[c] = EXCLUSIVE_LOCK
        /\ FileLock(p, "wr", {"PENDING"}, ino)
        /\ pc' = [pc EXCEPT ![c] = "lk_write"]
        /\ UNCHANGED eFileLock
     \/ /\ req[c] = EXCLUSIVE_LOCK
        /\ FileLockFails(p, "wr", {"PENDING"}, inode[p])
        /\ pc' = [pc EXCEPT ![c] = "idle"]
        /\ UNCHANGED eFileLock
  /\ UNCHANGED <<req, closing>>

\* The pending byte: read-locked for SHARED, write-locked for EXCLUSIVE.
LockPending(c) ==
  LET p    == ProcOf[c]
      type == IF req[c] = SHARED_LOCK THEN "rd" ELSE "wr"
      ino  == InodeAfter(p)
  IN
  /\ pc[c] = "lk_pending"
  /\ \/ /\ req[c] = SHARED_LOCK
        /\ FileLock(p, type, {"PENDING"}, ino)
        /\ pc' = [pc EXCEPT ![c] = "lk_shared"]
        /\ UNCHANGED eFileLock
     \/ /\ req[c] = EXCLUSIVE_LOCK /\ ~SiblingReads(p, req[c])
        /\ FileLock(p, type, {"PENDING"}, ino)
        /\ pc' = [pc EXCEPT ![c] = "lk_write"]
        /\ UNCHANGED eFileLock
     \/ /\ SiblingReads(p, req[c])
        /\ FileLock(p, type, {"PENDING"}, [ino EXCEPT !.eFileLock = PENDING_LOCK])
        /\ pc' = [pc EXCEPT ![c] = "idle"]
        /\ eFileLock' = [eFileLock EXCEPT ![c] = PENDING_LOCK]
     \/ /\ FileLockFails(p, type, {"PENDING"}, inode[p])
        /\ pc' = [pc EXCEPT ![c] = "idle"]
        /\ UNCHANGED eFileLock
  /\ UNCHANGED <<req, closing>>

\* The read-lock on the shared range.
LockShared(c) ==
  LET p == ProcOf[c] IN
  /\ pc[c] = "lk_shared"
  /\ \/ /\ FileLock(p, "rd", {"SHARED"}, InodeAfter(p))
        /\ pc' = [pc EXCEPT ![c] = "lk_drop_ok"]
     \/ /\ FileLockFails(p, "rd", {"SHARED"}, inode[p])
        /\ pc' = [pc EXCEPT ![c] = "lk_drop_fail"]
  /\ UNCHANGED <<req, eFileLock, closing>>

\* Drop the temporary lock on the pending byte; SHARED is held if all went well.
LockDropPending(c) ==
  LET p == ProcOf[c] IN
  /\ pc[c] \in {"lk_drop_ok", "lk_drop_fail"}
  /\ \/ /\ pc[c] = "lk_drop_ok"
        /\ FileLock(p, "none", {"PENDING"},
                    [InodeAfter(p) EXCEPT !.eFileLock = SHARED_LOCK,
                                          !.nLock = @ + 1, !.nShared = 1])
        /\ eFileLock' = [eFileLock EXCEPT ![c] = SHARED_LOCK]
     \/ /\ pc[c] = "lk_drop_fail"
        /\ FileLock(p, "none", {"PENDING"}, InodeAfter(p))
        /\ UNCHANGED eFileLock
     \/ /\ FileLockFails(p, "none", {"PENDING"}, inode[p])
        /\ UNCHANGED eFileLock
  /\ pc' = [pc EXCEPT ![c] = "idle"]
  /\ UNCHANGED <<req, closing>>

\* The write-lock on the reserved byte or on the shared range.
LockWrite(c) ==
  LET p     == ProcOf[c]
      bytes == IF req[c] = RESERVED_LOCK THEN {"RESERVED"} ELSE {"SHARED"}
  IN
  /\ pc[c] = "lk_write"
  /\ \/ /\ FileLock(p, "wr", bytes, [InodeAfter(p) EXCEPT !.eFileLock = req[c]])
        /\ eFileLock' = [eFileLock EXCEPT ![c] = req[c]]
     \/ /\ req[c] = EXCLUSIVE_LOCK
        /\ FileLockFails(p, "wr", bytes, [inode[p] EXCEPT !.eFileLock = PENDING_LOCK])
        /\ eFileLock' = [eFileLock EXCEPT ![c] = PENDING_LOCK]
     \/ /\ req[c] = RESERVED_LOCK
        /\ FileLockFails(p, "wr", bytes, inode[p])
        /\ UNCHANGED eFileLock
  /\ pc' = [pc EXCEPT ![c] = "idle"]
  /\ UNCHANGED <<req, closing>>

-----------------------------------------------------------------------------
(* posixUnlock() *)

\* Back to the caller: unixClose() goes on, anybody else is done.
Return(c) == IF c \in closing THEN "closing" ELSE "idle"

\* Mutant: nLock is also lowered before the whole file is unlocked.
LeaveSharedTwice(c, ino, sysNew, ret) ==
  LET p == ProcOf[c] IN
  /\ inode' = [inode EXCEPT ![p] = [ino EXCEPT !.nShared = @ - 1, !.nLock = @ - 1]]
  /\ sys' = sysNew
  /\ \/ /\ ino.nShared > 1
        /\ eFileLock' = [eFileLock EXCEPT ![c] = NO_LOCK]
        /\ pc' = [pc EXCEPT ![c] = ret]
     \/ /\ ino.nShared = 1
        /\ pc' = [pc EXCEPT ![c] = "ul_all"]
        /\ UNCHANGED eFileLock

\* Release the handle's share of the process's read-lock without a system call
\* (siblings still read), or go on to unlock the whole file.
LeaveShared(c, ino, sysNew, ret) ==
  LET p == ProcOf[c] IN
  \/ /\ ino.nShared > 1
     /\ inode' = [inode EXCEPT ![p] = [ino EXCEPT !.nShared = @ - 1, !.nLock = @ - 1]]
     /\ eFileLock' = [eFileLock EXCEPT ![c] = NO_LOCK]
     /\ pc' = [pc EXCEPT ![c] = ret]
     /\ sys' = sysNew
  \/ /\ ino.nShared = 1
     /\ inode' = [inode EXCEPT ![p] = [ino EXCEPT !.nShared = 0]]
     /\ pc' = [pc EXCEPT ![c] = "ul_all"]
     /\ sys' = sysNew
     /\ UNCHANGED eFileLock

UnlockEnter(c, l, ret) ==
  LET p == ProcOf[c] IN
  /\ pc[c] = "idle"
  /\ l \in {NO_LOCK, SHARED_LOCK}
  /\ eFileLock[c] > l
  /\ MutexFree(p)
  /\ req' = [req EXCEPT ![c] = l]
  /\ \/ /\ eFileLock[c] > SHARED_LOCK
        /\ pc' = [pc EXCEPT ![c] = IF l = SHARED_LOCK THEN "ul_rdlock" ELSE "ul_pending"]
        /\ UNCHANGED <<eFileLock, inode, sys>>
     \/ /\ eFileLock[c] = SHARED_LOCK
        /\ LeaveShared(c, inode[p], sys, ret)
  /\ UNCHANGED faults

\* Downgrade the shared range from write-lock to read-lock.
UnlockToRead(c) ==
  LET p == ProcOf[c] IN
  /\ pc[c] = "ul_rdlock"
  /\ \/ /\ FileLock(p, "rd", {"SHARED"}, InodeAfter(p))
        /\ pc' = [pc EXCEPT ![c] = "ul_pending"]
     \/ /\ FileLockFails(p, "rd", {"SHARED"}, inode[p])
        /\ pc' = [pc EXCEPT ![c] = Return(c)]
  /\ UNCHANGED <<req, eFileLock, closing>>

\* Unlock the pending and the reserved byte.
UnlockPending(c) ==
  LET p     == ProcOf[c]
      bytes == {"PENDING", "RESERVED"}
      ino   == [InodeAfter(p) EXCEPT !.eFileLock = SHARED_LOCK]
  IN
  /\ pc[c] = "ul_pending"
  /\ \/ /\ req[c] = SHARED_LOCK
        /\ FileLock(p, "none", bytes, ino)
        /\ eFileLock' = [eFileLock EXCEPT ![c] = SHARED_LOCK]
        /\ pc' = [pc EXCEPT ![c] = Return(c)]
     \/ /\ req[c] = NO_LOCK
        /\ FileLockOk(p, "none", bytes)
        /\ LeaveShared(c, ino, SysAfter(p, "none", bytes), Return(c))
        /\ UNCHANGED faults
     \/ /\ FileLockFails(p, "none", bytes, inode[p])
        /\ pc' = [pc EXCEPT ![c] = Return(c)]
        /\ UNCHANGED eFileLock
  /\ UNCHANGED <<req, closing>>

\* Unlock the whole file; the last lock gone, closePendingFds() closes the
\* descriptors whose close() was put off.
UnlockAll(c) ==
  LET p   == ProcOf[c]
      ino == [InodeAfter(p) EXCEPT !.eFileLock = NO_LOCK, !.nLock = @ - 1]
      closePending == ino.nLock = 0 /\ ino.nUnused > 0
      inoNew == IF closePending THEN [ino EXCEPT !.nUnused = 0] ELSE ino
  IN
  /\ pc[c] = "ul_all"
  /\ inode' = [inode EXCEPT ![p] = inoNew]
  /\ \/ /\ FileLockOk(p, "none", Byte)
        /\ sys' = IF closePending THEN CloseFd(p) ELSE SysAfter(p, "none", Byte)
        /\ UNCHANGED faults
     \/ /\ ~NoSysCall(p) /\ faults < MaxFaults
        /\ sys' = IF closePending THEN CloseFd(p) ELSE sys
        /\ faults' = faults + 1
  /\ eFileLock' = [eFileLock EXCEPT ![c] = NO_LOCK]
  /\ pc' = [pc EXCEPT ![c] = Return(c)]
  /\ UNCHANGED <<req, closing>>

Unlock(c, l) == UnlockEnter(c, l, "idle") /\ UNCHANGED closing

-----------------------------------------------------------------------------
(* unixClose() and the death of a process *)

CloseEnter(c) ==
  /\ pc[c] = "idle"
  /\ closing' = closing \cup {c}
  /\ \/ UnlockEnter(c, NO_LOCK, "closing")
     \/ /\ eFileLock[c] = NO_LOCK
        /\ pc' = [pc EXCEPT ![c] = "closing"]
        /\ UNCHANGED <<req, eFileLock, inode, sys, faults>>

\* Mutant: the descriptor is closed at once, whatever locks the inode has.
CloseFinishAtOnce(c) ==
  LET p    == ProcOf[c]
      last == inode[p].nRef = 1
  IN
  /\ pc[c] = "closing"
  /\ MutexFree(p)
  /\ inode' = [inode EXCEPT ![p] = IF last THEN ZeroInode ELSE [@ EXCEPT !.nRef = @ - 1]]
  /\ sys' = CloseFd(p)
  /\ eFileLock' = [eFileLock EXCEPT ![c] = NO_LOCK]
  /\ pc' = [pc EXCEPT ![c] = "closed"]
  /\ closing' = closing \ {c}
  /\ UNCHANGED <<req, faults>>

\* setPendingFd() if the inode has locks, releaseInodeInfo(), closeUnixFile().
CloseFinish(c) ==
  LET p    == ProcOf[c]
      held == inode[p].nLock > 0
      last == inode[p].nRef = 1
      nRef == inode[p].nRef - 1
      nUnused == IF held THEN inode[p].nUnused + 1 ELSE inode[p].nUnused
      ino  == IF last THEN ZeroInode
              ELSE [inode[p] EXCEPT !.nRef = nRef, !.nUnused = nUnused]
  IN
  /\ pc[c] = "closing"
  /\ MutexFree(p)
  /\ inode' = [inode EXCEPT ![p] = ino]
  /\ sys' = IF last \/ ~held THEN CloseFd(p) ELSE sys
  /\ eFileLock' = [eFileLock EXCEPT ![c] = NO_LOCK]
  /\ pc' = [pc EXCEPT ![c] = "closed"]
  /\ closing' = closing \ {c}
  /\ UNCHANGED <<req, faults>>

\* A process dies at any moment; the kernel releases what it held.
ProcessDies(p) ==
  /\ pc' = [c \in Conn |-> IF ProcOf[c] = p THEN "closed" ELSE pc[c]]
  /\ eFileLock' = [c \in Conn |-> IF ProcOf[c] = p THEN NO_LOCK ELSE eFileLock[c]]
  /\ closing' = closing \ Handles(p)
  /\ inode' = [inode EXCEPT ![p] = ZeroInode]
  /\ sys' = CloseFd(p)
  /\ UNCHANGED <<req, faults>>

Next ==
  \/ \E c \in Conn :
       \/ Open(c) \/ FindInodeInfo(c) \/ FindInodeInfoFails(c)
       \/ \E l \in Level : LockEnter(c, l) \/ Unlock(c, l)
       \/ LockPending(c) \/ LockShared(c) \/ LockDropPending(c) \/ LockWrite(c)
       \/ UnlockToRead(c) \/ UnlockPending(c) \/ UnlockAll(c)
       \/ CloseEnter(c) \/ CloseFinish(c)
  \/ \E p \in Proc : ProcessDies(p)

Spec == Init /\ [][Next]_vars

-----------------------------------------------------------------------------
(* Properties *)

\* The level a handle may rely on: once posixUnlock() has given up the pending
\* and reserved bytes, no more than SHARED, although eFileLock still says more.
Held(c) == IF pc[c] = "ul_all" THEN SHARED_LOCK ELSE eFileLock[c]

\* unixLock(EXCLUSIVE_LOCK) succeeds only when no other handle, in this or in
\* any other process, has any lock; and none gets one while it lasts, not even
\* after an unlock that failed half way.
ExclusiveAlone ==
  \A c \in Conn : Held(c) = EXCLUSIVE_LOCK =>
    \A d \in Conn \ {c} : Held(d) = NO_LOCK

\* unixClose() of one handle, whose close() drops every POSIX lock of the
\* process, never takes away the lock another handle of the process believes
\* it has (the deferred closes of setPendingFd()/closePendingFds()).
LocksBackedByOs ==
  \A c \in Conn : Held(c) >= SHARED_LOCK => sys[ProcOf[c]]["SHARED"] # "none"

\* posixUnlock(): "In theory, the call to unixFileLock() cannot fail because
\* another process is holding an incompatible lock."
DowngradeNeverRefused ==
  \A c \in Conn : pc[c] = "ul_rdlock" =>
    FileLockOk(ProcOf[c], "rd", {"SHARED"})

\* Mutant: only the locks of other processes are looked at.
CheckReservedLockOsOnly(c) ==
  \E q \in Proc \ {ProcOf[c]} : sys[q]["RESERVED"] # "none"

\* unixCheckReservedLock() as its caller, which holds SHARED, sees it.
CheckReservedLock(c) ==
  \/ inode[ProcOf[c]].eFileLock > SHARED_LOCK
  \/ /\ ~inode[ProcOf[c]].bProcessLock
     /\ \E q \in Proc \ {ProcOf[c]} : sys[q]["RESERVED"] # "none"

\* A reader that asks is told of every reservation, in whichever process and
\* under whichever VFS it was taken: the hot-journal test depends on it.
ReservationVisible ==
  \A c, d \in Conn :
    (Held(c) = SHARED_LOCK /\ Held(d) = RESERVED_LOCK) => CheckReservedLock(c)

\* The assertions of unixLock(), posixUnlock(), unixFileLock() and unixClose()
\* about the counters that handles of one process share.
InodeAssertions ==
  \A c \in Conn :
    LET ino == inode[ProcOf[c]] IN
    /\ pc[c] \in {"lk_shared", "lk_drop_ok", "lk_drop_fail"} =>
         ino.nShared = 0 /\ ino.eFileLock = NO_LOCK
    /\ pc[c] \in {"ul_rdlock", "ul_pending"} =>
         ino.eFileLock = eFileLock[c] /\ ino.nShared > 0
    /\ eFileLock[c] = SHARED_LOCK /\ pc[c] = "idle" => ino.nShared > 0 /\ ino.nLock > 0
    /\ pc[c] = "closing" => ino.nLock > 0 \/ ~ino.bProcessLock
    /\ pc[c] \in LockSteps /\ ProcOf[c] \in ExclProc /\ ~ino.bProcessLock => ino.nLock = 0

\* A descriptor whose close was deferred is not stranded: some lock is still
\* outstanding whose release will close it.
NoStrandedFd ==
  \A p \in Proc : inode[p].nUnused > 0 => inode[p].nLock > 0

\* What the pager is promised (module FileLock) is what unixLock() delivers.
Abs == INSTANCE FileLock WITH
         lock <- [c \in Conn |-> Held(c)],
         resv <- {c \in Conn : /\ Held(c) > SHARED_LOCK
                               /\ \/ ProcOf[c] \in ExclProc
                                  \/ sys[ProcOf[c]]["RESERVED"] = "wr"}

\* Every step of the system-call level is a step of FileLock or none at all.
RefinesFileLock == Abs!Spec

-----------------------------------------------------------------------------
(* The inductive invariant behind the safety properties *)

Steps == LockSteps \cup UnlockSteps

\* The handles of a process that count in nRef and in nShared.
OpenHandles(p) == {c \in Handles(p) : pc[c] \notin {"closed", "opening"}}
Readers(p)     == {c \in Handles(p) : eFileLock[c] >= SHARED_LOCK /\ pc[c] # "ul_all"}

\* The kernel: a write-lock excludes every lock of another process.
KernelInv ==
  \A p, q \in Proc, b \in Byte :
    p # q /\ sys[p][b] = "wr" => sys[q][b] = "none"

\* unixEnterMutex(): one call at a time in a process.
MutexInv ==
  \A c, d \in Conn :
    c # d /\ ProcOf[c] = ProcOf[d] /\ pc[c] \in Steps => pc[d] \notin Steps

\* The lock that unix-excl keeps for the process counts in nLock.
ProcessLock(p) == IF inode[p].bProcessLock THEN 1 ELSE 0

\* What a handle inside a call knows, per step of the call.
StepAt(c) ==
  LET p == ProcOf[c]  ino == inode[p] IN
  /\ pc[c] \in {"closed", "opening"} => eFileLock[c] = NO_LOCK
  /\ pc[c] = "lk_pending" =>
       \/ req[c] = SHARED_LOCK /\ eFileLock[c] = NO_LOCK /\ ino.eFileLock = NO_LOCK
       \/ /\ req[c] = EXCLUSIVE_LOCK /\ eFileLock[c] = ino.eFileLock
          /\ eFileLock[c] \in {SHARED_LOCK, RESERVED_LOCK}
  /\ pc[c] \in {"lk_shared", "lk_drop_ok", "lk_drop_fail"} =>
       /\ eFileLock[c] = NO_LOCK /\ ino.eFileLock = NO_LOCK
       /\ p \notin ExclProc => sys[p]["PENDING"] = "rd"
       /\ p \in ExclProc => ino.bProcessLock
  /\ pc[c] = "lk_drop_ok" => sys[p]["SHARED"] # "none"
  /\ pc[c] = "lk_write" =>
       /\ req[c] \in {RESERVED_LOCK, EXCLUSIVE_LOCK}
       /\ eFileLock[c] = ino.eFileLock /\ eFileLock[c] >= SHARED_LOCK
       /\ req[c] = RESERVED_LOCK => eFileLock[c] = SHARED_LOCK
       /\ req[c] = EXCLUSIVE_LOCK => ino.nShared = 1 /\ eFileLock[c] # EXCLUSIVE_LOCK
       /\ req[c] = EXCLUSIVE_LOCK /\ p \notin ExclProc => sys[p]["PENDING"] = "wr"
  /\ pc[c] \in {"ul_rdlock", "ul_pending"} =>
       eFileLock[c] > SHARED_LOCK /\ req[c] \in {NO_LOCK, SHARED_LOCK}
  /\ pc[c] = "ul_all" =>
       /\ eFileLock[c] >= SHARED_LOCK /\ ino.eFileLock >= SHARED_LOCK
       /\ ino.nShared = 0 /\ ino.nLock = 1 + ProcessLock(p)
       /\ sys[p]["SHARED"] # "none"
       /\ p \in ExclProc => ino.bProcessLock

StepInv == \A c \in Conn : StepAt(c)

\* The counters of a unixInodeInfo cover the handles that rely on them.
CountAt(p) ==
  /\ inode[p].nRef = Cardinality(OpenHandles(p))
  /\ inode[p].nShared >= Cardinality(Readers(p))

CountInv == \A p \in Proc : CountAt(p)

\* At most one handle of a process is above SHARED, and the inode knows it.
SiblingAt(c) ==
  eFileLock[c] > SHARED_LOCK /\ pc[c] # "ul_all" =>
    /\ inode[ProcOf[c]].eFileLock = eFileLock[c]
    /\ \A d \in Handles(ProcOf[c]) \ {c} : eFileLock[d] <= SHARED_LOCK

SiblingInv == \A c \in Conn : SiblingAt(c)

\* The fields of one inode agree, and locks of the process back its claims.
BackedAt(p) ==
  LET ino == inode[p] IN
  /\ \/ \E c \in Handles(p) : pc[c] = "ul_all"
     \/ /\ ino.nLock = ino.nShared + ProcessLock(p)
        /\ ino.nShared = 0 <=> ino.eFileLock = NO_LOCK
  /\ ino.nLock > 0 => ino.nRef > 0
  /\ ino.nUnused > 0 => ino.nLock > 0
  /\ ino.nShared > 0 => sys[p]["SHARED"] # "none"
  /\ ino.bProcessLock => p \in ExclProc /\ sys[p]["SHARED"] = "wr"
  /\ p \in ExclProc /\ ino.nShared > 0 => ino.bProcessLock
  /\ p \notin ExclProc /\ ino.eFileLock = RESERVED_LOCK => sys[p]["RESERVED"] = "wr"
  /\ p \notin ExclProc /\ ino.eFileLock >= PENDING_LOCK => sys[p]["PENDING"] = "wr"
  /\ ino.eFileLock = EXCLUSIVE_LOCK => ino.nShared <= 1

BackedInv == \A p \in Proc : BackedAt(p)

\* EXCLUSIVE in one process leaves no lock on the shared range to another.
AloneInv ==
  \A p, q \in Proc :
    p # q /\ p \notin ExclProc /\ inode[p].eFileLock = EXCLUSIVE_LOCK =>
      sys[q]["SHARED"] = "none"

IInv == /\ TypeOK /\ KernelInv /\ MutexInv /\ StepInv
        /\ CountInv /\ SiblingInv /\ BackedInv /\ AloneInv

-----------------------------------------------------------------------------
(* Progress *)

\* A call that is under way is finished; readers finish reading; a writer
\* that was left with PENDING asks again (the busy handler's retry).
Fairness ==
  \A c \in Conn :
    /\ WF_vars(LockPending(c) \/ LockShared(c) \/ LockDropPending(c) \/ LockWrite(c))
    /\ WF_vars(UnlockToRead(c) \/ UnlockPending(c) \/ UnlockAll(c))
    /\ SF_vars(eFileLock[c] \in {SHARED_LOCK, RESERVED_LOCK} /\ Unlock(c, NO_LOCK))
    /\ WF_vars(eFileLock[c] = PENDING_LOCK /\ LockEnter(c, EXCLUSIVE_LOCK))

FairSpec == Spec /\ Fairness

\* The purpose of PENDING: readers that keep coming cannot starve the writer.
WriterNotStarved ==
  \A c \in Conn : (eFileLock[c] = PENDING_LOCK) ~> (eFileLock[c] # PENDING_LOCK)
=============================================================================
