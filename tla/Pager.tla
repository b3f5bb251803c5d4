------------------------------- MODULE Pager -------------------------------
(***************************************************************************)
(* pager.c: atomic commit of one database file with a rollback journal.    *)
(*                                                                         *)
(* Several connections, each with a page cache, share a database file and  *)
(* its journal.  Locks are those of module FileLock.  Every write, sync,   *)
(* truncation or deletion of a file is a step of its own: a process may    *)
(* die, or the power may fail, between any two of them, and a power loss   *)
(* keeps or garbles any subset of what was not synced.                     *)
(*                                                                         *)
(* The content of a page is a number: for page 1 the change counter, for   *)
(* the others the transaction that wrote it.                               *)
(***************************************************************************)
EXTENDS Integers, Sequences, FiniteSets, Functions, Journal

CONSTANTS
  Conn, ProcOf,  \* connections, and the process each one lives in
  Setups,        \* the configurations to consider, see Setup
  LooseUnlock,   \* xUnlock may fail outside the error state, too
  MaxPage        \* bound: pages of a database

\* A configuration: the connections that use the database; the journal mode of each
\* connection; whether synchronous is FULL, when the journal is synced twice; the
\* database at the start; and the bounds: pages of the database, and how many write
\* transactions, I/O errors, killed processes and power losses may happen.
Setup ==
  [conns : SUBSET Conn, mode : [Conn -> {"delete", "truncate", "persist"}],
   fullSync : BOOLEAN, init : Seq(Nat), pages : 0..MaxPage,
   tx : Nat, faults : Nat, kills : Nat, power : Nat]

ASSUME PagerAssumption ==
  /\ MaxPage \in Nat /\ LooseUnlock \in BOOLEAN
  /\ \A s \in Setups : s \in Setup /\ Len(s.init) <= s.pages

VARIABLES
  lock, resv,              \* the locks as the VFS has them (FileLock)
  eState, eLock,           \* Pager.eState, Pager.eLock
  pc, op,                  \* next step of the operation under way
  mem,                     \* the rest of the Pager object and its cache
  db, dbDisk,              \* database file: as written, and as synced
  jdir, jdirDisk,          \* journal's directory entry: as written, as synced
  jfile,                   \* inode -> journal content as written and as synced
  mine,                    \* the database each write transaction intends
  committed, prev,         \* the last two committed databases
  promised,                \* the last commit survives a power loss
  env                      \* the configuration, with what is left of its bounds

lockVars == <<lock, resv>>
ctlVars  == <<eState, eLock, pc, op>>
dbVars   == <<db, dbDisk>>
jrnlVars == <<jdir, jdirDisk, jfile>>
ghosts   == <<mine, committed, prev, promised>>
vars == <<lockVars, ctlVars, mem, dbVars, jrnlVars, ghosts, env>>

L == INSTANCE FileLock

NO_LOCK        == L!NO_LOCK
SHARED_LOCK    == L!SHARED_LOCK
RESERVED_LOCK  == L!RESERVED_LOCK
EXCLUSIVE_LOCK == L!EXCLUSIVE_LOCK
UNKNOWN_LOCK   == EXCLUSIVE_LOCK + 1

\* Pager.eState in the order of its values.
OPEN            == 0
READER          == 1
WRITER_LOCKED   == 2
WRITER_CACHEMOD == 3
WRITER_DBMOD    == 4
WRITER_FINISHED == 5
ERROR           == 6

Page  == 1..MaxPage
Inode == 1..(Cardinality(Conn) + 2)         \* 0 stands for no file


\* The Pager object of a connection that has just been opened.  "todo" holds
\* the offsets of the records that a playback under way has still to restore.
FreshMem ==
  [cache |-> [p \in {} |-> 0], dirty |-> {}, needSync |-> {}, dbFileVers |-> 0,
   dbSize |-> 0, dbOrigSize |-> 0, dbFileSize |-> 0,
   jfd |-> 0, dirSync |-> FALSE, journalOff |-> 0, journalHdr |-> 0, nRec |-> 0,
   nonce |-> <<0, 0>>, pInJournal |-> {}, changeCountDone |-> FALSE,
   todo |-> {}, spill |-> 0]

Init ==
  /\ L!Init
  /\ eState = [c \in Conn |-> OPEN]
  /\ eLock = [c \in Conn |-> NO_LOCK]
  /\ pc = [c \in Conn |-> "idle"]
  /\ op = [c \in Conn |-> "none"]
  /\ mem = [c \in Conn |-> FreshMem]
  /\ env \in Setups
  /\ db = env.init /\ dbDisk = env.init
  /\ jdir = 0 /\ jdirDisk = 0
  /\ jfile = [i \in Inode |-> EmptyFile]
  /\ mine = [c \in Conn |-> <<>>]
  /\ committed = env.init /\ prev = env.init
  /\ promised = TRUE

Goto(c, step) == pc' = [pc EXCEPT ![c] = step]

\* An I/O error is a step of the environment.
Fault == env.faults > 0 /\ env' = [env EXCEPT !.faults = @ - 1]

Journal(c) == jfile[mem[c].jfd].os

\* The file on which the journal's name is, if any.
JournalAtPath == IF jdir = 0 THEN <<>> ELSE jfile[jdir].os

\* The content of a page: cached, or as readDbPage() would read it.
Content(c, p) ==
  LET m == mem[c] IN
  IF p \in DOMAIN m.cache THEN m.cache[p]
  ELSE IF p <= m.dbSize /\ p <= Len(db) THEN db[p] ELSE 0

With(f, p, v) == [q \in DOMAIN f \cup {p} |-> IF q = p THEN v ELSE f[q]]

\* readDbPage(): reading page 1 also refreshes dbFileVers.
Fetched(c, p) ==
  [mem[c] EXCEPT !.cache = With(@, p, Content(c, p)),
                 !.dbFileVers = IF p = 1 /\ p \notin DOMAIN mem[c].cache /\ p <= mem[c].dbSize
                                THEN Content(c, p) ELSE @]

-----------------------------------------------------------------------------
(* Locks: pagerLockDb(), pagerUnlockDb(), pager_unlock() *)

\* sqlite3OsLock() succeeds; a level that the handle has already is granted.
\* The way past RESERVED reserves nothing (only unix-excl does, whose process
\* has the file to itself).
OsLock(c, l) ==
  \/ lock[c] >= l /\ UNCHANGED lockVars
  \/ /\ lock[c] < l
     /\ \/ l = SHARED_LOCK /\ L!GetShared(c)
        \/ l = RESERVED_LOCK /\ L!GetReserved(c)
        \/ l = EXCLUSIVE_LOCK /\ UNCHANGED resv /\ L!GetExclusive(c)

\* It is refused, which may leave the handle with PENDING.
OsLockRefused(c, l) ==
  \/ UNCHANGED lockVars
  \/ l = EXCLUSIVE_LOCK /\ UNCHANGED resv /\ L!GetPending(c)

LockedLevel(c, l) == IF eLock[c] = UNKNOWN_LOCK /\ l # EXCLUSIVE_LOCK THEN UNKNOWN_LOCK ELSE l

LockDb(c, l) ==
  \/ eLock[c] >= l /\ eLock[c] # UNKNOWN_LOCK /\ UNCHANGED <<lockVars, eLock>>
  \/ /\ eLock[c] < l \/ eLock[c] = UNKNOWN_LOCK
     /\ OsLock(c, l)
     /\ eLock' = [eLock EXCEPT ![c] = LockedLevel(c, l)]

OsUnlock(c, l) ==
  IF lock[c] > l THEN L!Release(c, l) ELSE UNCHANGED lockVars

UnlockedLevel(c, l) == IF eLock[c] = UNKNOWN_LOCK THEN UNKNOWN_LOCK ELSE l

UnlockDb(c, l) ==
  /\ OsUnlock(c, l)
  /\ eLock' = [eLock EXCEPT ![c] = UnlockedLevel(c, l)]

\* pager_unlock(); "error" says that the pager is in the error state, whose
\* cache cannot be trusted.  If the unlock fails as well, the lock is unknown.
PagerUnlock(c, error) ==
  /\ \/ UnlockDb(c, NO_LOCK) /\ UNCHANGED env
     \/ /\ Fault /\ lock[c] # NO_LOCK /\ (error \/ LooseUnlock)
        /\ UNCHANGED lockVars
        /\ eLock' = [eLock EXCEPT ![c] =
                       IF error THEN UNKNOWN_LOCK ELSE UnlockedLevel(c, NO_LOCK)]
  /\ eState' = [eState EXCEPT ![c] = OPEN]
  /\ Goto(c, "idle")
  /\ op' = [op EXCEPT ![c] = "none"]
  /\ mem' = [mem EXCEPT ![c] =
       [FreshMem EXCEPT !.cache = IF error THEN @ ELSE mem[c].cache,
                        !.dbFileVers = mem[c].dbFileVers]]

-----------------------------------------------------------------------------
(* sqlite3PagerSharedLock() and hasHotJournal() *)

SharedLock(c) ==
  /\ c \in env.conns /\ pc[c] = "idle" /\ eState[c] = OPEN
  /\ LockDb(c, SHARED_LOCK)
  /\ op' = [op EXCEPT ![c] = "shared"]
  /\ Goto(c, IF eLock'[c] <= SHARED_LOCK THEN "hot_exists" ELSE "hot_excl")
  /\ UNCHANGED <<eState, mem, dbVars, jrnlVars, ghosts, env>>

HotExists(c) ==
  /\ pc[c] = "hot_exists"
  /\ Goto(c, IF jdir = 0 THEN "check" ELSE "hot_resv")
  /\ UNCHANGED <<lockVars, eState, eLock, op, mem, dbVars, jrnlVars, ghosts, env>>

\* sqlite3OsCheckReservedLock(), as UnixLock answers it: a lock that this very
\* connection has kept counts as well.
CheckReservedLock(c) ==
  \E d \in Conn :
    (d # c /\ d \in resv) \/ (ProcOf[d] = ProcOf[c] /\ lock[d] > SHARED_LOCK)

HotReserved(c) ==
  /\ pc[c] = "hot_resv"
  /\ Goto(c, IF CheckReservedLock(c) THEN "check"
             ELSE IF db = <<>> THEN "hot_delete" ELSE "hot_read")
  /\ UNCHANGED <<lockVars, eState, eLock, op, mem, dbVars, jrnlVars, ghosts, env>>

\* The journal of an empty database is deleted, under a RESERVED lock that is
\* given back at once; without the lock it is left alone.
HotDelete(c) ==
  /\ pc[c] = "hot_delete"
  /\ \/ /\ resv = {} /\ lock[c] = SHARED_LOCK
        /\ jdir' = 0
     \/ UNCHANGED jdir
  /\ Goto(c, "check")
  /\ UNCHANGED <<lockVars, eState, eLock, op, mem, dbVars, jdirDisk, jfile, ghosts, env>>

\* The first byte of the journal tells; a journal that cannot be opened is hot.
\* The first byte of a garbled header may be anything.
FirstByteNonZero ==
  LET s == JournalAtPath IN
  IF jdir = 0 THEN {TRUE}
  ELSE IF s = <<>> THEN {FALSE}
  ELSE IF s[1] = Garbage THEN BOOLEAN ELSE {HasMagic(s[1])}

HotRead(c) ==
  /\ pc[c] = "hot_read"
  /\ \E hot \in FirstByteNonZero : Goto(c, IF hot THEN "hot_excl" ELSE "check")
  /\ UNCHANGED <<lockVars, eState, eLock, op, mem, dbVars, jrnlVars, ghosts, env>>

\* Mutant: the refused lock goes unnoticed.
HotExclusiveIgnored(c) ==
  /\ pc[c] = "hot_excl"
  /\ \/ LockDb(c, EXCLUSIVE_LOCK) /\ Goto(c, "hot_open")
     \/ /\ eLock[c] # EXCLUSIVE_LOCK /\ lock[c] # EXCLUSIVE_LOCK
        /\ OsLockRefused(c, EXCLUSIVE_LOCK)
        /\ Goto(c, "hot_open") /\ UNCHANGED eLock
  /\ UNCHANGED <<eState, op, mem, dbVars, jrnlVars, ghosts, env>>

\* Straight to EXCLUSIVE, without RESERVED on the way.
HotExclusive(c) ==
  /\ pc[c] = "hot_excl"
  /\ \/ LockDb(c, EXCLUSIVE_LOCK) /\ Goto(c, "hot_open")
     \/ /\ eLock[c] # EXCLUSIVE_LOCK /\ lock[c] # EXCLUSIVE_LOCK
        /\ OsLockRefused(c, EXCLUSIVE_LOCK)
        /\ Goto(c, "failed") /\ UNCHANGED eLock
  /\ UNCHANGED <<eState, op, mem, dbVars, jrnlVars, ghosts, env>>

\* Somebody else may have rolled the journal back in the meantime.
HotOpen(c) ==
  /\ pc[c] = "hot_open"
  /\ \/ /\ jdir = 0
        /\ UnlockDb(c, SHARED_LOCK)
        /\ Goto(c, "check") /\ UNCHANGED mem
     \/ /\ jdir # 0
        /\ mem' = [mem EXCEPT ![c].jfd = jdir, ![c].dirSync = FALSE]
        /\ Goto(c, "hot_sync") /\ UNCHANGED <<lockVars, eLock>>
  /\ UNCHANGED <<eState, op, dbVars, jrnlVars, ghosts, env>>

\* Mutant: the version is not compared.
CheckCacheBlind(c) ==
  LET vers == IF db = <<>> THEN 0 ELSE db[1]
      keep == TRUE
  IN
  /\ pc[c] = "check"
  /\ mem' = [mem EXCEPT ![c].dbSize = Len(db),
                        ![c].cache = IF keep THEN @ ELSE FreshMem.cache]
  /\ eState' = [eState EXCEPT ![c] = READER]
  /\ Goto(c, "idle")
  /\ op' = [op EXCEPT ![c] = "none"]
  /\ UNCHANGED <<lockVars, eLock, dbVars, jrnlVars, ghosts, env>>

\* The version check that keeps or drops the cache, and the read transaction.
CheckCache(c) ==
  LET vers == IF db = <<>> THEN 0 ELSE db[1]
      keep == vers = mem[c].dbFileVers
  IN
  /\ pc[c] = "check"
  /\ mem' = [mem EXCEPT ![c].dbSize = Len(db),
                        ![c].cache = IF keep THEN @ ELSE FreshMem.cache]
  /\ eState' = [eState EXCEPT ![c] = READER]
  /\ Goto(c, "idle")
  /\ op' = [op EXCEPT ![c] = "none"]
  /\ UNCHANGED <<lockVars, eLock, dbVars, jrnlVars, ghosts, env>>

\* A system call of hasHotJournal() or of the version check fails.
SharedLockFails(c) ==
  /\ pc[c] \in {"hot_exists", "hot_resv", "hot_read", "hot_open", "check"}
  /\ Fault
  /\ Goto(c, "failed")
  /\ UNCHANGED <<lockVars, eState, eLock, op, mem, dbVars, jrnlVars, ghosts>>

Failed(c) ==
  /\ pc[c] = "failed"
  /\ PagerUnlock(c, eState[c] = ERROR)
  /\ UNCHANGED <<dbVars, jrnlVars, ghosts>>

-----------------------------------------------------------------------------
(* pager_playback() and pager_end_transaction() *)

StartPlayback(c, isHot, journalHdr) ==
  LET s    == Journal(c)
      segs == Segments(s, isHot, journalHdr)
      reset == isHot /\ \E seg \in segs : seg.nRec > 0
  IN
  /\ mem' = [mem EXCEPT ![c].todo = Offsets(segs),
                        ![c].journalHdr = journalHdr,
                        ![c].journalOff = IF segs = {} THEN 0 ELSE Len(s),
                        ![c].dbSize = IF segs = {} THEN @ ELSE OrigSize(segs),
                        ![c].changeCountDone = FALSE,
                        ![c].cache = IF reset THEN FreshMem.cache ELSE @]
  /\ Goto(c, IF segs = {} THEN "pb_sync" ELSE "pb_truncate")

\* pagerSyncHotJournal(): the whole journal counts as synced.
HotSync(c) ==
  /\ pc[c] = "hot_sync"
  /\ jfile' = [jfile EXCEPT ![mem[c].jfd] = Sync(@)]
  /\ StartPlayback(c, TRUE, Len(Journal(c)))
  /\ UNCHANGED <<lockVars, eState, eLock, op, dbVars, jdir, jdirDisk, ghosts, env>>

\* The database file has been touched, or may have been (hot journal).
FileModified(c) == eState[c] >= WRITER_DBMOD \/ eState[c] = OPEN

PlaybackTruncate(c) ==
  /\ pc[c] = "pb_truncate"
  /\ IF FileModified(c)
     THEN /\ db' = Resize(db, mem[c].dbSize)
          /\ mem' = [mem EXCEPT ![c].dbFileSize = mem[c].dbSize]
     ELSE UNCHANGED <<db, mem>>
  /\ Goto(c, IF mem[c].todo = {} THEN "pb_sync" ELSE "pb_page")
  /\ UNCHANGED <<lockVars, eState, eLock, op, dbDisk, jrnlVars, ghosts, env>>

\* Mutant: the cache keeps the new content.
PlaybackPageFileOnly(c) ==
  LET m == mem[c]
      o == CHOOSE x \in m.todo : \A y \in m.todo : x <= y
      r == Journal(c)[o + 1]
      p == r.pg
      valid  == p <= m.dbSize
      toFile == valid /\ FileModified(c) /\ o + 1 <= m.journalHdr
      cached == FALSE
  IN
  /\ pc[c] = "pb_page"
  /\ db' = IF toFile THEN SetPage(db, p, r.data) ELSE db
  /\ mem' = [mem EXCEPT ![c].todo = @ \ {o},
                        ![c].dbFileSize = IF toFile /\ p > @ THEN p ELSE @,
                        ![c].cache = IF cached THEN [@ EXCEPT ![p] = r.data] ELSE @,
                        ![c].dirty = IF cached THEN @ \ {p} ELSE @,
                        ![c].needSync = IF cached THEN @ \ {p} ELSE @,
                        ![c].dbFileVers = IF cached /\ p = 1 THEN r.data ELSE @]
  /\ Goto(c, IF m.todo = {o} THEN "pb_sync" ELSE "pb_page")
  /\ UNCHANGED <<lockVars, eState, eLock, op, dbDisk, jrnlVars, ghosts, env>>

\* pager_playback_one_page(): into the file if that may hold the new content
\* (the record is synced), and into the cache if the page is there.
PlaybackPage(c) ==
  LET m == mem[c]
      o == CHOOSE x \in m.todo : \A y \in m.todo : x <= y
      r == Journal(c)[o + 1]
      p == r.pg
      valid  == p <= m.dbSize
      toFile == valid /\ FileModified(c) /\ o + 1 <= m.journalHdr
      cached == valid /\ p \in DOMAIN m.cache
  IN
  /\ pc[c] = "pb_page"
  /\ db' = IF toFile THEN SetPage(db, p, r.data) ELSE db
  /\ mem' = [mem EXCEPT ![c].todo = @ \ {o},
                        ![c].dbFileSize = IF toFile /\ p > @ THEN p ELSE @,
                        ![c].cache = IF cached THEN [@ EXCEPT ![p] = r.data] ELSE @,
                        ![c].dirty = IF cached THEN @ \ {p} ELSE @,
                        ![c].needSync = IF cached THEN @ \ {p} ELSE @,
                        ![c].dbFileVers = IF cached /\ p = 1 THEN r.data ELSE @]
  /\ Goto(c, IF m.todo = {o} THEN "pb_sync" ELSE "pb_page")
  /\ UNCHANGED <<lockVars, eState, eLock, op, dbDisk, jrnlVars, ghosts, env>>

PlaybackSync(c) ==
  /\ pc[c] = "pb_sync"
  /\ dbDisk' = IF FileModified(c) THEN db ELSE dbDisk
  /\ Goto(c, "end_journal")
  /\ UNCHANGED <<lockVars, eState, eLock, op, mem, db, jrnlVars, ghosts, env>>

\* Finalizing the journal is the commit point.
CommitPoint(c) ==
  IF op[c] = "commit" /\ eState[c] = WRITER_FINISHED
  THEN /\ committed' = mine[c] /\ prev' = committed
       /\ promised' = FALSE
       /\ UNCHANGED mine
  ELSE UNCHANGED ghosts

\* Mutant: the zeroed header is not synced.
FinalizeJournalUnsynced(c) ==
  LET m == mem[c]
      nothing == m.jfd = 0 \/ (env.mode[c] # "delete" /\ m.journalOff = 0)
  IN
  /\ pc[c] = "end_journal"
  /\ \/ /\ nothing
        /\ Goto(c, "end_unlock")
        /\ UNCHANGED <<mem, jrnlVars, ghosts>>
     \/ /\ ~nothing /\ env.mode[c] = "delete"
        /\ jdir' = 0
        /\ mem' = [mem EXCEPT ![c].jfd = 0]
        /\ Goto(c, "end_unlock")
        /\ CommitPoint(c)
        /\ UNCHANGED <<jdirDisk, jfile>>
     \/ /\ ~nothing /\ env.mode[c] = "truncate"
        /\ jfile' = [jfile EXCEPT ![m.jfd].os = <<>>, ![m.jfd].cut = TRUE]
        /\ Goto(c, "end_unlock")
        /\ CommitPoint(c)
        /\ UNCHANGED <<mem, jdir, jdirDisk>>
     \/ /\ ~nothing /\ env.mode[c] = "persist"
        /\ jfile' = [jfile EXCEPT ![m.jfd].os = Overwrite(@, 0, <<Zero>>)]
        /\ Goto(c, "end_unlock")
        /\ CommitPoint(c)
        /\ UNCHANGED <<mem, jdir, jdirDisk>>
  /\ UNCHANGED <<lockVars, eState, eLock, op, dbVars, env>>

\* unlink() acts on the name, whichever file the pager has open.
FinalizeJournal(c) ==
  LET m == mem[c]
      nothing == m.jfd = 0 \/ (env.mode[c] # "delete" /\ m.journalOff = 0)
  IN
  /\ pc[c] = "end_journal"
  /\ \/ /\ nothing
        /\ Goto(c, "end_unlock")
        /\ UNCHANGED <<mem, jrnlVars, ghosts>>
     \/ /\ ~nothing /\ env.mode[c] = "delete"
        /\ jdir' = 0
        /\ mem' = [mem EXCEPT ![c].jfd = 0]
        /\ Goto(c, "end_unlock")
        /\ CommitPoint(c)
        /\ UNCHANGED <<jdirDisk, jfile>>
     \/ /\ ~nothing /\ env.mode[c] = "truncate"
        /\ jfile' = [jfile EXCEPT ![m.jfd].os = <<>>, ![m.jfd].cut = TRUE]
        /\ Goto(c, "end_unlock")
        /\ CommitPoint(c)
        /\ UNCHANGED <<mem, jdir, jdirDisk>>
     \/ /\ ~nothing /\ env.mode[c] = "persist"
        /\ jfile' = [jfile EXCEPT ![m.jfd].os = Overwrite(@, 0, <<Zero>>)]
        /\ Goto(c, "end_sync")
        /\ CommitPoint(c)
        /\ UNCHANGED <<mem, jdir, jdirDisk>>
  /\ UNCHANGED <<lockVars, eState, eLock, op, dbVars, env>>

\* unixSync() of the journal; the first one also syncs the directory.
SyncJournalFile(c) ==
  /\ jfile' = [jfile EXCEPT ![mem[c].jfd] = Sync(@)]
  /\ jdirDisk' = IF mem[c].dirSync THEN jdir ELSE jdirDisk
  /\ promised' = TRUE
  /\ UNCHANGED <<jdir, mine, committed, prev>>

\* zeroJournalHdr() syncs the zeroed header.
FinalizeSync(c) ==
  /\ pc[c] = "end_sync"
  /\ SyncJournalFile(c)
  /\ mem' = [mem EXCEPT ![c].dirSync = FALSE]
  /\ Goto(c, "end_unlock")
  /\ UNCHANGED <<lockVars, eState, eLock, op, dbVars, env>>

\* The rest of pager_end_transaction(): a clean cache, and back to SHARED.  An
\* error on the way ("failing") or in the unlock puts the pager in error state.
EndUnlock(c) ==
  LET m      == mem[c]
      shared == op[c] = "shared"
      Done(ok) ==
        /\ eState' = [eState EXCEPT ![c] = IF ~ok THEN ERROR ELSE IF shared THEN OPEN ELSE READER]
        /\ Goto(c, IF ~shared THEN "idle" ELSE IF ok THEN "check" ELSE "failed")
        /\ op' = [op EXCEPT ![c] = IF shared THEN @ ELSE "none"]
  IN
  /\ pc[c] \in {"end_unlock", "end_failing"}
  /\ mem' = [mem EXCEPT ![c] =
       [FreshMem EXCEPT !.cache = Restrict(m.cache, {p \in DOMAIN m.cache : p <= m.dbSize}),
                        !.dbFileVers = m.dbFileVers, !.dbSize = m.dbSize,
                        !.jfd = m.jfd, !.dirSync = m.dirSync]]
  /\ \/ /\ UnlockDb(c, SHARED_LOCK)
        /\ Done(pc[c] = "end_unlock") /\ UNCHANGED env
     \/ /\ Fault
        /\ eLock' = [eLock EXCEPT ![c] = UnlockedLevel(c, SHARED_LOCK)]
        /\ UNCHANGED lockVars
        /\ Done(FALSE)
  /\ UNCHANGED <<dbVars, jrnlVars, ghosts>>

-----------------------------------------------------------------------------
(* Reading, and the page cache *)

\* sqlite3PagerAcquire(); the b-tree layer reads page 1 before any other.
ReadPage(c, p) ==
  /\ pc[c] = "idle" /\ eState[c] = READER
  /\ p \in 1..mem[c].dbSize \ DOMAIN mem[c].cache
  /\ p = 1 \/ 1 \in DOMAIN mem[c].cache
  /\ mem' = [mem EXCEPT ![c] = Fetched(c, p)]
  /\ UNCHANGED <<lockVars, ctlVars, dbVars, jrnlVars, ghosts, env>>

\* Mutant: a page is recycled before it is written.
EvictDirty(c, p) ==
  /\ pc[c] = "idle"
  /\ p \in DOMAIN mem[c].cache
  /\ p # 1 \/ eState[c] = OPEN
  /\ mem' = [mem EXCEPT ![c].cache = Restrict(@, DOMAIN @ \ {p})]
  /\ UNCHANGED <<lockVars, ctlVars, dbVars, jrnlVars, ghosts, env>>

\* The cache recycles a clean page.  During a transaction the b-tree layer
\* holds page 1.
Evict(c, p) ==
  /\ pc[c] = "idle"
  /\ p \in DOMAIN mem[c].cache \ mem[c].dirty
  /\ p # 1 \/ eState[c] = OPEN
  /\ mem' = [mem EXCEPT ![c].cache = Restrict(@, DOMAIN @ \ {p})]
  /\ UNCHANGED <<lockVars, ctlVars, dbVars, jrnlVars, ghosts, env>>

\* The last page reference is released (pagerUnlockIfUnused()).
UnlockIfUnused(c) ==
  /\ pc[c] = "idle"
  /\ eState[c] \in {READER, ERROR}
  /\ PagerUnlock(c, eState[c] = ERROR)
  /\ UNCHANGED <<dbVars, jrnlVars, ghosts>>

-----------------------------------------------------------------------------
(* sqlite3PagerBegin(), sqlite3PagerWrite() *)

StartWriting(c) ==
  /\ eState' = [eState EXCEPT ![c] = WRITER_LOCKED]
  /\ mem' = [mem EXCEPT ![c].dbOrigSize = mem[c].dbSize,
                        ![c].dbFileSize = mem[c].dbSize,
                        ![c].journalOff = 0]
  /\ mine' = [mine EXCEPT ![c] = committed]
  /\ Goto(c, "idle")

\* exFlag: BEGIN EXCLUSIVE goes on to the EXCLUSIVE lock.  No transaction begins once
\* the last of the bound has changed a page.
Begin(c, exFlag) ==
  /\ pc[c] = "idle" /\ eState[c] = READER /\ env.tx > 0
  /\ LockDb(c, RESERVED_LOCK)
  /\ IF exFlag THEN Goto(c, "begin_excl") /\ UNCHANGED <<eState, mem, mine>>
               ELSE StartWriting(c)
  /\ UNCHANGED <<op, dbVars, jrnlVars, committed, prev, promised, env>>

\* Refused, the pager is a reader again, but keeps the RESERVED lock.
BeginExclusive(c) ==
  /\ pc[c] = "begin_excl"
  /\ \/ LockDb(c, EXCLUSIVE_LOCK) /\ StartWriting(c)
     \/ /\ eLock[c] # EXCLUSIVE_LOCK /\ lock[c] # EXCLUSIVE_LOCK
        /\ OsLockRefused(c, EXCLUSIVE_LOCK)
        /\ Goto(c, "idle") /\ UNCHANGED <<eState, eLock, mem, mine>>
  /\ UNCHANGED <<op, dbVars, jrnlVars, committed, prev, promised, env>>

\* writeJournalHdr(): magic and record count stay zero until the next sync.
NewHeader(s, o, nonce, orig) ==
  Overwrite(s, o, [i \in 1..HdrSz |-> IF i = 1 THEN Hdr(FALSE, 0, nonce, orig) ELSE Pad])

FreeInode == CHOOSE i \in Inode : /\ i \notin {jdir, jdirDisk}
                                  /\ \A d \in Conn : mem[d].jfd # i

\* pager_open_journal(), called by the first pager_write(): a journal that is
\* still open is used again, otherwise the file of that name or a new one.
OpenJournal(c) ==
  LET m   == mem[c]
      ino == IF m.jfd # 0 THEN m.jfd ELSE IF jdir # 0 THEN jdir ELSE FreeInode
      old == IF m.jfd = 0 /\ jdir = 0 THEN EmptyFile ELSE jfile[ino]
      nonce == <<env.tx, 0>>
  IN
  /\ pc[c] = "idle" /\ eState[c] = WRITER_LOCKED
  /\ env.tx > 0
  /\ env' = [env EXCEPT !.tx = @ - 1]
  /\ jdir' = IF m.jfd = 0 THEN ino ELSE jdir
  /\ jfile' = [jfile EXCEPT ![ino] = [old EXCEPT !.os = NewHeader(@, 0, nonce, m.dbOrigSize)]]
  /\ mem' = [mem EXCEPT ![c].jfd = ino, ![c].dirSync = @ \/ m.jfd = 0,
                        ![c].nRec = 0, ![c].journalHdr = 0, ![c].journalOff = HdrSz,
                        ![c].nonce = nonce, ![c].pInJournal = {}]
  /\ eState' = [eState EXCEPT ![c] = WRITER_CACHEMOD]
  /\ Goto(c, "first_write")
  /\ UNCHANGED <<lockVars, eLock, op, dbVars, jdirDisk, ghosts>>

\* Mutant: the last page is taken for a new one.
ToJournalShort(c, p) == p \notin mem[c].pInJournal /\ p < mem[c].dbOrigSize

\* pager_write() on a page that then gets content v: its old content goes to the
\* journal, once per transaction, if it existed when the transaction began.
ToJournal(c, p) == p \notin mem[c].pInJournal /\ p <= mem[c].dbOrigSize

Written(c, p, v) ==
  LET m   == Fetched(c, p)
      jrn == ToJournal(c, p)
      appended == p > m.dbOrigSize /\ eState[c] # WRITER_DBMOD
  IN [m EXCEPT !.cache = With(@, p, v),
               !.dirty = @ \cup {p},
               !.needSync = IF jrn \/ appended THEN @ \cup {p} ELSE @,
               !.pInJournal = IF jrn THEN @ \cup {p} ELSE @,
               !.journalOff = IF jrn THEN @ + 1 ELSE @,
               !.nRec = IF jrn THEN @ + 1 ELSE @,
               !.dbSize = IF p > @ THEN p ELSE @]

JournalPage(c, p, old) ==
  LET m == mem[c] IN
  jfile' = IF ToJournal(c, p)
           THEN [jfile EXCEPT ![m.jfd].os = Overwrite(@, m.journalOff, <<Rec(p, old, m.nonce)>>)]
           ELSE jfile

Writable(c) == \/ pc[c] = "first_write"
               \/ pc[c] = "idle" /\ eState[c] \in {WRITER_CACHEMOD, WRITER_DBMOD}

\* The b-tree layer changes page p, or appends it.  It has journalled a page
\* that it gave up before it appends a page of that number again.
WritePage(c, p) ==
  LET m == mem[c]
      v == IF p = 1 THEN Content(c, p) ELSE m.nonce[1]
  IN
  /\ Writable(c)
  /\ p \in 1..(m.dbSize + 1) /\ p <= env.pages
  /\ p > m.dbSize => ~ToJournal(c, p)
  /\ mem' = [mem EXCEPT ![c] = Written(c, p, v)]
  /\ JournalPage(c, p, Content(c, p))
  /\ mine' = [mine EXCEPT ![c] = SetPage(@, p, v)]
  /\ Goto(c, "idle")
  /\ UNCHANGED <<lockVars, eState, eLock, op, dbVars, jdir, jdirDisk,
                 committed, prev, promised, env>>

\* The journal cannot be written; the statement fails and is rolled back.
WriteFails(c) ==
  /\ Writable(c)
  /\ Fault
  /\ Goto(c, "must_rollback")
  /\ UNCHANGED <<lockVars, eState, eLock, op, mem, dbVars, jrnlVars, ghosts>>

\* sqlite3PagerTruncateImage(): the last pages have been vacuumed away.
TruncateImage(c, n) ==
  /\ pc[c] = "idle" /\ eState[c] \in {WRITER_CACHEMOD, WRITER_DBMOD}
  /\ n \in 1..(mem[c].dbSize - 1)
  /\ mem' = [mem EXCEPT ![c].dbSize = n]
  /\ mine' = [mine EXCEPT ![c] = Resize(@, n)]
  /\ UNCHANGED <<lockVars, ctlVars, dbVars, jrnlVars, committed, prev, promised, env>>

-----------------------------------------------------------------------------
(* syncJournal(), pager_write_pagelist(), pagerStress() *)

\* The cache is full: a dirty page that nobody uses is written early.
Spill(c, p) ==
  LET m == mem[c]
      sync == p \in m.needSync \/ eState[c] = WRITER_CACHEMOD
  IN
  /\ pc[c] = "idle" /\ eState[c] \in {WRITER_CACHEMOD, WRITER_DBMOD}
  /\ p \in m.dirty \ {1}
  /\ mem' = [mem EXCEPT ![c].spill = p,
                        ![c].todo = IF p <= m.dbSize THEN {p} ELSE {}]
  /\ op' = [op EXCEPT ![c] = "spill"]
  /\ Goto(c, IF sync THEN "sj_lock" ELSE "write_pages")
  /\ UNCHANGED <<lockVars, eState, eLock, dbVars, jrnlVars, ghosts, env>>

\* Refused, the transaction goes on as if nothing had been asked.
SyncLock(c) ==
  /\ pc[c] = "sj_lock"
  /\ \/ /\ LockDb(c, EXCLUSIVE_LOCK)
        /\ Goto(c, "sj_next") /\ UNCHANGED <<op, mem>>
     \/ /\ eLock[c] # EXCLUSIVE_LOCK /\ lock[c] # EXCLUSIVE_LOCK
        /\ OsLockRefused(c, EXCLUSIVE_LOCK)
        /\ Goto(c, "idle") /\ UNCHANGED eLock
        /\ op' = [op EXCEPT ![c] = "none"]
        /\ mem' = [mem EXCEPT ![c].todo = {}, ![c].spill = 0]
  /\ UNCHANGED <<eState, dbVars, jrnlVars, ghosts, env>>

\* Mutant: the stale header stays valid.
SyncNextHeaderKept(c) ==
  LET s == Journal(c)
      a == HdrOffset(mem[c].journalOff)
  IN
  /\ pc[c] = "sj_next"
  /\ UNCHANGED jfile
  /\ Goto(c, IF env.fullSync THEN "sj_records" ELSE "sj_header")
  /\ UNCHANGED <<lockVars, eState, eLock, op, mem, dbVars, jdir, jdirDisk, ghosts, env>>

\* A stale header that follows in a persistent journal is made invalid.
SyncNextHeader(c) ==
  LET s == Journal(c)
      a == HdrOffset(mem[c].journalOff)
  IN
  /\ pc[c] = "sj_next"
  /\ jfile' = IF a < Len(s) /\ HasMagic(s[a + 1])
              THEN [jfile EXCEPT ![mem[c].jfd].os[a + 1].magic = FALSE]
              ELSE jfile
  /\ Goto(c, IF env.fullSync THEN "sj_records" ELSE "sj_header")
  /\ UNCHANGED <<lockVars, eState, eLock, op, mem, dbVars, jdir, jdirDisk, ghosts, env>>

\* The records reach the disk before the header counts them.
SyncRecords(c) ==
  /\ pc[c] = "sj_records"
  /\ SyncJournalFile(c)
  /\ mem' = [mem EXCEPT ![c].dirSync = FALSE]
  /\ Goto(c, "sj_header")
  /\ UNCHANGED <<lockVars, eState, eLock, op, dbVars, env>>

SyncHeader(c) ==
  LET m == mem[c] IN
  /\ pc[c] = "sj_header"
  /\ jfile' = [jfile EXCEPT ![m.jfd].os[m.journalHdr + 1].magic = TRUE,
                            ![m.jfd].os[m.journalHdr + 1].nRec = m.nRec]
  /\ Goto(c, "sj_sync")
  /\ UNCHANGED <<lockVars, eState, eLock, op, mem, dbVars, jdir, jdirDisk, ghosts, env>>

SyncJournal(c) ==
  /\ pc[c] = "sj_sync"
  /\ SyncJournalFile(c)
  /\ mem' = [mem EXCEPT ![c].dirSync = FALSE, ![c].needSync = {},
                        ![c].journalHdr = mem[c].journalOff]
  /\ eState' = [eState EXCEPT ![c] = IF op[c] = "spill" THEN @ ELSE WRITER_DBMOD]
  /\ Goto(c, IF op[c] = "spill" THEN "sj_new" ELSE "write_pages")
  /\ UNCHANGED <<lockVars, eLock, op, dbVars, env>>

\* After a spill the journal goes on with a new header.
SyncNewHeader(c) ==
  LET m == mem[c]
      a == HdrOffset(m.journalOff)
      nonce == <<m.nonce[1], a>>
  IN
  /\ pc[c] = "sj_new"
  /\ jfile' = [jfile EXCEPT ![m.jfd].os = NewHeader(@, a, nonce, m.dbOrigSize)]
  /\ mem' = [mem EXCEPT ![c].nRec = 0, ![c].journalHdr = a, ![c].nonce = nonce,
                        ![c].journalOff = a + HdrSz]
  /\ eState' = [eState EXCEPT ![c] = WRITER_DBMOD]
  /\ Goto(c, "write_pages")
  /\ UNCHANGED <<lockVars, eLock, op, dbVars, jdir, jdirDisk, ghosts, env>>

\* Dirty pages go to the file in order; page 1 with the new change counter.
WriteToFile(c) ==
  LET m == mem[c]
      p == CHOOSE x \in m.todo : \A y \in m.todo : x <= y
      v == IF p = 1 THEN m.dbFileVers + 1 ELSE m.cache[p]
  IN
  /\ pc[c] = "write_pages" /\ m.todo # {}
  /\ db' = SetPage(db, p, v)
  /\ mem' = [mem EXCEPT ![c].todo = @ \ {p},
                        ![c].cache[p] = v,
                        ![c].dbFileVers = IF p = 1 THEN v ELSE @,
                        ![c].dbFileSize = IF p > @ THEN p ELSE @]
  /\ UNCHANGED <<lockVars, ctlVars, dbDisk, jrnlVars, ghosts, env>>

WriteToFileDone(c) ==
  LET m == mem[c] IN
  /\ pc[c] = "write_pages" /\ m.todo = {}
  /\ \/ /\ op[c] = "spill"
        /\ mem' = [mem EXCEPT ![c].dirty = @ \ {m.spill}, ![c].spill = 0]
        /\ op' = [op EXCEPT ![c] = "none"]
        /\ Goto(c, "idle")
     \/ /\ op[c] = "commit"
        /\ mem' = [mem EXCEPT ![c].dirty = {}, ![c].needSync = {}]
        /\ Goto(c, IF m.dbSize # m.dbFileSize THEN "c1_truncate" ELSE "c1_sync")
        /\ UNCHANGED op
  /\ UNCHANGED <<lockVars, eState, eLock, dbVars, jrnlVars, ghosts, env>>

-----------------------------------------------------------------------------
(* sqlite3PagerCommitPhaseOne(), ...PhaseTwo(), sqlite3PagerRollback() *)

\* pager_incr_changecounter() makes page 1 part of the transaction.
IncrChangeCounter(c) ==
  LET v == Fetched(c, 1).dbFileVers + 1 IN
  IF mem[c].changeCountDone \/ mem[c].dbSize = 0
  THEN UNCHANGED <<mem, jfile, mine>>
  ELSE /\ mem' = [mem EXCEPT ![c] = [Written(c, 1, v) EXCEPT !.changeCountDone = TRUE]]
       /\ JournalPage(c, 1, Content(c, 1))
       /\ mine' = [mine EXCEPT ![c] = SetPage(@, 1, v)]

CommitPhaseOne(c) ==
  /\ pc[c] = "idle" /\ eState[c] \in {WRITER_CACHEMOD, WRITER_DBMOD}
  /\ op' = [op EXCEPT ![c] = "commit"]
  /\ Goto(c, "c1_journal")
  /\ IncrChangeCounter(c)
  /\ UNCHANGED <<lockVars, eState, eLock, dbVars, jdir, jdirDisk,
                 committed, prev, promised, env>>

\* Pages that the commit cuts off the file are journalled too.
CommitJournalTail(c) ==
  LET m    == mem[c]
      tail == {p \in (m.dbSize + 1)..m.dbOrigSize : p \notin m.pInJournal}
      p    == CHOOSE x \in tail : \A y \in tail : x <= y
      old  == IF p \in DOMAIN m.cache THEN m.cache[p] ELSE db[p]
  IN
  /\ pc[c] = "c1_journal"
  /\ \/ /\ tail # {}
        /\ mem' = [mem EXCEPT ![c] = [Written(c, p, old) EXCEPT !.dbSize = m.dbSize]]
        /\ JournalPage(c, p, old)
        /\ UNCHANGED pc
     \/ /\ tail = {}
        /\ mem' = [mem EXCEPT ![c].todo = {q \in m.dirty : q <= m.dbSize}]
        /\ Goto(c, "sj_lock")
        /\ UNCHANGED jfile
  /\ UNCHANGED <<lockVars, eState, eLock, op, dbVars, jdir, jdirDisk, ghosts, env>>

CommitTruncate(c) ==
  /\ pc[c] = "c1_truncate"
  /\ db' = Resize(db, mem[c].dbSize)
  /\ mem' = [mem EXCEPT ![c].dbFileSize = mem[c].dbSize]
  /\ Goto(c, "c1_sync")
  /\ UNCHANGED <<lockVars, eState, eLock, op, dbDisk, jrnlVars, ghosts, env>>

\* Mutant: the database is not synced.
CommitSyncSkipped(c) ==
  /\ pc[c] = "c1_sync"
  /\ UNCHANGED dbDisk
  /\ eState' = [eState EXCEPT ![c] = WRITER_FINISHED]
  /\ Goto(c, "idle")
  /\ op' = [op EXCEPT ![c] = "none"]
  /\ UNCHANGED <<lockVars, eLock, mem, db, jrnlVars, ghosts, env>>

CommitSync(c) ==
  /\ pc[c] = "c1_sync"
  /\ dbDisk' = db
  /\ eState' = [eState EXCEPT ![c] = WRITER_FINISHED]
  /\ Goto(c, "idle")
  /\ op' = [op EXCEPT ![c] = "none"]
  /\ UNCHANGED <<lockVars, eLock, mem, db, jrnlVars, ghosts, env>>

\* A transaction that wrote nothing has no phase one.
CommitPhaseTwo(c) ==
  /\ pc[c] = "idle" /\ eState[c] \in {WRITER_LOCKED, WRITER_FINISHED}
  /\ op' = [op EXCEPT ![c] = "commit"]
  /\ Goto(c, "end_journal")
  /\ UNCHANGED <<lockVars, eState, eLock, mem, dbVars, jrnlVars, ghosts, env>>

Rollback(c) ==
  /\ pc[c] \in {"idle", "must_rollback"}
  /\ eState[c] \in WRITER_LOCKED..WRITER_FINISHED
  /\ op' = [op EXCEPT ![c] = "rollback"]
  /\ IF eState[c] = WRITER_LOCKED
     THEN Goto(c, "end_journal") /\ UNCHANGED mem
     ELSE StartPlayback(c, FALSE, mem[c].journalHdr)
  /\ UNCHANGED <<lockVars, eState, eLock, dbVars, jrnlVars, ghosts, env>>

-----------------------------------------------------------------------------
(* Failures *)

PlaybackSteps == {"hot_sync", "pb_truncate", "pb_page", "pb_sync"}
SyncSteps     == {"sj_next", "sj_records", "sj_header", "sj_sync", "sj_new", "write_pages"}
CommitSteps   == {"c1_journal", "c1_truncate", "c1_sync"}

\* A page whose write() failed half way is garbage.
Torn(c) == LET todo == mem[c].todo IN
           IF pc[c] = "write_pages" /\ todo # {}
           THEN {db, SetPage(db, CHOOSE x \in todo : \A y \in todo : x <= y, Junk)}
           ELSE {db}

\* A failed commit is rolled back by its caller; a failed spill, playback or
\* finalization puts the pager in the error state.
IoError(c) ==
  /\ Fault
  /\ \/ /\ pc[c] \in PlaybackSteps
        /\ eState' = [eState EXCEPT ![c] = ERROR]
        /\ Goto(c, IF op[c] = "shared" THEN "failed" ELSE "idle")
     \/ /\ pc[c] \in {"end_journal", "end_sync"} /\ mem[c].jfd # 0
        /\ Goto(c, "end_failing")
        /\ UNCHANGED eState
     \/ /\ pc[c] \in SyncSteps \cup CommitSteps /\ op[c] = "commit"
        /\ Goto(c, "must_rollback")
        /\ UNCHANGED eState
     \/ /\ pc[c] \in SyncSteps /\ op[c] = "spill"
        /\ eState' = [eState EXCEPT ![c] = ERROR]
        /\ Goto(c, "idle")
  /\ op' = [op EXCEPT ![c] = IF pc'[c] = "idle" \/ pc'[c] = "must_rollback" THEN "none" ELSE @]
  /\ mem' = [mem EXCEPT ![c].todo = {}, ![c].spill = 0]
  /\ db' \in Torn(c)
  /\ UNCHANGED <<lockVars, eLock, dbDisk, jrnlVars, ghosts>>

Reset(S) ==
  /\ L!Die(S)
  /\ eState' = [c \in Conn |-> IF c \in S THEN OPEN ELSE eState[c]]
  /\ eLock' = [c \in Conn |-> IF c \in S THEN NO_LOCK ELSE eLock[c]]
  /\ pc' = [c \in Conn |-> IF c \in S THEN "idle" ELSE pc[c]]
  /\ op' = [c \in Conn |-> IF c \in S THEN "none" ELSE op[c]]
  /\ mem' = [c \in Conn |-> IF c \in S THEN FreshMem ELSE mem[c]]
  /\ mine' = [c \in Conn |-> IF c \in S THEN <<>> ELSE mine[c]]

\* A process is killed; what it wrote stays.
Kill(p) ==
  /\ env.kills > 0
  /\ env' = [env EXCEPT !.kills = @ - 1]
  /\ Reset({c \in Conn : ProcOf[c] = p})
  /\ UNCHANGED <<dbVars, jrnlVars, committed, prev, promised>>

\* The power fails.
PowerLoss ==
  /\ env.power > 0
  /\ env' = [env EXCEPT !.power = @ - 1]
  /\ Reset(Conn)
  /\ db' \in Survivors(dbDisk, db, Junk, Junk - 1)
  /\ dbDisk' = db'
  /\ \E i \in {jdir, jdirDisk} :
       \E s \in IF i = 0 THEN {<<>>} ELSE JournalSurvivors(jfile[i]) :
         /\ jdir' = i /\ jdirDisk' = i
         /\ jfile' = [k \in Inode |-> IF k = i THEN [EmptyFile EXCEPT !.os = s, !.disk = s]
                                               ELSE EmptyFile]
  /\ committed' = IF ~promised /\ RolledBack(db', JournalAtPath') = prev
                  THEN prev ELSE committed
  /\ promised' = TRUE
  /\ UNCHANGED prev

Next ==
  \/ \E c \in Conn :
       \/ SharedLock(c) \/ HotExists(c) \/ HotReserved(c) \/ HotDelete(c) \/ HotRead(c)
       \/ HotExclusive(c) \/ HotOpen(c) \/ HotSync(c) \/ CheckCache(c)
       \/ SharedLockFails(c) \/ Failed(c)
       \/ PlaybackTruncate(c) \/ PlaybackPage(c) \/ PlaybackSync(c)
       \/ FinalizeJournal(c) \/ FinalizeSync(c) \/ EndUnlock(c)
       \/ UnlockIfUnused(c)
       \/ \E exFlag \in BOOLEAN : Begin(c, exFlag)
       \/ BeginExclusive(c) \/ OpenJournal(c) \/ WriteFails(c)
       \/ \E p \in Page : ReadPage(c, p) \/ Evict(c, p) \/ WritePage(c, p) \/ Spill(c, p)
       \/ \E n \in Page : TruncateImage(c, n)
       \/ SyncLock(c) \/ SyncNextHeader(c) \/ SyncRecords(c) \/ SyncHeader(c)
       \/ SyncJournal(c) \/ SyncNewHeader(c) \/ WriteToFile(c) \/ WriteToFileDone(c)
       \/ CommitPhaseOne(c) \/ CommitJournalTail(c) \/ CommitTruncate(c)
       \/ CommitSync(c) \/ CommitPhaseTwo(c) \/ Rollback(c) \/ IoError(c)
  \/ \E c \in Conn : Kill(ProcOf[c])
  \/ PowerLoss

Spec == Init /\ [][Next]_vars

-----------------------------------------------------------------------------
(* Properties *)

\* A reader's cache and file are the committed database, whatever was written,
\* rolled back or lost before: the version check and the hot-journal test of
\* sqlite3PagerSharedLock() let nothing stale through.
ReaderSeesCommitted ==
  \A c \in Conn : eState[c] = READER =>
    /\ db = committed /\ mem[c].dbSize = Len(committed)
    /\ \A p \in DOMAIN mem[c].cache : mem[c].cache[p] = committed[p]

\* A writer sees its own changes on top of what it began with, wherever spilling
\* and eviction have put them.
WriterSeesOwn ==
  \A c \in Conn :
    (eState[c] \in WRITER_LOCKED..WRITER_DBMOD /\ pc[c] \in {"idle", "first_write"}) =>
      /\ mem[c].dbSize = Len(mine[c])
      /\ \A p \in 1..mem[c].dbSize : Content(c, p) = mine[c][p]

\* Invariant (7) of the header comment of pager.c: "if any subset [...] of the
\* unsynced changes to a rollback journal are removed and the journal is rolled
\* back", the result is the database as it was.
AnySubsetRollsBack ==
  \A s \in IF jdir = 0 THEN {<<>>} ELSE JournalSurvivors(jfile[jdir]) :
    LET r == RolledBack(db, s) IN r = committed \/ (~promised /\ r = prev)

\* A journal is rolled back as hot only when nobody is writing: the journal of
\* a live transaction is never mistaken for one left by a crash.
NoLiveRollback ==
  \A c \in Conn : (op[c] = "shared" /\ pc[c] \in PlaybackSteps \cup {"end_journal", "end_sync"}) =>
    \A d \in Conn \ {c} : eState[d] \notin WRITER_LOCKED..WRITER_FINISHED

\* Invariants (1) and (12): a page that existed when the transaction began is
\* overwritten in the file only under an EXCLUSIVE lock and once its content is
\* in the synced journal, under the journal's name.
Overwriteable(p) ==
  LET s    == jfile[jdir].disk
      segs == Segments(s, TRUE, 0)
  IN /\ jdir # 0
     /\ segs # {}
     /\ p > OrigSize(segs) \/ \E o \in Offsets(segs) : s[o + 1].pg = p

OverwriteOnlyJournalled ==
  [][env'.power = env.power =>
       \A p \in 1..Len(db) : (p > Len(db') \/ db'[p] # db[p]) =>
         Overwriteable(p) /\ \E c \in Conn : lock[c] = EXCLUSIVE_LOCK]_vars

\* "Once a journal file has been finalized it is not possible to use it to roll
\* back a transaction": in persist mode, which syncs the zeroed header, no power
\* loss undoes a commit that pager_end_transaction() has finished.
PersistCommitIsDurable ==
  [][(committed' = prev /\ committed # prev /\ \A c \in Conn : env.mode[c] = "persist") =>
       \E c \in Conn : pc[c] = "end_sync"]_vars

\* sqlite3PagerRollback() restores "all database file and in-memory cache pages
\* to the state they were in when the transaction was opened".
RollbackRestoresCache ==
  [][\A c \in Conn : (op[c] = "rollback" /\ eState'[c] = READER) =>
       \A p \in DOMAIN mem'[c].cache : mem'[c].cache[p] = committed[p]]_vars

-----------------------------------------------------------------------------
(* Refinement of AtomicStore *)

\* The transaction of c is in the file for good, but c has not tidied up yet.
Committed(c) == eState[c] = WRITER_FINISHED /\ mine[c] = committed

NoView == <<Junk, Junk>>               \* no database

\* At rest a connection sees what it would read; while it journals, writes or
\* restores pages it sees nothing but what it intends.
ViewOf(c) ==
  IF eState[c] \notin READER..WRITER_FINISHED THEN NoView
  ELSE IF pc[c] \in {"idle", "first_write"} THEN [p \in 1..mem[c].dbSize |-> Content(c, p)]
  ELSE IF eState[c] = READER THEN committed
  ELSE mine[c]

A == INSTANCE AtomicStore WITH
       None   <- NoView,
       store  <- committed,
       undo   <- IF promised THEN committed ELSE prev,
       view   <- [c \in Conn |-> ViewOf(c)],
       writer <- {c \in Conn : /\ eState[c] \in WRITER_LOCKED..WRITER_FINISHED
                               /\ ~Committed(c)}

\* Whatever interleaving, failure and recovery, the connections see one database
\* that transactions replace as a whole, one at a time.
RefinesAtomicStore == A!Spec
=============================================================================
