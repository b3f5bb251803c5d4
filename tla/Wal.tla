-------------------------------- MODULE Wal --------------------------------
(***************************************************************************)
(* wal.c: several connections share a database file, a write-ahead log and *)
(* the wal-index in shared memory.                                         *)
(*                                                                         *)
(* A step is one access to shared memory that others can see, one request  *)
(* for locks, or one write, truncation or sync of a file.  Steps are       *)
(* merged where a lock keeps everybody else from telling the difference.   *)
(*                                                                         *)
(* The content of a page is a number that no other write of a page uses.   *)
(* The running checksum of the log is then the last frame it covers, and   *)
(* a salt is a number that no other log header has.                        *)
(***************************************************************************)
EXTENDS Integers, Sequences, FiniteSets, FiniteSetsExt, SequencesExt

CONSTANTS
  Conn, None,
  NReader,       \* WAL_NREADER
  MaxFrame,      \* bound: frames of the log
  Setups         \* the configurations to consider, see Setup

\* A configuration: who reads, writes and runs checkpoints (each connection in a
\* process of its own); synchronous=FULL; whether the log may be restarted while a
\* checkpointer has read the header but not yet nBackfill, and a process die between
\* the header and nBackfill of a restart (gaps); whether the log has a commit to begin
\* with (warm); the sizes of the database; and how many write transactions, spills,
\* transactions that only read, checkpoints, closes, failing calls, kills and power
\* losses may happen.
Setup ==
  [readers : SUBSET Conn, writers : SUBSET Conn, ckpts : SUBSET Conn,
   full : BOOLEAN, gaps : BOOLEAN, warm : BOOLEAN, sizes : SUBSET (Nat \ {0}),
   tx : Nat, spills : Nat, reads : Nat, runs : Nat, closes : Nat,
   faults : Nat, kills : Nat, power : Nat]

ASSUME WalAssumption ==
  /\ NReader \in Nat /\ NReader >= 3
  /\ MaxFrame \in Nat \ {0}
  /\ None \notin Seq(Int) /\ None \notin Conn
  /\ Setups \subseteq Setup
  /\ \A s \in Setups : s.sizes # {} /\ IsFiniteSet(s.sizes)

VARIABLES
  sharedMask, exclMask,   \* locks on the slots of the shared memory (ShmLock)
  pc, call,               \* next step, and the operation it belongs to
  w,                      \* the Wal object of each connection
  shm,                    \* the wal-index
  wal, walDisk,           \* the log file: as written, and as synced
  db, dbDisk,             \* the database file: as written, and as synced
  seed,                   \* source of salts and of page contents
  cached,                 \* the database that the pager's cache stands for
  mine,                   \* the database that a write transaction intends
  hist, floor, limbo, lossy, \* history, see SnapshotStore
  env                     \* the configuration, with what is left of its bounds

lockVars == <<sharedMask, exclMask>>
files    == <<wal, walDisk, db, dbDisk>>
ghosts   == <<cached, mine, hist, floor, limbo, lossy>>
vars     == <<lockVars, pc, call, w, shm, files, seed, ghosts, env>>

WRITE   == <<"write", 0>>
CKPT    == <<"ckpt", 0>>
RECOVER == <<"recover", 0>>
Readers == 0..(NReader - 1)            \* WAL_READ_LOCK(i)
READ(i) == <<"read", i>>
Slot == {WRITE, CKPT, RECOVER} \cup {READ(i) : i \in Readers}
Marked == {READ(i) : i \in Readers \ {0}}

L == INSTANCE ShmLock

READMARK_NOT_USED == MaxFrame + 1

Page == 1..Max(UNION {s.sizes : s \in Setups})

\* WalIndexHdr; cksum is the running checksum of the log.
ZeroHdr == [isInit |-> FALSE, iChange |-> 0, mxFrame |-> 0, nPage |-> 0,
            cksum |-> <<0, 0>>, salt |-> 0]

ZeroShm == [hdr |-> [i \in {0, 1} |-> ZeroHdr], nBackfill |-> 0,
            aReadMark |-> [i \in Readers |-> 0], aPgno |-> [i \in 1..MaxFrame |-> 0]]

\* The log file: header and frames.
EmptyLog == [salt |-> 0, nCkpt |-> 0, frames |-> <<>>]
Torn     == [pg |-> 0, data |-> 0, nTruncate |-> 0, salt |-> 0, prev |-> <<0, 0>>]

\* The Wal object after sqlite3WalOpen(), and the variables of the call under way.
FreshWal == [hdr |-> ZeroHdr, readLock |-> -1, nCkpt |-> 0, svpt |-> None]
NoCall   == [changed |-> FALSE, h1 |-> ZeroHdr, mxI |-> 0, mxReadMark |-> 0, i |-> 0,
             mxSafeFrame |-> 0, nBackfill |-> 0, todo |-> {}, list |-> <<>>,
             nTruncate |-> 0, iFrame |-> 0, data |-> 0, mode |-> "passive"]

Users(e) == e.readers \cup e.writers \cup e.ckpts

\* The log, the wal-index and the database after one transaction has written page 1.
WarmLog == [salt |-> 2, nCkpt |-> 0,
            frames |-> <<[pg |-> 1, data |-> 1, nTruncate |-> Len(db), salt |-> 2,
                          prev |-> <<0, 2>>]>>]
WarmHdr == [isInit |-> TRUE, iChange |-> 1, mxFrame |-> 1, nPage |-> Len(db),
            cksum |-> <<1, 1>>, salt |-> 2]
WarmShm == [hdr |-> [i \in {0, 1} |-> WarmHdr], nBackfill |-> 0,
            aReadMark |-> [i \in Readers |-> IF i < 2 THEN 0 ELSE READMARK_NOT_USED],
            aPgno |-> [i \in 1..MaxFrame |-> IF i = 1 THEN 1 ELSE 0]]
WarmHist == <<db, [db EXCEPT ![1] = 1]>>

\* The connections are open and have done nothing yet.  The files were closed cleanly
\* before, or another connection has already written and closed.
Init ==
  /\ L!Init
  /\ env \in Setups
  /\ pc = [c \in Conn |-> IF c \in Users(env) THEN "idle" ELSE "closed"]
  /\ call = [c \in Conn |-> NoCall]
  /\ w = [c \in Conn |-> FreshWal]
  /\ db = [p \in 1..Max(env.sizes) |-> 0] /\ dbDisk = db
  /\ wal = IF env.warm THEN WarmLog ELSE EmptyLog
  /\ walDisk = IF env.full THEN wal ELSE [wal EXCEPT !.frames = <<>>]
  /\ shm = IF env.warm THEN WarmShm ELSE ZeroShm
  /\ seed = IF env.warm THEN 3 ELSE 1
  /\ hist = IF env.warm THEN WarmHist ELSE <<db>>
  /\ floor = IF env.full THEN Len(hist) ELSE 1
  /\ cached = [c \in Conn |-> None]
  /\ mine = [c \in Conn |-> None]
  /\ limbo = None /\ lossy = FALSE

-----------------------------------------------------------------------------
(* Helpers *)

Goto(c, step) == pc' = [pc EXCEPT ![c] = step]

\* The call returns: its variables are gone.
Return(c) == /\ Goto(c, "idle")
             /\ call' = [call EXCEPT ![c] = NoCall]

Holds(c, s) == s \in exclMask[c]             \* Wal.writeLock, Wal.ckptLock

Budget(k) == env[k] > 0 /\ env' = [env EXCEPT ![k] = @ - 1]

LastFrame(aPgno, mx, p) ==
  Max({0} \cup {i \in 1..mx : aPgno[i] = p})

\* sqlite3WalRead(), and readDbPage() when the page is not in the log.
ReadPage(obj, p) ==
  LET f == LastFrame(shm.aPgno, obj.hdr.mxFrame, p) IN
  IF obj.readLock = 0 \/ f = 0
  THEN IF p <= Len(db) THEN db[p] ELSE 0
  ELSE wal.frames[f].data

\* sqlite3WalDbsize(), or the size of the file when the log does not know.
DbSize(obj) == IF obj.hdr.nPage # 0 THEN obj.hdr.nPage ELSE Len(db)

\* The database a connection reads.
Through(obj) == [p \in 1..DbSize(obj) |-> ReadPage(obj, p)]

View(c) == Through(w[c])

InRead(c)  == w[c].readLock >= 0 /\ pc[c] = "idle"
InWrite(c) == mine[c] # None

\* walDecodeFrame(): the frames from the start of the log that belong to it.
ValidFrames(log) ==
  LET Ok(i) == /\ log.frames[i].salt = log.salt
               /\ log.frames[i].pg # 0
               /\ log.frames[i].prev = IF i = 1 THEN <<0, log.salt>>
                                       ELSE <<log.frames[i - 1].data, log.frames[i - 1].pg>>
  IN Max({k \in 0..Len(log.frames) : \A i \in 1..k : Ok(i)})

\* The last valid commit frame: what walIndexRecover() takes for mxFrame.
LastCommit(log) ==
  IF log.salt = 0 THEN 0
  ELSE Max({0} \cup {i \in 1..ValidFrames(log) : log.frames[i].nTruncate # 0})

\* The database that a recovery from these two files makes visible.
Recovered(file, log) ==
  LET mx == LastCommit(log)
      aPgno == [i \in 1..mx |-> log.frames[i].pg]
      From(p) == LastFrame(aPgno, mx, p)
  IN [p \in 1..(IF mx = 0 THEN Len(file) ELSE log.frames[mx].nTruncate) |->
        IF From(p) # 0 THEN log.frames[From(p)].data
        ELSE IF p <= Len(file) THEN file[p] ELSE 0]

-----------------------------------------------------------------------------
(* Opening: sqlite3WalOpen(), unixOpenSharedMemory() *)

\* A connection holds SHARED on the database file while it is open, and the last
\* one to close holds EXCLUSIVE.  The first process to map the shared memory
\* empties it.
Open(c) ==
  /\ pc[c] = "closed" /\ c \in Users(env)
  /\ \A d \in Conn : call[d].mode # "close"
  /\ Goto(c, "idle")
  /\ w' = [w EXCEPT ![c] = FreshWal]
  /\ shm' = IF \A d \in Conn : pc[d] = "closed" THEN ZeroShm ELSE shm
  /\ UNCHANGED <<lockVars, call, files, seed, ghosts, env>>

-----------------------------------------------------------------------------
(* The header: walIndexReadHdr(), walIndexRecover() *)

\* sqlite3WalBeginReadTransaction()
BeginRead(c) ==
  /\ pc[c] = "idle"
  /\ c \in env.readers \cup env.writers
  /\ w[c].readLock < 0
  /\ IF c \in env.writers THEN UNCHANGED env ELSE Budget("reads")
  /\ Goto(c, "hdr0")
  /\ call' = [call EXCEPT ![c] = [NoCall EXCEPT !.mode = "read"]]
  /\ UNCHANGED <<lockVars, w, shm, files, seed, ghosts>>

\* walIndexTryHdr() reads copy 0, then copy 1.
ReadHdr0(c) ==
  /\ pc[c] = "hdr0"
  /\ Goto(c, "hdr1")
  /\ call' = [call EXCEPT ![c].h1 = shm.hdr[0]]
  /\ UNCHANGED <<lockVars, w, shm, files, seed, ghosts, env>>

\* A header was read: it is the connection's from now on.
Adopt(c, h) ==
  /\ w' = [w EXCEPT ![c].hdr = h]
  /\ call' = [call EXCEPT ![c].changed = @ \/ w[c].hdr # h]

AfterHdr(c) == IF call[c].mode = "read" THEN "nbackfill" ELSE "ckstart"

GoodHdr == shm.hdr[0] = shm.hdr[1] /\ shm.hdr[0].isInit

ReadHdr1(c) ==
  /\ pc[c] = "hdr1"
  /\ IF call[c].h1 = shm.hdr[1] /\ call[c].h1.isInit
     THEN Adopt(c, call[c].h1) /\ Goto(c, AfterHdr(c))
     ELSE Goto(c, "hdrlock") /\ UNCHANGED <<w, call>>
  /\ UNCHANGED <<lockVars, shm, files, seed, ghosts, env>>

\* SQLITE_BUSY from walIndexReadHdr(): a reader tries again unless a recovery is
\* seen to run, when its call fails; a checkpoint fails.
HdrBusy(c) ==
  IF call[c].mode # "read"
  THEN Goto(c, "ckend") /\ UNCHANGED <<call, cached>>
  ELSE IF L!CanShare(c, RECOVER)
  THEN Goto(c, "hdr0") /\ UNCHANGED <<call, cached>>
  ELSE Return(c) /\ cached' = [cached EXCEPT ![c] = None]

\* The write lock, to read the header where no writer can be at work.  A checkpoint
\* that holds it already is refused by its own lock.
LockHdr(c) ==
  /\ pc[c] = "hdrlock"
  /\ \/ L!LockExclusive(c, {WRITE}) /\ Goto(c, "hdragain") /\ UNCHANGED <<call, cached>>
     \/ ~L!CanExclude(c, {WRITE}) /\ HdrBusy(c) /\ UNCHANGED lockVars
  /\ UNCHANGED <<w, shm, files, seed, mine, hist, floor, limbo, lossy, env>>

RecoveryLocks(c) == Slot \ ({WRITE} \cup exclMask[c])

\* The second attempt; a header that is still bad is rebuilt under all the locks.
ReadHdrAgain(c) ==
  /\ pc[c] = "hdragain"
  /\ \/ /\ GoodHdr
        /\ Adopt(c, shm.hdr[0])
        /\ L!Unlock(c, {WRITE})
        /\ Goto(c, AfterHdr(c))
        /\ UNCHANGED cached
     \/ /\ ~GoodHdr
        /\ L!LockExclusive(c, RecoveryLocks(c))
        /\ call' = [call EXCEPT ![c].changed = TRUE]
        /\ Goto(c, "recover")
        /\ UNCHANGED <<w, cached>>
     \/ /\ ~GoodHdr
        /\ ~L!CanExclude(c, RecoveryLocks(c))
        /\ L!Unlock(c, {WRITE})
        /\ HdrBusy(c)
        /\ UNCHANGED w
  /\ UNCHANGED <<shm, files, seed, mine, hist, floor, limbo, lossy, env>>

\* walIndexRecover(): the log is read into the index; walIndexWriteHdr() writes
\* copy 1 and then copy 0.
Recover(c) ==
  LET mx == LastCommit(wal)
      n  == IF wal.salt = 0 THEN 0 ELSE ValidFrames(wal)
      h  == [isInit |-> TRUE, iChange |-> 0, mxFrame |-> mx,
             nPage |-> IF mx = 0 THEN 0 ELSE wal.frames[mx].nTruncate,
             cksum |-> IF mx = 0 THEN <<0, 0>> ELSE <<wal.frames[mx].data, wal.frames[mx].pg>>,
             salt |-> IF wal.frames = <<>> THEN 0 ELSE wal.salt]
  IN /\ pc[c] = "recover"
     /\ w' = [w EXCEPT ![c].hdr = h, ![c].nCkpt = IF wal.frames = <<>> THEN @ ELSE wal.nCkpt]
     /\ shm' = [shm EXCEPT !.hdr[1] = h,
                  !.aPgno = [i \in 1..MaxFrame |->
                               IF i <= n THEN wal.frames[i].pg
                               ELSE IF n > 0 THEN 0 ELSE @[i]]]
     /\ Goto(c, "recover0")
     /\ UNCHANGED <<lockVars, call, files, seed, ghosts, env>>

\* With copy 0 the recovered database is the current one.
RecoverHdr0(c) ==
  LET d == Recovered(db, wal)
      K == {k \in (IF lossy THEN floor ELSE Len(hist))..Len(hist) : hist[k] = d}
  IN /\ pc[c] = "recover0"
     /\ shm' = [shm EXCEPT !.hdr[0] = w[c].hdr]
     /\ hist' = IF K # {} THEN SubSeq(hist, 1, Max(K)) ELSE Append(hist, d)
     /\ limbo' = None
     /\ lossy' = FALSE
     /\ Goto(c, "recoverinfo")
     /\ UNCHANGED <<lockVars, call, w, files, seed, cached, mine, floor, env>>

RecoverInfo(c) ==
  /\ pc[c] = "recoverinfo"
  /\ shm' = [shm EXCEPT !.nBackfill = 0,
               !.aReadMark = [i \in Readers |->
                  IF i = 0 THEN 0
                  ELSE IF i = 1 /\ w[c].hdr.mxFrame > 0 THEN w[c].hdr.mxFrame
                  ELSE READMARK_NOT_USED]]
  /\ L!Unlock(c, Slot \ (IF call[c].mode = "read" THEN {} ELSE {CKPT}))
  /\ Goto(c, AfterHdr(c))
  /\ UNCHANGED <<call, w, files, seed, ghosts, env>>

-----------------------------------------------------------------------------
(* Choosing a read mark: walTryBeginRead() *)

\* A log that is wholly in the database file is ignored.
CheckBackfill(c) ==
  /\ pc[c] = "nbackfill"
  /\ Goto(c, IF shm.nBackfill = w[c].hdr.mxFrame THEN "lock0" ELSE "marks")
  /\ UNCHANGED <<lockVars, call, w, shm, files, seed, ghosts, env>>

\* The header is compared after the lock; it never takes an old value again, so
\* that the comparison may as well be made at the moment of the lock.
StillCurrent(c) == shm.hdr[0] = w[c].hdr

\* WAL_RETRY: from the header or, when the caller has the write lock, from the marks.
Retry(c) == Goto(c, IF call[c].mode = "read" THEN "hdr0" ELSE "marks")

\* The read transaction is open.  The pager empties its cache if the header changed, as
\* it does when the call fails (HdrBusy); an empty cache is filled from the log.
ReadBegun(c, i) ==
  /\ L!LockShared(c, READ(i))
  /\ w' = [w EXCEPT ![c].readLock = i]
  /\ IF call[c].mode = "read"
     THEN /\ Return(c)
          /\ cached' = IF call[c].changed \/ cached[c] = None
                       THEN [cached EXCEPT ![c] = Through([w[c] EXCEPT !.readLock = i])]
                       ELSE cached
     ELSE Goto(c, "walhdr") /\ UNCHANGED <<call, cached>>

Lock0(c) ==
  /\ pc[c] = "lock0"
  /\ \/ StillCurrent(c) /\ ReadBegun(c, 0)
     \/ L!CanShare(c, READ(0)) /\ ~StillCurrent(c) /\ Retry(c)
        /\ UNCHANGED <<lockVars, call, w, cached>>
     \/ ~L!CanShare(c, READ(0)) /\ Goto(c, "marks")
        /\ UNCHANGED <<lockVars, call, w, cached>>
  /\ UNCHANGED <<shm, files, seed, mine, hist, floor, limbo, lossy, env>>

\* The largest mark that does not exceed mxFrame, the last one of equal ones.
ChooseMark(c) ==
  LET mx == w[c].hdr.mxFrame
      Usable == {i \in Readers \ {0} : shm.aReadMark[i] <= mx}
      best == IF Usable = {} THEN 0 ELSE Max({shm.aReadMark[i] : i \in Usable})
      mxI == Max({0} \cup {i \in Usable : shm.aReadMark[i] = best})
  IN /\ pc[c] = "marks"
     /\ call' = [call EXCEPT ![c].mxReadMark = best, ![c].mxI = mxI, ![c].i = 1]
     /\ Goto(c, IF best < mx \/ mxI = 0 THEN "grab" ELSE "lockmark")
     /\ UNCHANGED <<lockVars, w, shm, files, seed, ghosts, env>>

\* The first mark that can be locked is moved to mxFrame.
GrabMark(c) ==
  LET i == call[c].i IN
  /\ pc[c] = "grab"
  /\ \/ /\ i < NReader
        /\ L!LockExclusive(c, {READ(i)})
        /\ Goto(c, "putmark")
        /\ UNCHANGED call
     \/ /\ i < NReader
        /\ ~L!CanExclude(c, {READ(i)})
        /\ call' = [call EXCEPT ![c].i = i + 1]
        /\ UNCHANGED <<lockVars, pc>>
     \/ /\ i = NReader
        /\ IF call[c].mxI = 0 THEN Retry(c) ELSE Goto(c, "lockmark")
        /\ UNCHANGED <<lockVars, call>>
  /\ UNCHANGED <<w, shm, files, seed, ghosts, env>>

PutMark(c) ==
  LET i == call[c].i IN
  /\ pc[c] = "putmark"
  /\ shm' = [shm EXCEPT !.aReadMark[i] = w[c].hdr.mxFrame]
  /\ call' = [call EXCEPT ![c].mxI = i, ![c].mxReadMark = w[c].hdr.mxFrame]
  /\ L!Unlock(c, {READ(i)})
  /\ Goto(c, "lockmark")
  /\ UNCHANGED <<w, files, seed, ghosts, env>>

\* Mark and header must be what they were.
MarkHolds(c) == /\ shm.aReadMark[call[c].mxI] = call[c].mxReadMark
                /\ StillCurrent(c)

LockMark(c) ==
  LET i == call[c].mxI IN
  /\ pc[c] = "lockmark"
  /\ \/ MarkHolds(c) /\ ReadBegun(c, i)
     \/ /\ ~(L!CanShare(c, READ(i)) /\ MarkHolds(c))
        /\ Retry(c)
        /\ UNCHANGED <<lockVars, call, w, cached>>
  /\ UNCHANGED <<shm, files, seed, mine, hist, floor, limbo, lossy, env>>

\* sqlite3WalEndReadTransaction()
EndRead(c) ==
  /\ InRead(c) /\ ~InWrite(c)
  /\ L!Unlock(c, {READ(w[c].readLock)})
  /\ w' = [w EXCEPT ![c].readLock = -1]
  /\ UNCHANGED <<pc, call, shm, files, seed, ghosts, env>>

-----------------------------------------------------------------------------
(* Write transactions *)

\* sqlite3WalBeginWriteTransaction(): not on an old snapshot.
BeginWrite(c) ==
  /\ InRead(c) /\ ~InWrite(c)
  /\ c \in env.writers
  /\ Budget("tx")
  /\ StillCurrent(c)
  /\ L!LockExclusive(c, {WRITE})
  /\ mine' = [mine EXCEPT ![c] = View(c)]
  /\ UNCHANGED <<pc, call, w, shm, files, seed, cached, hist, floor, limbo, lossy>>

\* sqlite3WalSavepoint()
Savepoint(c) ==
  /\ InWrite(c) /\ pc[c] = "idle"
  /\ w[c].svpt = None
  /\ env.spills > 0
  /\ w' = [w EXCEPT ![c].svpt = [mxFrame |-> w[c].hdr.mxFrame, cksum |-> w[c].hdr.cksum,
                                 nCkpt |-> w[c].nCkpt, mine |-> mine[c]]]
  /\ UNCHANGED <<lockVars, pc, call, shm, files, seed, ghosts, env>>

\* walCleanupHash(): a log of no frames needs no cleaning.
CleanUp(aPgno, mx) ==
  [i \in 1..MaxFrame |-> IF mx > 0 /\ i > mx THEN 0 ELSE aPgno[i]]

\* sqlite3WalSavepointUndo(); the pager restores its pages (mine).
SavepointUndo(c) ==
  LET s == w[c].svpt
      to == IF s.nCkpt # w[c].nCkpt THEN 0 ELSE s.mxFrame
  IN /\ InWrite(c) /\ pc[c] = "idle"
     /\ s # None
     /\ IF to < w[c].hdr.mxFrame
        THEN /\ w' = [w EXCEPT ![c].hdr.mxFrame = to, ![c].hdr.cksum = s.cksum,
                               ![c].svpt = None]
             /\ shm' = [shm EXCEPT !.aPgno = CleanUp(@, to)]
        ELSE w' = [w EXCEPT ![c].svpt = None] /\ UNCHANGED shm
     /\ mine' = [mine EXCEPT ![c] = s.mine]
     /\ UNCHANGED <<lockVars, pc, call, files, seed, cached, hist, floor, limbo, lossy, env>>

\* sqlite3WalFrames() with the pages of list; nTruncate is the new size of the
\* database if this commits.
StartFrames(c, list, n, intent) ==
  /\ pc[c] = "idle"
  /\ w[c].hdr.mxFrame + Len(list) <= MaxFrame
  /\ call' = [call EXCEPT ![c] = [NoCall EXCEPT !.list = list, !.nTruncate = n,
                                                !.data = seed, !.mode = "write"]]
  /\ seed' = seed + 1
  /\ mine' = [mine EXCEPT ![c] = intent]
  /\ Goto(c, "restart")
  /\ UNCHANGED <<lockVars, w, shm, files, cached, hist, floor, limbo, lossy>>

\* The database of n pages in which the pages of W have new content.
Changed(d, W, n, data) ==
  [p \in 1..n |-> IF p \in W THEN data ELSE IF p <= Len(d) THEN d[p] ELSE 0]

\* pagerStress(): one page that is not page 1, no commit.  Pages that the transaction
\* adds are spilled in their order.
Spill(c) ==
  InWrite(c) /\ \E p \in Page \ {1} :
    /\ p <= Len(mine[c]) + 1
    /\ Budget("spills")
    /\ StartFrames(c, <<p>>, 0, Changed(mine[c], {p}, Max({p, Len(mine[c])}), seed))

\* Page 1 and other pages of a database of n pages, in order.
PageLists(n) ==
  {q \in UNION {[1..k -> 1..n] : k \in 1..n} :
     q[1] = 1 /\ \A i, j \in DOMAIN q : i < j => q[i] < q[j]}

\* pagerWalFrames(): the dirty pages in order, none beyond the new end.  A commit
\* changes page 1, where the size of the database is.
Commit(c) ==
  InWrite(c) /\ \E n \in env.sizes : \E list \in PageLists(n) :
    /\ (Len(mine[c]) + 1)..n \subseteq Range(list)
    /\ StartFrames(c, list, n, Changed(mine[c], Range(list), n, seed))
    /\ UNCHANGED env

\* walRestartLog(): a writer that ignores the log restarts it, if nobody reads it.
RestartLog(c) ==
  /\ pc[c] = "restart"
  /\ \/ /\ w[c].readLock # 0
        /\ Goto(c, "walhdr")
        /\ UNCHANGED <<lockVars, w, seed>>
     \/ /\ w[c].readLock = 0
        /\ shm.nBackfill > 0
        /\ L!LockExclusive(c, Marked)
        /\ w' = [w EXCEPT ![c].nCkpt = @ + 1, ![c].hdr.mxFrame = 0, ![c].hdr.salt = seed]
        /\ seed' = seed + 1
        /\ Goto(c, "restart1")
     \/ /\ w[c].readLock = 0
        /\ shm.nBackfill = 0 \/ ~L!CanExclude(c, Marked)
        /\ L!Unlock(c, {READ(0)})
        /\ w' = [w EXCEPT ![c].readLock = -1]
        /\ Goto(c, "marks")
        /\ UNCHANGED seed
  /\ UNCHANGED <<call, shm, files, ghosts, env>>

RestartHdr1(c) ==
  /\ pc[c] = "restart1"
  /\ shm' = [shm EXCEPT !.hdr[1] = w[c].hdr]
  /\ Goto(c, "restart0")
  /\ UNCHANGED <<lockVars, call, w, files, seed, ghosts, env>>

RestartHdr0(c) ==
  /\ pc[c] = "restart0"
  /\ shm' = [shm EXCEPT !.hdr[0] = w[c].hdr]
  /\ Goto(c, "restartinfo")
  /\ UNCHANGED <<lockVars, call, w, files, seed, ghosts, env>>

\* Without gaps, not while a checkpointer is about to read nBackfill.
RestartInfo(c) ==
  /\ pc[c] = "restartinfo"
  /\ env.gaps \/ \A d \in Conn : pc[d] # "ckstart"
  /\ shm' = [shm EXCEPT !.nBackfill = 0,
               !.aReadMark = [i \in Readers |-> IF i <= 1 THEN 0 ELSE READMARK_NOT_USED]]
  /\ L!Unlock(c, Marked \cup {READ(0)})
  /\ w' = [w EXCEPT ![c].readLock = -1]
  /\ Goto(c, "marks")
  /\ UNCHANGED <<call, files, seed, ghosts, env>>

\* The header of a log that starts anew; a connection that has never counted a
\* checkpoint draws its own salt.
WriteWalHdr(c) ==
  LET salt == IF w[c].nCkpt = 0 THEN seed ELSE w[c].hdr.salt IN
  /\ pc[c] = "walhdr"
  /\ call' = [call EXCEPT ![c].iFrame = w[c].hdr.mxFrame]
  /\ IF w[c].hdr.mxFrame > 0
     THEN Goto(c, "frame") /\ UNCHANGED <<w, wal, seed>>
     ELSE /\ w' = [w EXCEPT ![c].hdr.salt = salt, ![c].hdr.cksum = <<0, salt>>]
          /\ seed' = IF w[c].nCkpt = 0 THEN seed + 1 ELSE seed
          /\ wal' = [wal EXCEPT !.salt = salt, !.nCkpt = w[c].nCkpt]
          /\ Goto(c, "walhdrsync")
  /\ UNCHANGED <<lockVars, shm, walDisk, db, dbDisk, ghosts, env>>

SyncWalHdr(c) ==
  /\ pc[c] = "walhdrsync"
  /\ walDisk' = wal
  /\ Goto(c, "frame")
  /\ UNCHANGED <<lockVars, call, w, shm, wal, db, dbDisk, seed, ghosts, env>>

PutFrame(frames, i, f) ==
  [k \in 1..Max({i, Len(frames)}) |-> IF k = i THEN f ELSE frames[k]]

\* walWriteOneFrame(), for each page; the last one of a commit carries nTruncate.
\* An earlier commit that was cut off cannot be recovered any more.
WriteFrame(c) ==
  LET k == call[c].iFrame - w[c].hdr.mxFrame + 1
      last == k = Len(call[c].list)
      pg == call[c].list[k]
      f == [pg |-> pg, data |-> call[c].data,
            nTruncate |-> IF last THEN call[c].nTruncate ELSE 0,
            salt |-> w[c].hdr.salt, prev |-> w[c].hdr.cksum]
  IN /\ pc[c] = "frame"
     /\ wal' = [wal EXCEPT !.frames = PutFrame(@, call[c].iFrame + 1, f)]
     /\ w' = [w EXCEPT ![c].hdr.cksum = <<call[c].data, pg>>]
     /\ call' = [call EXCEPT ![c].iFrame = @ + 1]
     /\ limbo' = None
     /\ Goto(c, IF ~last THEN "frame"
                ELSE IF call[c].nTruncate # 0 /\ env.full THEN "framesync" ELSE "index")
     /\ UNCHANGED <<lockVars, shm, walDisk, db, dbDisk, seed, cached, mine, hist, floor,
                    lossy, env>>

SyncFrames(c) ==
  /\ pc[c] = "framesync"
  /\ walDisk' = wal
  /\ Goto(c, "index")
  /\ UNCHANGED <<lockVars, call, w, shm, wal, db, dbDisk, seed, ghosts, env>>

\* walIndexAppend() for the new frames, which nobody looks at yet; then copy 1 of
\* the header, if this commits.
AppendIndex(c) ==
  LET mx == w[c].hdr.mxFrame
      n  == call[c].iFrame
      commit == call[c].nTruncate # 0
      h  == [w[c].hdr EXCEPT !.isInit = @ \/ commit, !.mxFrame = n,
                             !.iChange = IF commit THEN @ + 1 ELSE @,
                             !.nPage = IF commit THEN call[c].nTruncate ELSE @]
  IN /\ pc[c] = "index"
     /\ w' = [w EXCEPT ![c].hdr = h]
     /\ shm' = [shm EXCEPT !.aPgno = [i \in 1..MaxFrame |->
                                        IF mx < i /\ i <= n THEN call[c].list[i - mx]
                                        ELSE IF i > n THEN 0 ELSE @[i]],
                           !.hdr[1] = IF commit THEN h ELSE @]
     /\ IF commit THEN Goto(c, "commit0") /\ UNCHANGED call ELSE Return(c)
     /\ UNCHANGED <<lockVars, files, seed, ghosts, env>>

\* Copy 0: the commit is visible.  The write transaction ends.
CommitHdr0(c) ==
  /\ pc[c] = "commit0"
  /\ shm' = [shm EXCEPT !.hdr[0] = w[c].hdr]
  /\ hist' = Append(hist, mine[c])
  /\ floor' = IF env.full THEN Len(hist) + 1 ELSE floor
  /\ cached' = [cached EXCEPT ![c] = mine[c]]
  /\ mine' = [mine EXCEPT ![c] = None]
  /\ w' = [w EXCEPT ![c].svpt = None]
  /\ L!Unlock(c, {WRITE})
  /\ Return(c)
  /\ UNCHANGED <<files, seed, limbo, lossy, env>>

CommitFrameWritten(c) ==
  pc[c] \in {"framesync", "index", "commit0"} /\ call[c].nTruncate # 0

\* A write or a sync fails; what was written stays where it is.
FramesFail(c) ==
  /\ pc[c] \in {"walhdr", "walhdrsync", "frame", "framesync"}
  /\ pc[c] = "walhdr" => w[c].hdr.mxFrame = 0
  /\ Budget("faults")
  /\ limbo' = IF CommitFrameWritten(c) THEN mine[c] ELSE limbo
  /\ Goto(c, "failed")
  /\ UNCHANGED <<lockVars, call, w, shm, files, seed, cached, mine, hist, floor, lossy>>

\* pagerRollbackWal(), sqlite3WalUndo(): the header as the others see it; pages that
\* were spilled or changed leave the cache.
Rollback(c) ==
  /\ InWrite(c) /\ pc[c] \in {"idle", "failed"}
  /\ w' = [w EXCEPT ![c].hdr = shm.hdr[0], ![c].svpt = None]
  /\ shm' = [shm EXCEPT !.aPgno = CleanUp(@, shm.hdr[0].mxFrame)]
  /\ mine' = [mine EXCEPT ![c] = None]
  /\ L!Unlock(c, {WRITE})
  /\ Return(c)
  /\ UNCHANGED <<files, seed, cached, hist, floor, limbo, lossy, env>>

-----------------------------------------------------------------------------
(* Checkpoints: sqlite3WalCheckpoint(), walCheckpoint() *)

\* A checkpoint that waits for the others ("full") also takes the write lock, and
\* goes on without ("passive") if it is taken.
Checkpoint(c) ==
  /\ pc[c] = "idle"
  /\ c \in env.ckpts
  /\ w[c].readLock < 0 /\ ~InWrite(c)
  /\ Budget("runs")
  /\ \/ /\ L!LockExclusive(c, {CKPT})
        /\ call' = [call EXCEPT ![c] = [NoCall EXCEPT !.mode = "passive"]]
     \/ /\ L!LockExclusive(c, {CKPT, WRITE})
        /\ call' = [call EXCEPT ![c] = [NoCall EXCEPT !.mode = "full"]]
  /\ Goto(c, "hdr0")
  /\ UNCHANGED <<w, shm, files, seed, ghosts>>

\* nBackfill is compared with the header read before; walIteratorInit().
CkStart(c) ==
  LET mx == w[c].hdr.mxFrame IN
  /\ pc[c] = "ckstart"
  /\ IF shm.nBackfill >= mx
     THEN Goto(c, "ckend") /\ UNCHANGED call
     ELSE /\ call' = [call EXCEPT ![c].mxSafeFrame = mx, ![c].i = 1,
                ![c].todo = {<<shm.aPgno[k], k>> : k \in
                               {f \in 1..mx : f = LastFrame(shm.aPgno, mx, shm.aPgno[f])}}]
          /\ Goto(c, "ckmark")
  /\ UNCHANGED <<lockVars, w, shm, files, seed, ghosts, env>>

\* Mutant: a mark that is in use does not limit the checkpoint.
CkMarkCareless(c) ==
  /\ pc[c] = "ckmark"
  /\ IF call[c].i < NReader
     THEN call' = [call EXCEPT ![c].i = @ + 1] /\ UNCHANGED pc
     ELSE Goto(c, "cklock0") /\ UNCHANGED call
  /\ UNCHANGED <<lockVars, w, shm, files, seed, ghosts, env>>

\* Each read mark: one that a reader holds limits the checkpoint.
CkMark(c) ==
  LET i == call[c].i
      y == shm.aReadMark[i]
  IN /\ pc[c] = "ckmark"
     /\ \/ /\ i < NReader /\ call[c].mxSafeFrame > y
           /\ L!LockExclusive(c, {READ(i)})
           /\ Goto(c, "ckput")
           /\ UNCHANGED call
        \/ /\ i < NReader
           /\ call[c].mxSafeFrame > y => ~L!CanExclude(c, {READ(i)})
           /\ call' = [call EXCEPT ![c].i = i + 1,
                                   ![c].mxSafeFrame = Min({@, y})]
           /\ UNCHANGED <<lockVars, pc>>
        \/ /\ i = NReader
           /\ Goto(c, "cklock0")
           /\ UNCHANGED <<lockVars, call>>
     /\ UNCHANGED <<w, shm, files, seed, ghosts, env>>

CkPut(c) ==
  LET i == call[c].i IN
  /\ pc[c] = "ckput"
  /\ shm' = [shm EXCEPT !.aReadMark[i] = IF i = 1 THEN call[c].mxSafeFrame
                                         ELSE READMARK_NOT_USED]
  /\ L!Unlock(c, {READ(i)})
  /\ call' = [call EXCEPT ![c].i = i + 1]
  /\ Goto(c, "ckmark")
  /\ UNCHANGED <<w, files, seed, ghosts, env>>

\* Nobody may read the database file alone while it changes.
CkLock0(c) ==
  /\ pc[c] = "cklock0"
  /\ \/ /\ shm.nBackfill < call[c].mxSafeFrame
        /\ L!LockExclusive(c, {READ(0)})
        /\ call' = [call EXCEPT ![c].nBackfill = shm.nBackfill]
        /\ Goto(c, "cksync")
     \/ /\ shm.nBackfill >= call[c].mxSafeFrame \/ ~L!CanExclude(c, {READ(0)})
        /\ Goto(c, "ckend")
        /\ UNCHANGED <<lockVars, call>>
  /\ UNCHANGED <<w, shm, files, seed, ghosts, env>>

\* The log is synced before the database is written: all commits are durable.
CkSync(c) ==
  /\ pc[c] = "cksync"
  /\ walDisk' = wal
  /\ floor' = Len(hist)
  /\ Goto(c, "ckpage")
  /\ UNCHANGED <<lockVars, call, w, shm, wal, db, dbDisk, seed, cached, mine, hist, limbo,
                 lossy, env>>

\* Mutant: the last safe frame is left out.
BackfillsShort(c) ==
  {t \in call[c].todo : /\ call[c].nBackfill < t[2] /\ t[2] < call[c].mxSafeFrame
                        /\ t[1] <= w[c].hdr.nPage}

Backfills(c) ==
  {t \in call[c].todo : /\ call[c].nBackfill < t[2] /\ t[2] <= call[c].mxSafeFrame
                        /\ t[1] <= w[c].hdr.nPage}

Resize(file, n) == [p \in 1..n |-> IF p <= Len(file) THEN file[p] ELSE 0]

\* The last frame of each page, in the order of pages.
CkPage(c) ==
  LET T == Backfills(c) IN
  /\ pc[c] = "ckpage"
  /\ \/ T = {} /\ Goto(c, "cktrunc") /\ UNCHANGED <<call, db>>
     \/ \E t \in T :
          /\ \A z \in T : t[1] <= z[1]
          /\ db' = [Resize(db, Max({t[1], Len(db)})) EXCEPT ![t[1]] = wal.frames[t[2]].data]
          /\ call' = [call EXCEPT ![c].todo = @ \ {t}]
          /\ UNCHANGED pc
  /\ UNCHANGED <<lockVars, w, shm, wal, walDisk, dbDisk, seed, ghosts, env>>

\* Only a file that has all of the log is cut to size and synced.
CkTrunc(c) ==
  /\ pc[c] = "cktrunc"
  /\ IF call[c].mxSafeFrame = shm.hdr[0].mxFrame
     THEN db' = Resize(db, w[c].hdr.nPage) /\ Goto(c, "ckdbsync")
     ELSE Goto(c, "ckdone") /\ UNCHANGED db
  /\ UNCHANGED <<lockVars, call, w, shm, wal, walDisk, dbDisk, seed, ghosts, env>>

CkDbSync(c) ==
  /\ pc[c] = "ckdbsync"
  /\ dbDisk' = db
  /\ Goto(c, "ckdone")
  /\ UNCHANGED <<lockVars, call, w, shm, wal, walDisk, db, seed, ghosts, env>>

CkDone(c) ==
  /\ pc[c] = "ckdone"
  /\ shm' = [shm EXCEPT !.nBackfill = call[c].mxSafeFrame]
  /\ L!Unlock(c, {READ(0)})
  /\ Goto(c, "ckend")
  /\ UNCHANGED <<call, w, files, seed, ghosts, env>>

\* Mutant: the new header is kept although the cache is old.
CkEndKeepsHdr(c) ==
  /\ pc[c] = "ckend"
  /\ call[c].mode # "close"
  /\ L!Unlock(c, {WRITE, CKPT})
  /\ Return(c)
  /\ UNCHANGED <<w, shm, files, seed, ghosts, env>>

\* A header that the cache does not know of is forgotten.
CkEnd(c) ==
  /\ pc[c] = "ckend"
  /\ call[c].mode # "close"
  /\ w' = IF call[c].changed THEN [w EXCEPT ![c].hdr = ZeroHdr] ELSE w
  /\ L!Unlock(c, {WRITE, CKPT})
  /\ Return(c)
  /\ UNCHANGED <<shm, files, seed, ghosts, env>>

\* A write, a truncation or a sync fails.
CkFails(c) ==
  /\ pc[c] \in {"cksync", "ckpage", "cktrunc", "ckdbsync"}
  /\ Budget("faults")
  /\ L!Unlock(c, {READ(0)})
  /\ call' = [call EXCEPT ![c].mode = IF @ = "close" THEN "passive" ELSE @]
  /\ Goto(c, IF call[c].mode = "close" THEN "closing" ELSE "ckend")
  /\ UNCHANGED <<w, shm, files, seed, ghosts>>

-----------------------------------------------------------------------------
(* Closing: sqlite3WalClose() *)

Gone(c) == /\ Goto(c, "closed")
           /\ call' = [call EXCEPT ![c] = NoCall]
           /\ w' = [w EXCEPT ![c] = FreshWal]
           /\ cached' = [cached EXCEPT ![c] = None]
           /\ mine' = [mine EXCEPT ![c] = None]

\* The last connection runs a checkpoint, with the database file locked.
Close(c) ==
  /\ pc[c] = "idle"
  /\ w[c].readLock < 0 /\ ~InWrite(c)
  /\ Budget("closes")
  /\ IF \E d \in Conn \ {c} : pc[d] # "closed"
     THEN Gone(c) /\ L!Drop({c})
     ELSE /\ L!LockExclusive(c, {CKPT})
          /\ call' = [call EXCEPT ![c] = [NoCall EXCEPT !.mode = "close"]]
          /\ Goto(c, "hdr0")
          /\ UNCHANGED <<w, cached, mine>>
  /\ UNCHANGED <<shm, files, seed, hist, floor, limbo, lossy>>

\* The log is deleted, unless the checkpoint failed.
FinishClose(c) ==
  /\ \/ pc[c] = "ckend" /\ call[c].mode = "close" /\ wal' = EmptyLog /\ walDisk' = EmptyLog
     \/ pc[c] = "closing" /\ UNCHANGED <<wal, walDisk>>
  /\ Gone(c)
  /\ L!Drop({c})
  /\ UNCHANGED <<shm, db, dbDisk, seed, hist, floor, limbo, lossy, env>>

-----------------------------------------------------------------------------
(* Failures *)

\* A process dies.  The system drops its locks; shared memory and files stay.
Kill(c) ==
  /\ pc[c] # "closed"
  /\ Budget("kills")
  /\ env.gaps \/ pc[c] # "restartinfo"
  /\ limbo' = IF CommitFrameWritten(c) THEN mine[c] ELSE limbo
  /\ Gone(c)
  /\ L!Drop({c})
  /\ UNCHANGED <<shm, files, seed, hist, floor, lossy>>

\* What is not synced is old, new or garbage; the size of a file old or new.
Remains(old, new, bad) ==
  LET n == Max({Len(old), Len(new)})
      At(s, i) == IF i <= Len(s) THEN s[i] ELSE bad
  IN {SubSeq(f, 1, m) : m \in {Len(old), Len(new)},
        f \in {g \in [1..n -> {At(old, i) : i \in 1..n} \cup {At(new, i) : i \in 1..n} \cup {bad}] :
               \A i \in 1..n : g[i] \in IF At(old, i) = At(new, i) THEN {At(old, i)}
                                        ELSE {At(old, i), At(new, i), bad}}}

PowerLoss ==
  /\ Budget("power")
  /\ \E c \in Conn : pc[c] # "closed"
  /\ L!Drop(Conn)
  /\ pc' = [c \in Conn |-> "closed"]
  /\ call' = [c \in Conn |-> NoCall]
  /\ w' = [c \in Conn |-> FreshWal]
  /\ cached' = [c \in Conn |-> None]
  /\ mine' = [c \in Conn |-> None]
  /\ limbo' = IF \E c \in Conn : CommitFrameWritten(c)
              THEN mine[CHOOSE c \in Conn : CommitFrameWritten(c)] ELSE limbo
  /\ lossy' = TRUE
  /\ \E f \in Remains(dbDisk, db, -1) : db' = f /\ dbDisk' = f
  /\ \E f \in Remains(walDisk.frames, wal.frames, Torn),
        h \in {walDisk, wal} \cup (IF walDisk.salt = wal.salt THEN {} ELSE {EmptyLog}) :
       LET log == [salt |-> h.salt, nCkpt |-> h.nCkpt, frames |-> f]
       IN wal' = log /\ walDisk' = log
  /\ shm' = ZeroShm
  /\ UNCHANGED <<seed, hist, floor>>

-----------------------------------------------------------------------------
Next ==
  \/ \E c \in Conn :
       \/ Open(c) \/ BeginRead(c) \/ ReadHdr0(c) \/ ReadHdr1(c) \/ LockHdr(c)
       \/ ReadHdrAgain(c) \/ Recover(c) \/ RecoverHdr0(c) \/ RecoverInfo(c)
       \/ CheckBackfill(c) \/ Lock0(c) \/ ChooseMark(c) \/ GrabMark(c) \/ PutMark(c)
       \/ LockMark(c) \/ EndRead(c)
       \/ BeginWrite(c) \/ Savepoint(c) \/ SavepointUndo(c) \/ Spill(c) \/ Commit(c)
       \/ RestartLog(c) \/ RestartHdr1(c) \/ RestartHdr0(c) \/ RestartInfo(c)
       \/ WriteWalHdr(c) \/ SyncWalHdr(c) \/ WriteFrame(c) \/ SyncFrames(c)
       \/ AppendIndex(c) \/ CommitHdr0(c) \/ FramesFail(c) \/ Rollback(c)
       \/ Checkpoint(c) \/ CkStart(c) \/ CkMark(c) \/ CkPut(c) \/ CkLock0(c) \/ CkSync(c)
       \/ CkPage(c) \/ CkTrunc(c) \/ CkDbSync(c) \/ CkDone(c) \/ CkEnd(c) \/ CkFails(c)
       \/ Close(c) \/ FinishClose(c) \/ Kill(c)
  \/ PowerLoss

Spec == Init /\ [][Next]_vars

-----------------------------------------------------------------------------
(* Properties *)

\* What a connection sees: the database it intends, once it writes.
Sees(c) == IF InWrite(c) THEN mine[c]
           ELSE IF w[c].readLock >= 0 THEN View(c) ELSE None

Writer == IF \E c \in Conn : InWrite(c) THEN CHOOSE c \in Conn : InWrite(c) ELSE None

S == INSTANCE SnapshotStore WITH view <- [c \in Conn |-> Sees(c)], writer <- Writer

\* The write-ahead log implements SnapshotStore: whatever checkpoints, restarts of
\* the log, recoveries, kills and power losses do to the files, a reader keeps the
\* database that was current when it began, commits are atomic and in sequence, and
\* what a sync has covered is never lost.
RefinesSnapshotStore == S!Spec

\* walTryBeginRead(), walCheckpoint(): what the pager's cache keeps from an earlier
\* transaction is what the log holds now (isChanged is not lost on a retry, a failed
\* call or a checkpoint).
CacheFresh ==
  \A c \in Conn : InRead(c) /\ ~InWrite(c) => cached[c] = View(c)

\* A recovery at any moment, when only processes have died, finds the last commit or
\* one that is being made or was cut off.
CrashSafe ==
  ~lossy => Recovered(db, wal) \in
              {Last(hist), limbo} \cup {mine[c] : c \in {d \in Conn : CommitFrameWritten(d)}}

\* "The nBackfill number is never greater than WalIndexHdr.mxFrame" (struct
\* WalCkptInfo), at least when nobody restarts or recovers the log.
BackfillWithinLog ==
  (\A c \in Conn : ~Holds(c, WRITE)) => shm.nBackfill <= shm.hdr[0].mxFrame
=============================================================================
