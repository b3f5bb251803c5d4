-------------------------- MODULE WalControlProofs --------------------------
(***************************************************************************)
(* The write-ahead log: the steps of a connection as updates of its own    *)
(* variables, and what its operations hold while they run, for any number  *)
(* of connections, read marks, frames and pages.                           *)
(*                                                                         *)
(* Every action of Wal is first brought into the form Does(...): the next  *)
(* step, the variables of the call, the Wal object, the cache and the      *)
(* intended database of one connection, with what becomes of shared memory *)
(* and files.  Ctl is inductive on its own; WalProofs builds on both.      *)
(***************************************************************************)
EXTENDS Wal, TLAPS, FiniteSetTheorems, SequenceTheorems, WellFoundedInduction

\* Processes do not die, and a restart of the log waits for a checkpointer that has read
\* the header but not yet nBackfill.
Steady == ~env.gaps /\ env.kills = 0

RecoverPc == {"recover", "recover0", "recoverinfo"}
HdrPc     == {"hdr0", "hdr1", "hdrlock", "hdragain"} \cup RecoverPc
MarkPc    == {"marks", "grab", "putmark", "lockmark"}
RestartPc == {"restart1", "restart0", "restartinfo"}
FramePc   == {"walhdr", "walhdrsync", "frame", "framesync", "index", "commit0", "failed"}
WritePc   == {"restart"} \cup RestartPc \cup FramePc
CkWritePc == {"cksync", "ckpage", "cktrunc", "ckdbsync", "ckdone"}
CkRunPc   == {"ckmark", "ckput", "cklock0"} \cup CkWritePc
CkPc      == {"ckstart", "ckend", "closing"} \cup CkRunPc
WalPc     == {"idle", "closed", "nbackfill", "lock0"} \cup HdrPc \cup MarkPc \cup WritePc \cup CkPc

Pair   == Nat \X Nat
Hdr    == [isInit : BOOLEAN, iChange : Nat, mxFrame : Nat, nPage : Nat, cksum : Pair, salt : Nat]
Frame  == [pg : Nat, data : Nat, nTruncate : Nat, salt : Nat, prev : Pair]
Log    == [salt : Nat, nCkpt : Nat, frames : Seq(Frame)]
Svpt   == [mxFrame : Nat, cksum : Pair, nCkpt : Nat, mine : Seq(Int)]
WalObj == [hdr : Hdr, readLock : (-1)..(NReader - 1), nCkpt : Nat, svpt : Svpt \cup {None}]
CkMode == {"passive", "full", "close"}
Call   == [changed : BOOLEAN, h1 : Hdr, mxI : Readers, mxReadMark : Nat, i : Nat,
           mxSafeFrame : Nat, nBackfill : Nat, todo : SUBSET (Nat \X Nat),
           list : Seq(Nat \ {0}), nTruncate : Nat, iFrame : Nat, data : Nat,
           mode : {"read", "write"} \cup CkMode]
Index  == [hdr : [{0, 1} -> Hdr], nBackfill : Nat, aReadMark : [Readers -> Nat],
           aPgno : [1..MaxFrame -> Nat]]
Image  == Seq(Int) \cup {None}

WalTypeOK ==
  /\ pc \in [Conn -> WalPc] /\ call \in [Conn -> Call] /\ w \in [Conn -> WalObj]
  /\ cached \in [Conn -> Image] /\ mine \in [Conn -> Image]
  /\ sharedMask \in [Conn -> SUBSET Slot] /\ exclMask \in [Conn -> SUBSET Slot]
  /\ shm \in Index
  /\ wal \in Log /\ walDisk \in Log
  /\ db \in Seq(Int) /\ dbDisk \in Seq(Int)
  /\ seed \in Nat \ {0}
  /\ env \in Setup

H   == shm.hdr[0]
mxH == H.mxFrame

-----------------------------------------------------------------------------
(* Control and locks *)

\* The operation that a step belongs to.
ModeAt(c) ==
  /\ pc[c] \in {"idle", "closed"} => call[c] = NoCall
  /\ pc[c] \in {"nbackfill", "lock0"} => call[c].mode = "read"
  /\ pc[c] \in MarkPc => call[c].mode \in {"read", "write"}
  /\ pc[c] \in WritePc => call[c].mode = "write"
  /\ pc[c] \in HdrPc => call[c].mode # "write"
  /\ pc[c] \in CkPc => call[c].mode \in CkMode
  /\ pc[c] = "closing" => call[c].mode = "passive"

\* The transaction that is open at a step.
TransAt(c) ==
  /\ call[c].mode = "write" => InWrite(c)
  /\ InWrite(c) => pc[c] = "idle" \/ call[c].mode = "write"
  /\ pc[c] \notin WritePc \cup {"idle"} => w[c].readLock = -1
  /\ pc[c] = "restart" => w[c].readLock >= 0
  /\ pc[c] \in RestartPc => w[c].readLock = 0
  /\ pc[c] \in FramePc => w[c].readLock >= 1
  /\ InWrite(c) /\ pc[c] = "idle" => w[c].readLock >= 0
  /\ ~InWrite(c) => w[c].svpt = None
  /\ pc[c] = "closed" => w[c] = FreshWal /\ cached[c] = None /\ mine[c] = None

\* The variables of the call.
MarkStepAt(c) ==
  /\ pc[c] = "grab" => call[c].i \in 1..NReader
  /\ pc[c] = "putmark" => call[c].i \in 1..(NReader - 1)
  /\ pc[c] = "lockmark" => call[c].mxI # 0
  /\ pc[c] \in {"grab", "lockmark"} => call[c].mxReadMark <= w[c].hdr.mxFrame

FrameStepAt(c) ==
  LET mx == w[c].hdr.mxFrame
      x  == call[c]
  IN
  /\ x.mode = "write" /\ pc[c] \notin {"commit0", "failed"} =>
       Len(x.list) >= 1 /\ mx + Len(x.list) <= MaxFrame
  /\ pc[c] = "walhdrsync" => x.iFrame = mx
  /\ pc[c] = "frame" => x.iFrame \in mx..(mx + Len(x.list) - 1)
  /\ pc[c] \in {"framesync", "index"} => x.iFrame = mx + Len(x.list)
  /\ pc[c] \in {"walhdrsync", "frame", "framesync", "index"} => x.iFrame <= Len(wal.frames)

CkStepAt(c) ==
  /\ pc[c] \in CkRunPc => /\ call[c].i \in 1..NReader
                          /\ \A t \in call[c].todo : t[2] \in 1..w[c].hdr.mxFrame
  /\ pc[c] = "ckput" => call[c].i < NReader
  /\ pc[c] \in CkRunPc \ {"ckmark", "ckput"} => call[c].i = NReader

\* The frames that a header or a savepoint counts have been written.
InLogAt(c) ==
  /\ w[c].hdr.mxFrame <= Len(wal.frames)
  /\ call[c].h1.mxFrame <= Len(wal.frames)
  /\ w[c].svpt # None => w[c].svpt.mxFrame <= Len(wal.frames)

LocksAt(c) ==
  /\ InWrite(c) \/ pc[c] = "hdragain" => WRITE \in exclMask[c]
  /\ pc[c] \in RecoverPc => Slot \subseteq exclMask[c]
  /\ call[c].mode \in CkMode /\ pc[c] \notin {"idle", "closed"} => CKPT \in exclMask[c]
  /\ pc[c] \in {"putmark", "ckput"} => READ(call[c].i) \in exclMask[c]
  /\ pc[c] \in RestartPc => Marked \subseteq exclMask[c]
  /\ pc[c] \in CkWritePc => READ(0) \in exclMask[c]
  /\ w[c].readLock >= 0 => READ(w[c].readLock) \in sharedMask[c]

Excluded ==
  \A c, d \in Conn : c # d => exclMask[c] \cap (exclMask[d] \cup sharedMask[d]) = {}

\* Who closes as the last one is alone.
ClosesAlone ==
  \A c, d \in Conn : c # d /\ call[c].mode = "close" => pc[d] = "closed"

\* Where ROLLBACK TO goes back to.
UndoTo(c) == IF w[c].svpt.nCkpt # w[c].nCkpt THEN 0 ELSE w[c].svpt.mxFrame

IndexInLog ==
  (\E c \in Conn : pc[c] # "closed") =>
    \A i \in {0, 1} : shm.hdr[i].mxFrame <= Len(wal.frames)

LogBound == Len(wal.frames) <= MaxFrame /\ Len(walDisk.frames) <= MaxFrame

CtlAt(c) == /\ ModeAt(c) /\ TransAt(c) /\ MarkStepAt(c) /\ FrameStepAt(c) /\ CkStepAt(c)
            /\ InLogAt(c) /\ LocksAt(c)

Ctl == /\ WalTypeOK /\ Steady
       /\ Excluded /\ ClosesAlone /\ IndexInLog /\ LogBound
       /\ \A c \in Conn : CtlAt(c)
-----------------------------------------------------------------------------
(* The largest element of a set of numbers *)

LEMMA LeastIsIn == ASSUME NEW Q, Q \subseteq Nat, Q # {} PROVE \E x \in Q : \A y \in Q : x <= y
<1>1. PICK x \in Q : \A y \in Q : ~(<<y, x>> \in OpToRel(<, Nat))
  BY NatLessThanWellFounded, WFMin
<1>2. ASSUME NEW y \in Q PROVE x <= y
  <2>1. ~(<<y, x>> \in {ss \in Nat \X Nat : ss[1] < ss[2]})
    BY <1>1 DEF OpToRel
  <2>2. QED BY <2>1
<1>3. QED BY <1>2

LEMMA MaxIn ==
  ASSUME NEW n \in Nat, NEW Q, Q \subseteq 0..n, Q # {}
  PROVE  Max(Q) \in Q /\ \A x \in Q : x <= Max(Q)
<1> DEFINE T == {n - x : x \in Q}
<1>1. \A x \in Q : x \in Nat /\ x <= n /\ n - x \in Nat
  OBVIOUS
<1>2. PICK t \in T : \A y \in T : t <= y
  BY <1>1, LeastIsIn, T \subseteq Nat, T # {}
<1>3. PICK m \in Q : t = n - m
  BY <1>2
<1>4. ASSUME NEW x \in Q PROVE m >= x
  <2>1. n - m <= n - x
    BY <1>2, <1>3
  <2>2. QED BY <1>1, <2>1
<1>5. QED BY <1>3, <1>4 DEF Max

LEMMA MaxOfTwo == ASSUME NEW m \in Nat, NEW n \in Nat
                  PROVE  Max({m, n}) = IF m <= n THEN n ELSE m
BY MaxIn, {m, n} \subseteq 0..(m + n)

\* A finite set of numbers has a bound.
LEMMA BoundOfRange ==
  ASSUME NEW m \in Nat, NEW q, \A k \in 1..m : q[k] \in Nat
  PROVE  \E n \in Nat : \A i \in 1..m : q[i] <= n
<1> DEFINE Bounded(k) == \E n \in Nat : \A i \in 1..k : q[i] <= n
           Bad == {k \in 0..m : ~Bounded(k)}
<1>1. Bounded(0)
  BY 0 \in Nat
<1>2. ASSUME NEW k \in 1..m, Bounded(k - 1) PROVE Bounded(k)
  <2>1. PICK n \in Nat : \A i \in 1..(k - 1) : q[i] <= n
    BY <1>2
  <2>2. n + q[k] \in Nat /\ q[k] \in Nat
    BY <1>2
  <2>3. ASSUME NEW i \in 1..k PROVE q[i] <= n + q[k]
    BY <2>1, <2>2, i = k \/ i \in 1..(k - 1)
  <2>4. QED BY <2>2, <2>3
<1> HIDE DEF Bounded
<1>3. ASSUME Bad # {} PROVE FALSE
  <2>1. PICK k \in Bad : \A j \in Bad : k <= j
    BY <1>3, LeastIsIn, Bad \subseteq Nat
  <2>2. k \in 0..m /\ ~Bounded(k) /\ k # 0
    BY <1>1, <2>1
  <2>3. k \in 1..m /\ k - 1 \in 0..m /\ ~(k <= k - 1)
    BY <2>2
  <2>4. Bounded(k - 1)
    BY <2>1, <2>3
  <2>5. QED BY <1>2, <2>2, <2>3, <2>4
<1>4. Bounded(m)
  BY <1>3
<1>5. QED BY <1>4 DEF Bounded

LEMMA BoundOfFinite ==
  ASSUME NEW Q, Q \subseteq Nat, IsFiniteSet(Q)
  PROVE  \E n \in Nat : Q \subseteq 0..n
<1>1. PICK q \in Seq(Q) : \A s \in Q : \E k \in 1..Len(q) : q[k] = s
  BY DEF IsFiniteSet
<1>2. Len(q) \in Nat /\ \A k \in 1..Len(q) : q[k] \in Q
  OBVIOUS
<1>3. PICK n \in Nat : \A i \in 1..Len(q) : q[i] <= n
  BY <1>2, BoundOfRange
<1>4. \A s \in Q : s \in Nat /\ s <= n
  BY <1>1, <1>3
<1>5. Q \subseteq 0..n
  BY <1>4
<1>6. QED BY <1>5

\* The last frame of a page among the first mx.
LEMMA LastFrameIs ==
  ASSUME NEW idx, NEW mx \in Nat, NEW p
  PROVE  /\ LastFrame(idx, mx, p) \in 0..mx
         /\ LastFrame(idx, mx, p) # 0 => idx[LastFrame(idx, mx, p)] = p
         /\ \A i \in 1..mx : idx[i] = p => i <= LastFrame(idx, mx, p)
BY MaxIn, {0} \cup {i \in 1..mx : idx[i] = p} \subseteq 0..mx DEF LastFrame

LEMMA LastFrameOfPrefix ==
  ASSUME NEW idx, NEW mx \in Nat, NEW k \in 0..mx, NEW p
  PROVE  /\ LastFrame(idx, k, p) <= LastFrame(idx, mx, p)
         /\ LastFrame(idx, mx, p) <= k => LastFrame(idx, k, p) = LastFrame(idx, mx, p)
<1> DEFINE f == LastFrame(idx, k, p)
           g == LastFrame(idx, mx, p)
<1>1. f \in 0..k /\ (f # 0 => idx[f] = p) /\ \A i \in 1..k : idx[i] = p => i <= f
  BY LastFrameIs
<1>2. g \in 0..mx /\ (g # 0 => idx[g] = p) /\ \A i \in 1..mx : idx[i] = p => i <= g
  BY LastFrameIs
<1> HIDE DEF f, g
<1>3. f <= g
  BY <1>1, <1>2
<1>4. g <= k => g <= f
  BY <1>1, <1>2
<1>5. QED BY <1>1, <1>2, <1>3, <1>4 DEF f, g

LEMMA LastFrameAgrees ==
  ASSUME NEW idx, NEW idy, NEW mx \in Nat, \A i \in 1..mx : idx[i] = idy[i], NEW p
  PROVE  LastFrame(idx, mx, p) = LastFrame(idy, mx, p)
<1>1. {i \in 1..mx : idx[i] = p} = {i \in 1..mx : idy[i] = p}
  OBVIOUS
<1>2. QED BY <1>1 DEF LastFrame

LEMMA ValidFramesIn == ASSUME NEW log \in Log PROVE ValidFrames(log) \in 0..Len(log.frames)
<1>1. Len(log.frames) \in Nat
  BY DEF Log
<1> DEFINE Ok(i) == /\ log.frames[i].salt = log.salt
                    /\ log.frames[i].pg # 0
                    /\ log.frames[i].prev = IF i = 1 THEN <<0, log.salt>>
                                            ELSE <<log.frames[i - 1].data, log.frames[i - 1].pg>>
           K == {k \in 0..Len(log.frames) : \A i \in 1..k : Ok(i)}
<1>2. 0 \in K /\ K \subseteq 0..Len(log.frames)
  BY <1>1
<1>3. Max(K) \in K
  <2> HIDE DEF K
  <2>1. QED BY <1>1, <1>2, MaxIn
<1>4. ValidFrames(log) = Max(K)
  BY DEF ValidFrames
<1>5. QED BY <1>2, <1>3, <1>4

LEMMA LastCommitIn ==
  ASSUME NEW log \in Log
  PROVE  /\ LastCommit(log) \in 0..Len(log.frames)
         /\ LastCommit(log) # 0 => log.frames[LastCommit(log)].nTruncate # 0
<1> DEFINE n == ValidFrames(log)
           K == {0} \cup {i \in 1..n : log.frames[i].nTruncate # 0}
<1>1. n \in 0..Len(log.frames) /\ Len(log.frames) \in Nat
  BY ValidFramesIn DEF Log
<1>2. K \subseteq 0..n /\ K # {}
  BY <1>1
<1>3. Max(K) \in K
  <2>1. n \in Nat
    BY <1>1
  <2> HIDE DEF K, n
  <2>2. QED BY <2>1, <1>2, MaxIn
<1>4. LastCommit(log) = IF log.salt = 0 THEN 0 ELSE Max(K)
  BY DEF LastCommit
<1>5. QED BY <1>1, <1>2, <1>3, <1>4

LEMMA Slots ==
  /\ WRITE \in Slot /\ CKPT \in Slot /\ RECOVER \in Slot /\ Marked \subseteq Slot
  /\ \A i \in Readers : READ(i) \in Slot /\ READ(i) \notin {WRITE, CKPT, RECOVER}
  /\ \A i, j \in Readers : i # j => READ(i) # READ(j)
  /\ \A i \in Readers : i # 0 => READ(i) \in Marked
  /\ WRITE # CKPT /\ WRITE \notin Marked /\ CKPT \notin Marked /\ READ(0) \notin Marked
  /\ 0 \in Readers
BY WalAssumption DEF Slot, Marked, WRITE, CKPT, RECOVER, READ, Readers
-----------------------------------------------------------------------------
(* The steps of a connection, as updates of its own variables *)

Does(c, to, k, o, ca, mi) ==
  /\ pc' = [pc EXCEPT ![c] = to] /\ call' = [call EXCEPT ![c] = k] /\ w' = [w EXCEPT ![c] = o]
  /\ cached' = [cached EXCEPT ![c] = ca] /\ mine' = [mine EXCEPT ![c] = mi]

\* Only the step changes; the variables of the call too; the call returns.
Moves(c, to)   == Does(c, to, call[c], w[c], cached[c], mine[c])
Calls(c, to, k) == Does(c, to, k, w[c], cached[c], mine[c])
Returns(c)     == Does(c, "idle", NoCall, w[c], cached[c], mine[c])

EnvOK == env \in Setup /\ Steady
Quiet == UNCHANGED <<shm, files, seed, env>>

\* The wal-index after a step.
Shm(h0, h1, nb, marks, idx) ==
  /\ shm' \in Index
  /\ shm'.hdr[0] = h0 /\ shm'.hdr[1] = h1 /\ shm'.nBackfill = nb
  /\ shm'.aReadMark = marks /\ shm'.aPgno = idx

LEMMA BudgetOK ==
  ASSUME EnvOK, NEW k \in {"reads", "tx", "spills", "runs", "faults", "closes", "power"}, Budget(k)
  PROVE  EnvOK'
BY DEF EnvOK, Steady, Budget, Setup

LEMMA SameUpdate ==
  ASSUME WalTypeOK, NEW c \in Conn
  PROVE  /\ pc = [pc EXCEPT ![c] = pc[c]] /\ call = [call EXCEPT ![c] = call[c]]
         /\ w = [w EXCEPT ![c] = w[c]] /\ cached = [cached EXCEPT ![c] = cached[c]]
         /\ mine = [mine EXCEPT ![c] = mine[c]]
BY DEF WalTypeOK

LEMMA OpenDoes ==
  ASSUME WalTypeOK, NEW c \in Conn, Open(c)
  PROVE  /\ pc[c] = "closed" /\ \A d \in Conn : call[d].mode # "close"
         /\ Does(c, "idle", call[c], FreshWal, cached[c], mine[c])
         /\ shm' = IF \A d \in Conn : pc[d] = "closed" THEN ZeroShm ELSE shm
         /\ UNCHANGED <<lockVars, files, seed, env>>
BY SameUpdate DEF Open, Does, Goto, ghosts

LEMMA BeginReadDoes ==
  ASSUME WalTypeOK, Steady, NEW c \in Conn, BeginRead(c)
  PROVE  /\ pc[c] = "idle" /\ w[c].readLock < 0
         /\ Calls(c, "hdr0", [NoCall EXCEPT !.mode = "read"])
         /\ UNCHANGED <<lockVars, shm, files, seed>> /\ EnvOK'
<1>1. EnvOK'
  BY BudgetOK DEF BeginRead, EnvOK, WalTypeOK, Steady
<1>2. QED BY <1>1, SameUpdate DEF BeginRead, Calls, Does, Goto, ghosts

LEMMA ReadHdr0Does ==
  ASSUME WalTypeOK, NEW c \in Conn, ReadHdr0(c)
  PROVE  /\ pc[c] = "hdr0" /\ Calls(c, "hdr1", [call[c] EXCEPT !.h1 = H])
         /\ UNCHANGED lockVars /\ Quiet
BY SameUpdate DEF ReadHdr0, Calls, Does, Goto, ghosts, H, Quiet

Adopts(c, h) == Does(c, AfterHdr(c), [call[c] EXCEPT !.changed = @ \/ w[c].hdr # h],
                     [w[c] EXCEPT !.hdr = h], cached[c], mine[c])

LEMMA ReadHdr1Does ==
  ASSUME WalTypeOK, NEW c \in Conn, ReadHdr1(c)
  PROVE  /\ pc[c] = "hdr1" /\ UNCHANGED lockVars /\ Quiet
         /\ \/ call[c].h1 = shm.hdr[1] /\ call[c].h1.isInit /\ Adopts(c, call[c].h1)
            \/ Moves(c, "hdrlock")
BY SameUpdate DEF ReadHdr1, Adopt, Adopts, Moves, Does, Goto, ghosts, Quiet

\* A header that cannot be had: a checkpoint ends, a reader tries again or fails.
Refused(c) ==
  \/ call[c].mode # "read" /\ Moves(c, "ckend")
  \/ call[c].mode = "read" /\ Moves(c, "hdr0")
  \/ call[c].mode = "read" /\ Does(c, "idle", NoCall, w[c], None, mine[c])

LEMMA LockHdrDoes ==
  ASSUME WalTypeOK, NEW c \in Conn, LockHdr(c)
  PROVE  /\ pc[c] = "hdrlock" /\ Quiet
         /\ \/ L!LockExclusive(c, {WRITE}) /\ Moves(c, "hdragain")
            \/ UNCHANGED lockVars /\ Refused(c)
BY SameUpdate DEF LockHdr, HdrBusy, Refused, Moves, Does, Goto, Return, ghosts, Quiet

LEMMA ReadHdrAgainDoes ==
  ASSUME WalTypeOK, NEW c \in Conn, ReadHdrAgain(c)
  PROVE  /\ pc[c] = "hdragain" /\ Quiet
         /\ \/ GoodHdr /\ L!Unlock(c, {WRITE}) /\ Adopts(c, H)
            \/ /\ ~GoodHdr /\ L!LockExclusive(c, RecoveryLocks(c))
               /\ Calls(c, "recover", [call[c] EXCEPT !.changed = TRUE])
            \/ ~GoodHdr /\ L!Unlock(c, {WRITE}) /\ Refused(c)
BY SameUpdate DEF ReadHdrAgain, HdrBusy, Refused, Adopt, Adopts, Moves, Calls, Does, Goto, Return,
                  ghosts, Quiet, H

LEMMA RecoverDoes ==
  ASSUME WalTypeOK, NEW c \in Conn, Recover(c)
  PROVE  \E h \in Hdr, n \in Nat, idx \in [1..MaxFrame -> Nat] :
           /\ pc[c] = "recover" /\ UNCHANGED <<lockVars, files, seed, env>>
           /\ h.isInit /\ h.mxFrame <= Len(wal.frames)
           /\ h.mxFrame > 0 => h.nPage > 0
           /\ h.salt \in {0, wal.salt}
           /\ h.cksum[1] = 0 \/ \E i \in 1..Len(wal.frames) : h.cksum[1] = wal.frames[i].data
           /\ Does(c, "recover0", call[c], [w[c] EXCEPT !.hdr = h, !.nCkpt = n], cached[c], mine[c])
           /\ Shm(H, h, shm.nBackfill, shm.aReadMark, idx)
<1> DEFINE mx == LastCommit(wal)
           n  == IF wal.salt = 0 THEN 0 ELSE ValidFrames(wal)
           h  == [isInit |-> TRUE, iChange |-> 0, mxFrame |-> mx,
                  nPage |-> IF mx = 0 THEN 0 ELSE wal.frames[mx].nTruncate,
                  cksum |-> IF mx = 0 THEN <<0, 0>> ELSE <<wal.frames[mx].data, wal.frames[mx].pg>>,
                  salt |-> IF wal.frames = <<>> THEN 0 ELSE wal.salt]
           k  == IF wal.frames = <<>> THEN w[c].nCkpt ELSE wal.nCkpt
           idx == [i \in 1..MaxFrame |-> IF i <= n THEN wal.frames[i].pg
                                         ELSE IF n > 0 THEN 0 ELSE shm.aPgno[i]]
<1>1. /\ Len(wal.frames) \in Nat /\ wal.salt \in Nat /\ wal.nCkpt \in Nat
      /\ \A i \in 1..Len(wal.frames) : wal.frames[i] \in Frame
      /\ w[c].nCkpt \in Nat /\ shm.aPgno \in [1..MaxFrame -> Nat]
  BY DEF WalTypeOK, Log, WalObj, Index
<1>2. /\ mx \in 0..Len(wal.frames) /\ (mx # 0 => wal.frames[mx].nTruncate # 0)
      /\ n \in 0..Len(wal.frames)
  BY <1>1, LastCommitIn, ValidFramesIn DEF WalTypeOK
<1>3. /\ h \in Hdr /\ h.mxFrame = mx /\ h.isInit /\ h.salt \in {0, wal.salt}
      /\ h.mxFrame > 0 => h.nPage > 0
      /\ h.cksum[1] = 0 \/ \E i \in 1..Len(wal.frames) : h.cksum[1] = wal.frames[i].data
  <2>1. CASE mx = 0
    BY <1>1, <2>1 DEF Hdr, Pair
  <2>2. CASE mx # 0
    <3>1. mx \in 1..Len(wal.frames)
      BY <1>1, <1>2, <2>2
    <3>2. /\ wal.frames[mx].nTruncate \in Nat \ {0} /\ wal.frames[mx].data \in Nat
          /\ wal.frames[mx].pg \in Nat
      BY <1>1, <1>2, <3>1 DEF Frame
    <3> HIDE DEF mx
    <3>3. QED BY <1>1, <2>2, <3>1, <3>2 DEF Hdr, Pair
  <2>3. QED BY <2>1, <2>2
<1>4. idx \in [1..MaxFrame -> Nat]
  <2>1. \A i \in 1..n : wal.frames[i].pg \in Nat
    BY <1>1, <1>2 DEF Frame
  <2>2. n \in Nat /\ shm.aPgno \in [1..MaxFrame -> Nat]
    BY <1>1, <1>2
  <2> HIDE DEF n
  <2>3. ASSUME NEW i \in 1..MaxFrame
        PROVE  (IF i <= n THEN wal.frames[i].pg ELSE IF n > 0 THEN 0 ELSE shm.aPgno[i]) \in Nat
    <3>1. i <= n => i \in 1..n
      BY <2>2
    <3>2. QED BY <2>1, <2>2, <3>1
  <2>4. QED BY <2>3
<1>5. /\ shm' = [shm EXCEPT !.hdr[1] = h, !.aPgno = idx]
      /\ w' = [w EXCEPT ![c] = [w[c] EXCEPT !.hdr = h, !.nCkpt = k]]
  BY DEF Recover, WalTypeOK, Index
<1>6. k \in Nat
  BY <1>1
<1>7. Does(c, "recover0", call[c], [w[c] EXCEPT !.hdr = h, !.nCkpt = k], cached[c], mine[c])
  BY <1>5, SameUpdate DEF Recover, Does, Goto, ghosts
<1>8. pc[c] = "recover" /\ UNCHANGED <<lockVars, files, seed, env>>
  BY DEF Recover, ghosts
<1> HIDE DEF h, idx, k, mx, n
<1>9. h.mxFrame <= Len(wal.frames)
  BY <1>1, <1>2, <1>3
<1>10. Shm(H, h, shm.nBackfill, shm.aReadMark, idx)
  <2>1. shm \in Index
    BY DEF WalTypeOK
  <2>2. h \in Hdr /\ shm' = [shm EXCEPT !.hdr[1] = h, !.aPgno = idx]
    BY <1>3, <1>5
  <2>3. [shm.hdr EXCEPT ![1] = h] \in [{0, 1} -> Hdr] /\ idx \in [1..MaxFrame -> Nat]
    BY <1>4, <2>1, <2>2 DEF Index
  <2>4. shm' = [shm EXCEPT !.hdr = [shm.hdr EXCEPT ![1] = h], !.aPgno = idx]
    BY <2>1, <2>2 DEF Index
  <2>5. shm.hdr \in [{0, 1} -> Hdr]
    BY <2>1 DEF Index
  <2>6. /\ shm' \in Index /\ shm'.hdr = [shm.hdr EXCEPT ![1] = h] /\ shm'.aPgno = idx
        /\ shm'.nBackfill = shm.nBackfill /\ shm'.aReadMark = shm.aReadMark
    BY <2>1, <2>3, <2>4 DEF Index
  <2>7. QED BY <2>5, <2>6 DEF Shm, H
<1>11. QED BY <1>3, <1>4, <1>6, <1>7, <1>8, <1>9, <1>10

LEMMA RecoverHdr0Does ==
  ASSUME WalTypeOK, NEW c \in Conn, RecoverHdr0(c)
  PROVE  /\ pc[c] = "recover0" /\ Moves(c, "recoverinfo")
         /\ Shm(w[c].hdr, shm.hdr[1], shm.nBackfill, shm.aReadMark, shm.aPgno)
         /\ UNCHANGED <<lockVars, files, seed, env>>
<1>1. Moves(c, "recoverinfo")
  BY SameUpdate DEF RecoverHdr0, Moves, Does, Goto
<1>2. w[c].hdr \in Hdr /\ shm \in Index
  BY DEF WalTypeOK, WalObj
<1>3. shm' = [shm EXCEPT !.hdr[0] = w[c].hdr]
  BY DEF RecoverHdr0
<1>4. Shm(w[c].hdr, shm.hdr[1], shm.nBackfill, shm.aReadMark, shm.aPgno)
  BY <1>2, <1>3 DEF Shm, Index
<1>5. QED BY <1>1, <1>4 DEF RecoverHdr0

LEMMA RecoverInfoDoes ==
  ASSUME WalTypeOK, NEW c \in Conn, RecoverInfo(c)
  PROVE  /\ pc[c] = "recoverinfo" /\ Moves(c, AfterHdr(c))
         /\ \E marks : Shm(H, shm.hdr[1], 0, marks, shm.aPgno)
         /\ L!Unlock(c, Slot \ (IF call[c].mode = "read" THEN {} ELSE {CKPT}))
         /\ UNCHANGED <<files, seed, env>>
<1> DEFINE marks == [i \in Readers |-> IF i = 0 THEN 0
                                       ELSE IF i = 1 /\ w[c].hdr.mxFrame > 0 THEN w[c].hdr.mxFrame
                                       ELSE READMARK_NOT_USED]
<1>1. Moves(c, AfterHdr(c))
  BY SameUpdate DEF RecoverInfo, Moves, Does, Goto, ghosts
<1>2. w[c].hdr.mxFrame \in Nat /\ READMARK_NOT_USED \in Nat /\ shm \in Index
  BY WalAssumption DEF WalTypeOK, WalObj, Hdr, READMARK_NOT_USED
<1>3. marks \in [Readers -> Nat]
  BY <1>2
<1>4. shm' = [shm EXCEPT !.nBackfill = 0, !.aReadMark = marks]
  BY DEF RecoverInfo
<1> HIDE DEF marks
<1>5. Shm(H, shm.hdr[1], 0, marks, shm.aPgno)
  BY <1>2, <1>3, <1>4 DEF Shm, Index, H
<1>6. QED BY <1>1, <1>5 DEF RecoverInfo

LEMMA CheckBackfillDoes ==
  ASSUME WalTypeOK, NEW c \in Conn, CheckBackfill(c)
  PROVE  /\ pc[c] = "nbackfill" /\ UNCHANGED lockVars /\ Quiet
         /\ \/ shm.nBackfill = w[c].hdr.mxFrame /\ Moves(c, "lock0")
            \/ Moves(c, "marks")
BY SameUpdate DEF CheckBackfill, Moves, Does, Goto, ghosts, Quiet

Filled(c, i) == IF call[c].changed \/ cached[c] = None
                THEN Through([w[c] EXCEPT !.readLock = i]) ELSE cached[c]

ReadBegins(c, i) ==
  /\ L!LockShared(c, READ(i))
  /\ \/ /\ call[c].mode = "read"
        /\ Does(c, "idle", NoCall, [w[c] EXCEPT !.readLock = i], Filled(c, i), mine[c])
     \/ /\ call[c].mode # "read"
        /\ Does(c, "walhdr", call[c], [w[c] EXCEPT !.readLock = i], cached[c], mine[c])

Retries(c) == Moves(c, IF call[c].mode = "read" THEN "hdr0" ELSE "marks")

LEMMA Lock0Does ==
  ASSUME WalTypeOK, NEW c \in Conn, Lock0(c)
  PROVE  /\ pc[c] = "lock0" /\ Quiet
         /\ \/ H = w[c].hdr /\ ReadBegins(c, 0)
            \/ UNCHANGED lockVars /\ (Retries(c) \/ Moves(c, "marks"))
BY SameUpdate DEF Lock0, StillCurrent, ReadBegun, ReadBegins, Filled, Retry, Retries, Moves, Does,
                  Goto, Return, Quiet, H

LEMMA ChooseMarkDoes ==
  ASSUME WalTypeOK, NEW c \in Conn, ChooseMark(c)
  PROVE  /\ pc[c] = "marks" /\ UNCHANGED lockVars /\ Quiet
         /\ \E best \in 0..w[c].hdr.mxFrame, i \in Readers, to \in {"grab", "lockmark"} :
              /\ to = "lockmark" => i # 0
              /\ Calls(c, to, [call[c] EXCEPT !.mxReadMark = best, !.mxI = i, !.i = 1])
<1> DEFINE mx == w[c].hdr.mxFrame
           Usable == {i \in Readers \ {0} : shm.aReadMark[i] <= mx}
           Q == {shm.aReadMark[i] : i \in Usable}
           best == IF Usable = {} THEN 0 ELSE Max(Q)
           I == {0} \cup {i \in Usable : shm.aReadMark[i] = best}
           to == IF best < mx \/ Max(I) = 0 THEN "grab" ELSE "lockmark"
<1>1. mx \in Nat /\ shm.aReadMark \in [Readers -> Nat] /\ NReader - 1 \in Nat
  <2>1. NReader - 1 \in Nat
    BY WalAssumption
  <2>2. QED BY <2>1 DEF WalTypeOK, WalObj, Hdr, Index
<1>2. Q \subseteq 0..mx /\ (Usable # {} => Q # {})
  BY <1>1
<1>3. best \in 0..mx
  <2> HIDE DEF Q
  <2>1. CASE Usable = {}
    BY <1>1, <2>1
  <2>2. CASE Usable # {}
    <3>1. Max(Q) \in Q
      BY <1>1, <1>2, <2>2, MaxIn
    <3>2. QED BY <1>2, <2>2, <3>1
  <2>3. QED BY <2>1, <2>2
<1>4. I \subseteq 0..(NReader - 1) /\ I # {}
  BY <1>1 DEF Readers
<1>5. Max(I) \in 0..(NReader - 1)
  <2> HIDE DEF I
  <2>1. QED BY <1>1, <1>4, MaxIn
<1>6. pc[c] = "marks" /\ UNCHANGED lockVars /\ Quiet
  BY DEF ChooseMark, Quiet
<1>7. /\ call' = [call EXCEPT ![c].mxReadMark = best, ![c].mxI = Max(I), ![c].i = 1]
      /\ pc' = [pc EXCEPT ![c] = to]
      /\ UNCHANGED <<w, cached, mine>>
  BY DEF ChooseMark, Goto, ghosts
<1> HIDE DEF best, I
<1>8. Calls(c, to, [call[c] EXCEPT !.mxReadMark = best, !.mxI = Max(I), !.i = 1])
  <2>1. call' = [call EXCEPT ![c] = [call[c] EXCEPT !.mxReadMark = best, !.mxI = Max(I), !.i = 1]]
    BY <1>7 DEF WalTypeOK
  <2> HIDE DEF to
  <2>2. QED BY <1>7, <2>1, SameUpdate DEF Calls, Does
<1>9. to \in {"grab", "lockmark"} /\ (to = "lockmark" => Max(I) # 0)
  OBVIOUS
<1> HIDE DEF to
<1>10. QED BY <1>3, <1>5, <1>6, <1>8, <1>9 DEF Readers

LEMMA GrabMarkDoes ==
  ASSUME WalTypeOK, NEW c \in Conn, GrabMark(c)
  PROVE  /\ pc[c] = "grab" /\ Quiet
         /\ \/ /\ call[c].i < NReader /\ L!LockExclusive(c, {READ(call[c].i)})
               /\ Moves(c, "putmark")
            \/ /\ call[c].i < NReader /\ UNCHANGED lockVars
               /\ Calls(c, "grab", [call[c] EXCEPT !.i = call[c].i + 1])
            \/ /\ UNCHANGED lockVars
               /\ Retries(c) \/ (call[c].mxI # 0 /\ Moves(c, "lockmark"))
BY SameUpdate DEF GrabMark, Retry, Retries, Moves, Calls, Does, Goto, ghosts, Quiet

LEMMA PutMarkDoes ==
  ASSUME WalTypeOK, NEW c \in Conn, PutMark(c)
  PROVE  /\ pc[c] = "putmark" /\ UNCHANGED <<files, seed, env>>
         /\ Calls(c, "lockmark", [call[c] EXCEPT !.mxI = call[c].i, !.mxReadMark = w[c].hdr.mxFrame])
         /\ Shm(H, shm.hdr[1], shm.nBackfill,
                [shm.aReadMark EXCEPT ![call[c].i] = w[c].hdr.mxFrame], shm.aPgno)
         /\ L!Unlock(c, {READ(call[c].i)})
<1>1. w[c].hdr.mxFrame \in Nat /\ shm \in Index
  BY DEF WalTypeOK, WalObj, Hdr
<1>2. shm' = [shm EXCEPT !.aReadMark[call[c].i] = w[c].hdr.mxFrame]
  BY DEF PutMark
<1>3. Shm(H, shm.hdr[1], shm.nBackfill,
          [shm.aReadMark EXCEPT ![call[c].i] = w[c].hdr.mxFrame], shm.aPgno)
  BY <1>1, <1>2 DEF Shm, Index, H
<1>4. call' = [call EXCEPT ![c] = [call[c] EXCEPT !.mxI = call[c].i, !.mxReadMark = w[c].hdr.mxFrame]]
  BY DEF PutMark, WalTypeOK
<1>5. Calls(c, "lockmark", [call[c] EXCEPT !.mxI = call[c].i, !.mxReadMark = w[c].hdr.mxFrame])
  BY <1>4, SameUpdate DEF PutMark, Calls, Does, Goto, ghosts
<1>6. QED BY <1>3, <1>5 DEF PutMark

LEMMA LockMarkDoes ==
  ASSUME WalTypeOK, NEW c \in Conn, LockMark(c)
  PROVE  /\ pc[c] = "lockmark" /\ Quiet
         /\ \/ /\ shm.aReadMark[call[c].mxI] = call[c].mxReadMark /\ H = w[c].hdr
               /\ ReadBegins(c, call[c].mxI)
            \/ UNCHANGED lockVars /\ Retries(c)
BY SameUpdate DEF LockMark, MarkHolds, StillCurrent, ReadBegun, ReadBegins, Filled, Retry, Retries,
                  Moves, Does, Goto, Return, Quiet, H

LEMMA EndReadDoes ==
  ASSUME WalTypeOK, NEW c \in Conn, EndRead(c)
  PROVE  /\ pc[c] = "idle" /\ w[c].readLock >= 0 /\ ~InWrite(c) /\ Quiet
         /\ L!Unlock(c, {READ(w[c].readLock)})
         /\ Does(c, "idle", call[c], [w[c] EXCEPT !.readLock = -1], cached[c], mine[c])
BY SameUpdate DEF EndRead, InRead, Does, ghosts, Quiet

LEMMA BeginWriteDoes ==
  ASSUME WalTypeOK, Steady, NEW c \in Conn, BeginWrite(c)
  PROVE  /\ pc[c] = "idle" /\ w[c].readLock >= 0 /\ ~InWrite(c) /\ H = w[c].hdr
         /\ L!LockExclusive(c, {WRITE})
         /\ Does(c, "idle", call[c], w[c], cached[c], View(c))
         /\ UNCHANGED <<shm, files, seed>> /\ EnvOK'
<1>1. EnvOK'
  BY BudgetOK DEF BeginWrite, EnvOK, WalTypeOK, Steady
<1>2. QED BY <1>1, SameUpdate DEF BeginWrite, InRead, StillCurrent, Does, H

LEMMA SavepointDoes ==
  ASSUME WalTypeOK, NEW c \in Conn, Savepoint(c)
  PROVE  /\ pc[c] = "idle" /\ InWrite(c) /\ UNCHANGED lockVars /\ Quiet
         /\ Does(c, "idle", call[c],
                 [w[c] EXCEPT !.svpt = [mxFrame |-> w[c].hdr.mxFrame, cksum |-> w[c].hdr.cksum,
                                        nCkpt |-> w[c].nCkpt, mine |-> mine[c]]],
                 cached[c], mine[c])
BY SameUpdate DEF Savepoint, Does, ghosts, Quiet

LEMMA CleanUpType ==
  ASSUME NEW idx \in [1..MaxFrame -> Nat], NEW mx
  PROVE  CleanUp(idx, mx) \in [1..MaxFrame -> Nat]
BY DEF CleanUp

LEMMA SavepointUndoDoes ==
  ASSUME WalTypeOK, NEW c \in Conn, SavepointUndo(c)
  PROVE  LET s == w[c].svpt
             to == UndoTo(c)
         IN
         /\ pc[c] = "idle" /\ InWrite(c) /\ s # None /\ UNCHANGED <<lockVars, files, seed, env>>
         /\ \/ /\ to < w[c].hdr.mxFrame
               /\ Does(c, "idle", call[c],
                       [w[c] EXCEPT !.hdr = [w[c].hdr EXCEPT !.mxFrame = to, !.cksum = s.cksum],
                                    !.svpt = None], cached[c], s.mine)
               /\ Shm(H, shm.hdr[1], shm.nBackfill, shm.aReadMark, CleanUp(shm.aPgno, to))
            \/ /\ ~(to < w[c].hdr.mxFrame)
               /\ Does(c, "idle", call[c], [w[c] EXCEPT !.svpt = None], cached[c], s.mine)
               /\ UNCHANGED shm
<1> DEFINE s == w[c].svpt
           to == UndoTo(c)
<1>1. pc[c] = "idle" /\ InWrite(c) /\ s # None /\ UNCHANGED <<lockVars, files, seed, env>>
  BY DEF SavepointUndo
<1>2. CASE to < w[c].hdr.mxFrame
  <2>1. /\ w' = [w EXCEPT ![c].hdr.mxFrame = to, ![c].hdr.cksum = s.cksum, ![c].svpt = None]
        /\ shm' = [shm EXCEPT !.aPgno = CleanUp(@, to)]
        /\ mine' = [mine EXCEPT ![c] = s.mine] /\ UNCHANGED <<pc, call, cached>>
    BY <1>2 DEF SavepointUndo, UndoTo
  <2>2. w[c] \in WalObj /\ shm \in Index
    BY DEF WalTypeOK
  <2> HIDE DEF to, s
  <2>3. w' = [w EXCEPT ![c] = [w[c] EXCEPT !.hdr = [w[c].hdr EXCEPT !.mxFrame = to, !.cksum = s.cksum],
                                            !.svpt = None]]
    BY <2>1, <2>2 DEF WalTypeOK, WalObj, Hdr
  <2>4. CleanUp(shm.aPgno, to) \in [1..MaxFrame -> Nat]
    BY <2>2, CleanUpType DEF Index
  <2>5. Shm(H, shm.hdr[1], shm.nBackfill, shm.aReadMark, CleanUp(shm.aPgno, to))
    BY <2>1, <2>2, <2>4 DEF Shm, H, Index
  <2>6. Does(c, "idle", call[c],
             [w[c] EXCEPT !.hdr = [w[c].hdr EXCEPT !.mxFrame = to, !.cksum = s.cksum],
                          !.svpt = None], cached[c], s.mine)
    BY <1>1, <2>1, <2>3, SameUpdate DEF Does
  <2>7. QED BY <1>1, <1>2, <2>5, <2>6 DEF to, s
<1>3. CASE ~(to < w[c].hdr.mxFrame)
  <2>1. /\ w' = [w EXCEPT ![c].svpt = None] /\ UNCHANGED shm
        /\ mine' = [mine EXCEPT ![c] = s.mine] /\ UNCHANGED <<pc, call, cached>>
    BY <1>3 DEF SavepointUndo, UndoTo
  <2>2. Does(c, "idle", call[c], [w[c] EXCEPT !.svpt = None], cached[c], s.mine)
    BY <1>1, <2>1, SameUpdate DEF Does
  <2>3. QED BY <1>1, <1>3, <2>1, <2>2
<1>4. QED BY <1>2, <1>3

Distinct(list) == \A i, j \in 1..Len(list) : i # j => list[i] # list[j]

\* A call to sqlite3WalFrames(): pages of a database of m pages, n being m or, without
\* a commit, 0.
Starts(c, list, m, n) ==
  /\ pc[c] = "idle" /\ InWrite(c)
  /\ Len(list) >= 1 /\ Distinct(list) /\ w[c].hdr.mxFrame + Len(list) <= MaxFrame
  /\ \A p \in 1..m : p \in Range(list) \/ p <= Len(mine[c])
  /\ n \in {0, m}
  /\ Does(c, "restart", [NoCall EXCEPT !.list = list, !.nTruncate = n, !.data = seed, !.mode = "write"],
          w[c], cached[c], Changed(mine[c], Range(list), m, seed))
  /\ UNCHANGED <<lockVars, shm, files>> /\ seed' = seed + 1 /\ EnvOK'

LEMMA SpillDoes ==
  ASSUME WalTypeOK, Steady, NEW c \in Conn, Spill(c)
  PROVE  \E list \in Seq(Nat \ {0}), m \in Nat, n \in Nat : Starts(c, list, m, n)
<1>1. PICK p \in Page \ {1} :
        /\ p <= Len(mine[c]) + 1
        /\ Budget("spills")
        /\ StartFrames(c, <<p>>, 0, Changed(mine[c], {p}, Max({p, Len(mine[c])}), seed))
  BY DEF Spill
<1>2. InWrite(c) /\ EnvOK'
  BY <1>1, BudgetOK DEF Spill, EnvOK, WalTypeOK, Steady
<1>3. mine[c] \in Seq(Int) /\ Len(mine[c]) \in Nat
  BY <1>2 DEF WalTypeOK, Image, InWrite
<1>4. p \in Nat \ {0}
  BY DEF Page
<1> DEFINE m == Max({p, Len(mine[c])})
<1>5. m \in Nat /\ p <= m /\ \A q \in 1..m : q = p \/ q <= Len(mine[c])
  BY <1>1, <1>3, <1>4, MaxOfTwo
<1>6. <<p>> \in Seq(Nat \ {0}) /\ Len(<<p>>) = 1 /\ Range(<<p>>) = {p}
  BY <1>4 DEF Range
<1> HIDE DEF m
<1>7. /\ StartFrames(c, <<p>>, 0, Changed(mine[c], Range(<<p>>), m, seed))
  BY <1>1, <1>6 DEF m
<1>8. Starts(c, <<p>>, m, 0)
  <2>1. Distinct(<<p>>)
    BY <1>6 DEF Distinct
  <2> DEFINE im == Changed(mine[c], Range(<<p>>), m, seed)
             k == [NoCall EXCEPT !.list = <<p>>, !.nTruncate = 0, !.data = seed, !.mode = "write"]
  <2>2. Does(c, "restart", k, w[c], cached[c], im)
    <3> HIDE DEF im
    <3>1. QED BY <1>7, SameUpdate DEF StartFrames, Does, Goto, im
  <2>3. \A q \in 1..m : q \in Range(<<p>>) \/ q <= Len(mine[c])
    BY <1>5, <1>6
  <2> HIDE DEF im, k
  <2>4. QED BY <1>2, <1>6, <1>7, <2>1, <2>2, <2>3 DEF Starts, StartFrames, im, k
<1>9. QED BY <1>5, <1>6, <1>8

LEMMA CommitDoes ==
  ASSUME WalTypeOK, Steady, NEW c \in Conn, Commit(c)
  PROVE  \E list \in Seq(Nat \ {0}), m \in Nat, n \in Nat : Starts(c, list, m, n)
<1>1. PICK n \in env.sizes : \E list \in PageLists(n) :
        /\ (Len(mine[c]) + 1)..n \subseteq Range(list)
        /\ StartFrames(c, list, n, Changed(mine[c], Range(list), n, seed))
        /\ UNCHANGED env
  BY DEF Commit
<1>2. PICK list \in PageLists(n) :
        /\ (Len(mine[c]) + 1)..n \subseteq Range(list)
        /\ StartFrames(c, list, n, Changed(mine[c], Range(list), n, seed))
        /\ UNCHANGED env
  BY <1>1
<1>3. InWrite(c) /\ EnvOK' /\ n \in Nat
  BY <1>2 DEF Commit, EnvOK, WalTypeOK, Steady, Setup
<1>4. mine[c] \in Seq(Int) /\ Len(mine[c]) \in Nat
  BY <1>3 DEF WalTypeOK, Image, InWrite
<1>5. PICK k \in 1..n : list \in [1..k -> 1..n]
  BY DEF PageLists
<1>6. \A i, j \in DOMAIN list : i < j => list[i] < list[j]
  BY DEF PageLists
<1>7. list \in Seq(Nat \ {0}) /\ Len(list) = k /\ k >= 1
  BY <1>3, <1>5
<1>8. Distinct(list)
  <2>1. \A i \in 1..k : list[i] \in Int
    BY <1>5
  <2>2. QED BY <1>5, <1>6, <1>7, <2>1 DEF Distinct
<1>9. \A p \in 1..n : p \in Range(list) \/ p <= Len(mine[c])
  BY <1>2, <1>3, <1>4
<1> DEFINE im == Changed(mine[c], Range(list), n, seed)
<1>10. Does(c, "restart", [NoCall EXCEPT !.list = list, !.nTruncate = n, !.data = seed, !.mode = "write"],
            w[c], cached[c], im)
  <2> HIDE DEF im
  <2>1. StartFrames(c, list, n, im)
    BY <1>2 DEF im
  <2>2. QED BY <2>1, SameUpdate DEF StartFrames, Does, Goto
<1>11. Starts(c, list, n, n)
  BY <1>2, <1>3, <1>7, <1>8, <1>9, <1>10 DEF Starts, StartFrames
<1>12. QED BY <1>3, <1>7, <1>11

LEMMA RestartLogDoes ==
  ASSUME WalTypeOK, NEW c \in Conn, RestartLog(c)
  PROVE  /\ pc[c] = "restart" /\ UNCHANGED <<shm, files, env>>
         /\ \/ /\ w[c].readLock # 0 /\ UNCHANGED lockVars /\ seed' = seed
               /\ Moves(c, "walhdr")
            \/ /\ w[c].readLock = 0 /\ shm.nBackfill > 0 /\ L!LockExclusive(c, Marked)
               /\ seed' = seed + 1
               /\ Does(c, "restart1", call[c],
                       [w[c] EXCEPT !.nCkpt = w[c].nCkpt + 1,
                                    !.hdr = [w[c].hdr EXCEPT !.mxFrame = 0, !.salt = seed]],
                       cached[c], mine[c])
            \/ /\ w[c].readLock = 0 /\ L!Unlock(c, {READ(0)}) /\ seed' = seed
               /\ Does(c, "marks", call[c], [w[c] EXCEPT !.readLock = -1], cached[c], mine[c])
<1>1. pc[c] = "restart" /\ UNCHANGED <<shm, files, env, call, cached, mine>>
  BY DEF RestartLog, ghosts
<1>2. CASE w[c].readLock # 0
  BY <1>1, <1>2, SameUpdate DEF RestartLog, Moves, Does, Goto
<1>3. CASE /\ w[c].readLock = 0 /\ shm.nBackfill > 0 /\ L!LockExclusive(c, Marked)
           /\ w' = [w EXCEPT ![c].nCkpt = @ + 1, ![c].hdr.mxFrame = 0, ![c].hdr.salt = seed]
           /\ seed' = seed + 1 /\ Goto(c, "restart1")
  <2>1. w' = [w EXCEPT ![c] = [w[c] EXCEPT !.nCkpt = w[c].nCkpt + 1,
                                 !.hdr = [w[c].hdr EXCEPT !.mxFrame = 0, !.salt = seed]]]
    BY ZenonT(40), <1>3 DEF WalTypeOK, WalObj, Hdr
  <2>2. QED BY <1>1, <1>3, <2>1, SameUpdate DEF Does, Goto
<1>4. CASE /\ w[c].readLock = 0 /\ L!Unlock(c, {READ(0)}) /\ w' = [w EXCEPT ![c].readLock = -1]
           /\ Goto(c, "marks") /\ UNCHANGED seed
  BY <1>1, <1>4, SameUpdate DEF Does, Goto
<1>5. QED BY <1>2, <1>3, <1>4 DEF RestartLog

LEMMA RestartHdr1Does ==
  ASSUME WalTypeOK, NEW c \in Conn, RestartHdr1(c)
  PROVE  /\ pc[c] = "restart1" /\ Moves(c, "restart0") /\ UNCHANGED <<lockVars, files, seed, env>>
         /\ Shm(H, w[c].hdr, shm.nBackfill, shm.aReadMark, shm.aPgno)
<1>1. w[c].hdr \in Hdr /\ shm \in Index
  BY DEF WalTypeOK, WalObj
<1>2. shm' = [shm EXCEPT !.hdr[1] = w[c].hdr]
  BY DEF RestartHdr1
<1>3. Shm(H, w[c].hdr, shm.nBackfill, shm.aReadMark, shm.aPgno)
  BY <1>1, <1>2 DEF Shm, Index, H
<1>4. Moves(c, "restart0")
  BY SameUpdate DEF RestartHdr1, Moves, Does, Goto, ghosts
<1>5. QED BY <1>3, <1>4 DEF RestartHdr1

LEMMA RestartHdr0Does ==
  ASSUME WalTypeOK, NEW c \in Conn, RestartHdr0(c)
  PROVE  /\ pc[c] = "restart0" /\ Moves(c, "restartinfo")
         /\ UNCHANGED <<lockVars, files, seed, env>>
         /\ Shm(w[c].hdr, shm.hdr[1], shm.nBackfill, shm.aReadMark, shm.aPgno)
<1>1. w[c].hdr \in Hdr /\ shm \in Index
  BY DEF WalTypeOK, WalObj
<1>2. shm' = [shm EXCEPT !.hdr[0] = w[c].hdr]
  BY DEF RestartHdr0
<1>3. Shm(w[c].hdr, shm.hdr[1], shm.nBackfill, shm.aReadMark, shm.aPgno)
  BY <1>1, <1>2 DEF Shm, Index
<1>4. Moves(c, "restartinfo")
  BY SameUpdate DEF RestartHdr0, Moves, Does, Goto, ghosts
<1>5. QED BY <1>3, <1>4 DEF RestartHdr0

LEMMA RestartInfoDoes ==
  ASSUME WalTypeOK, Steady, NEW c \in Conn, RestartInfo(c)
  PROVE  /\ pc[c] = "restartinfo" /\ \A d \in Conn : pc[d] # "ckstart"
         /\ UNCHANGED <<files, seed, env>>
         /\ \E marks : Shm(H, shm.hdr[1], 0, marks, shm.aPgno)
         /\ L!Unlock(c, Marked \cup {READ(0)})
         /\ Does(c, "marks", call[c], [w[c] EXCEPT !.readLock = -1], cached[c], mine[c])
<1> DEFINE marks == [i \in Readers |-> IF i <= 1 THEN 0 ELSE READMARK_NOT_USED]
<1>1. READMARK_NOT_USED \in Nat /\ shm \in Index
  BY WalAssumption DEF WalTypeOK, READMARK_NOT_USED
<1>2. marks \in [Readers -> Nat]
  BY <1>1
<1>3. shm' = [shm EXCEPT !.nBackfill = 0, !.aReadMark = marks]
  BY DEF RestartInfo
<1> HIDE DEF marks
<1>4. Shm(H, shm.hdr[1], 0, marks, shm.aPgno)
  BY <1>1, <1>2, <1>3 DEF Shm, Index, H
<1>5. Does(c, "marks", call[c], [w[c] EXCEPT !.readLock = -1], cached[c], mine[c])
  BY SameUpdate DEF RestartInfo, Does, Goto, ghosts
<1>6. QED BY <1>4, <1>5 DEF RestartInfo, Steady

LEMMA WriteWalHdrDoes ==
  ASSUME WalTypeOK, NEW c \in Conn, WriteWalHdr(c)
  PROVE  /\ pc[c] = "walhdr" /\ UNCHANGED <<lockVars, shm, walDisk, db, dbDisk, env>>
         /\ \/ /\ w[c].hdr.mxFrame > 0 /\ UNCHANGED <<wal, seed>>
               /\ Calls(c, "frame", [call[c] EXCEPT !.iFrame = w[c].hdr.mxFrame])
            \/ \E salt \in Nat :
                 /\ (salt = seed /\ seed' = seed + 1) \/ (salt = w[c].hdr.salt /\ seed' = seed)
                 /\ wal' = [wal EXCEPT !.salt = salt, !.nCkpt = w[c].nCkpt]
                 /\ Does(c, "walhdrsync", [call[c] EXCEPT !.iFrame = w[c].hdr.mxFrame],
                         [w[c] EXCEPT !.hdr = [w[c].hdr EXCEPT !.salt = salt, !.cksum = <<0, salt>>]],
                         cached[c], mine[c])
<1>1. /\ pc[c] = "walhdr" /\ UNCHANGED <<lockVars, shm, walDisk, db, dbDisk, env>>
      /\ UNCHANGED <<cached, mine>> /\ call' = [call EXCEPT ![c].iFrame = w[c].hdr.mxFrame]
      /\ w[c] \in WalObj /\ w[c].hdr \in Hdr /\ w[c].hdr.salt \in Nat /\ seed \in Nat
  BY DEF WriteWalHdr, ghosts, WalTypeOK, WalObj, Hdr
<1>2. CASE w[c].hdr.mxFrame > 0
  BY <1>1, <1>2, SameUpdate DEF WriteWalHdr, Calls, Does, Goto
<1>3. CASE ~(w[c].hdr.mxFrame > 0)
  <2> DEFINE salt == IF w[c].nCkpt = 0 THEN seed ELSE w[c].hdr.salt
  <2>1. /\ w' = [w EXCEPT ![c].hdr.salt = salt, ![c].hdr.cksum = <<0, salt>>]
        /\ wal' = [wal EXCEPT !.salt = salt, !.nCkpt = w[c].nCkpt]
        /\ Goto(c, "walhdrsync")
    BY <1>3 DEF WriteWalHdr
  <2>2. /\ salt \in Nat
        /\ (salt = seed /\ seed' = seed + 1) \/ (salt = w[c].hdr.salt /\ seed' = seed)
    BY <1>1, <1>3 DEF WriteWalHdr
  <2> HIDE DEF salt
  <2>3. w' = [w EXCEPT ![c] = [w[c] EXCEPT !.hdr = [w[c].hdr EXCEPT !.salt = salt,
                                                                  !.cksum = <<0, salt>>]]]
    BY <2>1 DEF WalTypeOK, WalObj, Hdr
  <2>4. QED BY <1>1, <2>1, <2>2, <2>3, SameUpdate DEF Does, Goto
<1>4. QED BY <1>2, <1>3

LEMMA SyncWalHdrDoes ==
  ASSUME WalTypeOK, NEW c \in Conn, SyncWalHdr(c)
  PROVE  /\ pc[c] = "walhdrsync" /\ Moves(c, "frame")
         /\ walDisk' = wal /\ UNCHANGED <<lockVars, shm, wal, db, dbDisk, seed, env>>
BY SameUpdate DEF SyncWalHdr, Moves, Does, Goto, ghosts

LEMMA SyncFramesDoes ==
  ASSUME WalTypeOK, NEW c \in Conn, SyncFrames(c)
  PROVE  /\ pc[c] = "framesync" /\ Moves(c, "index")
         /\ walDisk' = wal /\ UNCHANGED <<lockVars, shm, wal, db, dbDisk, seed, env>>
BY SameUpdate DEF SyncFrames, Moves, Does, Goto, ghosts

\* A frame is put at the end of the log or over an older one.
LEMMA PutFrameIs ==
  ASSUME NEW fs \in Seq(Frame), NEW i \in 1..(Len(fs) + 1), NEW f \in Frame
  PROVE  LET g == PutFrame(fs, i, f) IN
         /\ g \in Seq(Frame) /\ Len(g) >= Len(fs) /\ Len(g) >= i
         /\ Len(g) = Len(fs) \/ Len(g) = i
         /\ g[i] = f /\ \A k \in 1..Len(g) : k # i => k <= Len(fs) /\ g[k] = fs[k]
<1> DEFINE m == Max({i, Len(fs)})
<1>1. Len(fs) \in Nat /\ i \in Nat /\ m = IF i <= Len(fs) THEN Len(fs) ELSE i
  BY MaxOfTwo
<1>2. PutFrame(fs, i, f) = [k \in 1..m |-> IF k = i THEN f ELSE fs[k]]
  BY DEF PutFrame
<1> HIDE DEF m
<1>3. m \in Nat /\ i \in 1..m /\ Len(fs) <= m /\ \A k \in 1..m : k # i => k \in 1..Len(fs)
  BY <1>1
<1>4. \A k \in 1..Len(fs) : fs[k] \in Frame
  OBVIOUS
<1>5. PutFrame(fs, i, f) \in Seq(Frame) /\ Len(PutFrame(fs, i, f)) = m
  BY <1>2, <1>3, <1>4
<1>6. QED BY <1>1, <1>2, <1>3, <1>5

LEMMA WriteFrameDoes ==
  ASSUME WalTypeOK, NEW c \in Conn, WriteFrame(c), FrameStepAt(c)
  PROVE  LET n == call[c].iFrame
             k == n - w[c].hdr.mxFrame + 1
             x == call[c].data
         IN
         /\ pc[c] = "frame" /\ UNCHANGED <<lockVars, shm, walDisk, db, dbDisk, seed, env>>
         /\ wal' \in Log /\ wal'.salt = wal.salt
         /\ Len(wal'.frames) >= Len(wal.frames) /\ Len(wal'.frames) >= n + 1
         /\ Len(wal'.frames) = Len(wal.frames) \/ Len(wal'.frames) = n + 1
         /\ wal'.frames[n + 1].data = x
         /\ \A j \in 1..Len(wal'.frames) :
              j # n + 1 => j <= Len(wal.frames) /\ wal'.frames[j] = wal.frames[j]
         /\ k \in 1..Len(call[c].list)
         /\ \E to \in {"frame", "framesync", "index"}, pg \in Nat :
              /\ to = "frame" <=> k # Len(call[c].list)
              /\ Does(c, to, [call[c] EXCEPT !.iFrame = n + 1],
                      [w[c] EXCEPT !.hdr = [w[c].hdr EXCEPT !.cksum = <<x, pg>>]],
                      cached[c], mine[c])
<1> DEFINE n == call[c].iFrame
           mx == w[c].hdr.mxFrame
           k == n - mx + 1
           x == call[c].data
           list == call[c].list
           pg == list[k]
           last == k = Len(list)
           f == [pg |-> pg, data |-> x, nTruncate |-> IF last THEN call[c].nTruncate ELSE 0,
                 salt |-> w[c].hdr.salt, prev |-> w[c].hdr.cksum]
           to == IF ~last THEN "frame"
                 ELSE IF call[c].nTruncate # 0 /\ env.full THEN "framesync" ELSE "index"
<1>1. /\ pc[c] = "frame" /\ UNCHANGED <<lockVars, shm, walDisk, db, dbDisk, seed, env>>
      /\ UNCHANGED <<cached, mine>>
      /\ wal' = [wal EXCEPT !.frames = PutFrame(@, n + 1, f)]
      /\ w' = [w EXCEPT ![c].hdr.cksum = <<x, pg>>]
      /\ call' = [call EXCEPT ![c].iFrame = n + 1] /\ pc' = [pc EXCEPT ![c] = to]
  BY DEF WriteFrame, Goto
<1>2. call[c] \in Call /\ w[c] \in WalObj /\ w[c].hdr \in Hdr /\ wal \in Log
  BY DEF WalTypeOK, WalObj
<1>3. /\ n \in Nat /\ mx \in Nat /\ x \in Nat /\ list \in Seq(Nat \ {0}) /\ Len(list) \in Nat
      /\ call[c].nTruncate \in Nat /\ w[c].hdr.salt \in Nat /\ w[c].hdr.cksum \in Pair
      /\ wal.frames \in Seq(Frame) /\ Len(wal.frames) \in Nat
  <2>1. n \in Nat /\ x \in Nat /\ list \in Seq(Nat \ {0}) /\ call[c].nTruncate \in Nat
    BY <1>2 DEF Call
  <2>2. mx \in Nat /\ w[c].hdr.salt \in Nat /\ w[c].hdr.cksum \in Pair
    BY <1>2 DEF Hdr
  <2>3. wal.frames \in Seq(Frame)
    BY <1>2 DEF Log
  <2> HIDE DEF list
  <2>4. QED BY <2>1, <2>2, <2>3
<1>4. n \in mx..(mx + Len(list) - 1) /\ n <= Len(wal.frames)
  BY <1>1 DEF FrameStepAt
<1>5. k \in 1..Len(list) /\ n + 1 \in 1..(Len(wal.frames) + 1)
  <2> HIDE DEF n, mx, list
  <2>1. QED BY <1>3, <1>4
<1>6. pg \in Nat
  BY <1>3, <1>5
<1>7. f \in Frame /\ f.data = x
  BY <1>3, <1>6 DEF Frame
<1> HIDE DEF f
<1>8. wal' \in Log /\ wal'.salt = wal.salt /\ wal'.frames = PutFrame(wal.frames, n + 1, f)
  BY <1>1, <1>2, <1>3, <1>5, <1>7, PutFrameIs DEF Log
<1>9. Does(c, to, [call[c] EXCEPT !.iFrame = n + 1],
           [w[c] EXCEPT !.hdr = [w[c].hdr EXCEPT !.cksum = <<x, pg>>]], cached[c], mine[c])
  <2> HIDE DEF n, x, pg, to
  <2>1. w' = [w EXCEPT ![c] = [w[c] EXCEPT !.hdr = [w[c].hdr EXCEPT !.cksum = <<x, pg>>]]]
    BY <1>1 DEF WalTypeOK, WalObj, Hdr
  <2>2. QED BY <1>1, <2>1, SameUpdate DEF Does
<1>10. to \in {"frame", "framesync", "index"} /\ (to = "frame" <=> k # Len(list))
  OBVIOUS
<1>11. LET g == PutFrame(wal.frames, n + 1, f) IN
         /\ Len(g) >= Len(wal.frames) /\ Len(g) >= n + 1
         /\ Len(g) = Len(wal.frames) \/ Len(g) = n + 1
         /\ g[n + 1] = f
         /\ \A j \in 1..Len(g) : j # n + 1 => j <= Len(wal.frames) /\ g[j] = wal.frames[j]
  BY ZenonT(40), <1>3, <1>5, <1>7, PutFrameIs
<1> HIDE DEF to, k, pg
<1>12. QED BY <1>1, <1>5, <1>6, <1>7, <1>8, <1>9, <1>10, <1>11 DEF k

LEMMA AppendIndexDoes ==
  ASSUME WalTypeOK, LogBound, NEW c \in Conn, AppendIndex(c), FrameStepAt(c)
  PROVE  LET mx == w[c].hdr.mxFrame
             x  == call[c]
         IN
         /\ pc[c] = "index" /\ UNCHANGED <<lockVars, files, seed, env>>
         /\ mx + Len(x.list) <= MaxFrame
         /\ \E idx \in [1..MaxFrame -> Nat], h \in Hdr :
              /\ \A i \in 1..mx : idx[i] = shm.aPgno[i]
              /\ \A i \in 1..Len(x.list) : idx[mx + i] = x.list[i]
              /\ h.mxFrame = mx + Len(x.list)
              /\ h.cksum = w[c].hdr.cksum /\ h.salt = w[c].hdr.salt
              /\ \/ /\ x.nTruncate # 0 /\ h.isInit /\ h.nPage = x.nTruncate
                    /\ Does(c, "commit0", x, [w[c] EXCEPT !.hdr = h], cached[c], mine[c])
                    /\ Shm(H, h, shm.nBackfill, shm.aReadMark, idx)
                 \/ /\ x.nTruncate = 0
                    /\ h.isInit = w[c].hdr.isInit /\ h.nPage = w[c].hdr.nPage
                    /\ Does(c, "idle", NoCall, [w[c] EXCEPT !.hdr = h], cached[c], mine[c])
                    /\ Shm(H, shm.hdr[1], shm.nBackfill, shm.aReadMark, idx)
<1> DEFINE mx == w[c].hdr.mxFrame
           x  == call[c]
           n  == x.iFrame
           commit == x.nTruncate # 0
           h  == [w[c].hdr EXCEPT !.isInit = @ \/ commit, !.mxFrame = n,
                                  !.iChange = IF commit THEN @ + 1 ELSE @,
                                  !.nPage = IF commit THEN x.nTruncate ELSE @]
           idx == [i \in 1..MaxFrame |-> IF mx < i /\ i <= n THEN x.list[i - mx]
                                         ELSE IF i > n THEN 0 ELSE shm.aPgno[i]]
<1>1. /\ pc[c] = "index" /\ UNCHANGED <<lockVars, files, seed, env, cached, mine>>
      /\ w' = [w EXCEPT ![c].hdr = h]
      /\ shm' = [shm EXCEPT !.aPgno = idx, !.hdr[1] = IF commit THEN h ELSE @]
      /\ IF commit THEN Goto(c, "commit0") /\ UNCHANGED call ELSE Return(c)
  BY DEF AppendIndex, ghosts
<1>2. x \in Call /\ w[c] \in WalObj /\ w[c].hdr \in Hdr /\ shm \in Index /\ wal \in Log
  BY DEF WalTypeOK, WalObj
<1>3. /\ n \in Nat /\ mx \in Nat /\ x.list \in Seq(Nat \ {0}) /\ Len(x.list) \in Nat
      /\ x.nTruncate \in Nat /\ Len(wal.frames) \in Nat
  <2>1. n \in Nat /\ x.list \in Seq(Nat \ {0}) /\ x.nTruncate \in Nat
    BY <1>2 DEF Call
  <2>2. mx \in Nat
    BY <1>2 DEF Hdr
  <2>3. Len(x.list) \in Nat
    BY <2>1
  <2>4. Len(wal.frames) \in Nat
    BY <1>2 DEF Log
  <2>5. QED BY <2>1, <2>2, <2>3, <2>4
<1>4. n = mx + Len(x.list) /\ n <= MaxFrame /\ MaxFrame \in Nat
  <2>1. n = mx + Len(x.list) /\ n <= Len(wal.frames) /\ Len(wal.frames) <= MaxFrame
    BY <1>1 DEF FrameStepAt, LogBound
  <2>2. QED BY <1>3, <2>1, WalAssumption
<1>5. /\ h \in Hdr /\ h.mxFrame = n /\ h.cksum = w[c].hdr.cksum /\ h.salt = w[c].hdr.salt
      /\ commit => h.isInit /\ h.nPage = x.nTruncate
      /\ ~commit => h.isInit = w[c].hdr.isInit /\ h.nPage = w[c].hdr.nPage
  <2>1. n \in Nat /\ x.nTruncate \in Nat /\ w[c].hdr.iChange \in Nat
    BY <1>2, <1>3 DEF Hdr
  <2> DEFINE init   == w[c].hdr.isInit \/ commit
             change == IF commit THEN w[c].hdr.iChange + 1 ELSE w[c].hdr.iChange
             pages  == IF commit THEN x.nTruncate ELSE w[c].hdr.nPage
  <2>2. init \in BOOLEAN
    BY <1>2 DEF Hdr
  <2>3. change \in Nat
    BY <2>1
  <2>4. pages \in Nat
    BY <1>2, <2>1 DEF Hdr
  <2>5. h = [w[c].hdr EXCEPT !.isInit = init, !.mxFrame = n, !.iChange = change, !.nPage = pages]
    OBVIOUS
  <2>6. /\ commit => init /\ pages = x.nTruncate
        /\ ~commit => init = w[c].hdr.isInit /\ pages = w[c].hdr.nPage
    BY <1>2 DEF Hdr
  <2> HIDE DEF n, h, init, change, pages
  <2>7. h \in Hdr
    BY <1>2, <2>1, <2>2, <2>3, <2>4, <2>5 DEF Hdr
  <2>8. /\ h.mxFrame = n /\ h.cksum = w[c].hdr.cksum /\ h.salt = w[c].hdr.salt
        /\ h.isInit = init /\ h.nPage = pages
    BY <1>2, <2>5 DEF Hdr
  <2>9. QED BY <2>6, <2>7, <2>8
<1>6. idx \in [1..MaxFrame -> Nat]
  <2>1. shm.aPgno \in [1..MaxFrame -> Nat]
    BY <1>2 DEF Index
  <2> HIDE DEF n, mx
  <2>2. ASSUME NEW i \in 1..MaxFrame
        PROVE  (IF mx < i /\ i <= n THEN x.list[i - mx] ELSE IF i > n THEN 0 ELSE shm.aPgno[i]) \in Nat
    <3>1. CASE mx < i /\ i <= n
      <4>1. i - mx \in 1..Len(x.list)
        BY <1>3, <1>4, <3>1
      <4>2. x.list[i - mx] \in Nat
        BY <1>3, <4>1
      <4>3. QED BY <3>1, <4>2
    <3>2. CASE ~(mx < i /\ i <= n)
      BY <2>1, <3>2
    <3>3. QED BY <3>1, <3>2
  <2>3. QED BY <2>2
<1>7. /\ \A i \in 1..mx : idx[i] = shm.aPgno[i]
      /\ \A i \in 1..Len(x.list) : idx[mx + i] = x.list[i]
  <2> HIDE DEF n, mx
  <2>1. \A i \in 1..mx : i \in 1..MaxFrame /\ ~(mx < i) /\ ~(i > n)
    BY <1>3, <1>4
  <2>2. \A i \in 1..Len(x.list) : mx + i \in 1..MaxFrame /\ mx < mx + i /\ mx + i <= n /\ (mx + i) - mx = i
    BY <1>3, <1>4
  <2>3. QED BY <2>1, <2>2
<1> HIDE DEF h, idx
<1>8. w' = [w EXCEPT ![c] = [w[c] EXCEPT !.hdr = h]]
  BY <1>1 DEF WalTypeOK
<1>9. CASE commit
  <2>1. Does(c, "commit0", x, [w[c] EXCEPT !.hdr = h], cached[c], mine[c])
    BY <1>1, <1>8, <1>9, SameUpdate DEF Does, Goto
  <2>2. shm' = [shm EXCEPT !.aPgno = idx, !.hdr = [shm.hdr EXCEPT ![1] = h]]
    BY <1>1, <1>2, <1>9 DEF Index
  <2>3. shm.hdr \in [{0, 1} -> Hdr] /\ [shm.hdr EXCEPT ![1] = h] \in [{0, 1} -> Hdr]
    BY <1>2, <1>5 DEF Index
  <2>4. /\ shm' \in Index /\ shm'.hdr = [shm.hdr EXCEPT ![1] = h] /\ shm'.aPgno = idx
        /\ shm'.nBackfill = shm.nBackfill /\ shm'.aReadMark = shm.aReadMark
    BY <1>2, <1>6, <2>2, <2>3 DEF Index
  <2>5. Shm(H, h, shm.nBackfill, shm.aReadMark, idx)
    BY <2>3, <2>4 DEF Shm, H
  <2>6. QED BY <1>1, <1>4, <1>5, <1>6, <1>7, <1>9, <2>1, <2>5
<1>10. CASE ~commit
  <2>1. Does(c, "idle", NoCall, [w[c] EXCEPT !.hdr = h], cached[c], mine[c])
    BY <1>1, <1>8, <1>10, SameUpdate DEF Does, Goto, Return
  <2>2. shm' = [shm EXCEPT !.aPgno = idx]
    BY <1>1, <1>2, <1>10 DEF Index
  <2>3. Shm(H, shm.hdr[1], shm.nBackfill, shm.aReadMark, idx)
    BY <1>2, <1>6, <2>2 DEF Shm, H, Index
  <2>4. QED BY <1>1, <1>4, <1>5, <1>6, <1>7, <1>10, <2>1, <2>3
<1>11. QED BY <1>9, <1>10

LEMMA CommitHdr0Does ==
  ASSUME WalTypeOK, NEW c \in Conn, CommitHdr0(c)
  PROVE  /\ pc[c] = "commit0" /\ UNCHANGED <<files, seed, env>> /\ L!Unlock(c, {WRITE})
         /\ Does(c, "idle", NoCall, [w[c] EXCEPT !.svpt = None], mine[c], None)
         /\ Shm(w[c].hdr, shm.hdr[1], shm.nBackfill, shm.aReadMark, shm.aPgno)
<1>1. w[c].hdr \in Hdr /\ shm \in Index
  BY DEF WalTypeOK, WalObj
<1>2. shm' = [shm EXCEPT !.hdr[0] = w[c].hdr]
  BY DEF CommitHdr0
<1>3. Shm(w[c].hdr, shm.hdr[1], shm.nBackfill, shm.aReadMark, shm.aPgno)
  BY <1>1, <1>2 DEF Shm, Index
<1>4. QED BY <1>3 DEF CommitHdr0, Does, Return, Goto

LEMMA FramesFailDoes ==
  ASSUME WalTypeOK, Steady, NEW c \in Conn, FramesFail(c)
  PROVE  /\ pc[c] \in {"walhdr", "walhdrsync", "frame", "framesync"}
         /\ Moves(c, "failed") /\ UNCHANGED <<lockVars, shm, files, seed>> /\ EnvOK'
<1>1. EnvOK'
  BY BudgetOK DEF FramesFail, EnvOK, WalTypeOK, Steady
<1>2. QED BY <1>1, SameUpdate DEF FramesFail, Moves, Does, Goto

LEMMA RollbackDoes ==
  ASSUME WalTypeOK, NEW c \in Conn, Rollback(c)
  PROVE  /\ pc[c] \in {"idle", "failed"} /\ InWrite(c) /\ UNCHANGED <<files, seed, env>>
         /\ L!Unlock(c, {WRITE})
         /\ Does(c, "idle", NoCall, [w[c] EXCEPT !.hdr = H, !.svpt = None], cached[c], None)
         /\ Shm(H, shm.hdr[1], shm.nBackfill, shm.aReadMark, CleanUp(shm.aPgno, mxH))
<1>1. w[c] \in WalObj /\ shm \in Index /\ CleanUp(shm.aPgno, mxH) \in [1..MaxFrame -> Nat]
  BY CleanUpType DEF WalTypeOK, Index
<1>2. /\ shm' = [shm EXCEPT !.aPgno = CleanUp(shm.aPgno, mxH)]
      /\ w' = [w EXCEPT ![c].hdr = H, ![c].svpt = None]
  BY DEF Rollback, H, mxH
<1>3. w' = [w EXCEPT ![c] = [w[c] EXCEPT !.hdr = H, !.svpt = None]]
  BY <1>2 DEF WalTypeOK
<1>4. Shm(H, shm.hdr[1], shm.nBackfill, shm.aReadMark, CleanUp(shm.aPgno, mxH))
  BY <1>1, <1>2 DEF Shm, Index, H
<1>5. QED BY <1>3, <1>4, SameUpdate DEF Rollback, Does, Return, Goto

LEMMA CheckpointDoes ==
  ASSUME WalTypeOK, Steady, NEW c \in Conn, Checkpoint(c)
  PROVE  /\ pc[c] = "idle" /\ w[c].readLock < 0 /\ ~InWrite(c)
         /\ UNCHANGED <<shm, files, seed>> /\ EnvOK'
         /\ \/ /\ L!LockExclusive(c, {CKPT})
               /\ Calls(c, "hdr0", [NoCall EXCEPT !.mode = "passive"])
            \/ /\ L!LockExclusive(c, {CKPT, WRITE})
               /\ Calls(c, "hdr0", [NoCall EXCEPT !.mode = "full"])
<1>1. EnvOK'
  BY BudgetOK DEF Checkpoint, EnvOK, WalTypeOK, Steady
<1>2. QED BY <1>1, SameUpdate DEF Checkpoint, Calls, Does, Goto, ghosts

LEMMA CkStartDoes ==
  ASSUME WalTypeOK, NEW c \in Conn, CkStart(c), w[c].hdr.mxFrame <= MaxFrame
  PROVE  LET mx == w[c].hdr.mxFrame IN
         /\ pc[c] = "ckstart" /\ UNCHANGED lockVars /\ Quiet
         /\ \/ shm.nBackfill >= mx /\ Moves(c, "ckend")
            \/ \E todo \in SUBSET (Nat \X Nat) :
                 /\ shm.nBackfill < mx
                 /\ \A t \in todo : t[2] \in 1..mx /\ t[2] = LastFrame(shm.aPgno, mx, t[1])
                 /\ \A p \in Nat : LastFrame(shm.aPgno, mx, p) # 0 =>
                                     <<p, LastFrame(shm.aPgno, mx, p)>> \in todo
                 /\ Calls(c, "ckmark", [call[c] EXCEPT !.mxSafeFrame = mx, !.i = 1, !.todo = todo])
<1> DEFINE mx == w[c].hdr.mxFrame
           ff(p) == LastFrame(shm.aPgno, mx, p)
           todo == {<<shm.aPgno[k], k>> : k \in {f \in 1..mx : f = LastFrame(shm.aPgno, mx, shm.aPgno[f])}}
<1>1. pc[c] = "ckstart" /\ UNCHANGED lockVars /\ Quiet
  BY DEF CkStart, Quiet
<1>2. mx \in Nat /\ shm.nBackfill \in Nat /\ shm.aPgno \in [1..MaxFrame -> Nat] /\ MaxFrame \in Nat
  BY WalAssumption DEF WalTypeOK, WalObj, Hdr, Index
<1>3. CASE shm.nBackfill >= mx
  BY <1>1, <1>3, SameUpdate DEF CkStart, Moves, Does, Goto, ghosts
<1>4. CASE ~(shm.nBackfill >= mx)
  <2>1. \A k \in 1..mx : k \in 1..MaxFrame /\ k \in Nat /\ shm.aPgno[k] \in Nat
    BY <1>2
  <2>2. todo \in SUBSET (Nat \X Nat)
    BY <2>1
  <2>3. ASSUME NEW t \in todo PROVE t[2] \in 1..mx /\ t[2] = ff(t[1])
    <3>1. PICK k \in 1..mx : k = ff(shm.aPgno[k]) /\ t = <<shm.aPgno[k], k>>
      OBVIOUS
    <3>2. t[1] = shm.aPgno[k] /\ t[2] = k
      BY <3>1
    <3>3. QED BY <3>1, <3>2
  <2>4. ASSUME NEW p \in Nat, ff(p) # 0 PROVE <<p, ff(p)>> \in todo
    <3>1. ff(p) \in 1..mx /\ shm.aPgno[ff(p)] = p
      BY <1>2, <2>4, LastFrameIs
    <3> HIDE DEF mx
    <3>2. QED BY <3>1
  <2>5. /\ call' = [call EXCEPT ![c].mxSafeFrame = mx, ![c].i = 1, ![c].todo = todo]
        /\ pc' = [pc EXCEPT ![c] = "ckmark"] /\ UNCHANGED <<w, cached, mine>>
    BY <1>4 DEF CkStart, Goto, ghosts
  <2>6. call' = [call EXCEPT ![c] = [call[c] EXCEPT !.mxSafeFrame = mx, !.i = 1, !.todo = todo]]
    <3> HIDE DEF todo, mx
    <3>1. QED BY <2>5 DEF WalTypeOK
  <2>7. shm.nBackfill < mx
    BY <1>2, <1>4
  <2> HIDE DEF todo
  <2>8. Calls(c, "ckmark", [call[c] EXCEPT !.mxSafeFrame = mx, !.i = 1, !.todo = todo])
    <3> HIDE DEF mx
    <3>1. QED BY <2>5, <2>6, SameUpdate DEF Calls, Does
  <2>9. QED BY <1>1, <2>2, <2>3, <2>4, <2>7, <2>8
<1>5. QED BY <1>3, <1>4

LEMMA CkMarkDoes ==
  ASSUME WalTypeOK, NEW c \in Conn, CkMark(c), CkStepAt(c)
  PROVE  LET x == call[c] IN
         /\ pc[c] = "ckmark" /\ Quiet
         /\ \/ /\ x.i < NReader /\ L!LockExclusive(c, {READ(x.i)})
               /\ Moves(c, "ckput")
            \/ /\ x.i < NReader /\ UNCHANGED lockVars
               /\ \E s \in Nat :
                    /\ s <= x.mxSafeFrame /\ s <= shm.aReadMark[x.i]
                    /\ Calls(c, "ckmark", [x EXCEPT !.i = x.i + 1, !.mxSafeFrame = s])
            \/ /\ x.i = NReader /\ UNCHANGED lockVars
               /\ Moves(c, "cklock0")
<1> DEFINE x == call[c]
           y == shm.aReadMark[x.i]
           s == Min({x.mxSafeFrame, y})
<1>1. pc[c] = "ckmark" /\ Quiet /\ UNCHANGED <<w, cached, mine>>
  BY DEF CkMark, Quiet, ghosts
<1>2. x.mxSafeFrame \in Nat /\ shm.aReadMark \in [Readers -> Nat] /\ x.i \in 1..NReader
  BY <1>1 DEF WalTypeOK, Call, Index, CkStepAt, CkRunPc
<1>3. CASE x.i < NReader /\ L!LockExclusive(c, {READ(x.i)}) /\ Goto(c, "ckput") /\ UNCHANGED call
  BY <1>1, <1>3, SameUpdate DEF Moves, Does, Goto
<1>4. CASE /\ x.i < NReader
           /\ call' = [call EXCEPT ![c].i = x.i + 1, ![c].mxSafeFrame = Min({@, y})]
           /\ UNCHANGED <<lockVars, pc>>
  <2>1. y \in Nat
    BY <1>2, <1>4, WalAssumption DEF Readers
  <2>2. \E z \in {x.mxSafeFrame, y} : \A v \in {x.mxSafeFrame, y} : z <= v
    BY <1>2, <2>1, LeastIsIn, {x.mxSafeFrame, y} \subseteq Nat
  <2>3. s \in {x.mxSafeFrame, y} /\ s <= x.mxSafeFrame /\ s <= y
    BY <2>2 DEF Min
  <2>4. call' = [call EXCEPT ![c] = [x EXCEPT !.i = x.i + 1, !.mxSafeFrame = s]]
    BY <1>4 DEF WalTypeOK, Call
  <2> HIDE DEF s
  <2>5. Calls(c, "ckmark", [x EXCEPT !.i = x.i + 1, !.mxSafeFrame = s])
    BY <1>1, <1>4, <2>4, SameUpdate DEF Calls, Does
  <2>6. s \in Nat
    BY <1>2, <2>1, <2>3
  <2>7. QED BY <1>1, <1>4, <2>3, <2>5, <2>6
<1>5. CASE x.i = NReader /\ Goto(c, "cklock0") /\ UNCHANGED <<lockVars, call>>
  BY <1>1, <1>5, SameUpdate DEF Moves, Does, Goto
<1>6. QED BY <1>3, <1>4, <1>5 DEF CkMark

LEMMA CkPutDoes ==
  ASSUME WalTypeOK, NEW c \in Conn, CkPut(c), CkStepAt(c)
  PROVE  LET i == call[c].i IN
         /\ pc[c] = "ckput" /\ i \in 1..(NReader - 1) /\ UNCHANGED <<files, seed, env>>
         /\ L!Unlock(c, {READ(i)})
         /\ Calls(c, "ckmark", [call[c] EXCEPT !.i = i + 1])
         /\ \E m \in Nat : Shm(H, shm.hdr[1], shm.nBackfill, [shm.aReadMark EXCEPT ![i] = m], shm.aPgno)
<1> DEFINE i == call[c].i
           m == IF i = 1 THEN call[c].mxSafeFrame ELSE READMARK_NOT_USED
<1>1. pc[c] = "ckput" /\ UNCHANGED <<files, seed, env, w, cached, mine>>
  BY DEF CkPut, ghosts
<1>2. i \in 1..(NReader - 1)
  <2>1. i \in 1..NReader /\ i < NReader
    BY <1>1 DEF CkStepAt, CkRunPc
  <2>2. QED BY <2>1, WalAssumption
<1>3. m \in Nat
  BY WalAssumption DEF WalTypeOK, Call, READMARK_NOT_USED
<1>4. shm' = [shm EXCEPT !.aReadMark[i] = m] /\ shm \in Index
  BY DEF CkPut, WalTypeOK
<1> HIDE DEF m
<1>5. Shm(H, shm.hdr[1], shm.nBackfill, [shm.aReadMark EXCEPT ![i] = m], shm.aPgno)
  BY <1>3, <1>4 DEF Shm, H, Index
<1>6. Calls(c, "ckmark", [call[c] EXCEPT !.i = i + 1])
  BY <1>1, SameUpdate DEF CkPut, Calls, Does, Goto
<1>7. QED BY <1>1, <1>2, <1>3, <1>5, <1>6 DEF CkPut

LEMMA CkLock0Does ==
  ASSUME WalTypeOK, NEW c \in Conn, CkLock0(c)
  PROVE  /\ pc[c] = "cklock0" /\ Quiet
         /\ \/ /\ shm.nBackfill < call[c].mxSafeFrame /\ L!LockExclusive(c, {READ(0)})
               /\ Calls(c, "cksync", [call[c] EXCEPT !.nBackfill = shm.nBackfill])
            \/ UNCHANGED lockVars /\ Moves(c, "ckend")
BY SameUpdate DEF CkLock0, Calls, Moves, Does, Goto, ghosts, Quiet

LEMMA CkSyncDoes ==
  ASSUME WalTypeOK, NEW c \in Conn, CkSync(c)
  PROVE  /\ pc[c] = "cksync" /\ Moves(c, "ckpage")
         /\ walDisk' = wal /\ UNCHANGED <<lockVars, shm, wal, db, dbDisk, seed, env>>
BY SameUpdate DEF CkSync, Moves, Does, Goto

LEMMA ResizeIs ==
  ASSUME NEW file \in Seq(Int), NEW n \in Nat
  PROVE  /\ Resize(file, n) \in Seq(Int) /\ Len(Resize(file, n)) = n
         /\ \A p \in 1..n : Resize(file, n)[p] = IF p <= Len(file) THEN file[p] ELSE 0
<1>1. ASSUME NEW p \in 1..n PROVE (IF p <= Len(file) THEN file[p] ELSE 0) \in Int
  <2>1. p <= Len(file) => p \in 1..Len(file)
    OBVIOUS
  <2>2. QED BY <2>1
<1>2. Resize(file, n) \in [1..n -> Int]
  BY <1>1 DEF Resize
<1>3. QED BY <1>2 DEF Resize

LEMMA CkPageDoes ==
  ASSUME WalTypeOK, NEW c \in Conn, CkPage(c), CkStepAt(c), InLogAt(c)
  PROVE  /\ pc[c] = "ckpage" /\ UNCHANGED <<lockVars, shm, wal, walDisk, dbDisk, seed, env>>
         /\ \/ Backfills(c) = {} /\ db' = db /\ Moves(c, "cktrunc")
            \/ \E t \in Backfills(c) :
                 /\ db' \in Seq(Int) /\ Len(db') >= Len(db) /\ Len(db') >= t[1]
                 /\ \A p \in Nat \ {0} :
                      (IF p <= Len(db') THEN db'[p] ELSE 0)
                        = IF p = t[1] THEN wal.frames[t[2]].data
                          ELSE IF p <= Len(db) THEN db[p] ELSE 0
                 /\ Calls(c, "ckpage", [call[c] EXCEPT !.todo = call[c].todo \ {t}])
<1>1. pc[c] = "ckpage" /\ UNCHANGED <<lockVars, shm, wal, walDisk, dbDisk, seed, env, w, cached, mine>>
  BY DEF CkPage, ghosts
<1>2. CASE Backfills(c) = {} /\ Goto(c, "cktrunc") /\ UNCHANGED <<call, db>>
  BY <1>1, <1>2, SameUpdate DEF Moves, Does, Goto
<1>3. CASE \E t \in Backfills(c) :
             /\ db' = [Resize(db, Max({t[1], Len(db)})) EXCEPT ![t[1]] = wal.frames[t[2]].data]
             /\ call' = [call EXCEPT ![c].todo = @ \ {t}]
             /\ UNCHANGED pc
  <2>1. PICK t \in Backfills(c) :
             /\ db' = [Resize(db, Max({t[1], Len(db)})) EXCEPT ![t[1]] = wal.frames[t[2]].data]
             /\ call' = [call EXCEPT ![c].todo = @ \ {t}]
             /\ UNCHANGED pc
    BY <1>3
  <2> DEFINE g == t[1]
             x == wal.frames[t[2]].data
             n == Max({g, Len(db)})
             file == Resize(db, n)
  <2>2. g \in Nat /\ t[2] \in Nat /\ t[2] \in 1..w[c].hdr.mxFrame
    <3>1. t \in call[c].todo /\ call[c].todo \in SUBSET (Nat \X Nat)
      BY DEF Backfills, WalTypeOK, Call
    <3>2. QED BY <1>1, <3>1 DEF CkStepAt, CkRunPc, CkWritePc
  <2>3. x \in Int
    <3>1. w[c].hdr.mxFrame \in Nat
      BY DEF WalTypeOK, WalObj, Hdr
    <3>2. w[c].hdr.mxFrame <= Len(wal.frames) /\ wal.frames \in Seq(Frame)
      BY DEF InLogAt, WalTypeOK, Log
    <3>3. t[2] \in 1..Len(wal.frames)
      BY <2>2, <3>1, <3>2
    <3>4. wal.frames[t[2]] \in Frame
      BY <3>2, <3>3
    <3>5. QED BY <3>4 DEF Frame
  <2>4. db \in Seq(Int) /\ Len(db) \in Nat
    BY DEF WalTypeOK
  <2>5. n \in Nat /\ g <= n /\ Len(db) <= n
    BY <2>2, <2>4, MaxOfTwo
  <2>6. /\ file \in Seq(Int) /\ Len(file) = n
        /\ \A p \in 1..n : file[p] = IF p <= Len(db) THEN db[p] ELSE 0
    <3> HIDE DEF n
    <3>1. QED BY <2>4, <2>5, ResizeIs
  <2>7. db' = [file EXCEPT ![g] = x]
    BY <2>1
  <2> HIDE DEF g, x, n, file
  <2>8. db' \in Seq(Int) /\ Len(db') = n
    <3>1. CASE g \in 1..n
      BY <2>3, <2>6, <2>7, <3>1, ExceptSeq
    <3>2. CASE g \notin 1..n
      <4>1. db' = file
        BY <2>6, <2>7, <3>2
      <4>2. QED BY <2>6, <4>1
    <3>3. QED BY <3>1, <3>2
  <2>9. \A p \in 1..n : db'[p] = IF p = g THEN x ELSE file[p]
    BY <2>6, <2>7
  <2>10. ASSUME NEW p \in Nat \ {0}
         PROVE  (IF p <= n THEN db'[p] ELSE 0) = IF p = g THEN x ELSE IF p <= Len(db) THEN db[p] ELSE 0
    <3>1. CASE p <= n
      BY <2>6, <2>9, <3>1, <2>5
    <3>2. CASE ~(p <= n)
      BY <2>2, <2>4, <2>5, <3>2
    <3>3. QED BY <3>1, <3>2
  <2>11. Calls(c, "ckpage", [call[c] EXCEPT !.todo = call[c].todo \ {t}])
    <3>1. call' = [call EXCEPT ![c] = [call[c] EXCEPT !.todo = call[c].todo \ {t}]]
      BY <2>1
    <3>2. QED BY <1>1, <2>1, <3>1, SameUpdate DEF Calls, Does
  <2>12. QED BY <1>1, <2>1, <2>5, <2>8, <2>10, <2>11 DEF g, x
<1>4. QED BY <1>2, <1>3 DEF CkPage

LEMMA CkTruncDoes ==
  ASSUME WalTypeOK, NEW c \in Conn, CkTrunc(c)
  PROVE  /\ pc[c] = "cktrunc" /\ UNCHANGED <<lockVars, shm, wal, walDisk, dbDisk, seed, env>>
         /\ \/ /\ call[c].mxSafeFrame = mxH
               /\ db' \in Seq(Int) /\ Len(db') = w[c].hdr.nPage
               /\ \A p \in 1..w[c].hdr.nPage : db'[p] = IF p <= Len(db) THEN db[p] ELSE 0
               /\ Moves(c, "ckdbsync")
            \/ db' = db /\ Moves(c, "ckdone")
<1>1. /\ pc[c] = "cktrunc"
      /\ UNCHANGED <<lockVars, call, w, shm, wal, walDisk, dbDisk, seed, cached, mine, env>>
  BY DEF CkTrunc, ghosts
<1>2. w[c].hdr.nPage \in Nat /\ db \in Seq(Int)
  BY DEF WalTypeOK, WalObj, Hdr
<1>3. CASE call[c].mxSafeFrame = mxH
  BY SMTT(30), <1>1, <1>2, <1>3, ResizeIs, SameUpdate DEF CkTrunc, Moves, Does, Goto, mxH, H
<1>4. CASE call[c].mxSafeFrame # mxH
  BY <1>1, <1>4, SameUpdate DEF CkTrunc, Moves, Does, Goto, mxH, H
<1>5. QED BY <1>3, <1>4

LEMMA CkDbSyncDoes ==
  ASSUME WalTypeOK, NEW c \in Conn, CkDbSync(c)
  PROVE  /\ pc[c] = "ckdbsync" /\ Moves(c, "ckdone")
         /\ dbDisk' = db /\ UNCHANGED <<lockVars, shm, wal, walDisk, db, seed, env>>
BY SameUpdate DEF CkDbSync, Moves, Does, Goto, ghosts

LEMMA CkDoneDoes ==
  ASSUME WalTypeOK, NEW c \in Conn, CkDone(c)
  PROVE  /\ pc[c] = "ckdone" /\ Moves(c, "ckend") /\ UNCHANGED <<files, seed, env>>
         /\ L!Unlock(c, {READ(0)})
         /\ Shm(H, shm.hdr[1], call[c].mxSafeFrame, shm.aReadMark, shm.aPgno)
<1>1. call[c].mxSafeFrame \in Nat /\ shm \in Index /\ shm' = [shm EXCEPT !.nBackfill = call[c].mxSafeFrame]
  BY DEF CkDone, WalTypeOK, Call
<1>2. Shm(H, shm.hdr[1], call[c].mxSafeFrame, shm.aReadMark, shm.aPgno)
  BY <1>1 DEF Shm, H, Index
<1>3. QED BY <1>2, SameUpdate DEF CkDone, Moves, Does, Goto, ghosts

LEMMA CkEndDoes ==
  ASSUME WalTypeOK, NEW c \in Conn, CkEnd(c)
  PROVE  /\ pc[c] = "ckend" /\ call[c].mode # "close" /\ Quiet /\ L!Unlock(c, {WRITE, CKPT})
         /\ \/ Does(c, "idle", NoCall, [w[c] EXCEPT !.hdr = ZeroHdr], cached[c], mine[c])
            \/ ~call[c].changed /\ Returns(c)
<1>1. /\ pc[c] = "ckend" /\ call[c].mode # "close" /\ Quiet /\ L!Unlock(c, {WRITE, CKPT})
      /\ Return(c) /\ UNCHANGED <<cached, mine>>
      /\ w' = IF call[c].changed THEN [w EXCEPT ![c].hdr = ZeroHdr] ELSE w
  BY DEF CkEnd, ghosts, Quiet
<1>2. QED BY <1>1, SameUpdate DEF Returns, Does, Goto, Return

LEMMA CkFailsDoes ==
  ASSUME WalTypeOK, Steady, NEW c \in Conn, CkFails(c)
  PROVE  /\ pc[c] \in {"cksync", "ckpage", "cktrunc", "ckdbsync"}
         /\ UNCHANGED <<shm, files, seed>> /\ EnvOK' /\ L!Unlock(c, {READ(0)})
         /\ \/ call[c].mode = "close" /\ Calls(c, "closing", [call[c] EXCEPT !.mode = "passive"])
            \/ call[c].mode # "close" /\ Moves(c, "ckend")
<1>1. EnvOK'
  BY BudgetOK DEF CkFails, EnvOK, WalTypeOK, Steady
<1>2. /\ pc[c] \in {"cksync", "ckpage", "cktrunc", "ckdbsync"}
      /\ UNCHANGED <<shm, files, seed, w, cached, mine>> /\ L!Unlock(c, {READ(0)})
      /\ call' = [call EXCEPT ![c].mode = IF @ = "close" THEN "passive" ELSE @]
      /\ pc' = [pc EXCEPT ![c] = IF call[c].mode = "close" THEN "closing" ELSE "ckend"]
  BY DEF CkFails, Goto, ghosts
<1>3. CASE call[c].mode = "close"
  <2>1. call' = [call EXCEPT ![c] = [call[c] EXCEPT !.mode = "passive"]]
    BY <1>2, <1>3
  <2>2. QED BY <1>1, <1>2, <1>3, <2>1, SameUpdate DEF Calls, Does
<1>4. CASE call[c].mode # "close"
  <2>1. [call[c] EXCEPT !.mode = call[c].mode] = call[c]
    BY DEF WalTypeOK, Call
  <2>2. call' = [call EXCEPT ![c] = call[c]]
    BY <1>2, <1>4, <2>1
  <2>3. QED BY <1>1, <1>2, <1>4, <2>2, SameUpdate DEF Moves, Does
<1>5. QED BY <1>3, <1>4

Goes(c) == Does(c, "closed", NoCall, FreshWal, None, None) /\ L!Drop({c})

LEMMA CloseDoes ==
  ASSUME WalTypeOK, Steady, NEW c \in Conn, Close(c)
  PROVE  /\ pc[c] = "idle" /\ w[c].readLock < 0 /\ ~InWrite(c)
         /\ UNCHANGED <<shm, files, seed>> /\ EnvOK'
         /\ \/ Goes(c) /\ \E d \in Conn \ {c} : pc[d] # "closed"
            \/ /\ \A d \in Conn \ {c} : pc[d] = "closed"
               /\ L!LockExclusive(c, {CKPT})
               /\ Calls(c, "hdr0", [NoCall EXCEPT !.mode = "close"])
<1>1. EnvOK'
  BY BudgetOK DEF Close, EnvOK, WalTypeOK, Steady
<1>2. QED BY <1>1, SameUpdate DEF Close, Gone, Goes, Calls, Does, Goto

LEMMA FinishCloseDoes ==
  ASSUME WalTypeOK, NEW c \in Conn, FinishClose(c)
  PROVE  /\ Goes(c) /\ UNCHANGED <<shm, db, dbDisk, seed, env>>
         /\ \/ pc[c] = "ckend" /\ call[c].mode = "close" /\ wal' = EmptyLog /\ walDisk' = EmptyLog
            \/ pc[c] = "closing" /\ UNCHANGED <<wal, walDisk>>
BY DEF FinishClose, Gone, Goes, Does, Goto

\* What a loss of power leaves of a file has the length of what was written or of what was
\* synced, and holds nothing new.
LEMMA RemainsIs ==
  ASSUME NEW V, NEW old \in Seq(V), NEW new \in Seq(V), NEW bad \in V, NEW f \in Remains(old, new, bad)
  PROVE  /\ f \in Seq(V) /\ Len(f) \in {Len(old), Len(new)}
         /\ \A i \in 1..Len(f) : \/ i <= Len(old) /\ f[i] = old[i]
                                 \/ i <= Len(new) /\ f[i] = new[i]
                                 \/ f[i] = bad
<1> DEFINE n == Max({Len(old), Len(new)})
           At0(q, i) == IF i <= Len(q) THEN q[i] ELSE bad
<1>1. PICK m \in {Len(old), Len(new)},
           g \in [1..n -> {At0(old, i) : i \in 1..n} \cup {At0(new, i) : i \in 1..n} \cup {bad}] :
             /\ \A i \in 1..n : g[i] \in IF At0(old, i) = At0(new, i) THEN {At0(old, i)}
                                         ELSE {At0(old, i), At0(new, i), bad}
             /\ f = SubSeq(g, 1, m)
  <2> DEFINE G == {g \in [1..n -> {At0(old, i) : i \in 1..n} \cup {At0(new, i) : i \in 1..n} \cup {bad}] :
                     \A i \in 1..n : g[i] \in IF At0(old, i) = At0(new, i) THEN {At0(old, i)}
                                              ELSE {At0(old, i), At0(new, i), bad}}
  <2>1. Remains(old, new, bad) = {SubSeq(g, 1, m) : m \in {Len(old), Len(new)}, g \in G}
    BY DEF Remains
  <2>2. \E m \in {Len(old), Len(new)}, g \in G : f = SubSeq(g, 1, m)
    <3> HIDE DEF G
    <3>1. f \in {SubSeq(g, 1, m) : m \in {Len(old), Len(new)}, g \in G}
      BY <2>1
    <3>2. QED BY <3>1
  <2>3. QED BY <2>2
<1>2. Len(old) \in Nat /\ Len(new) \in Nat /\ n \in Nat /\ Len(old) <= n /\ Len(new) <= n
  BY MaxOfTwo
<1>3. m \in Nat /\ m <= n
  BY <1>1, <1>2
<1>4. \A i \in 1..n : g[i] \in {At0(old, i), At0(new, i), bad}
  BY <1>1
<1> HIDE DEF n
<1>5. ASSUME NEW i \in 1..n
      PROVE  /\ At0(old, i) \in V /\ At0(new, i) \in V
             /\ At0(old, i) # bad => i <= Len(old) /\ At0(old, i) = old[i]
             /\ At0(new, i) # bad => i <= Len(new) /\ At0(new, i) = new[i]
  <2>1. i <= Len(old) => i \in 1..Len(old)
    BY <1>2
  <2>2. i <= Len(new) => i \in 1..Len(new)
    BY <1>2
  <2>3. QED BY <2>1, <2>2
<1> HIDE DEF At0
<1>6. \A i \in 1..n : g[i] \in V
  BY <1>4, <1>5
<1>7. g \in Seq(V) /\ Len(g) = n
  BY SMTT(30), <1>1, <1>2, <1>6
<1>8. f \in Seq(V) /\ Len(f) = m /\ \A i \in 1..m : f[i] = g[i]
  BY <1>1, <1>2, <1>3, <1>7, SubSeqProperties, 1 \in 1..(Len(g) + 1), m \in (1 - 1)..Len(g)
<1>9. ASSUME NEW i \in 1..m PROVE \/ i <= Len(old) /\ f[i] = old[i]
                                  \/ i <= Len(new) /\ f[i] = new[i]
                                  \/ f[i] = bad
  <2>1. i \in 1..n
    BY <1>2, <1>3
  <2>2. f[i] \in {At0(old, i), At0(new, i), bad}
    BY <1>4, <1>8, <2>1
  <2>3. QED BY <1>5, <2>1, <2>2
<1>10. QED BY <1>1, <1>8, <1>9

LEMMA PowerLossDoes ==
  ASSUME WalTypeOK, Steady, LogBound, PowerLoss
  PROVE  /\ L!Drop(Conn) /\ EnvOK' /\ UNCHANGED seed /\ shm' = ZeroShm
         /\ pc' = [c \in Conn |-> "closed"] /\ call' = [c \in Conn |-> NoCall]
         /\ w' = [c \in Conn |-> FreshWal] /\ cached' = [c \in Conn |-> None]
         /\ mine' = [c \in Conn |-> None]
         /\ db' \in Seq(Int) /\ dbDisk' \in Seq(Int)
         /\ wal' \in Log /\ walDisk' = wal' /\ Len(wal'.frames) <= MaxFrame
         /\ wal'.salt \in {0, wal.salt, walDisk.salt}
         /\ \A i \in 1..Len(wal'.frames) :
              \/ wal'.frames[i].data = 0
              \/ i <= Len(wal.frames) /\ wal'.frames[i].data = wal.frames[i].data
              \/ i <= Len(walDisk.frames) /\ wal'.frames[i].data = walDisk.frames[i].data
<1>1. /\ L!Drop(Conn) /\ UNCHANGED seed /\ shm' = ZeroShm
      /\ pc' = [c \in Conn |-> "closed"] /\ call' = [c \in Conn |-> NoCall]
      /\ w' = [c \in Conn |-> FreshWal] /\ cached' = [c \in Conn |-> None]
      /\ mine' = [c \in Conn |-> None]
  BY DEF PowerLoss
<1>2. EnvOK'
  BY BudgetOK DEF PowerLoss, EnvOK, WalTypeOK, Steady
<1>3. db' \in Seq(Int) /\ dbDisk' \in Seq(Int)
  <2>1. PICK f \in Remains(dbDisk, db, -1) : db' = f /\ dbDisk' = f
    BY DEF PowerLoss
  <2>2. db \in Seq(Int) /\ dbDisk \in Seq(Int) /\ -1 \in Int
    BY DEF WalTypeOK
  <2>3. QED BY <2>1, <2>2, RemainsIs
<1>4. PICK f \in Remains(walDisk.frames, wal.frames, Torn), h \in {walDisk, wal, EmptyLog} :
        LET log == [salt |-> h.salt, nCkpt |-> h.nCkpt, frames |-> f]
        IN wal' = log /\ walDisk' = log
  BY DEF PowerLoss
<1>5. wal \in Log /\ walDisk \in Log /\ wal.frames \in Seq(Frame) /\ walDisk.frames \in Seq(Frame)
  BY DEF WalTypeOK, Log
<1>6. Torn \in Frame /\ Torn.data = 0
  BY DEF Torn, Frame, Pair
<1>7. /\ f \in Seq(Frame) /\ Len(f) \in {Len(walDisk.frames), Len(wal.frames)}
      /\ \A i \in 1..Len(f) : \/ i <= Len(walDisk.frames) /\ f[i] = walDisk.frames[i]
                              \/ i <= Len(wal.frames) /\ f[i] = wal.frames[i]
                              \/ f[i] = Torn
  BY SMTT(30), <1>5, <1>6, RemainsIs
<1>8. h.salt \in Nat /\ h.nCkpt \in Nat /\ h.salt \in {0, wal.salt, walDisk.salt}
  BY <1>5 DEF EmptyLog, Log
<1>9. wal' \in Log /\ walDisk' = wal' /\ wal'.frames = f /\ wal'.salt = h.salt
  BY <1>4, <1>7, <1>8 DEF Log
<1>10. Len(f) <= MaxFrame
  BY <1>7 DEF LogBound
<1>11. QED BY <1>1, <1>2, <1>3, <1>6, <1>7, <1>8, <1>9, <1>10
-----------------------------------------------------------------------------
(* Control and locks: Ctl is inductive *)

\* A request for locks of one connection.
LockStep(c) ==
  \/ UNCHANGED lockVars
  \/ \E s \in Slot : L!LockShared(c, s)
  \/ \E ss \in SUBSET Slot : L!LockExclusive(c, ss) \/ L!Unlock(c, ss)
  \/ L!Drop({c})

LEMMA LocksOK ==
  ASSUME WalTypeOK, Excluded, NEW c \in Conn, LockStep(c)
  PROVE  /\ sharedMask' \in [Conn -> SUBSET Slot] /\ exclMask' \in [Conn -> SUBSET Slot]
         /\ \A d \in Conn : d # c => sharedMask'[d] = sharedMask[d] /\ exclMask'[d] = exclMask[d]
         /\ Excluded'
<1>1. sharedMask \in [Conn -> SUBSET Slot] /\ exclMask \in [Conn -> SUBSET Slot]
  BY DEF WalTypeOK
<1>2. CASE UNCHANGED lockVars
  BY <1>1, <1>2 DEF lockVars, Excluded
<1>3. ASSUME NEW s \in Slot, L!LockShared(c, s)
      PROVE  /\ sharedMask' \in [Conn -> SUBSET Slot] /\ exclMask' \in [Conn -> SUBSET Slot]
             /\ \A d \in Conn : d # c => sharedMask'[d] = sharedMask[d] /\ exclMask'[d] = exclMask[d]
             /\ Excluded'
  BY <1>1, <1>3 DEF L!LockShared, L!CanShare, Excluded
<1>4. ASSUME NEW ss \in SUBSET Slot, L!LockExclusive(c, ss)
      PROVE  /\ sharedMask' \in [Conn -> SUBSET Slot] /\ exclMask' \in [Conn -> SUBSET Slot]
             /\ \A d \in Conn : d # c => sharedMask'[d] = sharedMask[d] /\ exclMask'[d] = exclMask[d]
             /\ Excluded'
  <2>1. sharedMask' = sharedMask /\ exclMask' = [exclMask EXCEPT ![c] = @ \cup ss]
    BY <1>4 DEF L!LockExclusive
  <2>2. \A d \in Conn : ss \cap (sharedMask[d] \cup exclMask[d]) = {}
    BY <1>4 DEF L!LockExclusive, L!CanExclude
  <2>3. QED BY <1>1, <2>1, <2>2 DEF Excluded
<1>5. ASSUME NEW ss \in SUBSET Slot, L!Unlock(c, ss)
      PROVE  /\ sharedMask' \in [Conn -> SUBSET Slot] /\ exclMask' \in [Conn -> SUBSET Slot]
             /\ \A d \in Conn : d # c => sharedMask'[d] = sharedMask[d] /\ exclMask'[d] = exclMask[d]
             /\ Excluded'
  <2>1. /\ sharedMask' = [sharedMask EXCEPT ![c] = @ \ ss]
        /\ exclMask' = [exclMask EXCEPT ![c] = @ \ ss]
    BY <1>5 DEF L!Unlock
  <2>2. QED BY <1>1, <2>1 DEF Excluded
<1>6. CASE L!Drop({c})
  <2>1. /\ sharedMask' = [d \in Conn |-> IF d \in {c} THEN {} ELSE sharedMask[d]]
        /\ exclMask' = [d \in Conn |-> IF d \in {c} THEN {} ELSE exclMask[d]]
    BY <1>6 DEF L!Drop
  <2>2. QED BY <1>1, <2>1 DEF Excluded
<1>7. QED BY <1>2, <1>3, <1>4, <1>5, <1>6 DEF LockStep

LEMMA DoesIs ==
  ASSUME WalTypeOK, NEW c \in Conn, NEW to, NEW k, NEW o, NEW ca, NEW mi, Does(c, to, k, o, ca, mi)
  PROVE  /\ pc'[c] = to /\ call'[c] = k /\ w'[c] = o /\ cached'[c] = ca /\ mine'[c] = mi
         /\ \A d \in Conn : d # c => /\ pc'[d] = pc[d] /\ call'[d] = call[d] /\ w'[d] = w[d]
                                     /\ cached'[d] = cached[d] /\ mine'[d] = mine[d]
BY DEF WalTypeOK, Does

LEMMA DoesType ==
  ASSUME WalTypeOK, NEW c \in Conn, NEW to \in WalPc, NEW k \in Call, NEW o \in WalObj,
         NEW ca \in Image, NEW mi \in Image, Does(c, to, k, o, ca, mi)
  PROVE  /\ pc' \in [Conn -> WalPc] /\ call' \in [Conn -> Call] /\ w' \in [Conn -> WalObj]
         /\ cached' \in [Conn -> Image] /\ mine' \in [Conn -> Image]
BY DEF WalTypeOK, Does

\* The files after a step: the log is no shorter, or everybody else is gone.
FilesOK(c) ==
  /\ shm' \in Index /\ wal' \in Log /\ walDisk' \in Log
  /\ db' \in Seq(Int) /\ dbDisk' \in Seq(Int) /\ seed' \in Nat \ {0} /\ EnvOK'
  /\ LogBound' /\ \A i \in {0, 1} : shm'.hdr[i].mxFrame <= Len(wal'.frames)
  /\ Len(wal'.frames) >= Len(wal.frames)

\* A step of one connection keeps Ctl if it keeps its own part.
LEMMA CtlStep ==
  ASSUME Ctl, NEW c \in Conn, NEW to \in WalPc, NEW k \in Call, NEW o \in WalObj,
         NEW ca \in Image, NEW mi \in Image, Does(c, to, k, o, ca, mi),
         LockStep(c), FilesOK(c), pc[c] # "closed",
         k.mode = "close" => call[c].mode = "close" \/ \A d \in Conn \ {c} : pc[d] = "closed",
         CtlAt(c)'
  PROVE  Ctl'
<1>1. WalTypeOK /\ Excluded /\ ClosesAlone /\ \A d \in Conn : CtlAt(d)
  BY DEF Ctl
<1>2. WalTypeOK' /\ Steady'
  BY <1>1, DoesType, LocksOK DEF WalTypeOK, FilesOK, EnvOK
<1>3. Excluded'
  BY <1>1, LocksOK
<1>4. /\ pc'[c] = to /\ call'[c] = k
      /\ \A d \in Conn : d # c => /\ pc'[d] = pc[d] /\ call'[d] = call[d] /\ w'[d] = w[d]
                                  /\ cached'[d] = cached[d] /\ mine'[d] = mine[d]
  BY <1>1, DoesIs
<1>5. ClosesAlone'
  BY <1>1, <1>4 DEF ClosesAlone
<1>6. ASSUME NEW d \in Conn, d # c PROVE CtlAt(d)'
  <2>1. /\ pc'[d] = pc[d] /\ call'[d] = call[d] /\ w'[d] = w[d] /\ cached'[d] = cached[d]
        /\ mine'[d] = mine[d] /\ sharedMask'[d] = sharedMask[d] /\ exclMask'[d] = exclMask[d]
    BY <1>1, <1>4, <1>6, LocksOK
  <2>2. Len(wal'.frames) >= Len(wal.frames) /\ Len(wal.frames) \in Nat /\ Len(wal'.frames) \in Nat
    BY SMTT(30), <1>1 DEF FilesOK, WalTypeOK, Log
  <2>3. ModeAt(d)' /\ TransAt(d)' /\ MarkStepAt(d)' /\ CkStepAt(d)' /\ LocksAt(d)'
    BY <1>1, <2>1 DEF CtlAt, ModeAt, TransAt, MarkStepAt, CkStepAt, LocksAt, InWrite
  <2>4. InLogAt(d)'
    <3>1. /\ w[d].hdr.mxFrame \in Nat /\ call[d].h1.mxFrame \in Nat
          /\ w[d].svpt # None => w[d].svpt.mxFrame \in Nat
      BY ZenonT(40), <1>1 DEF WalTypeOK, WalObj, Hdr, Call, Svpt
    <3>2. QED BY <1>1, <2>1, <2>2, <3>1 DEF CtlAt, InLogAt
  <2>5. FrameStepAt(d)'
    <3>1. FrameStepAt(d) /\ call[d].iFrame \in Nat
      BY <1>1 DEF CtlAt, WalTypeOK, Call
    <3>2. call[d].iFrame <= Len(wal.frames) => call[d].iFrame <= Len(wal'.frames)
      BY <2>2, <3>1
    <3>3. QED BY <2>1, <3>1, <3>2 DEF FrameStepAt
  <2>6. QED BY <2>3, <2>4, <2>5 DEF CtlAt
<1>7. IndexInLog' /\ LogBound'
  BY DEF IndexInLog, FilesOK
<1>8. QED BY <1>2, <1>3, <1>5, <1>6, <1>7 DEF Ctl

LEMMA OwnLocks ==
  ASSUME WalTypeOK, NEW c \in Conn
  PROVE  /\ UNCHANGED lockVars => sharedMask'[c] = sharedMask[c] /\ exclMask'[c] = exclMask[c]
         /\ \A s : L!LockShared(c, s) => /\ sharedMask'[c] = sharedMask[c] \cup {s}
                                         /\ exclMask'[c] = exclMask[c]
         /\ \A ss : L!LockExclusive(c, ss) => /\ sharedMask'[c] = sharedMask[c]
                                              /\ exclMask'[c] = exclMask[c] \cup ss
         /\ \A ss : L!Unlock(c, ss) => /\ sharedMask'[c] = sharedMask[c] \ ss
                                       /\ exclMask'[c] = exclMask[c] \ ss
         /\ L!Drop({c}) => sharedMask'[c] = {} /\ exclMask'[c] = {}
<1>1. sharedMask \in [Conn -> SUBSET Slot] /\ exclMask \in [Conn -> SUBSET Slot]
  BY DEF WalTypeOK
<1>2. QED BY <1>1 DEF lockVars, L!LockShared, L!LockExclusive, L!Unlock, L!Drop

\* A lock that is not given up is kept.
LEMMA KeepsLock ==
  ASSUME WalTypeOK, NEW c \in Conn, NEW s, NEW ss, s \notin ss, L!Unlock(c, ss) \/ UNCHANGED lockVars
  PROVE  s \in exclMask[c] => s \in exclMask'[c]
<1>1. CASE L!Unlock(c, ss)
  <2>1. exclMask'[c] = exclMask[c] \ ss
    BY <1>1, OwnLocks
  <2>2. QED BY <2>1
<1>2. CASE UNCHANGED lockVars
  BY <1>2, OwnLocks
<1>3. QED BY <1>1, <1>2

LEMMA Types ==
  ASSUME WalTypeOK, NEW c \in Conn
  PROVE  /\ call[c] \in Call /\ w[c] \in WalObj /\ cached[c] \in Image /\ mine[c] \in Image
         /\ call[c].h1 \in Hdr /\ w[c].hdr \in Hdr /\ H \in Hdr /\ shm.hdr[1] \in Hdr /\ shm \in Index
         /\ pc[c] \in WalPc /\ pc \in [Conn -> WalPc]
BY DEF WalTypeOK, Call, WalObj, Index, H

LEMMA Blanks ==
  ZeroHdr \in Hdr /\ NoCall \in Call /\ FreshWal \in WalObj /\ None \in Image /\ ZeroShm \in Index
  /\ EmptyLog \in Log
<1>1. ZeroHdr \in Hdr
  BY DEF ZeroHdr, Hdr, Pair
<1>2. 0 \in Readers /\ 1 \in Nat /\ -1 \in (-1)..(NReader - 1) /\ None \in Image
  BY WalAssumption DEF Readers, Image
<1>3. NoCall \in Call
  <2>1. {} \in SUBSET (Nat \X Nat) /\ <<>> \in Seq(Nat \ {0})
    OBVIOUS
  <2>2. QED BY <1>1, <1>2, <2>1 DEF NoCall, Call, CkMode
<1>4. FreshWal \in WalObj
  BY <1>1, <1>2 DEF FreshWal, WalObj
<1>5. ZeroShm \in Index
  BY <1>1 DEF ZeroShm, Index
<1>6. EmptyLog \in Log
  BY DEF EmptyLog, Log
<1>7. QED BY <1>1, <1>2, <1>3, <1>4, <1>5, <1>6

\* Steps that change no file, and steps that change the wal-index.
LEMMA QuietFiles ==
  ASSUME Ctl, NEW c \in Conn, pc[c] # "closed", UNCHANGED <<shm, files, seed>>, EnvOK' \/ UNCHANGED env
  PROVE  FilesOK(c)
<1>1. WalTypeOK /\ Steady /\ LogBound /\ \A i \in {0, 1} : shm.hdr[i].mxFrame <= Len(wal.frames)
  BY DEF Ctl, IndexInLog
<1>2. EnvOK'
  BY <1>1 DEF EnvOK, Steady, WalTypeOK
<1>3. Len(wal.frames) \in Nat
  BY <1>1 DEF WalTypeOK, Log
<1>4. QED BY <1>1, <1>2, <1>3 DEF FilesOK, WalTypeOK, LogBound, files

LEMMA ShmFiles ==
  ASSUME Ctl, NEW c \in Conn, pc[c] # "closed", UNCHANGED <<files, seed, env>>,
         NEW h0, NEW h1, NEW nb, NEW marks, NEW idx, Shm(h0, h1, nb, marks, idx),
         h0.mxFrame <= Len(wal.frames), h1.mxFrame <= Len(wal.frames)
  PROVE  FilesOK(c)
<1>1. WalTypeOK /\ Steady /\ LogBound
  BY DEF Ctl
<1>2. EnvOK'
  BY <1>1 DEF EnvOK, Steady, WalTypeOK
<1>3. Len(wal.frames) \in Nat
  BY <1>1 DEF WalTypeOK, Log
<1>4. shm' \in Index /\ \A i \in {0, 1} : shm'.hdr[i].mxFrame <= Len(wal.frames)
  BY DEF Shm
<1>5. QED BY <1>1, <1>2, <1>3, <1>4 DEF FilesOK, WalTypeOK, LogBound, files

LEMMA IndexBound ==
  ASSUME Ctl, NEW c \in Conn, pc[c] # "closed"
  PROVE  mxH <= Len(wal.frames) /\ shm.hdr[1].mxFrame <= Len(wal.frames)
BY DEF Ctl, IndexInLog, mxH, H

LEMMA OpenCtl == ASSUME Ctl, NEW c \in Conn, Open(c) PROVE Ctl'
<1>1. /\ WalTypeOK /\ Steady /\ Excluded /\ ClosesAlone /\ IndexInLog /\ LogBound
      /\ \A d \in Conn : CtlAt(d)
  BY DEF Ctl
<1>2. /\ pc[c] = "closed" /\ \A d \in Conn : call[d].mode # "close"
      /\ Does(c, "idle", call[c], FreshWal, cached[c], mine[c])
      /\ shm' = IF \A d \in Conn : pc[d] = "closed" THEN ZeroShm ELSE shm
      /\ UNCHANGED <<lockVars, files, seed, env>>
  BY <1>1, OpenDoes
<1>3. w[c] = FreshWal /\ cached[c] = None /\ mine[c] = None /\ call[c] = NoCall
  BY <1>1, <1>2 DEF CtlAt, TransAt, ModeAt
<1>4. call' = call /\ w' = w /\ cached' = cached /\ mine' = mine
  BY <1>1, <1>2, <1>3, SameUpdate DEF Does
<1>5. pc' = [pc EXCEPT ![c] = "idle"] /\ pc' \in [Conn -> WalPc] /\ shm' \in Index
  BY <1>1, <1>2, Blanks DEF Does, WalTypeOK, WalPc
<1>6. WalTypeOK' /\ Steady' /\ Excluded' /\ LogBound'
  BY <1>1, <1>2, <1>4, <1>5 DEF WalTypeOK, Steady, Excluded, LogBound, lockVars, files
<1>7. ClosesAlone'
  BY <1>2, <1>4 DEF ClosesAlone
<1>8. IndexInLog'
  <2>1. Len(wal.frames) \in Nat
    BY <1>1 DEF WalTypeOK, Log
  <2>2. CASE \A d \in Conn : pc[d] = "closed"
    <3>1. \A i \in {0, 1} : shm'.hdr[i].mxFrame = 0
      BY <1>2, <2>2 DEF ZeroShm, ZeroHdr
    <3>2. QED BY <1>2, <2>1, <3>1 DEF IndexInLog, files
  <2>3. CASE ~\A d \in Conn : pc[d] = "closed"
    BY <1>1, <1>2, <2>3 DEF IndexInLog, files
  <2>4. QED BY <2>2, <2>3
<1>9. ASSUME NEW d \in Conn, d # c PROVE CtlAt(d)'
  <2>1. CtlAt(d) /\ pc'[d] = pc[d]
    BY <1>1, <1>5, <1>9 DEF WalTypeOK
  <2>2. QED BY <1>2, <1>4, <2>1 DEF CtlAt, ModeAt, TransAt, MarkStepAt, CkStepAt, LocksAt, InWrite,
                                    FrameStepAt, InLogAt, lockVars, files
<1>10. CtlAt(c)'
  <2>1. pc'[c] = "idle" /\ call'[c] = NoCall /\ w'[c] = FreshWal /\ mine'[c] = None
    BY <1>1, <1>3, <1>4, <1>5 DEF WalTypeOK
  <2>2. Len(wal'.frames) \in Nat
    BY <1>1, <1>2 DEF WalTypeOK, Log, files
  <2>3. QED BY <2>1, <2>2 DEF CtlAt, ModeAt, TransAt, MarkStepAt, CkStepAt, LocksAt, InWrite,
             FrameStepAt, InLogAt, FreshWal, NoCall, ZeroHdr, HdrPc, RecoverPc, MarkPc, WritePc,
             RestartPc, FramePc, CkPc, CkRunPc, CkWritePc, CkMode
<1>11. QED BY <1>6, <1>7, <1>8, <1>9, <1>10 DEF Ctl

LEMMA BeginReadCtl == ASSUME Ctl, NEW c \in Conn, BeginRead(c) PROVE Ctl'
<1> DEFINE k == [NoCall EXCEPT !.mode = "read"]
<1>1. WalTypeOK /\ Steady /\ CtlAt(c)
  BY DEF Ctl
<1>2. /\ pc[c] = "idle" /\ w[c].readLock < 0 /\ Does(c, "hdr0", k, w[c], cached[c], mine[c])
      /\ UNCHANGED <<lockVars, shm, files, seed>> /\ EnvOK'
  BY <1>1, BeginReadDoes DEF Calls
<1>3. k \in Call /\ k.mode = "read" /\ k.h1.mxFrame = 0 /\ k.list = <<>>
  BY Blanks DEF NoCall, Call, ZeroHdr
<1> HIDE DEF k
<1>4. FilesOK(c) /\ LockStep(c)
  BY <1>2, QuietFiles DEF LockStep
<1>5. CtlAt(c)'
  <2>1. /\ pc'[c] = "hdr0" /\ call'[c] = k /\ w'[c] = w[c] /\ mine'[c] = mine[c]
        /\ sharedMask'[c] = sharedMask[c] /\ exclMask'[c] = exclMask[c] /\ wal' = wal
        /\ Len(wal.frames) \in Nat
    <3>1. pc'[c] = "hdr0" /\ call'[c] = k /\ w'[c] = w[c] /\ mine'[c] = mine[c]
      BY <1>1, <1>2, DoesIs
    <3>2. sharedMask'[c] = sharedMask[c] /\ exclMask'[c] = exclMask[c]
      BY <1>1, <1>2, OwnLocks
    <3>3. wal' = wal /\ Len(wal.frames) \in Nat
      BY <1>1, <1>2 DEF files, WalTypeOK, Log
    <3>4. QED BY <3>1, <3>2, <3>3
  <2>2. w[c].readLock = -1 /\ ~InWrite(c)
    BY <1>1, <1>2 DEF WalTypeOK, WalObj, CtlAt, TransAt
  <2>3. QED BY <1>1, <1>2, <1>3, <2>1, <2>2 DEF CtlAt, ModeAt, TransAt, MarkStepAt, CkStepAt, LocksAt, InWrite,
             FrameStepAt, InLogAt, HdrPc, RecoverPc, MarkPc, WritePc,
             RestartPc, FramePc, CkPc, CkRunPc, CkWritePc, CkMode
<1>6. QED BY <1>1, <1>2, <1>3, <1>4, <1>5, Types, CtlStep DEF WalPc, HdrPc

LEMMA ReadHdr0Ctl == ASSUME Ctl, NEW c \in Conn, ReadHdr0(c) PROVE Ctl'
<1> DEFINE k == [call[c] EXCEPT !.h1 = H]
<1>1. WalTypeOK /\ Steady /\ CtlAt(c)
  BY DEF Ctl
<1>2. /\ pc[c] = "hdr0" /\ Does(c, "hdr1", k, w[c], cached[c], mine[c])
      /\ UNCHANGED lockVars /\ Quiet
  BY <1>1, ReadHdr0Does DEF Calls
<1>3. k \in Call /\ k.mode = call[c].mode /\ k.h1.mxFrame <= Len(wal.frames)
  BY <1>1, <1>2, Types, IndexBound DEF Call, mxH
<1> HIDE DEF k
<1>4. FilesOK(c) /\ LockStep(c)
  BY <1>2, QuietFiles DEF LockStep, Quiet
<1>5. CtlAt(c)'
  <2>1. /\ pc'[c] = "hdr1" /\ call'[c] = k /\ w'[c] = w[c] /\ mine'[c] = mine[c]
        /\ sharedMask'[c] = sharedMask[c] /\ exclMask'[c] = exclMask[c] /\ wal' = wal
    <3>1. pc'[c] = "hdr1" /\ call'[c] = k /\ w'[c] = w[c] /\ mine'[c] = mine[c]
      BY <1>1, <1>2, DoesIs
    <3>2. sharedMask'[c] = sharedMask[c] /\ exclMask'[c] = exclMask[c]
      BY <1>1, <1>2, OwnLocks
    <3>3. wal' = wal
      BY <1>1, <1>2 DEF files, Quiet
    <3>4. QED BY <3>1, <3>2, <3>3
  <2>2. QED BY <1>1, <1>2, <1>3, <2>1
            DEF CtlAt, ModeAt, TransAt, MarkStepAt, CkStepAt, LocksAt, InWrite,
                FrameStepAt, InLogAt, HdrPc, RecoverPc, MarkPc, WritePc, RestartPc, FramePc, CkPc,
                CkRunPc, CkWritePc, CkMode
<1>6. QED BY <1>1, <1>2, <1>3, <1>4, <1>5, Types, CtlStep DEF WalPc, HdrPc

LEMMA AdoptsCtl ==
  ASSUME Ctl, NEW c \in Conn, pc[c] \in {"hdr1", "hdragain"}, Quiet,
         UNCHANGED lockVars \/ L!Unlock(c, {WRITE}),
         NEW h \in Hdr, h.mxFrame <= Len(wal.frames), Adopts(c, h)
  PROVE  Ctl'
<1> DEFINE k == [call[c] EXCEPT !.changed = @ \/ w[c].hdr # h]
           o == [w[c] EXCEPT !.hdr = h]
           to == AfterHdr(c)
<1>1. WalTypeOK /\ Steady /\ CtlAt(c)
  BY DEF Ctl
<1>2. Does(c, to, k, o, cached[c], mine[c])
  BY DEF Adopts
<1>3. to = IF call[c].mode = "read" THEN "nbackfill" ELSE "ckstart"
  BY DEF AfterHdr
<1>4. k \in Call /\ k.mode = call[c].mode /\ k.h1 = call[c].h1
  BY <1>1, Types DEF Call
<1>5. o \in WalObj /\ o.hdr = h /\ o.svpt = w[c].svpt /\ o.readLock = w[c].readLock
  BY <1>1, Types DEF WalObj
<1> HIDE DEF k, o, to
<1>6. FilesOK(c) /\ LockStep(c)
  BY Slots, QuietFiles DEF LockStep, Quiet
<1>7. CtlAt(c)'
  <2>1. /\ pc'[c] = to /\ call'[c] = k /\ w'[c] = o /\ mine'[c] = mine[c] /\ wal' = wal
        /\ CKPT \in exclMask[c] => CKPT \in exclMask'[c]
    <3>1. pc'[c] = to /\ call'[c] = k /\ w'[c] = o /\ mine'[c] = mine[c]
      BY <1>1, <1>2, DoesIs
    <3>2. CKPT \in exclMask[c] => CKPT \in exclMask'[c]
      <4>1. CKPT \notin {WRITE}
        BY Slots
      <4>2. QED BY <1>1, <4>1, KeepsLock
    <3>3. wal' = wal
      BY <1>1, <1>2, Slots DEF files, Quiet
    <3>4. QED BY <3>1, <3>2, <3>3
  <2>2. call[c].mode # "write" /\ ~InWrite(c) /\ w[c].readLock = -1 /\ w[c].svpt = None
    BY <1>1 DEF CtlAt, ModeAt, TransAt, MarkStepAt, CkStepAt, LocksAt, InWrite,
                FrameStepAt, InLogAt, HdrPc, RecoverPc, MarkPc, WritePc, RestartPc, FramePc, CkPc,
                CkRunPc, CkWritePc, CkMode
  <2>3. k.mode \in {"read"} \cup CkMode
    BY <1>1, <1>4, <2>2, Types DEF Call
  <2>4. QED BY <1>1, <1>3, <1>4, <1>5, <2>1, <2>2, <2>3
            DEF CtlAt, ModeAt, TransAt, MarkStepAt, CkStepAt, LocksAt, InWrite,
                FrameStepAt, InLogAt, HdrPc, RecoverPc, MarkPc, WritePc, RestartPc, FramePc, CkPc,
                CkRunPc, CkWritePc, CkMode
<1>8. to \in WalPc
  BY <1>3 DEF WalPc, CkPc
<1>9. QED BY <1>1, <1>2, <1>4, <1>5, <1>6, <1>7, <1>8, Types, CtlStep

\* A step that only moves the connection on.
LEMMA MovesCtl ==
  ASSUME Ctl, NEW c \in Conn, pc[c] # "closed", NEW to \in WalPc, Moves(c, to),
         LockStep(c), FilesOK(c), CtlAt(c)'
  PROVE  Ctl'
BY Types, CtlStep DEF Ctl, Moves

LEMMA MovesIs ==
  ASSUME WalTypeOK, NEW c \in Conn, NEW to, Moves(c, to)
  PROVE  /\ pc'[c] = to /\ call'[c] = call[c] /\ w'[c] = w[c]
         /\ cached'[c] = cached[c] /\ mine'[c] = mine[c]
         /\ pc' = [pc EXCEPT ![c] = to] /\ UNCHANGED <<call, w, cached, mine>>
<1>1. /\ pc'[c] = to /\ call'[c] = call[c] /\ w'[c] = w[c]
      /\ cached'[c] = cached[c] /\ mine'[c] = mine[c]
  BY DoesIs DEF Moves
<1>2. pc' = [pc EXCEPT ![c] = to] /\ UNCHANGED <<call, w, cached, mine>>
  BY SameUpdate DEF Moves, Does
<1>3. QED BY <1>1, <1>2

\* The Wal object with another read lock.
LEMMA ReadLockIs ==
  ASSUME NEW x \in WalObj, NEW m \in (-1)..(NReader - 1)
  PROVE  LET o == [x EXCEPT !.readLock = m] IN
         o \in WalObj /\ o.hdr = x.hdr /\ o.svpt = x.svpt /\ o.nCkpt = x.nCkpt /\ o.readLock = m
<1> DEFINE o == [x EXCEPT !.readLock = m]
<1>1. o.hdr = x.hdr /\ o.svpt = x.svpt /\ o.nCkpt = x.nCkpt /\ o.readLock = m
  BY DEF WalObj
<1>2. o \in WalObj
  BY DEF WalObj
<1>3. QED BY <1>1, <1>2

LEMMA NoReadLock == -1 \in (-1)..(NReader - 1)
BY WalAssumption

LEMMA RefusedCtl ==
  ASSUME Ctl, NEW c \in Conn, pc[c] \in {"hdrlock", "hdragain"}, Quiet,
         UNCHANGED lockVars \/ L!Unlock(c, {WRITE}), Refused(c)
  PROVE  Ctl'
<1>1. WalTypeOK /\ Steady /\ CtlAt(c)
  BY DEF Ctl
<1>2. FilesOK(c) /\ LockStep(c)
  BY Slots, QuietFiles DEF LockStep, Quiet
<1>3. /\ wal' = wal /\ Len(wal.frames) \in Nat
      /\ CKPT \in exclMask[c] => CKPT \in exclMask'[c]
  <2>1. CKPT \notin {WRITE}
    BY Slots
  <2>2. CKPT \in exclMask[c] => CKPT \in exclMask'[c]
    BY <1>1, <2>1, KeepsLock
  <2>3. QED BY <1>1, <2>2 DEF files, Quiet, WalTypeOK, Log
<1>4. call[c].mode # "write" /\ ~InWrite(c) /\ w[c].readLock = -1 /\ w[c].svpt = None
  BY <1>1 DEF CtlAt, ModeAt, TransAt, MarkStepAt, CkStepAt, LocksAt, InWrite,
              FrameStepAt, InLogAt, HdrPc, RecoverPc, MarkPc, WritePc, RestartPc, FramePc, CkPc,
              CkRunPc, CkWritePc, CkMode
<1>5. CASE call[c].mode # "read" /\ Moves(c, "ckend")
  <2>1. call[c].mode \in CkMode
    BY <1>1, <1>4, <1>5, Types DEF Call
  <2>2. CtlAt(c)'
    BY <1>1, <1>3, <1>4, <1>5, <2>1, MovesIs
       DEF CtlAt, ModeAt, TransAt, MarkStepAt, CkStepAt, LocksAt, InWrite,
           FrameStepAt, InLogAt, HdrPc, RecoverPc, MarkPc, WritePc, RestartPc, FramePc, CkPc,
           CkRunPc, CkWritePc, CkMode
  <2>3. QED BY <1>2, <1>5, <2>2, MovesCtl DEF WalPc, CkPc
<1>6. CASE call[c].mode = "read" /\ Moves(c, "hdr0")
  <2>1. CtlAt(c)'
    BY <1>1, <1>3, <1>4, <1>6, MovesIs
       DEF CtlAt, ModeAt, TransAt, MarkStepAt, CkStepAt, LocksAt, InWrite,
           FrameStepAt, InLogAt, HdrPc, RecoverPc, MarkPc, WritePc, RestartPc, FramePc, CkPc,
           CkRunPc, CkWritePc, CkMode
  <2>2. QED BY <1>2, <1>6, <2>1, MovesCtl DEF WalPc, HdrPc
<1>7. CASE call[c].mode = "read" /\ Does(c, "idle", NoCall, w[c], None, mine[c])
  <2>1. pc'[c] = "idle" /\ call'[c] = NoCall /\ w'[c] = w[c] /\ mine'[c] = mine[c]
    BY <1>1, <1>7, DoesIs
  <2>2. CtlAt(c)'
    BY <1>1, <1>3, <1>4, <2>1
       DEF NoCall, ZeroHdr, CtlAt, ModeAt, TransAt, MarkStepAt, CkStepAt, LocksAt, InWrite,
                            FrameStepAt, InLogAt, HdrPc, RecoverPc, MarkPc, WritePc, RestartPc, FramePc, CkPc,
                            CkRunPc, CkWritePc, CkMode
  <2>3. NoCall.mode = "passive"
    BY DEF NoCall
  <2>4. QED BY <1>1, <1>2, <1>7, <2>2, <2>3, Blanks, Types, CtlStep DEF WalPc
<1>8. QED BY <1>5, <1>6, <1>7 DEF Refused

LEMMA ReadHdr1Ctl == ASSUME Ctl, NEW c \in Conn, ReadHdr1(c) PROVE Ctl'
<1>1. WalTypeOK /\ Steady /\ CtlAt(c)
  BY DEF Ctl
<1>2. /\ pc[c] = "hdr1" /\ UNCHANGED lockVars /\ Quiet
      /\ Adopts(c, call[c].h1) \/ Moves(c, "hdrlock")
  BY <1>1, ReadHdr1Does
<1>3. CASE Adopts(c, call[c].h1)
  <2>1. call[c].h1 \in Hdr /\ call[c].h1.mxFrame <= Len(wal.frames)
    BY <1>1, Types DEF CtlAt, InLogAt
  <2>2. QED BY <1>2, <1>3, <2>1, AdoptsCtl
<1>4. CASE Moves(c, "hdrlock")
  <2>1. FilesOK(c) /\ LockStep(c)
    BY <1>2, QuietFiles DEF LockStep, Quiet
  <2>2. sharedMask'[c] = sharedMask[c] /\ exclMask'[c] = exclMask[c] /\ wal' = wal
    BY <1>1, <1>2, OwnLocks DEF files, Quiet
  <2>3. CtlAt(c)'
    BY <1>1, <1>2, <1>4, <2>2, MovesIs
       DEF CtlAt, ModeAt, TransAt, MarkStepAt, CkStepAt, LocksAt, InWrite,
           FrameStepAt, InLogAt, HdrPc, RecoverPc, MarkPc, WritePc, RestartPc, FramePc, CkPc,
           CkRunPc, CkWritePc, CkMode
  <2>4. QED BY <1>2, <1>4, <2>1, <2>3, MovesCtl DEF WalPc, HdrPc
<1>5. QED BY <1>2, <1>3, <1>4

LEMMA LockHdrCtl == ASSUME Ctl, NEW c \in Conn, LockHdr(c) PROVE Ctl'
<1>1. WalTypeOK /\ Steady /\ CtlAt(c)
  BY DEF Ctl
<1>2. /\ pc[c] = "hdrlock" /\ Quiet
      /\ \/ L!LockExclusive(c, {WRITE}) /\ Moves(c, "hdragain")
         \/ UNCHANGED lockVars /\ Refused(c)
  BY <1>1, LockHdrDoes
<1>3. CASE L!LockExclusive(c, {WRITE}) /\ Moves(c, "hdragain")
  <2>1. FilesOK(c) /\ LockStep(c)
    BY <1>2, <1>3, Slots, QuietFiles DEF LockStep, Quiet
  <2>2. sharedMask'[c] = sharedMask[c] /\ exclMask'[c] = exclMask[c] \cup {WRITE} /\ wal' = wal
    BY <1>1, <1>2, <1>3, OwnLocks DEF files, Quiet
  <2>3. CtlAt(c)'
    BY <1>1, <1>2, <1>3, <2>2, MovesIs
       DEF CtlAt, ModeAt, TransAt, MarkStepAt, CkStepAt, LocksAt, InWrite,
           FrameStepAt, InLogAt, HdrPc, RecoverPc, MarkPc, WritePc, RestartPc, FramePc, CkPc,
           CkRunPc, CkWritePc, CkMode
  <2>4. QED BY <1>2, <1>3, <2>1, <2>3, MovesCtl DEF WalPc, HdrPc
<1>4. QED BY <1>2, <1>3, RefusedCtl

LEMMA ReadHdrAgainCtl == ASSUME Ctl, NEW c \in Conn, ReadHdrAgain(c) PROVE Ctl'
<1>1. WalTypeOK /\ Steady /\ CtlAt(c)
  BY DEF Ctl
<1>2. /\ pc[c] = "hdragain" /\ Quiet
      /\ \/ GoodHdr /\ L!Unlock(c, {WRITE}) /\ Adopts(c, H)
         \/ /\ ~GoodHdr /\ L!LockExclusive(c, RecoveryLocks(c))
            /\ Calls(c, "recover", [call[c] EXCEPT !.changed = TRUE])
         \/ ~GoodHdr /\ L!Unlock(c, {WRITE}) /\ Refused(c)
  BY <1>1, ReadHdrAgainDoes
<1>3. CASE L!Unlock(c, {WRITE}) /\ Adopts(c, H)
  BY <1>1, <1>2, <1>3, Types, IndexBound, AdoptsCtl DEF mxH
<1>4. CASE /\ L!LockExclusive(c, RecoveryLocks(c))
           /\ Calls(c, "recover", [call[c] EXCEPT !.changed = TRUE])
  <2> DEFINE k == [call[c] EXCEPT !.changed = TRUE]
  <2>1. Does(c, "recover", k, w[c], cached[c], mine[c])
    BY <1>4 DEF Calls
  <2>2. k \in Call /\ k.mode = call[c].mode /\ k.h1 = call[c].h1
    BY <1>1, Types DEF Call
  <2> HIDE DEF k
  <2>3. RecoveryLocks(c) \in SUBSET Slot /\ Slot \subseteq exclMask[c] \cup RecoveryLocks(c)
    BY <1>1, <1>2 DEF RecoveryLocks, CtlAt, LocksAt
  <2>4. FilesOK(c) /\ LockStep(c)
    BY <1>2, <1>4, <2>3, QuietFiles DEF LockStep, Quiet
  <2>5. /\ pc'[c] = "recover" /\ call'[c] = k /\ w'[c] = w[c] /\ mine'[c] = mine[c]
        /\ sharedMask'[c] = sharedMask[c] /\ exclMask[c] \subseteq exclMask'[c]
        /\ Slot \subseteq exclMask'[c] /\ wal' = wal
    <3>1. pc'[c] = "recover" /\ call'[c] = k /\ w'[c] = w[c] /\ mine'[c] = mine[c]
      BY <1>1, <1>2, <1>4, <2>1, <2>3, DoesIs
    <3>2. /\ sharedMask'[c] = sharedMask[c]
           /\ exclMask[c] \subseteq exclMask'[c]
           /\ Slot \subseteq exclMask'[c]
      BY <1>1, <1>2, <1>4, <2>1, <2>3, OwnLocks
    <3>3. wal' = wal
      BY <1>1, <1>2, <1>4, <2>1, <2>3 DEF files, Quiet
    <3>4. QED BY <3>1, <3>2, <3>3
  <2>6. CtlAt(c)'
    BY <1>1, <1>2, <2>2, <2>5
       DEF CtlAt, ModeAt, TransAt, MarkStepAt, CkStepAt, LocksAt, InWrite,
           FrameStepAt, InLogAt, HdrPc, RecoverPc, MarkPc, WritePc, RestartPc, FramePc, CkPc,
           CkRunPc, CkWritePc, CkMode
  <2>7. QED BY <1>1, <1>2, <2>1, <2>2, <2>4, <2>6, Types, CtlStep DEF WalPc, HdrPc, RecoverPc
<1>5. QED BY <1>2, <1>3, <1>4, RefusedCtl

LEMMA RecoverCtl == ASSUME Ctl, NEW c \in Conn, Recover(c) PROVE Ctl'
<1>1. WalTypeOK /\ Steady /\ CtlAt(c)
  BY DEF Ctl
<1>2. PICK h \in Hdr, n \in Nat, idx \in [1..MaxFrame -> Nat] :
        /\ pc[c] = "recover" /\ UNCHANGED <<lockVars, files, seed, env>>
        /\ h.isInit /\ h.mxFrame <= Len(wal.frames)
        /\ Does(c, "recover0", call[c], [w[c] EXCEPT !.hdr = h, !.nCkpt = n], cached[c], mine[c])
        /\ Shm(H, h, shm.nBackfill, shm.aReadMark, idx)
  BY <1>1, RecoverDoes
<1> DEFINE o == [w[c] EXCEPT !.hdr = h, !.nCkpt = n]
<1>3. o \in WalObj /\ o.hdr = h /\ o.svpt = w[c].svpt /\ o.readLock = w[c].readLock
  BY <1>1, Types DEF WalObj
<1>4. Does(c, "recover0", call[c], o, cached[c], mine[c])
  BY <1>2
<1> HIDE DEF o
<1>5. FilesOK(c) /\ LockStep(c)
  BY <1>2, IndexBound, ShmFiles DEF LockStep, mxH
<1>6. CtlAt(c)'
  <2>1. /\ pc'[c] = "recover0" /\ call'[c] = call[c] /\ w'[c] = o /\ mine'[c] = mine[c]
        /\ sharedMask'[c] = sharedMask[c] /\ exclMask'[c] = exclMask[c] /\ wal' = wal
    <3>1. pc'[c] = "recover0" /\ call'[c] = call[c] /\ w'[c] = o /\ mine'[c] = mine[c]
      BY <1>1, <1>2, <1>4, DoesIs
    <3>2. sharedMask'[c] = sharedMask[c] /\ exclMask'[c] = exclMask[c]
      BY <1>1, <1>2, <1>4, OwnLocks
    <3>3. wal' = wal
      BY <1>1, <1>2, <1>4 DEF files
    <3>4. QED BY <3>1, <3>2, <3>3
  <2>2. QED BY <1>1, <1>2, <1>3, <2>1
            DEF CtlAt, ModeAt, TransAt, MarkStepAt, CkStepAt, LocksAt, InWrite,
                FrameStepAt, InLogAt, HdrPc, RecoverPc, MarkPc, WritePc, RestartPc, FramePc, CkPc,
                CkRunPc, CkWritePc, CkMode
<1>7. QED BY <1>1, <1>2, <1>3, <1>4, <1>5, <1>6, Types, CtlStep DEF WalPc, HdrPc, RecoverPc

LEMMA RecoverHdr0Ctl == ASSUME Ctl, NEW c \in Conn, RecoverHdr0(c) PROVE Ctl'
<1>1. WalTypeOK /\ Steady /\ CtlAt(c)
  BY DEF Ctl
<1>2. /\ pc[c] = "recover0" /\ Moves(c, "recoverinfo") /\ UNCHANGED <<lockVars, files, seed, env>>
      /\ Shm(w[c].hdr, shm.hdr[1], shm.nBackfill, shm.aReadMark, shm.aPgno)
  BY <1>1, RecoverHdr0Does
<1>3. FilesOK(c) /\ LockStep(c)
  BY <1>1, <1>2, IndexBound, ShmFiles DEF LockStep, CtlAt, InLogAt
<1>4. CtlAt(c)'
  <2>1. sharedMask'[c] = sharedMask[c] /\ exclMask'[c] = exclMask[c] /\ wal' = wal
    BY <1>1, <1>2, OwnLocks DEF files
  <2>2. QED BY <1>1, <1>2, <2>1, MovesIs
            DEF CtlAt, ModeAt, TransAt, MarkStepAt, CkStepAt, LocksAt, InWrite,
                FrameStepAt, InLogAt, HdrPc, RecoverPc, MarkPc, WritePc, RestartPc, FramePc, CkPc,
                CkRunPc, CkWritePc, CkMode
<1>5. QED BY <1>2, <1>3, <1>4, MovesCtl DEF WalPc, HdrPc, RecoverPc

LEMMA RecoverInfoCtl == ASSUME Ctl, NEW c \in Conn, RecoverInfo(c) PROVE Ctl'
<1> DEFINE to == AfterHdr(c)
           ss == Slot \ (IF call[c].mode = "read" THEN {} ELSE {CKPT})
<1>1. WalTypeOK /\ Steady /\ CtlAt(c)
  BY DEF Ctl
<1>2. PICK marks : Shm(H, shm.hdr[1], 0, marks, shm.aPgno)
  BY <1>1, RecoverInfoDoes
<1>3. /\ pc[c] = "recoverinfo" /\ Moves(c, to) /\ UNCHANGED <<files, seed, env>>
      /\ L!Unlock(c, ss) /\ ss \in SUBSET Slot
  BY <1>1, RecoverInfoDoes
<1>4. to = IF call[c].mode = "read" THEN "nbackfill" ELSE "ckstart"
  BY DEF AfterHdr
<1>5. FilesOK(c) /\ LockStep(c)
  BY <1>1, <1>2, <1>3, IndexBound, ShmFiles DEF LockStep, mxH
<1>6. CtlAt(c)'
  <2>1. /\ wal' = wal
        /\ call[c].mode # "read" /\ CKPT \in exclMask[c] => CKPT \in exclMask'[c]
    <3>1. call[c].mode # "read" /\ CKPT \in exclMask[c] => CKPT \in exclMask'[c]
      <4>1. call[c].mode # "read" => CKPT \notin ss
        OBVIOUS
      <4> HIDE DEF ss
      <4>2. QED BY <1>1, <1>3, <4>1, KeepsLock
    <3>2. wal' = wal
      BY <1>1, <1>3 DEF files
    <3>3. QED BY <3>1, <3>2
  <2>2. call[c].mode # "write" /\ ~InWrite(c) /\ w[c].readLock = -1 /\ w[c].svpt = None
    BY <1>1, <1>3
       DEF CtlAt, ModeAt, TransAt, MarkStepAt, CkStepAt, LocksAt, InWrite,
           FrameStepAt, InLogAt, HdrPc, RecoverPc, MarkPc, WritePc, RestartPc, FramePc, CkPc,
           CkRunPc, CkWritePc, CkMode
  <2>3. call[c].mode \in {"read"} \cup CkMode
    BY <1>1, <2>2, Types DEF Call
  <2> HIDE DEF to, ss
  <2>4. QED BY <1>1, <1>3, <1>4, <2>1, <2>2, <2>3, MovesIs
            DEF CtlAt, ModeAt, TransAt, MarkStepAt, CkStepAt, LocksAt, InWrite,
                FrameStepAt, InLogAt, HdrPc, RecoverPc, MarkPc, WritePc, RestartPc, FramePc, CkPc,
                CkRunPc, CkWritePc, CkMode
<1>7. to \in WalPc
  BY <1>4 DEF WalPc, CkPc
<1>8. QED BY <1>3, <1>5, <1>6, <1>7, MovesCtl

LEMMA CheckBackfillCtl == ASSUME Ctl, NEW c \in Conn, CheckBackfill(c) PROVE Ctl'
<1>1. WalTypeOK /\ Steady /\ CtlAt(c)
  BY DEF Ctl
<1>2. /\ pc[c] = "nbackfill" /\ UNCHANGED lockVars /\ Quiet
      /\ Moves(c, "lock0") \/ Moves(c, "marks")
  BY <1>1, CheckBackfillDoes
<1>3. FilesOK(c) /\ LockStep(c)
  BY <1>2, QuietFiles DEF LockStep, Quiet
<1>4. sharedMask'[c] = sharedMask[c] /\ exclMask'[c] = exclMask[c] /\ wal' = wal
  BY <1>1, <1>2, OwnLocks DEF files, Quiet
<1>5. CASE Moves(c, "lock0")
  <2>1. CtlAt(c)'
    BY <1>1, <1>2, <1>4, <1>5, MovesIs
       DEF CtlAt, ModeAt, TransAt, MarkStepAt, CkStepAt, LocksAt, InWrite,
           FrameStepAt, InLogAt, HdrPc, RecoverPc, MarkPc, WritePc, RestartPc, FramePc, CkPc,
           CkRunPc, CkWritePc, CkMode
  <2>2. QED BY <1>2, <1>3, <1>5, <2>1, MovesCtl DEF WalPc
<1>6. CASE Moves(c, "marks")
  <2>1. CtlAt(c)'
    BY <1>1, <1>2, <1>4, <1>6, MovesIs
       DEF CtlAt, ModeAt, TransAt, MarkStepAt, CkStepAt, LocksAt, InWrite,
           FrameStepAt, InLogAt, HdrPc, RecoverPc, MarkPc, WritePc, RestartPc, FramePc, CkPc,
           CkRunPc, CkWritePc, CkMode
  <2>2. QED BY <1>2, <1>3, <1>6, <2>1, MovesCtl DEF WalPc, MarkPc
<1>7. QED BY <1>2, <1>5, <1>6

\* What a connection reads is a database.
LEMMA ThroughType ==
  ASSUME WalTypeOK, NEW obj \in WalObj, obj.hdr.mxFrame <= Len(wal.frames)
  PROVE  Through(obj) \in Seq(Int) /\ Len(Through(obj)) = DbSize(obj)
<1>1. /\ wal.frames \in Seq(Frame) /\ db \in Seq(Int) /\ obj.hdr.mxFrame \in Nat
      /\ DbSize(obj) \in Nat
  BY SMTT(30) DEF WalTypeOK, Log, WalObj, Hdr, DbSize
<1>2. ASSUME NEW p \in 1..DbSize(obj) PROVE ReadPage(obj, p) \in Int
  <2> DEFINE f == LastFrame(shm.aPgno, obj.hdr.mxFrame, p)
  <2>1. f \in 0..obj.hdr.mxFrame
    BY <1>1, LastFrameIs
  <2> HIDE DEF f
  <2>2. p <= Len(db) => p \in 1..Len(db)
    BY <1>1
  <2>3. p <= Len(db) => db[p] \in Int
    BY <1>1, <2>2
  <2>4. f # 0 => f \in 1..Len(wal.frames)
    BY <1>1, <2>1
  <2>5. f # 0 => wal.frames[f] \in Frame
    BY <1>1, <2>4
  <2>6. f # 0 => wal.frames[f].data \in Int
    BY <2>5 DEF Frame
  <2>7. QED BY <2>3, <2>6 DEF ReadPage, f
<1>3. Through(obj) \in [1..DbSize(obj) -> Int]
  BY <1>2 DEF Through
<1>4. QED BY <1>1, <1>3

LEMMA ReadBeginsCtl ==
  ASSUME Ctl, NEW c \in Conn, Quiet, NEW i \in Readers, ReadBegins(c, i),
         (pc[c] = "lock0" /\ i = 0) \/ (pc[c] = "lockmark" /\ i # 0)
  PROVE  Ctl'
<1> DEFINE o == [w[c] EXCEPT !.readLock = i]
<1>1. WalTypeOK /\ Steady /\ CtlAt(c)
  BY DEF Ctl
<1>2. i \in 0..(NReader - 1) /\ i >= 0 /\ (i # 0 => i >= 1)
  BY DEF Readers
<1>3. o \in WalObj /\ o.hdr = w[c].hdr /\ o.svpt = w[c].svpt /\ o.readLock = i
  <2>1. i \in (-1)..(NReader - 1)
    BY <1>2, WalAssumption
  <2>2. QED BY <1>1, <2>1, Types DEF WalObj
<1>4. Filled(c, i) \in Image
  <2>1. o.hdr.mxFrame <= Len(wal.frames)
    BY <1>1, <1>3 DEF CtlAt, InLogAt
  <2>2. Through(o) \in Seq(Int)
    BY <1>1, <1>3, <2>1, ThroughType
  <2>3. QED BY <1>1, <2>2, Types DEF Filled, Image
<1> HIDE DEF o
<1>5. FilesOK(c)
  BY QuietFiles DEF Quiet
<1>6. L!LockShared(c, READ(i)) /\ LockStep(c)
  BY Slots DEF LockStep, ReadBegins
<1>7. sharedMask'[c] = sharedMask[c] \cup {READ(i)} /\ exclMask'[c] = exclMask[c] /\ wal' = wal
  BY <1>1, <1>6, OwnLocks DEF files, Quiet
<1>8. Len(wal.frames) \in Nat
  BY <1>1 DEF WalTypeOK, Log
<1>9. CASE call[c].mode = "read" /\ Does(c, "idle", NoCall, o, Filled(c, i), mine[c])
  <2>1. /\ pc'[c] = "idle" /\ call'[c] = NoCall /\ w'[c] = o /\ mine'[c] = mine[c]
    BY <1>1, <1>9, DoesIs
  <2>2. ~InWrite(c) /\ w[c].svpt = None
    BY <1>1, <1>9 DEF CtlAt, ModeAt, TransAt, MarkStepAt, CkStepAt, LocksAt, InWrite,
                      FrameStepAt, InLogAt, HdrPc, RecoverPc, MarkPc, WritePc, RestartPc, FramePc, CkPc,
                      CkRunPc, CkWritePc, CkMode
  <2>3. CtlAt(c)'
    BY <1>1, <1>2, <1>3, <1>7, <1>8, <2>1, <2>2
       DEF NoCall, ZeroHdr, CtlAt, ModeAt, TransAt, MarkStepAt, CkStepAt, LocksAt, InWrite,
                            FrameStepAt, InLogAt, HdrPc, RecoverPc, MarkPc, WritePc, RestartPc, FramePc, CkPc,
                            CkRunPc, CkWritePc, CkMode
  <2>4. NoCall.mode = "passive"
    BY DEF NoCall
  <2>5. QED BY <1>1, <1>3, <1>4, <1>5, <1>6, <1>9, <2>3, <2>4, Blanks, Types, CtlStep DEF WalPc
<1>10. CASE call[c].mode # "read" /\ Does(c, "walhdr", call[c], o, cached[c], mine[c])
  <2>1. /\ pc'[c] = "walhdr" /\ call'[c] = call[c] /\ w'[c] = o /\ mine'[c] = mine[c]
    BY <1>1, <1>10, DoesIs
  <2>2. pc[c] = "lockmark" /\ i >= 1 /\ call[c].mode = "write"
    BY <1>1, <1>2, <1>10 DEF CtlAt, ModeAt, MarkPc
  <2>3. CtlAt(c)'
    BY <1>1, <1>2, <1>3, <1>7, <2>1, <2>2
       DEF CtlAt, ModeAt, TransAt, MarkStepAt, CkStepAt, LocksAt, InWrite,
           FrameStepAt, InLogAt, HdrPc, RecoverPc, MarkPc, WritePc, RestartPc, FramePc, CkPc,
           CkRunPc, CkWritePc, CkMode
  <2>4. QED BY <1>1, <1>3, <1>5, <1>6, <1>10, <2>3, Types, CtlStep DEF WalPc, WritePc, FramePc
<1>11. QED BY <1>9, <1>10 DEF ReadBegins, o

LEMMA RetriesCtl ==
  ASSUME Ctl, NEW c \in Conn, Quiet, UNCHANGED lockVars, Retries(c),
         pc[c] \in {"lock0", "grab", "lockmark"}
  PROVE  Ctl'
<1>1. WalTypeOK /\ Steady /\ CtlAt(c)
  BY DEF Ctl
<1>2. FilesOK(c) /\ LockStep(c)
  BY QuietFiles DEF LockStep, Quiet
<1>3. sharedMask'[c] = sharedMask[c] /\ exclMask'[c] = exclMask[c] /\ wal' = wal
  BY <1>1, OwnLocks DEF files, Quiet
<1>4. CASE call[c].mode = "read"
  <2>1. Moves(c, "hdr0")
    BY <1>4 DEF Retries
  <2>2. CtlAt(c)'
    BY <1>1, <1>3, <1>4, <2>1, MovesIs
       DEF CtlAt, ModeAt, TransAt, MarkStepAt, CkStepAt, LocksAt, InWrite,
           FrameStepAt, InLogAt, HdrPc, RecoverPc, MarkPc, WritePc, RestartPc, FramePc, CkPc,
           CkRunPc, CkWritePc, CkMode
  <2>3. QED BY <1>2, <2>1, <2>2, MovesCtl DEF WalPc, HdrPc
<1>5. CASE call[c].mode # "read"
  <2>1. Moves(c, "marks")
    BY <1>5 DEF Retries
  <2>2. CtlAt(c)'
    BY <1>1, <1>3, <1>5, <2>1, MovesIs
       DEF CtlAt, ModeAt, TransAt, MarkStepAt, CkStepAt, LocksAt, InWrite,
           FrameStepAt, InLogAt, HdrPc, RecoverPc, MarkPc, WritePc, RestartPc, FramePc, CkPc,
           CkRunPc, CkWritePc, CkMode
  <2>3. QED BY <1>2, <2>1, <2>2, MovesCtl DEF WalPc, MarkPc
<1>6. QED BY <1>4, <1>5

LEMMA Lock0Ctl == ASSUME Ctl, NEW c \in Conn, Lock0(c) PROVE Ctl'
<1>1. WalTypeOK /\ Steady /\ CtlAt(c)
  BY DEF Ctl
<1>2. /\ pc[c] = "lock0" /\ Quiet
      /\ \/ H = w[c].hdr /\ ReadBegins(c, 0)
         \/ UNCHANGED lockVars /\ (Retries(c) \/ Moves(c, "marks"))
  BY <1>1, Lock0Does
<1>3. CASE UNCHANGED lockVars /\ Moves(c, "marks")
  <2>1. FilesOK(c) /\ LockStep(c)
    BY <1>2, <1>3, QuietFiles DEF LockStep, Quiet
  <2>2. sharedMask'[c] = sharedMask[c] /\ exclMask'[c] = exclMask[c] /\ wal' = wal
    BY <1>1, <1>2, <1>3, OwnLocks DEF files, Quiet
  <2>3. CtlAt(c)'
    BY <1>1, <1>2, <1>3, <2>2, MovesIs
       DEF CtlAt, ModeAt, TransAt, MarkStepAt, CkStepAt, LocksAt, InWrite,
           FrameStepAt, InLogAt, HdrPc, RecoverPc, MarkPc, WritePc, RestartPc, FramePc, CkPc,
           CkRunPc, CkWritePc, CkMode
  <2>4. QED BY <1>2, <1>3, <2>1, <2>3, MovesCtl DEF WalPc, MarkPc
<1>4. QED BY <1>2, <1>3, Slots, ReadBeginsCtl, RetriesCtl

LEMMA ChooseMarkCtl == ASSUME Ctl, NEW c \in Conn, ChooseMark(c) PROVE Ctl'
<1>1. WalTypeOK /\ Steady /\ CtlAt(c)
  BY DEF Ctl
<1>2. pc[c] = "marks" /\ UNCHANGED lockVars /\ Quiet
  BY <1>1, ChooseMarkDoes
<1>3. PICK best \in 0..w[c].hdr.mxFrame, i \in Readers, to \in {"grab", "lockmark"} :
        /\ to = "lockmark" => i # 0
        /\ Calls(c, to, [call[c] EXCEPT !.mxReadMark = best, !.mxI = i, !.i = 1])
  BY <1>1, ChooseMarkDoes
<1> DEFINE k == [call[c] EXCEPT !.mxReadMark = best, !.mxI = i, !.i = 1]
<1>4. w[c].hdr.mxFrame \in Nat /\ best \in Nat /\ best <= w[c].hdr.mxFrame
  BY <1>1, Types DEF Hdr
<1>5. /\ k \in Call /\ k.mode = call[c].mode /\ k.h1 = call[c].h1 /\ k.list = call[c].list
      /\ k.mxReadMark = best /\ k.mxI = i /\ k.i = 1
  BY <1>1, <1>4, Types DEF Call
<1>6. Does(c, to, k, w[c], cached[c], mine[c])
  BY <1>3 DEF Calls
<1> HIDE DEF k
<1>7. FilesOK(c) /\ LockStep(c)
  BY <1>2, QuietFiles DEF LockStep, Quiet
<1>8. 1 \in 1..NReader
  BY WalAssumption
<1>9. CtlAt(c)'
  <2>1. /\ pc'[c] = to /\ call'[c] = k /\ w'[c] = w[c] /\ mine'[c] = mine[c]
        /\ sharedMask'[c] = sharedMask[c] /\ exclMask'[c] = exclMask[c] /\ wal' = wal
    <3>1. pc'[c] = to /\ call'[c] = k /\ w'[c] = w[c] /\ mine'[c] = mine[c]
      BY <1>1, <1>2, <1>6, DoesIs
    <3>2. sharedMask'[c] = sharedMask[c] /\ exclMask'[c] = exclMask[c]
      BY <1>1, <1>2, <1>6, OwnLocks
    <3>3. wal' = wal
      BY <1>1, <1>2, <1>6 DEF files, Quiet
    <3>4. QED BY <3>1, <3>2, <3>3
  <2>2. QED BY <1>1, <1>2, <1>3, <1>4, <1>5, <1>8, <2>1
            DEF CtlAt, ModeAt, TransAt, MarkStepAt, CkStepAt, LocksAt, InWrite,
                FrameStepAt, InLogAt, HdrPc, RecoverPc, MarkPc, WritePc, RestartPc, FramePc, CkPc,
                CkRunPc, CkWritePc, CkMode
<1>10. to \in WalPc
  BY DEF WalPc, MarkPc
<1>11. QED BY <1>1, <1>2, <1>5, <1>6, <1>7, <1>9, <1>10, Types, CtlStep

LEMMA GrabMarkCtl == ASSUME Ctl, NEW c \in Conn, GrabMark(c) PROVE Ctl'
<1>1. WalTypeOK /\ Steady /\ CtlAt(c)
  BY DEF Ctl
<1>2. /\ pc[c] = "grab" /\ Quiet
      /\ \/ /\ call[c].i < NReader /\ L!LockExclusive(c, {READ(call[c].i)})
            /\ Moves(c, "putmark")
         \/ /\ call[c].i < NReader /\ UNCHANGED lockVars
            /\ Calls(c, "grab", [call[c] EXCEPT !.i = call[c].i + 1])
         \/ /\ UNCHANGED lockVars
            /\ Retries(c) \/ (call[c].mxI # 0 /\ Moves(c, "lockmark"))
  BY <1>1, GrabMarkDoes
<1>3. call[c].i \in 1..NReader /\ NReader \in Nat
  BY <1>1, <1>2, WalAssumption DEF CtlAt, MarkStepAt
<1>4. CASE call[c].i < NReader /\ L!LockExclusive(c, {READ(call[c].i)}) /\ Moves(c, "putmark")
  <2>1. call[c].i \in 1..(NReader - 1) /\ call[c].i \in Readers
    BY <1>3, <1>4 DEF Readers
  <2>2. FilesOK(c)
    BY <1>2, QuietFiles DEF Quiet
  <2>3. {READ(call[c].i)} \in SUBSET Slot
    BY <2>1, Slots
  <2>4. LockStep(c)
    BY <1>4, <2>3 DEF LockStep
  <2>5. /\ sharedMask'[c] = sharedMask[c] /\ exclMask'[c] = exclMask[c] \cup {READ(call[c].i)}
        /\ wal' = wal
    BY <1>1, <1>2, <1>4, OwnLocks DEF files, Quiet
  <2>6. CtlAt(c)'
    BY <1>1, <1>2, <1>4, <2>1, <2>5, MovesIs
       DEF CtlAt, ModeAt, TransAt, MarkStepAt, CkStepAt, LocksAt, InWrite,
           FrameStepAt, InLogAt, HdrPc, RecoverPc, MarkPc, WritePc, RestartPc, FramePc, CkPc,
           CkRunPc, CkWritePc, CkMode
  <2>7. QED BY <1>2, <1>4, <2>2, <2>4, <2>6, MovesCtl DEF WalPc, MarkPc
<1>5. CASE /\ call[c].i < NReader /\ UNCHANGED lockVars
           /\ Calls(c, "grab", [call[c] EXCEPT !.i = call[c].i + 1])
  <2> DEFINE k == [call[c] EXCEPT !.i = call[c].i + 1]
  <2>1. call[c].i + 1 \in 1..NReader /\ call[c].i + 1 \in Nat
    BY <1>3, <1>5
  <2>2. /\ k \in Call /\ k.mode = call[c].mode /\ k.h1 = call[c].h1 /\ k.list = call[c].list
        /\ k.mxReadMark = call[c].mxReadMark /\ k.i = call[c].i + 1
    BY <1>1, <2>1, Types DEF Call
  <2>3. Does(c, "grab", k, w[c], cached[c], mine[c])
    BY <1>5 DEF Calls
  <2> HIDE DEF k
  <2>4. FilesOK(c) /\ LockStep(c)
    BY <1>2, <1>5, QuietFiles DEF LockStep, Quiet
  <2>5. CtlAt(c)'
    <3>1. /\ pc'[c] = "grab" /\ call'[c] = k /\ w'[c] = w[c] /\ mine'[c] = mine[c]
          /\ sharedMask'[c] = sharedMask[c] /\ exclMask'[c] = exclMask[c] /\ wal' = wal
      <4>1. pc'[c] = "grab" /\ call'[c] = k /\ w'[c] = w[c] /\ mine'[c] = mine[c]
        BY <1>1, <1>2, <1>5, <2>3, DoesIs
      <4>2. sharedMask'[c] = sharedMask[c] /\ exclMask'[c] = exclMask[c]
        BY <1>1, <1>2, <1>5, <2>3, OwnLocks
      <4>3. wal' = wal
        BY <1>1, <1>2, <1>5, <2>3 DEF files, Quiet
      <4>4. QED BY <4>1, <4>2, <4>3
    <3>2. QED BY <1>1, <1>2, <2>1, <2>2, <3>1
              DEF CtlAt, ModeAt, TransAt, MarkStepAt, CkStepAt, LocksAt, InWrite,
                  FrameStepAt, InLogAt, HdrPc, RecoverPc, MarkPc, WritePc, RestartPc, FramePc, CkPc,
                  CkRunPc, CkWritePc, CkMode
  <2>6. QED BY <1>1, <1>2, <2>2, <2>3, <2>4, <2>5, Types, CtlStep DEF WalPc, MarkPc
<1>6. CASE UNCHANGED lockVars /\ call[c].mxI # 0 /\ Moves(c, "lockmark")
  <2>1. FilesOK(c) /\ LockStep(c)
    BY <1>2, <1>6, QuietFiles DEF LockStep, Quiet
  <2>2. sharedMask'[c] = sharedMask[c] /\ exclMask'[c] = exclMask[c] /\ wal' = wal
    BY <1>1, <1>2, <1>6, OwnLocks DEF files, Quiet
  <2>3. CtlAt(c)'
    BY <1>1, <1>2, <1>6, <2>2, MovesIs
       DEF CtlAt, ModeAt, TransAt, MarkStepAt, CkStepAt, LocksAt, InWrite,
           FrameStepAt, InLogAt, HdrPc, RecoverPc, MarkPc, WritePc, RestartPc, FramePc, CkPc,
           CkRunPc, CkWritePc, CkMode
  <2>4. QED BY <1>2, <1>6, <2>1, <2>3, MovesCtl DEF WalPc, MarkPc
<1>7. QED BY <1>2, <1>4, <1>5, <1>6, RetriesCtl

LEMMA PutMarkCtl == ASSUME Ctl, NEW c \in Conn, PutMark(c) PROVE Ctl'
<1> DEFINE i == call[c].i
           k == [call[c] EXCEPT !.mxI = i, !.mxReadMark = w[c].hdr.mxFrame]
<1>1. WalTypeOK /\ Steady /\ CtlAt(c)
  BY DEF Ctl
<1>2. /\ pc[c] = "putmark" /\ UNCHANGED <<files, seed, env>>
      /\ Does(c, "lockmark", k, w[c], cached[c], mine[c])
      /\ Shm(H, shm.hdr[1], shm.nBackfill, [shm.aReadMark EXCEPT ![i] = w[c].hdr.mxFrame], shm.aPgno)
      /\ L!Unlock(c, {READ(i)})
  BY <1>1, PutMarkDoes DEF Calls
<1>3. i \in 1..(NReader - 1) /\ i \in Readers /\ i # 0 /\ w[c].hdr.mxFrame \in Nat
  <2>1. i \in 1..(NReader - 1)
    BY <1>1, <1>2 DEF CtlAt, MarkStepAt
  <2>2. QED BY <1>1, <2>1, Types, WalAssumption DEF Readers, Hdr
<1>4. /\ k \in Call /\ k.mode = call[c].mode /\ k.h1 = call[c].h1 /\ k.list = call[c].list
      /\ k.mxReadMark = w[c].hdr.mxFrame /\ k.mxI = i
  BY <1>1, <1>3, Types DEF Call
<1> HIDE DEF k, i
<1>5. FilesOK(c)
  BY <1>2, IndexBound, ShmFiles DEF mxH
<1>6. LockStep(c)
  <2>1. {READ(i)} \in SUBSET Slot
    BY <1>3, Slots
  <2>2. QED BY <1>2, <2>1 DEF LockStep
<1>7. CtlAt(c)'
  <2>1. /\ pc'[c] = "lockmark" /\ call'[c] = k /\ w'[c] = w[c] /\ mine'[c] = mine[c]
        /\ sharedMask'[c] = sharedMask[c] \ {READ(i)} /\ exclMask'[c] = exclMask[c] \ {READ(i)}
        /\ wal' = wal
    <3>1. pc'[c] = "lockmark" /\ call'[c] = k /\ w'[c] = w[c] /\ mine'[c] = mine[c]
      BY <1>1, <1>2, DoesIs
    <3>2. /\ sharedMask'[c] = sharedMask[c] \ {READ(i)}
           /\ exclMask'[c] = exclMask[c] \ {READ(i)}
      BY <1>1, <1>2, OwnLocks
    <3>3. wal' = wal
      BY <1>1, <1>2 DEF files
    <3>4. QED BY <3>1, <3>2, <3>3
  <2>2. READ(i) # WRITE /\ READ(i) # CKPT
    BY <1>3, Slots
  <2>3. call[c].mode \in {"read", "write"} /\ w[c].readLock = -1 /\ w[c].readLock \in Int
    BY <1>1, <1>2, Types
       DEF WalObj, CtlAt, ModeAt, TransAt, MarkStepAt, CkStepAt, LocksAt, InWrite,
                   FrameStepAt, InLogAt, HdrPc, RecoverPc, MarkPc, WritePc, RestartPc, FramePc, CkPc,
                   CkRunPc, CkWritePc, CkMode
  <2>4. QED BY <1>1, <1>2, <1>3, <1>4, <2>1, <2>2, <2>3
            DEF CtlAt, ModeAt, TransAt, MarkStepAt, CkStepAt, LocksAt, InWrite,
                FrameStepAt, InLogAt, HdrPc, RecoverPc, MarkPc, WritePc, RestartPc, FramePc, CkPc,
                CkRunPc, CkWritePc, CkMode
<1>8. QED BY <1>1, <1>2, <1>4, <1>5, <1>6, <1>7, Types, CtlStep DEF WalPc, MarkPc

LEMMA LockMarkCtl == ASSUME Ctl, NEW c \in Conn, LockMark(c) PROVE Ctl'
<1>1. WalTypeOK /\ Steady /\ CtlAt(c)
  BY DEF Ctl
<1>2. /\ pc[c] = "lockmark" /\ Quiet
      /\ ReadBegins(c, call[c].mxI) \/ (UNCHANGED lockVars /\ Retries(c))
  BY <1>1, LockMarkDoes
<1>3. call[c].mxI \in Readers /\ call[c].mxI # 0
  BY <1>1, <1>2, Types DEF CtlAt, MarkStepAt, Call
<1>4. QED BY <1>2, <1>3, ReadBeginsCtl, RetriesCtl

LEMMA EndReadCtl == ASSUME Ctl, NEW c \in Conn, EndRead(c) PROVE Ctl'
<1> DEFINE o == [w[c] EXCEPT !.readLock = -1]
<1>1. WalTypeOK /\ Steady /\ CtlAt(c)
  BY DEF Ctl
<1>2. /\ pc[c] = "idle" /\ w[c].readLock >= 0 /\ ~InWrite(c) /\ Quiet
      /\ L!Unlock(c, {READ(w[c].readLock)})
      /\ Does(c, "idle", call[c], o, cached[c], mine[c])
  BY <1>1, EndReadDoes
<1>3. o \in WalObj /\ o.hdr = w[c].hdr /\ o.svpt = w[c].svpt /\ o.readLock = -1
  BY <1>1, Types, NoReadLock, ReadLockIs
<1> HIDE DEF o
<1>4. w[c].readLock \in Readers
  BY <1>1, <1>2, Types DEF WalObj, Readers
<1>5. FilesOK(c) /\ LockStep(c)
  <2>1. {READ(w[c].readLock)} \in SUBSET Slot
    BY <1>4, Slots
  <2>2. QED BY <1>2, <2>1, QuietFiles DEF LockStep, Quiet
<1>6. CtlAt(c)'
  <2>1. /\ pc'[c] = "idle" /\ call'[c] = call[c] /\ w'[c] = o /\ mine'[c] = mine[c] /\ wal' = wal
    BY <1>1, <1>2, DoesIs DEF files, Quiet
  <2>2. call[c].mode = "passive" /\ w[c].svpt = None
    BY <1>1, <1>2
       DEF NoCall, CtlAt, ModeAt, TransAt, MarkStepAt, CkStepAt, LocksAt, InWrite,
                   FrameStepAt, InLogAt, HdrPc, RecoverPc, MarkPc, WritePc, RestartPc, FramePc, CkPc,
                   CkRunPc, CkWritePc, CkMode
  <2>3. QED BY <1>1, <1>2, <1>3, <2>1, <2>2
            DEF CtlAt, ModeAt, TransAt, MarkStepAt, CkStepAt, LocksAt, InWrite,
                FrameStepAt, InLogAt, HdrPc, RecoverPc, MarkPc, WritePc, RestartPc, FramePc, CkPc,
                CkRunPc, CkWritePc, CkMode
<1>7. QED BY <1>1, <1>2, <1>3, <1>5, <1>6, Types, CtlStep

LEMMA BeginWriteCtl == ASSUME Ctl, NEW c \in Conn, BeginWrite(c) PROVE Ctl'
<1>1. WalTypeOK /\ Steady /\ CtlAt(c)
  BY DEF Ctl
<1>2. /\ pc[c] = "idle" /\ w[c].readLock >= 0 /\ ~InWrite(c)
      /\ L!LockExclusive(c, {WRITE})
      /\ Does(c, "idle", call[c], w[c], cached[c], View(c))
      /\ UNCHANGED <<shm, files, seed>> /\ EnvOK'
  BY <1>1, BeginWriteDoes
<1>3. View(c) \in Image /\ View(c) # None
  <2>1. View(c) \in Seq(Int)
    BY <1>1, Types, ThroughType DEF View, CtlAt, InLogAt
  <2>2. QED BY <2>1, WalAssumption DEF Image
<1>4. FilesOK(c) /\ LockStep(c)
  BY <1>2, Slots, QuietFiles DEF LockStep
<1>5. CtlAt(c)'
  <2>1. /\ pc'[c] = "idle" /\ call'[c] = call[c] /\ w'[c] = w[c] /\ mine'[c] # None
        /\ sharedMask'[c] = sharedMask[c] /\ exclMask'[c] = exclMask[c] \cup {WRITE} /\ wal' = wal
    <3>1. pc'[c] = "idle" /\ call'[c] = call[c] /\ w'[c] = w[c] /\ mine'[c] # None
      BY <1>1, <1>2, <1>3, DoesIs
    <3>2. sharedMask'[c] = sharedMask[c] /\ exclMask'[c] = exclMask[c] \cup {WRITE}
      BY <1>1, <1>2, <1>3, OwnLocks
    <3>3. wal' = wal
      BY <1>1, <1>2, <1>3 DEF files
    <3>4. QED BY <3>1, <3>2, <3>3
  <2>2. call[c].mode = "passive"
    BY <1>1, <1>2
       DEF NoCall, CtlAt, ModeAt
  <2>3. QED BY <1>1, <1>2, <2>1, <2>2
            DEF CtlAt, ModeAt, TransAt, MarkStepAt, CkStepAt, LocksAt, InWrite,
                FrameStepAt, InLogAt, HdrPc, RecoverPc, MarkPc, WritePc, RestartPc, FramePc, CkPc,
                CkRunPc, CkWritePc, CkMode
<1>6. QED BY <1>1, <1>2, <1>3, <1>4, <1>5, Types, CtlStep

LEMMA SavepointCtl == ASSUME Ctl, NEW c \in Conn, Savepoint(c) PROVE Ctl'
<1> DEFINE s == [mxFrame |-> w[c].hdr.mxFrame, cksum |-> w[c].hdr.cksum,
                 nCkpt |-> w[c].nCkpt, mine |-> mine[c]]
           o == [w[c] EXCEPT !.svpt = s]
<1>1. WalTypeOK /\ Steady /\ CtlAt(c)
  BY DEF Ctl
<1>2. /\ pc[c] = "idle" /\ InWrite(c) /\ UNCHANGED lockVars /\ Quiet
      /\ Does(c, "idle", call[c], o, cached[c], mine[c])
  BY <1>1, SavepointDoes
<1>3. s \in Svpt /\ s.mxFrame = w[c].hdr.mxFrame
  <2>1. mine[c] \in Seq(Int)
    BY <1>1, <1>2, Types DEF InWrite, Image
  <2>2. QED BY <1>1, <2>1, Types DEF Svpt, WalObj, Hdr
<1> HIDE DEF s
<1>4. o \in WalObj /\ o.hdr = w[c].hdr /\ o.svpt = s /\ o.readLock = w[c].readLock
  BY <1>1, <1>3, Types DEF WalObj
<1> HIDE DEF o
<1>5. FilesOK(c) /\ LockStep(c)
  BY <1>2, QuietFiles DEF LockStep, Quiet
<1>6. CtlAt(c)'
  <2>1. /\ pc'[c] = "idle" /\ call'[c] = call[c] /\ w'[c] = o /\ mine'[c] = mine[c] /\ wal' = wal
        /\ sharedMask'[c] = sharedMask[c] /\ exclMask'[c] = exclMask[c]
    <3>1. pc'[c] = "idle" /\ call'[c] = call[c] /\ w'[c] = o /\ mine'[c] = mine[c]
      BY <1>1, <1>2, DoesIs
    <3>2. sharedMask'[c] = sharedMask[c] /\ exclMask'[c] = exclMask[c]
      BY <1>1, <1>2, OwnLocks
    <3>3. wal' = wal
      BY <1>1, <1>2 DEF files, Quiet
    <3>4. QED BY <3>1, <3>2, <3>3
  <2>2. call[c].mode = "passive"
    BY <1>1, <1>2
       DEF NoCall, CtlAt, ModeAt
  <2>3. QED BY <1>1, <1>2, <1>3, <1>4, <2>1, <2>2
            DEF CtlAt, ModeAt, TransAt, MarkStepAt, CkStepAt, LocksAt, InWrite,
                FrameStepAt, InLogAt, HdrPc, RecoverPc, MarkPc, WritePc, RestartPc, FramePc, CkPc,
                CkRunPc, CkWritePc, CkMode
<1>7. QED BY <1>1, <1>2, <1>4, <1>5, <1>6, Types, CtlStep

LEMMA SavepointUndoCtl == ASSUME Ctl, NEW c \in Conn, SavepointUndo(c) PROVE Ctl'
<1> DEFINE s == w[c].svpt
           to == UndoTo(c)
<1>1. WalTypeOK /\ Steady /\ CtlAt(c)
  BY DEF Ctl
<1>2. pc[c] = "idle" /\ InWrite(c) /\ s # None /\ UNCHANGED <<lockVars, files, seed, env>>
  BY <1>1, SavepointUndoDoes
<1>3. /\ s \in Svpt /\ s.mine \in Seq(Int) /\ s.mine # None /\ s.cksum \in Pair /\ to \in Nat
      /\ w[c].hdr.mxFrame \in Nat
  BY <1>1, <1>2, Types, WalAssumption DEF WalObj, Svpt, UndoTo, Hdr
<1>4. sharedMask'[c] = sharedMask[c] /\ exclMask'[c] = exclMask[c] /\ wal' = wal
  BY <1>1, <1>2, OwnLocks DEF files
<1>5. LockStep(c)
  BY <1>2 DEF LockStep
<1>6. call[c].mode = "passive"
  BY <1>1, <1>2 DEF NoCall, CtlAt, ModeAt
<1>7. ASSUME to < w[c].hdr.mxFrame,
             Does(c, "idle", call[c],
                  [w[c] EXCEPT !.hdr = [w[c].hdr EXCEPT !.mxFrame = to, !.cksum = s.cksum],
                               !.svpt = None], cached[c], s.mine),
             Shm(H, shm.hdr[1], shm.nBackfill, shm.aReadMark, CleanUp(shm.aPgno, to))
      PROVE  Ctl'
  <2> DEFINE h == [w[c].hdr EXCEPT !.mxFrame = to, !.cksum = s.cksum]
             o == [w[c] EXCEPT !.hdr = h, !.svpt = None]
  <2>1. h \in Hdr /\ h.mxFrame = to
    <3> HIDE DEF to, s
    <3>1. QED BY <1>1, <1>3, Types DEF Hdr
  <2>2. Does(c, "idle", call[c], o, cached[c], s.mine)
    BY <1>7
  <2> HIDE DEF h
  <2>3. o \in WalObj /\ o.hdr = h /\ o.svpt = None /\ o.readLock = w[c].readLock
    BY <1>1, <2>1, Types DEF WalObj
  <2> HIDE DEF o, to, s
  <2>4. FilesOK(c)
    BY <1>2, <1>7, IndexBound, ShmFiles DEF mxH
  <2>5. w[c].hdr.mxFrame <= Len(wal.frames) /\ Len(wal.frames) \in Nat
    BY <1>1 DEF CtlAt, InLogAt, WalTypeOK, Log
  <2>6. to <= Len(wal.frames)
    BY <1>3, <1>7, <2>5
  <2>7. CtlAt(c)'
    <3>1. pc'[c] = "idle" /\ call'[c] = call[c] /\ w'[c] = o /\ mine'[c] = s.mine
      BY <1>1, <2>2, DoesIs
    <3>2. QED BY <1>1, <1>2, <1>3, <1>4, <1>6, <2>1, <2>3, <2>6, <3>1
              DEF CtlAt, ModeAt, TransAt, MarkStepAt, CkStepAt, LocksAt, InWrite,
                  FrameStepAt, InLogAt, HdrPc, RecoverPc, MarkPc, WritePc, RestartPc, FramePc, CkPc,
                  CkRunPc, CkWritePc, CkMode
  <2>8. QED BY <1>1, <1>2, <1>3, <1>5, <2>2, <2>3, <2>4, <2>7, Types, CtlStep DEF Image
<1>8. ASSUME Does(c, "idle", call[c], [w[c] EXCEPT !.svpt = None], cached[c], s.mine), UNCHANGED shm
      PROVE  Ctl'
  <2> DEFINE o == [w[c] EXCEPT !.svpt = None]
  <2>1. o \in WalObj /\ o.hdr = w[c].hdr /\ o.svpt = None /\ o.readLock = w[c].readLock
    BY <1>1, Types DEF WalObj
  <2>2. Does(c, "idle", call[c], o, cached[c], s.mine)
    BY <1>8
  <2> HIDE DEF o, to, s
  <2>3. FilesOK(c)
    BY <1>2, <1>8, QuietFiles
  <2>4. CtlAt(c)'
    <3>1. pc'[c] = "idle" /\ call'[c] = call[c] /\ w'[c] = o /\ mine'[c] = s.mine
      BY <1>1, <2>2, DoesIs
    <3>2. QED BY <1>1, <1>2, <1>3, <1>4, <1>6, <2>1, <3>1
              DEF CtlAt, ModeAt, TransAt, MarkStepAt, CkStepAt, LocksAt, InWrite,
                  FrameStepAt, InLogAt, HdrPc, RecoverPc, MarkPc, WritePc, RestartPc, FramePc, CkPc,
                  CkRunPc, CkWritePc, CkMode
  <2>5. QED BY <1>1, <1>2, <1>3, <1>5, <2>1, <2>2, <2>3, <2>4, Types, CtlStep DEF Image
<1>9. QED BY <1>1, <1>7, <1>8, SavepointUndoDoes

LEMMA ChangedType ==
  ASSUME NEW d \in Seq(Int), NEW pages, NEW n \in Nat, NEW data \in Nat
  PROVE  /\ Changed(d, pages, n, data) \in Seq(Int) /\ Len(Changed(d, pages, n, data)) = n
         /\ \A p \in 1..n : Changed(d, pages, n, data)[p]
                              = IF p \in pages THEN data ELSE IF p <= Len(d) THEN d[p] ELSE 0
<1>1. ASSUME NEW p \in 1..n
      PROVE  (IF p \in pages THEN data ELSE IF p <= Len(d) THEN d[p] ELSE 0) \in Int
  <2>1. p <= Len(d) => p \in 1..Len(d)
    OBVIOUS
  <2>2. p <= Len(d) => d[p] \in Int
    BY <2>1
  <2>3. QED BY <2>2
<1>2. Changed(d, pages, n, data) \in [1..n -> Int]
  BY <1>1 DEF Changed
<1>3. QED BY <1>2 DEF Changed

LEMMA StartsCtl ==
  ASSUME Ctl, NEW c \in Conn, NEW list \in Seq(Nat \ {0}), NEW m \in Nat, NEW n \in Nat, Starts(c, list, m, n)
  PROVE  Ctl'
<1> DEFINE k == [NoCall EXCEPT !.list = list, !.nTruncate = n, !.data = seed, !.mode = "write"]
           im == Changed(mine[c], Range(list), m, seed)
<1>1. WalTypeOK /\ Steady /\ CtlAt(c) /\ LogBound
  BY DEF Ctl
<1>2. /\ pc[c] = "idle" /\ InWrite(c) /\ Len(list) >= 1 /\ w[c].hdr.mxFrame + Len(list) <= MaxFrame
      /\ Does(c, "restart", k, w[c], cached[c], im)
      /\ UNCHANGED <<lockVars, shm, files>> /\ seed' = seed + 1 /\ EnvOK'
  BY DEF Starts
<1>3. seed \in Nat \ {0} /\ seed' \in Nat \ {0}
  BY <1>1, <1>2 DEF WalTypeOK
<1>4. k \in Call /\ k.mode = "write" /\ k.h1 = ZeroHdr /\ k.list = list
  BY <1>3, Blanks DEF NoCall, Call
<1>5. im \in Image /\ im # None
  <2>1. mine[c] \in Seq(Int)
    BY <1>1, <1>2, Types DEF InWrite, Image
  <2>2. im \in Seq(Int)
    BY <1>3, <2>1, ChangedType
  <2> HIDE DEF im
  <2>3. QED BY <2>2, WalAssumption DEF Image
<1> HIDE DEF k, im
<1>6. FilesOK(c) /\ LockStep(c)
  <2>1. \A i \in {0, 1} : shm.hdr[i].mxFrame <= Len(wal.frames)
    BY <1>2 DEF Ctl, IndexInLog
  <2>2. Len(wal.frames) \in Nat
    BY <1>1 DEF WalTypeOK, Log
  <2>3. QED BY <1>1, <1>2, <1>3, <2>1, <2>2 DEF FilesOK, WalTypeOK, LogBound, files, LockStep
<1>7. CtlAt(c)'
  <2>1. /\ pc'[c] = "restart" /\ call'[c] = k /\ w'[c] = w[c] /\ mine'[c] = im /\ wal' = wal
        /\ sharedMask'[c] = sharedMask[c] /\ exclMask'[c] = exclMask[c] /\ Len(wal.frames) \in Nat
    <3>1. pc'[c] = "restart" /\ call'[c] = k /\ w'[c] = w[c] /\ mine'[c] = im
      BY <1>1, <1>2, DoesIs
    <3>2. sharedMask'[c] = sharedMask[c] /\ exclMask'[c] = exclMask[c]
      BY <1>1, <1>2, OwnLocks
    <3>3. wal' = wal /\ Len(wal.frames) \in Nat
      BY <1>1, <1>2 DEF files, WalTypeOK, Log
    <3>4. QED BY <3>1, <3>2, <3>3
  <2>2. QED BY <1>1, <1>2, <1>4, <1>5, <2>1
            DEF ZeroHdr, CtlAt, ModeAt, TransAt, MarkStepAt, CkStepAt, LocksAt, InWrite,
                         FrameStepAt, InLogAt, HdrPc, RecoverPc, MarkPc, WritePc, RestartPc, FramePc, CkPc,
                         CkRunPc, CkWritePc, CkMode
<1>8. QED BY <1>1, <1>2, <1>4, <1>5, <1>6, <1>7, Types, CtlStep DEF WalPc, WritePc

\* Steps that change a file.
LEMMA DiskFiles ==
  ASSUME Ctl, NEW c \in Conn, pc[c] # "closed", UNCHANGED shm, EnvOK' \/ UNCHANGED env,
         wal' \in Log, Len(wal'.frames) >= Len(wal.frames), Len(wal'.frames) <= MaxFrame,
         walDisk' \in {walDisk, wal}, db' \in Seq(Int), dbDisk' \in Seq(Int), seed' \in Nat \ {0}
  PROVE  FilesOK(c)
<1>1. WalTypeOK /\ Steady /\ LogBound /\ \A i \in {0, 1} : shm.hdr[i].mxFrame <= Len(wal.frames)
  BY DEF Ctl, IndexInLog
<1>2. EnvOK'
  BY <1>1 DEF EnvOK, Steady, WalTypeOK
<1>3. Len(wal.frames) \in Nat /\ Len(wal'.frames) \in Nat /\ \A i \in {0, 1} : shm.hdr[i].mxFrame \in Nat
  <2>1. Len(wal.frames) \in Nat /\ Len(wal'.frames) \in Nat
    BY <1>1 DEF WalTypeOK, Log
  <2>2. \A i \in {0, 1} : shm.hdr[i] \in Hdr
    BY <1>1 DEF WalTypeOK, Index
  <2>3. QED BY <2>1, <2>2 DEF Hdr
<1>4. \A i \in {0, 1} : shm'.hdr[i].mxFrame <= Len(wal'.frames)
  BY SMTT(30), <1>1, <1>3
<1>5. shm' \in Index /\ walDisk' \in Log /\ Len(walDisk'.frames) <= MaxFrame
  BY <1>1 DEF WalTypeOK, LogBound
<1>6. QED BY <1>2, <1>4, <1>5 DEF FilesOK, LogBound

LEMMA RestartLogCtl == ASSUME Ctl, NEW c \in Conn, RestartLog(c) PROVE Ctl'
<1>1. WalTypeOK /\ Steady /\ CtlAt(c) /\ LogBound
  BY DEF Ctl
<1>2. pc[c] = "restart" /\ UNCHANGED <<shm, files, env>>
  BY <1>1, RestartLogDoes
<1>3. /\ w[c].readLock >= 0 /\ w[c].readLock \in Int /\ w[c].nCkpt \in Nat /\ seed \in Nat \ {0}
      /\ Len(wal.frames) \in Nat /\ wal' = wal
  BY <1>1, <1>2, Types DEF CtlAt, TransAt, WalObj, WalTypeOK, Log, files
<1>4. call[c].mode = "write" /\ InWrite(c) /\ mine[c] # None
  BY <1>1, <1>2 DEF CtlAt, TransAt, ModeAt, WritePc, InWrite
<1>5. CASE /\ w[c].readLock # 0 /\ UNCHANGED lockVars /\ seed' = seed
           /\ Moves(c, "walhdr")
  <2>1. FilesOK(c) /\ LockStep(c)
    BY <1>2, <1>5, QuietFiles DEF LockStep
  <2>2. sharedMask'[c] = sharedMask[c] /\ exclMask'[c] = exclMask[c]
    BY <1>1, <1>5, OwnLocks
  <2>3. w[c].readLock >= 1
    BY <1>3, <1>5
  <2>4. CtlAt(c)'
    BY <1>1, <1>2, <1>3, <1>4, <1>5, <2>2, <2>3, MovesIs
       DEF CtlAt, ModeAt, TransAt, MarkStepAt, CkStepAt, LocksAt, InWrite,
           FrameStepAt, InLogAt, HdrPc, RecoverPc, MarkPc, WritePc, RestartPc, FramePc, CkPc,
           CkRunPc, CkWritePc, CkMode
  <2>5. QED BY <1>2, <1>5, <2>1, <2>4, MovesCtl DEF WalPc, WritePc, FramePc
<1>6. ASSUME w[c].readLock = 0, L!LockExclusive(c, Marked), seed' = seed + 1,
             Does(c, "restart1", call[c],
                  [w[c] EXCEPT !.nCkpt = w[c].nCkpt + 1,
                               !.hdr = [w[c].hdr EXCEPT !.mxFrame = 0, !.salt = seed]],
                  cached[c], mine[c])
      PROVE  Ctl'
  <2> DEFINE h == [w[c].hdr EXCEPT !.mxFrame = 0, !.salt = seed]
             o == [w[c] EXCEPT !.nCkpt = w[c].nCkpt + 1, !.hdr = h]
  <2>1. h \in Hdr /\ h.mxFrame = 0
    BY <1>1, <1>3, Types DEF Hdr
  <2>2. Does(c, "restart1", call[c], o, cached[c], mine[c])
    BY <1>6
  <2> HIDE DEF h
  <2>3. o \in WalObj /\ o.hdr = h /\ o.svpt = w[c].svpt /\ o.readLock = w[c].readLock
    <3>1. w[c] \in WalObj /\ w[c].nCkpt + 1 \in Nat
      BY <1>1, <1>3, Types
    <3>2. o.hdr = h /\ o.svpt = w[c].svpt /\ o.readLock = w[c].readLock
      BY <3>1 DEF WalObj
    <3>3. o \in WalObj
      BY <2>1, <3>1 DEF WalObj
    <3>4. QED BY <3>2, <3>3
  <2> HIDE DEF o
  <2>4. seed' \in Nat \ {0}
    BY <1>3, <1>6
  <2>5. FilesOK(c) /\ LockStep(c)
    <3>1. LockStep(c)
      BY <1>6, Slots DEF LockStep
    <3>2. FilesOK(c)
      BY <1>1, <1>2, <1>3, <2>4, DiskFiles DEF files, WalTypeOK, LogBound
    <3>3. QED BY <3>1, <3>2
  <2>6. CtlAt(c)'
    <3>1. /\ pc'[c] = "restart1" /\ call'[c] = call[c] /\ w'[c] = o /\ mine'[c] = mine[c]
          /\ sharedMask'[c] = sharedMask[c] /\ exclMask'[c] = exclMask[c] \cup Marked
      <4>1. pc'[c] = "restart1" /\ call'[c] = call[c] /\ w'[c] = o /\ mine'[c] = mine[c]
        BY <1>1, <1>6, <2>2, DoesIs
      <4>2. sharedMask'[c] = sharedMask[c] /\ exclMask'[c] = exclMask[c] \cup Marked
        BY <1>1, <1>6, <2>2, OwnLocks
      <4>3. QED BY <4>1, <4>2
    <3>2. call[c].list \in Seq(Nat \ {0})
      BY <1>1, Types DEF Call
    <3>3. Len(call[c].list) >= 1 /\ 0 + Len(call[c].list) <= MaxFrame
      <4>1. Len(call[c].list) >= 1 /\ w[c].hdr.mxFrame + Len(call[c].list) <= MaxFrame
        BY <1>1, <1>2, <1>4 DEF CtlAt, FrameStepAt
      <4>2. w[c].hdr.mxFrame \in Nat /\ Len(call[c].list) \in Nat
        BY <1>1, <3>2, Types DEF Hdr
      <4>3. QED BY <4>1, <4>2, WalAssumption
    <3>4. QED BY <1>1, <1>2, <1>3, <1>4, <1>6, <2>1, <2>3, <3>1, <3>3
              DEF CtlAt, ModeAt, TransAt, MarkStepAt, CkStepAt, LocksAt, InWrite,
                  FrameStepAt, InLogAt, HdrPc, RecoverPc, MarkPc, WritePc, RestartPc, FramePc, CkPc,
                  CkRunPc, CkWritePc, CkMode
  <2>7. QED BY <1>1, <1>2, <2>2, <2>3, <2>5, <2>6, Types, CtlStep DEF WalPc, WritePc, RestartPc
<1>7. ASSUME w[c].readLock = 0, L!Unlock(c, {READ(0)}), seed' = seed,
             Does(c, "marks", call[c], [w[c] EXCEPT !.readLock = -1], cached[c], mine[c])
      PROVE  Ctl'
  <2> DEFINE o == [w[c] EXCEPT !.readLock = -1]
  <2>1. o \in WalObj /\ o.hdr = w[c].hdr /\ o.svpt = w[c].svpt /\ o.readLock = -1
    BY <1>1, Types, NoReadLock, ReadLockIs
  <2>2. Does(c, "marks", call[c], o, cached[c], mine[c])
    BY <1>7
  <2> HIDE DEF o
  <2>3. FilesOK(c) /\ LockStep(c)
    <3>1. {READ(0)} \in SUBSET Slot
      BY Slots
    <3>2. QED BY <1>2, <1>7, <3>1, QuietFiles DEF LockStep
  <2>4. CtlAt(c)'
    <3>1. /\ pc'[c] = "marks" /\ call'[c] = call[c] /\ w'[c] = o /\ mine'[c] = mine[c]
          /\ WRITE \in exclMask[c] => WRITE \in exclMask'[c]
      <4>1. pc'[c] = "marks" /\ call'[c] = call[c] /\ w'[c] = o /\ mine'[c] = mine[c]
        BY <1>1, <1>7, <2>2, DoesIs
      <4>2. WRITE \in exclMask[c] => WRITE \in exclMask'[c]
        <5>1. WRITE \notin {READ(0)}
          BY Slots
        <5>2. QED BY <1>1, <1>7, <5>1, KeepsLock
      <4>3. QED BY <4>1, <4>2
    <3>2. QED BY <1>1, <1>2, <1>3, <1>4, <2>1, <3>1
              DEF CtlAt, ModeAt, TransAt, MarkStepAt, CkStepAt, LocksAt, InWrite,
                  FrameStepAt, InLogAt, HdrPc, RecoverPc, MarkPc, WritePc, RestartPc, FramePc, CkPc,
                  CkRunPc, CkWritePc, CkMode
  <2>5. QED BY <1>1, <1>2, <2>1, <2>2, <2>3, <2>4, Types, CtlStep DEF WalPc, MarkPc
<1>8. QED BY <1>1, <1>5, <1>6, <1>7, RestartLogDoes

LEMMA RestartHdr1Ctl == ASSUME Ctl, NEW c \in Conn, RestartHdr1(c) PROVE Ctl'
<1>1. WalTypeOK /\ Steady /\ CtlAt(c)
  BY DEF Ctl
<1>2. /\ pc[c] = "restart1" /\ Moves(c, "restart0") /\ UNCHANGED <<lockVars, files, seed, env>>
      /\ Shm(H, w[c].hdr, shm.nBackfill, shm.aReadMark, shm.aPgno)
  BY <1>1, RestartHdr1Does
<1>3. FilesOK(c) /\ LockStep(c)
  BY <1>1, <1>2, IndexBound, ShmFiles DEF LockStep, CtlAt, InLogAt, mxH
<1>4. CtlAt(c)'
  <2>1. sharedMask'[c] = sharedMask[c] /\ exclMask'[c] = exclMask[c] /\ wal' = wal
    BY <1>1, <1>2, OwnLocks DEF files
  <2>2. QED BY <1>1, <1>2, <2>1, MovesIs
            DEF CtlAt, ModeAt, TransAt, MarkStepAt, CkStepAt, LocksAt, InWrite,
                FrameStepAt, InLogAt, HdrPc, RecoverPc, MarkPc, WritePc, RestartPc, FramePc, CkPc,
                CkRunPc, CkWritePc, CkMode
<1>5. QED BY <1>2, <1>3, <1>4, MovesCtl DEF WalPc, WritePc, RestartPc

LEMMA RestartHdr0Ctl == ASSUME Ctl, NEW c \in Conn, RestartHdr0(c) PROVE Ctl'
<1>1. WalTypeOK /\ Steady /\ CtlAt(c)
  BY DEF Ctl
<1>2. /\ pc[c] = "restart0" /\ Moves(c, "restartinfo") /\ UNCHANGED <<lockVars, files, seed, env>>
      /\ Shm(w[c].hdr, shm.hdr[1], shm.nBackfill, shm.aReadMark, shm.aPgno)
  BY <1>1, RestartHdr0Does
<1>3. FilesOK(c) /\ LockStep(c)
  BY <1>1, <1>2, IndexBound, ShmFiles DEF LockStep, CtlAt, InLogAt
<1>4. CtlAt(c)'
  <2>1. sharedMask'[c] = sharedMask[c] /\ exclMask'[c] = exclMask[c] /\ wal' = wal
    BY <1>1, <1>2, OwnLocks DEF files
  <2>2. QED BY <1>1, <1>2, <2>1, MovesIs
            DEF CtlAt, ModeAt, TransAt, MarkStepAt, CkStepAt, LocksAt, InWrite,
                FrameStepAt, InLogAt, HdrPc, RecoverPc, MarkPc, WritePc, RestartPc, FramePc, CkPc,
                CkRunPc, CkWritePc, CkMode
<1>5. QED BY <1>2, <1>3, <1>4, MovesCtl DEF WalPc, WritePc, RestartPc

LEMMA RestartInfoCtl == ASSUME Ctl, NEW c \in Conn, RestartInfo(c) PROVE Ctl'
<1> DEFINE o == [w[c] EXCEPT !.readLock = -1]
<1>1. WalTypeOK /\ Steady /\ CtlAt(c)
  BY DEF Ctl
<1>2. /\ pc[c] = "restartinfo" /\ UNCHANGED <<files, seed, env>>
      /\ L!Unlock(c, Marked \cup {READ(0)}) /\ Does(c, "marks", call[c], o, cached[c], mine[c])
  BY <1>1, RestartInfoDoes
<1>3. PICK marks : Shm(H, shm.hdr[1], 0, marks, shm.aPgno)
  BY <1>1, RestartInfoDoes
<1>4. o \in WalObj /\ o.hdr = w[c].hdr /\ o.svpt = w[c].svpt /\ o.readLock = -1
  BY <1>1, Types, NoReadLock, ReadLockIs
<1> HIDE DEF o
<1>5. FilesOK(c)
  BY <1>2, <1>3, IndexBound, ShmFiles DEF mxH
<1>6. LockStep(c)
  <2>1. Marked \cup {READ(0)} \in SUBSET Slot
    BY Slots
  <2>2. QED BY <1>2, <2>1 DEF LockStep
<1>7. CtlAt(c)'
  <2>1. /\ pc'[c] = "marks" /\ call'[c] = call[c] /\ w'[c] = o /\ mine'[c] = mine[c] /\ wal' = wal
        /\ WRITE \in exclMask[c] => WRITE \in exclMask'[c]
    <3>1. pc'[c] = "marks" /\ call'[c] = call[c] /\ w'[c] = o /\ mine'[c] = mine[c]
      BY <1>1, <1>2, DoesIs
    <3>2. WRITE \in exclMask[c] => WRITE \in exclMask'[c]
      <4>1. WRITE \notin Marked \cup {READ(0)}
        BY Slots
      <4>2. QED BY <1>1, <1>2, <4>1, KeepsLock
    <3>3. wal' = wal
      BY <1>1, <1>2, Slots DEF files
    <3>4. QED BY <3>1, <3>2, <3>3
  <2>2. call[c].mode = "write" /\ InWrite(c)
    BY <1>1, <1>2 DEF CtlAt, TransAt, ModeAt, WritePc, RestartPc
  <2>3. QED BY <1>1, <1>2, <1>4, <2>1, <2>2
            DEF CtlAt, ModeAt, TransAt, MarkStepAt, CkStepAt, LocksAt, InWrite,
                FrameStepAt, InLogAt, HdrPc, RecoverPc, MarkPc, WritePc, RestartPc, FramePc, CkPc,
                CkRunPc, CkWritePc, CkMode
<1>8. QED BY <1>1, <1>2, <1>4, <1>5, <1>6, <1>7, Types, CtlStep DEF WalPc, MarkPc

LEMMA WriteWalHdrCtl == ASSUME Ctl, NEW c \in Conn, WriteWalHdr(c) PROVE Ctl'
<1> DEFINE mx == w[c].hdr.mxFrame
           k == [call[c] EXCEPT !.iFrame = mx]
<1>1. WalTypeOK /\ Steady /\ CtlAt(c) /\ LogBound
  BY DEF Ctl
<1>2. pc[c] = "walhdr" /\ UNCHANGED <<lockVars, shm, walDisk, db, dbDisk, env>>
  BY <1>1, WriteWalHdrDoes
<1>3. /\ mx \in Nat /\ mx <= Len(wal.frames) /\ Len(wal.frames) \in Nat
      /\ call[c].mode = "write" /\ call[c].list \in Seq(Nat \ {0}) /\ Len(call[c].list) \in Nat
  <2>1. call[c].list \in Seq(Nat \ {0})
    BY <1>1, Types DEF Call
  <2>2. mx \in Nat /\ Len(wal.frames) \in Nat
    <3>1. w[c].hdr \in Hdr
      BY <1>1, Types
    <3>2. mx \in Nat
      BY <3>1 DEF Hdr
    <3>3. Len(wal.frames) \in Nat
      BY <1>1 DEF WalTypeOK, Log
    <3>4. QED BY <3>2, <3>3
  <2>3. mx <= Len(wal.frames) /\ call[c].mode = "write"
    BY <1>1, <1>2 DEF CtlAt, InLogAt, ModeAt, WritePc, FramePc
  <2>4. Len(call[c].list) \in Nat
    BY <2>1
  <2>5. QED BY <2>1, <2>2, <2>3, <2>4
<1>4. /\ k \in Call /\ k.mode = "write" /\ k.h1 = call[c].h1 /\ k.list = call[c].list
      /\ k.iFrame = mx
  <2> HIDE DEF mx
  <2>1. QED BY <1>1, <1>3, Types DEF Call
<1> HIDE DEF k
<1>5. sharedMask'[c] = sharedMask[c] /\ exclMask'[c] = exclMask[c] /\ LockStep(c)
  BY <1>1, <1>2, OwnLocks DEF LockStep
<1>6. Len(call[c].list) >= 1 /\ mx \in mx..(mx + Len(call[c].list) - 1)
  <2>1. Len(call[c].list) >= 1
    BY <1>1, <1>2, <1>3 DEF CtlAt, FrameStepAt
  <2> HIDE DEF mx
  <2>2. QED BY <1>3, <2>1
<1>7. CASE UNCHANGED <<wal, seed>> /\ Calls(c, "frame", [call[c] EXCEPT !.iFrame = w[c].hdr.mxFrame])
  <2>1. Does(c, "frame", k, w[c], cached[c], mine[c])
    BY <1>7 DEF Calls, k
  <2>2. FilesOK(c)
    BY <1>2, <1>7, QuietFiles DEF files
  <2>3. CtlAt(c)'
    <3>1. pc'[c] = "frame" /\ call'[c] = k /\ w'[c] = w[c] /\ mine'[c] = mine[c] /\ wal' = wal
      BY <1>1, <1>7, <2>1, DoesIs
    <3>2. QED BY <1>1, <1>2, <1>3, <1>4, <1>5, <1>6, <3>1
              DEF CtlAt, ModeAt, TransAt, MarkStepAt, CkStepAt, LocksAt, InWrite,
                  FrameStepAt, InLogAt, HdrPc, RecoverPc, MarkPc, WritePc, RestartPc, FramePc, CkPc,
                  CkRunPc, CkWritePc, CkMode
  <2>4. QED BY <1>1, <1>2, <1>4, <1>5, <2>1, <2>2, <2>3, Types, CtlStep DEF WalPc, WritePc, FramePc
<1>8. ASSUME NEW salt \in Nat,
             (salt = seed /\ seed' = seed + 1) \/ (salt = w[c].hdr.salt /\ seed' = seed),
             wal' = [wal EXCEPT !.salt = salt, !.nCkpt = w[c].nCkpt],
             Does(c, "walhdrsync", [call[c] EXCEPT !.iFrame = w[c].hdr.mxFrame],
                  [w[c] EXCEPT !.hdr = [w[c].hdr EXCEPT !.salt = salt, !.cksum = <<0, salt>>]],
                  cached[c], mine[c])
      PROVE  Ctl'
  <2> DEFINE h == [w[c].hdr EXCEPT !.salt = salt, !.cksum = <<0, salt>>]
             o == [w[c] EXCEPT !.hdr = h]
  <2>1. h \in Hdr /\ h.mxFrame = mx
    BY <1>1, <1>8, Types DEF Hdr, Pair
  <2>2. Does(c, "walhdrsync", k, o, cached[c], mine[c])
    BY <1>8 DEF k
  <2> HIDE DEF h
  <2>3. o \in WalObj /\ o.hdr = h /\ o.svpt = w[c].svpt /\ o.readLock = w[c].readLock
    BY <1>1, <2>1, Types DEF WalObj
  <2> HIDE DEF o
  <2>4. seed' \in Nat \ {0}
    BY <1>1, <1>8 DEF WalTypeOK
  <2>5. wal' \in Log /\ wal'.frames = wal.frames
    <3>1. w[c].nCkpt \in Nat /\ wal \in Log
      BY <1>1, Types DEF WalObj, WalTypeOK
    <3>2. QED BY <1>8, <3>1 DEF Log
  <2>6. FilesOK(c)
    <3>1. Len(wal'.frames) <= MaxFrame /\ Len(wal'.frames) >= Len(wal.frames)
      BY <1>1, <1>3, <2>5 DEF LogBound
    <3>2. db' \in Seq(Int) /\ dbDisk' \in Seq(Int)
      BY <1>1, <1>2 DEF WalTypeOK
    <3>3. QED BY <1>2, <2>4, <2>5, <3>1, <3>2, DiskFiles
  <2>7. CtlAt(c)'
    <3>1. pc'[c] = "walhdrsync" /\ call'[c] = k /\ w'[c] = o /\ mine'[c] = mine[c]
      BY <1>1, <2>2, DoesIs
    <3>2. QED BY <1>1, <1>2, <1>3, <1>4, <1>5, <1>6, <2>1, <2>3, <2>5, <3>1
              DEF CtlAt, ModeAt, TransAt, MarkStepAt, CkStepAt, LocksAt, InWrite,
                  FrameStepAt, InLogAt, HdrPc, RecoverPc, MarkPc, WritePc, RestartPc, FramePc, CkPc,
                  CkRunPc, CkWritePc, CkMode
  <2>8. QED BY <1>1, <1>2, <1>4, <1>5, <2>2, <2>3, <2>6, <2>7, Types, CtlStep DEF WalPc, WritePc, FramePc
<1>9. QED BY <1>1, <1>7, <1>8, WriteWalHdrDoes

LEMMA SyncWalHdrCtl == ASSUME Ctl, NEW c \in Conn, SyncWalHdr(c) PROVE Ctl'
<1>1. WalTypeOK /\ Steady /\ CtlAt(c) /\ LogBound
  BY DEF Ctl
<1>2. /\ pc[c] = "walhdrsync" /\ Moves(c, "frame")
      /\ walDisk' = wal /\ UNCHANGED <<lockVars, shm, wal, db, dbDisk, seed, env>>
  BY <1>1, SyncWalHdrDoes
<1>3. Len(wal.frames) \in Nat
  BY <1>1 DEF WalTypeOK, Log
<1>4. FilesOK(c) /\ LockStep(c)
  BY <1>1, <1>2, <1>3, DiskFiles DEF LockStep, WalTypeOK, LogBound
<1>5. CtlAt(c)'
  <2>1. sharedMask'[c] = sharedMask[c] /\ exclMask'[c] = exclMask[c] /\ wal' = wal
    BY <1>1, <1>2, OwnLocks
  <2>2. call[c].mode = "write" /\ call[c].iFrame = w[c].hdr.mxFrame
    BY <1>1, <1>2 DEF CtlAt, ModeAt, FrameStepAt, WritePc, FramePc
  <2>3. call[c].iFrame \in w[c].hdr.mxFrame..(w[c].hdr.mxFrame + Len(call[c].list) - 1)
    <3>1. w[c].hdr.mxFrame \in Nat /\ call[c].list \in Seq(Nat \ {0})
      BY <1>1, Types DEF Hdr, Call
    <3>2. Len(call[c].list) >= 1 /\ Len(call[c].list) \in Nat
      BY <1>1, <1>2, <2>2, <3>1 DEF CtlAt, FrameStepAt
    <3>3. QED BY <2>2, <3>1, <3>2
  <2>4. QED BY SMTT(30), <1>1, <1>2, <2>1, <2>2, <2>3, MovesIs
            DEF CtlAt, ModeAt, TransAt, MarkStepAt, CkStepAt, LocksAt, InWrite,
                FrameStepAt, InLogAt, HdrPc, RecoverPc, MarkPc, WritePc, RestartPc, FramePc, CkPc,
                CkRunPc, CkWritePc, CkMode
<1>6. QED BY <1>2, <1>4, <1>5, MovesCtl DEF WalPc, WritePc, FramePc

LEMMA WriteFrameCtl == ASSUME Ctl, NEW c \in Conn, WriteFrame(c) PROVE Ctl'
<1> DEFINE n == call[c].iFrame
           mx == w[c].hdr.mxFrame
           len == Len(call[c].list)
           x == call[c].data
           k == [call[c] EXCEPT !.iFrame = n + 1]
<1>1. WalTypeOK /\ Steady /\ CtlAt(c) /\ LogBound /\ FrameStepAt(c)
  BY DEF Ctl, CtlAt
<1>2. /\ pc[c] = "frame" /\ UNCHANGED <<lockVars, shm, walDisk, db, dbDisk, seed, env>>
      /\ wal' \in Log /\ Len(wal'.frames) >= Len(wal.frames) /\ Len(wal'.frames) >= n + 1
      /\ Len(wal'.frames) = Len(wal.frames) \/ Len(wal'.frames) = n + 1
  BY <1>1, WriteFrameDoes
<1>3. PICK to \in {"frame", "framesync", "index"}, pg \in Nat :
        /\ to = "frame" <=> n - mx + 1 # len
        /\ Does(c, to, k, [w[c] EXCEPT !.hdr = [w[c].hdr EXCEPT !.cksum = <<x, pg>>]],
                cached[c], mine[c])
  BY <1>1, WriteFrameDoes
<1>4. n \in Nat /\ mx \in Nat /\ x \in Nat /\ len \in Nat
  <2>1. call[c].list \in Seq(Nat \ {0}) /\ n \in Nat /\ x \in Nat
    BY <1>1, Types DEF Call
  <2>2. mx \in Nat
    BY <1>1, Types DEF Hdr
  <2>3. QED BY <2>1, <2>2
<1>5. call[c].mode = "write"
  BY <1>1, <1>2 DEF CtlAt, ModeAt, WritePc, FramePc
<1>6. len >= 1 /\ mx + len <= MaxFrame /\ n \in mx..(mx + len - 1)
  BY <1>1, <1>2, <1>5 DEF FrameStepAt
<1>7. k \in Call /\ k.mode = "write" /\ k.h1 = call[c].h1 /\ k.list = call[c].list /\ k.iFrame = n + 1
  <2>1. n + 1 \in Nat
    BY <1>4
  <2>2. QED BY <1>1, <1>5, <2>1, Types DEF Call
<1> DEFINE h == [w[c].hdr EXCEPT !.cksum = <<x, pg>>]
           o == [w[c] EXCEPT !.hdr = h]
<1>8. h \in Hdr /\ h.mxFrame = mx
  <2>1. <<x, pg>> \in Pair
    BY <1>4 DEF Pair
  <2>2. QED BY <1>1, <2>1, Types DEF Hdr
<1>9. Does(c, to, k, o, cached[c], mine[c])
  BY <1>3
<1> HIDE DEF h
<1>10. o \in WalObj /\ o.hdr = h /\ o.svpt = w[c].svpt /\ o.readLock = w[c].readLock
  BY <1>1, <1>8, Types DEF WalObj
<1> HIDE DEF o, k
<1>11. Len(wal.frames) \in Nat /\ Len(wal'.frames) \in Nat /\ Len(wal.frames) <= MaxFrame /\ MaxFrame \in Nat
  BY <1>1, <1>2, WalAssumption DEF WalTypeOK, Log, LogBound
<1> DEFINE fn == n + 1
<1>12. /\ Len(wal'.frames) <= MaxFrame
       /\ to = "frame" => fn \in mx..(mx + len - 1)
       /\ to # "frame" => fn = mx + len
  <2> HIDE DEF n, mx, len
  <2>1. QED BY SMTT(30), <1>2, <1>3, <1>4, <1>6, <1>11
<1>13. FilesOK(c) /\ LockStep(c)
  <2>1. db' \in Seq(Int) /\ dbDisk' \in Seq(Int) /\ seed' \in Nat \ {0}
    BY <1>1, <1>2 DEF WalTypeOK
  <2>2. QED BY <1>2, <1>12, <2>1, DiskFiles DEF LockStep
<1>14. CtlAt(c)'
  <2>1. /\ pc'[c] = to /\ call'[c] = k /\ w'[c] = o /\ mine'[c] = mine[c]
        /\ sharedMask'[c] = sharedMask[c] /\ exclMask'[c] = exclMask[c]
    <3>1. pc'[c] = to /\ call'[c] = k /\ w'[c] = o /\ mine'[c] = mine[c]
      BY <1>1, <1>2, <1>9, DoesIs
    <3>2. sharedMask'[c] = sharedMask[c] /\ exclMask'[c] = exclMask[c]
      BY <1>1, <1>2, <1>9, OwnLocks
    <3>3. QED BY <3>1, <3>2
  <2>2. FrameStepAt(c)'
    BY <1>2, <1>5, <1>6, <1>7, <1>8, <1>10, <1>12, <2>1 DEF FrameStepAt
  <2>3. InLogAt(c)'
    <3>1. /\ w[c].hdr.mxFrame \in Nat /\ call[c].h1.mxFrame \in Nat
          /\ w[c].svpt # None => w[c].svpt.mxFrame \in Nat
      BY <1>1 DEF WalTypeOK, WalObj, Hdr, Call, Svpt
    <3>2. QED BY SMTT(30), <1>1, <1>2, <1>7, <1>8, <1>10, <1>11, <2>1, <3>1 DEF CtlAt, InLogAt
  <2>4. ModeAt(c)' /\ TransAt(c)' /\ MarkStepAt(c)' /\ CkStepAt(c)' /\ LocksAt(c)'
    <3> HIDE DEF n, mx, len, x
    <3>1. QED BY <1>1, <1>2, <1>5, <1>7, <1>10, <2>1
              DEF CtlAt, ModeAt, TransAt, MarkStepAt, CkStepAt, LocksAt, InWrite,
                  FrameStepAt, InLogAt, HdrPc, RecoverPc, MarkPc, WritePc, RestartPc, FramePc, CkPc,
                  CkRunPc, CkWritePc, CkMode
  <2>5. QED BY <2>2, <2>3, <2>4 DEF CtlAt
<1>15. to \in WalPc
  BY DEF WalPc, WritePc, FramePc
<1>16. QED BY <1>1, <1>2, <1>5, <1>7, <1>9, <1>10, <1>13, <1>14, <1>15, Types, CtlStep

LEMMA SyncFramesCtl == ASSUME Ctl, NEW c \in Conn, SyncFrames(c) PROVE Ctl'
<1>1. WalTypeOK /\ Steady /\ CtlAt(c) /\ LogBound
  BY DEF Ctl
<1>2. /\ pc[c] = "framesync" /\ Moves(c, "index")
      /\ walDisk' = wal /\ UNCHANGED <<lockVars, shm, wal, db, dbDisk, seed, env>>
  BY <1>1, SyncFramesDoes
<1>3. Len(wal.frames) \in Nat
  BY <1>1 DEF WalTypeOK, Log
<1>4. FilesOK(c) /\ LockStep(c)
  BY <1>1, <1>2, <1>3, DiskFiles DEF LockStep, WalTypeOK, LogBound
<1>5. CtlAt(c)'
  <2>1. sharedMask'[c] = sharedMask[c] /\ exclMask'[c] = exclMask[c] /\ wal' = wal
    BY <1>1, <1>2, OwnLocks
  <2>2. QED BY <1>1, <1>2, <2>1, MovesIs
            DEF CtlAt, ModeAt, TransAt, MarkStepAt, CkStepAt, LocksAt, InWrite,
                FrameStepAt, InLogAt, HdrPc, RecoverPc, MarkPc, WritePc, RestartPc, FramePc, CkPc,
                CkRunPc, CkWritePc, CkMode
<1>6. QED BY <1>2, <1>4, <1>5, MovesCtl DEF WalPc, WritePc, FramePc

LEMMA AppendIndexCtl == ASSUME Ctl, NEW c \in Conn, AppendIndex(c) PROVE Ctl'
<1> DEFINE mx == w[c].hdr.mxFrame
           x  == call[c]
<1>1. WalTypeOK /\ Steady /\ CtlAt(c) /\ LogBound /\ FrameStepAt(c)
  BY DEF Ctl, CtlAt
<1>2. pc[c] = "index" /\ UNCHANGED <<lockVars, files, seed, env>>
  BY <1>1, AppendIndexDoes
<1>3. PICK idx \in [1..MaxFrame -> Nat], h \in Hdr :
        /\ h.mxFrame = mx + Len(x.list)
        /\ \/ /\ Does(c, "commit0", x, [w[c] EXCEPT !.hdr = h], cached[c], mine[c])
              /\ Shm(H, h, shm.nBackfill, shm.aReadMark, idx)
           \/ /\ Does(c, "idle", NoCall, [w[c] EXCEPT !.hdr = h], cached[c], mine[c])
              /\ Shm(H, shm.hdr[1], shm.nBackfill, shm.aReadMark, idx)
  BY <1>1, AppendIndexDoes
<1> DEFINE o == [w[c] EXCEPT !.hdr = h]
<1>4. o \in WalObj /\ o.hdr = h /\ o.svpt = w[c].svpt /\ o.readLock = w[c].readLock
  BY <1>1, Types DEF WalObj
<1>5. x.mode = "write" /\ mx + Len(x.list) <= Len(wal.frames) /\ Len(wal.frames) \in Nat
  BY <1>1, <1>2 DEF CtlAt, ModeAt, WritePc, FramePc, FrameStepAt, WalTypeOK, Log
<1>6. LockStep(c) /\ sharedMask'[c] = sharedMask[c] /\ exclMask'[c] = exclMask[c] /\ wal' = wal
  BY <1>1, <1>2, OwnLocks DEF LockStep, files
<1>7. InWrite(c) /\ w[c].readLock >= 1 /\ w[c].readLock \in Int
  BY <1>1, <1>2, <1>5, Types DEF CtlAt, TransAt, FramePc, WalObj
<1>8. CASE /\ Does(c, "commit0", x, [w[c] EXCEPT !.hdr = h], cached[c], mine[c])
           /\ Shm(H, h, shm.nBackfill, shm.aReadMark, idx)
  <2>1. FilesOK(c)
    BY <1>2, <1>3, <1>5, <1>8, IndexBound, ShmFiles DEF mxH
  <2>2. Does(c, "commit0", x, o, cached[c], mine[c])
    BY <1>8
  <2> HIDE DEF o
  <2>3. CtlAt(c)'
    <3>1. pc'[c] = "commit0" /\ call'[c] = x /\ w'[c] = o /\ mine'[c] = mine[c]
      BY <1>1, <2>2, DoesIs
    <3>2. QED BY <1>1, <1>2, <1>3, <1>4, <1>5, <1>6, <1>7, <3>1
              DEF CtlAt, ModeAt, TransAt, MarkStepAt, CkStepAt, LocksAt, InWrite,
                  FrameStepAt, InLogAt, HdrPc, RecoverPc, MarkPc, WritePc, RestartPc, FramePc, CkPc,
                  CkRunPc, CkWritePc, CkMode
  <2>4. QED BY <1>1, <1>2, <1>4, <1>5, <1>6, <2>1, <2>2, <2>3, Types, CtlStep DEF WalPc, WritePc, FramePc
<1>9. CASE /\ Does(c, "idle", NoCall, [w[c] EXCEPT !.hdr = h], cached[c], mine[c])
           /\ Shm(H, shm.hdr[1], shm.nBackfill, shm.aReadMark, idx)
  <2>1. FilesOK(c)
    BY <1>2, <1>3, <1>5, <1>9, IndexBound, ShmFiles DEF mxH
  <2>2. Does(c, "idle", NoCall, o, cached[c], mine[c])
    BY <1>9
  <2> HIDE DEF o
  <2>3. CtlAt(c)'
    <3>1. pc'[c] = "idle" /\ call'[c] = NoCall /\ w'[c] = o /\ mine'[c] = mine[c]
      BY <1>1, <2>2, DoesIs
    <3>2. w[c].readLock >= 0
      BY <1>7
    <3>3. QED BY <1>1, <1>2, <1>3, <1>4, <1>5, <1>6, <1>7, <3>1, <3>2
              DEF NoCall, ZeroHdr, CtlAt, ModeAt, TransAt, MarkStepAt, CkStepAt, LocksAt, InWrite,
                                   FrameStepAt, InLogAt, HdrPc, RecoverPc, MarkPc, WritePc, RestartPc, FramePc, CkPc,
                                   CkRunPc, CkWritePc, CkMode
  <2>4. NoCall.mode = "passive"
    BY DEF NoCall
  <2>5. QED BY <1>1, <1>2, <1>4, <1>5, <1>6, <2>1, <2>2, <2>3, <2>4, Types, Blanks, CtlStep DEF WalPc
<1>10. QED BY <1>3, <1>8, <1>9

LEMMA CommitHdr0Ctl == ASSUME Ctl, NEW c \in Conn, CommitHdr0(c) PROVE Ctl'
<1> DEFINE o == [w[c] EXCEPT !.svpt = None]
<1>1. WalTypeOK /\ Steady /\ CtlAt(c)
  BY DEF Ctl
<1>2. /\ pc[c] = "commit0" /\ UNCHANGED <<files, seed, env>> /\ L!Unlock(c, {WRITE})
      /\ Does(c, "idle", NoCall, o, mine[c], None)
      /\ Shm(w[c].hdr, shm.hdr[1], shm.nBackfill, shm.aReadMark, shm.aPgno)
  BY <1>1, CommitHdr0Does
<1>3. o \in WalObj /\ o.hdr = w[c].hdr /\ o.svpt = None /\ o.readLock = w[c].readLock
  BY <1>1, Types DEF WalObj
<1> HIDE DEF o
<1>4. FilesOK(c) /\ LockStep(c)
  BY <1>1, <1>2, Slots, IndexBound, ShmFiles DEF LockStep, CtlAt, InLogAt
<1>5. CtlAt(c)'
  <2>1. /\ pc'[c] = "idle" /\ call'[c] = NoCall /\ w'[c] = o /\ mine'[c] = None /\ wal' = wal
        /\ sharedMask'[c] = sharedMask[c] \ {WRITE} /\ Len(wal.frames) \in Nat
    <3>1. pc'[c] = "idle" /\ call'[c] = NoCall /\ w'[c] = o /\ mine'[c] = None
      BY <1>1, <1>2, DoesIs
    <3>2. sharedMask'[c] = sharedMask[c] \ {WRITE}
      BY <1>1, <1>2, OwnLocks
    <3>3. wal' = wal /\ Len(wal.frames) \in Nat
      BY <1>1, <1>2 DEF files, WalTypeOK, Log
    <3>4. QED BY <3>1, <3>2, <3>3
  <2>2. /\ w[c].readLock >= 0 => READ(w[c].readLock) \in sharedMask[c]
        /\ w[c].readLock >= 0 => w[c].readLock \in Readers
    BY <1>1, Types DEF CtlAt, LocksAt, WalObj, Readers
  <2>3. w[c].readLock >= 0 => READ(w[c].readLock) # WRITE
    BY <2>2, Slots
  <2>4. QED BY <1>1, <1>2, <1>3, <2>1, <2>2, <2>3
            DEF NoCall, ZeroHdr, CtlAt, ModeAt, TransAt, MarkStepAt, CkStepAt, LocksAt, InWrite,
                                 FrameStepAt, InLogAt, HdrPc, RecoverPc, MarkPc, WritePc, RestartPc, FramePc, CkPc,
                                 CkRunPc, CkWritePc, CkMode
<1>6. NoCall.mode = "passive"
  BY DEF NoCall
<1>7. QED BY <1>1, <1>2, <1>3, <1>4, <1>5, <1>6, Blanks, Types, CtlStep DEF WalPc

LEMMA FramesFailCtl == ASSUME Ctl, NEW c \in Conn, FramesFail(c) PROVE Ctl'
<1>1. WalTypeOK /\ Steady /\ CtlAt(c)
  BY DEF Ctl
<1>2. /\ pc[c] \in {"walhdr", "walhdrsync", "frame", "framesync"}
      /\ Moves(c, "failed") /\ UNCHANGED <<lockVars, shm, files, seed>> /\ EnvOK'
  BY <1>1, FramesFailDoes
<1>3. FilesOK(c) /\ LockStep(c)
  BY <1>2, QuietFiles DEF LockStep
<1>4. CtlAt(c)'
  <2>1. sharedMask'[c] = sharedMask[c] /\ exclMask'[c] = exclMask[c] /\ wal' = wal
    BY <1>1, <1>2, OwnLocks DEF files
  <2>2. QED BY <1>1, <1>2, <2>1, MovesIs
            DEF CtlAt, ModeAt, TransAt, MarkStepAt, CkStepAt, LocksAt, InWrite,
                FrameStepAt, InLogAt, HdrPc, RecoverPc, MarkPc, WritePc, RestartPc, FramePc, CkPc,
                CkRunPc, CkWritePc, CkMode
<1>5. QED BY <1>2, <1>3, <1>4, MovesCtl DEF WalPc, WritePc, FramePc

LEMMA RollbackCtl == ASSUME Ctl, NEW c \in Conn, Rollback(c) PROVE Ctl'
<1> DEFINE o == [w[c] EXCEPT !.hdr = H, !.svpt = None]
<1>1. WalTypeOK /\ Steady /\ CtlAt(c)
  BY DEF Ctl
<1>2. /\ pc[c] \in {"idle", "failed"} /\ InWrite(c) /\ UNCHANGED <<files, seed, env>>
      /\ L!Unlock(c, {WRITE}) /\ Does(c, "idle", NoCall, o, cached[c], None)
      /\ Shm(H, shm.hdr[1], shm.nBackfill, shm.aReadMark, CleanUp(shm.aPgno, mxH))
  BY <1>1, RollbackDoes
<1>3. o \in WalObj /\ o.hdr = H /\ o.svpt = None /\ o.readLock = w[c].readLock
  BY <1>1, Types DEF WalObj
<1> HIDE DEF o
<1>4. FilesOK(c) /\ LockStep(c)
  BY <1>1, <1>2, Slots, IndexBound, ShmFiles DEF LockStep, mxH
<1>5. CtlAt(c)'
  <2>1. /\ pc'[c] = "idle" /\ call'[c] = NoCall /\ w'[c] = o /\ mine'[c] = None /\ wal' = wal
        /\ sharedMask'[c] = sharedMask[c] \ {WRITE} /\ Len(wal.frames) \in Nat
    <3>1. pc'[c] = "idle" /\ call'[c] = NoCall /\ w'[c] = o /\ mine'[c] = None
      BY <1>1, <1>2, DoesIs
    <3>2. sharedMask'[c] = sharedMask[c] \ {WRITE}
      BY <1>1, <1>2, OwnLocks
    <3>3. wal' = wal /\ Len(wal.frames) \in Nat
      BY <1>1, <1>2 DEF files, WalTypeOK, Log
    <3>4. QED BY <3>1, <3>2, <3>3
  <2>2. /\ w[c].readLock >= 0 => READ(w[c].readLock) \in sharedMask[c]
        /\ w[c].readLock >= 0 => w[c].readLock \in Readers
    BY <1>1, Types DEF CtlAt, LocksAt, WalObj, Readers
  <2>3. w[c].readLock >= 0 => READ(w[c].readLock) # WRITE
    BY <2>2, Slots
  <2>4. H.mxFrame <= Len(wal.frames)
    BY <1>2, IndexBound DEF mxH
  <2>5. QED BY <1>1, <1>2, <1>3, <2>1, <2>2, <2>3, <2>4
            DEF NoCall, ZeroHdr, CtlAt, ModeAt, TransAt, MarkStepAt, CkStepAt, LocksAt, InWrite,
                                 FrameStepAt, InLogAt, HdrPc, RecoverPc, MarkPc, WritePc, RestartPc, FramePc, CkPc,
                                 CkRunPc, CkWritePc, CkMode
<1>6. NoCall.mode = "passive"
  BY DEF NoCall
<1>7. QED BY <1>1, <1>2, <1>3, <1>4, <1>5, <1>6, Blanks, Types, CtlStep DEF WalPc

LEMMA CheckpointCtl == ASSUME Ctl, NEW c \in Conn, Checkpoint(c) PROVE Ctl'
<1>1. WalTypeOK /\ Steady /\ CtlAt(c)
  BY DEF Ctl
<1>2. /\ pc[c] = "idle" /\ w[c].readLock < 0 /\ ~InWrite(c)
      /\ UNCHANGED <<shm, files, seed>> /\ EnvOK'
  BY <1>1, CheckpointDoes
<1>3. PICK mode \in {"passive", "full"}, ss \in SUBSET Slot :
        /\ CKPT \in ss /\ L!LockExclusive(c, ss)
        /\ Calls(c, "hdr0", [NoCall EXCEPT !.mode = mode])
  BY <1>1, Slots, CheckpointDoes
<1> DEFINE k == [NoCall EXCEPT !.mode = mode]
<1>4. k \in Call /\ k.mode = mode /\ k.h1 = ZeroHdr
  BY Blanks DEF NoCall, Call, CkMode
<1>5. Does(c, "hdr0", k, w[c], cached[c], mine[c])
  BY <1>3 DEF Calls
<1> HIDE DEF k
<1>6. FilesOK(c) /\ LockStep(c)
  BY <1>2, <1>3, QuietFiles DEF LockStep
<1>7. CtlAt(c)'
  <2>1. /\ pc'[c] = "hdr0" /\ call'[c] = k /\ w'[c] = w[c] /\ mine'[c] = mine[c] /\ wal' = wal
        /\ sharedMask'[c] = sharedMask[c] /\ exclMask'[c] = exclMask[c] \cup ss
        /\ Len(wal.frames) \in Nat
    <3>1. pc'[c] = "hdr0" /\ call'[c] = k /\ w'[c] = w[c] /\ mine'[c] = mine[c]
      BY <1>1, <1>2, <1>3, <1>5, DoesIs
    <3>2. sharedMask'[c] = sharedMask[c] /\ exclMask'[c] = exclMask[c] \cup ss
      BY <1>1, <1>2, <1>3, <1>5, OwnLocks
    <3>3. wal' = wal /\ Len(wal.frames) \in Nat
      BY <1>1, <1>2, <1>3, <1>5 DEF files, WalTypeOK, Log
    <3>4. QED BY <3>1, <3>2, <3>3
  <2>2. w[c].readLock = -1 /\ w[c].svpt = None
    BY <1>1, <1>2, Types DEF WalObj, CtlAt, TransAt
  <2>3. QED BY <1>1, <1>2, <1>3, <1>4, <2>1, <2>2
            DEF ZeroHdr, CtlAt, ModeAt, TransAt, MarkStepAt, CkStepAt, LocksAt, InWrite,
                         FrameStepAt, InLogAt, HdrPc, RecoverPc, MarkPc, WritePc, RestartPc, FramePc, CkPc,
                         CkRunPc, CkWritePc, CkMode
<1>8. QED BY <1>1, <1>2, <1>4, <1>5, <1>6, <1>7, Types, CtlStep DEF WalPc, HdrPc

LEMMA CkStartCtl == ASSUME Ctl, NEW c \in Conn, CkStart(c) PROVE Ctl'
<1> DEFINE mx == w[c].hdr.mxFrame
<1>1. WalTypeOK /\ Steady /\ CtlAt(c) /\ LogBound
  BY DEF Ctl
<1>2. mx \in Nat /\ mx <= MaxFrame
  <2>1. mx <= Len(wal.frames) /\ Len(wal.frames) <= MaxFrame
    BY <1>1 DEF CtlAt, InLogAt, LogBound
  <2>2. mx \in Nat /\ Len(wal.frames) \in Nat
    <3>1. w[c].hdr \in Hdr
      BY <1>1, Types
    <3>2. mx \in Nat
      BY <3>1 DEF Hdr
    <3>3. Len(wal.frames) \in Nat
      BY <1>1 DEF WalTypeOK, Log
    <3>4. QED BY <3>2, <3>3
  <2>3. QED BY <2>1, <2>2, WalAssumption
<1>3. pc[c] = "ckstart" /\ UNCHANGED lockVars /\ Quiet
  BY <1>1, <1>2, CkStartDoes
<1>4. FilesOK(c) /\ LockStep(c)
  BY <1>3, QuietFiles DEF LockStep, Quiet
<1>5. /\ sharedMask'[c] = sharedMask[c] /\ exclMask'[c] = exclMask[c] /\ wal' = wal
      /\ call[c].mode \in CkMode
  BY <1>1, <1>3, OwnLocks DEF files, Quiet, CtlAt, ModeAt, CkPc
<1>6. CASE Moves(c, "ckend")
  <2>1. CtlAt(c)'
    BY <1>1, <1>3, <1>5, <1>6, MovesIs
       DEF CtlAt, ModeAt, TransAt, MarkStepAt, CkStepAt, LocksAt, InWrite,
           FrameStepAt, InLogAt, HdrPc, RecoverPc, MarkPc, WritePc, RestartPc, FramePc, CkPc,
           CkRunPc, CkWritePc, CkMode
  <2>2. QED BY <1>3, <1>4, <1>6, <2>1, MovesCtl DEF WalPc, CkPc
<1>7. ASSUME NEW todo \in SUBSET (Nat \X Nat), \A t \in todo : t[2] \in 1..mx,
             Calls(c, "ckmark", [call[c] EXCEPT !.mxSafeFrame = mx, !.i = 1, !.todo = todo])
      PROVE  Ctl'
  <2> DEFINE k == [call[c] EXCEPT !.mxSafeFrame = mx, !.i = 1, !.todo = todo]
  <2>1. /\ k \in Call /\ k.mode = call[c].mode /\ k.h1 = call[c].h1 /\ k.i = 1
        /\ k.todo = todo
    <3> HIDE DEF mx
    <3>1. QED BY <1>1, <1>2, Types DEF Call
  <2>2. Does(c, "ckmark", k, w[c], cached[c], mine[c])
    BY <1>7 DEF Calls
  <2> HIDE DEF k
  <2>3. 1 \in 1..NReader
    BY WalAssumption
  <2>4. CtlAt(c)'
    <3>1. pc'[c] = "ckmark" /\ call'[c] = k /\ w'[c] = w[c] /\ mine'[c] = mine[c]
      BY <1>1, <2>2, DoesIs
    <3>2. QED BY <1>1, <1>3, <1>5, <1>7, <2>1, <2>3, <3>1
              DEF CtlAt, ModeAt, TransAt, MarkStepAt, CkStepAt, LocksAt, InWrite,
                  FrameStepAt, InLogAt, HdrPc, RecoverPc, MarkPc, WritePc, RestartPc, FramePc, CkPc,
                  CkRunPc, CkWritePc, CkMode
  <2>5. QED BY <1>1, <1>3, <1>4, <2>1, <2>2, <2>4, Types, CtlStep DEF WalPc, CkPc, CkRunPc
<1>8. QED BY <1>1, <1>2, <1>6, <1>7, CkStartDoes

LEMMA CkMarkCtl == ASSUME Ctl, NEW c \in Conn, CkMark(c) PROVE Ctl'
<1>1. WalTypeOK /\ Steady /\ CtlAt(c) /\ CkStepAt(c)
  BY DEF Ctl, CtlAt
<1>2. pc[c] = "ckmark" /\ Quiet
  BY <1>1, CkMarkDoes
<1>3. call[c].i \in 1..NReader /\ NReader \in Nat /\ call[c].mode \in CkMode
  BY <1>1, <1>2, WalAssumption DEF CkStepAt, CkRunPc, CtlAt, ModeAt, CkPc
<1>4. FilesOK(c) /\ wal' = wal
  BY <1>2, QuietFiles DEF Quiet, files
<1>5. CASE call[c].i < NReader /\ L!LockExclusive(c, {READ(call[c].i)}) /\ Moves(c, "ckput")
  <2>1. call[c].i \in Readers
    BY <1>3, <1>5 DEF Readers
  <2>2. {READ(call[c].i)} \in SUBSET Slot
    BY <2>1, Slots
  <2>3. LockStep(c)
    BY <1>5, <2>2 DEF LockStep
  <2>4. sharedMask'[c] = sharedMask[c] /\ exclMask'[c] = exclMask[c] \cup {READ(call[c].i)}
    BY <1>1, <1>5, OwnLocks
  <2>5. CtlAt(c)'
    BY <1>1, <1>2, <1>3, <1>4, <1>5, <2>4, MovesIs
       DEF CtlAt, ModeAt, TransAt, MarkStepAt, CkStepAt, LocksAt, InWrite,
           FrameStepAt, InLogAt, HdrPc, RecoverPc, MarkPc, WritePc, RestartPc, FramePc, CkPc,
           CkRunPc, CkWritePc, CkMode
  <2>6. QED BY <1>2, <1>4, <1>5, <2>3, <2>5, MovesCtl DEF WalPc, CkPc, CkRunPc
<1>6. ASSUME call[c].i < NReader, UNCHANGED lockVars, NEW s \in Nat,
             Calls(c, "ckmark", [call[c] EXCEPT !.i = call[c].i + 1, !.mxSafeFrame = s])
      PROVE  Ctl'
  <2> DEFINE k == [call[c] EXCEPT !.i = call[c].i + 1, !.mxSafeFrame = s]
  <2>1. call[c].i + 1 \in 1..NReader /\ call[c].i + 1 \in Nat
    BY <1>3, <1>6
  <2>2. /\ k \in Call /\ k.mode = call[c].mode /\ k.h1 = call[c].h1 /\ k.i = call[c].i + 1
        /\ k.todo = call[c].todo
    BY <1>1, <2>1, Types DEF Call
  <2>3. Does(c, "ckmark", k, w[c], cached[c], mine[c])
    BY <1>6 DEF Calls
  <2> HIDE DEF k
  <2>4. CtlAt(c)'
    <3>1. /\ pc'[c] = "ckmark" /\ call'[c] = k /\ w'[c] = w[c] /\ mine'[c] = mine[c]
          /\ sharedMask'[c] = sharedMask[c] /\ exclMask'[c] = exclMask[c]
      <4>1. pc'[c] = "ckmark" /\ call'[c] = k /\ w'[c] = w[c] /\ mine'[c] = mine[c]
        BY <1>1, <1>6, <2>3, DoesIs
      <4>2. sharedMask'[c] = sharedMask[c] /\ exclMask'[c] = exclMask[c]
        BY <1>1, <1>6, <2>3, OwnLocks
      <4>3. QED BY <4>1, <4>2
    <3>2. QED BY <1>1, <1>2, <1>3, <1>4, <2>1, <2>2, <3>1
              DEF CtlAt, ModeAt, TransAt, MarkStepAt, CkStepAt, LocksAt, InWrite,
                  FrameStepAt, InLogAt, HdrPc, RecoverPc, MarkPc, WritePc, RestartPc, FramePc, CkPc,
                  CkRunPc, CkWritePc, CkMode
  <2>5. LockStep(c)
    BY <1>6 DEF LockStep
  <2>6. QED BY <1>1, <1>2, <1>4, <2>2, <2>3, <2>4, <2>5, Types, CtlStep DEF WalPc, CkPc, CkRunPc
<1>7. CASE call[c].i = NReader /\ UNCHANGED lockVars /\ Moves(c, "cklock0")
  <2>1. LockStep(c) /\ sharedMask'[c] = sharedMask[c] /\ exclMask'[c] = exclMask[c]
    BY <1>1, <1>7, OwnLocks DEF LockStep
  <2>2. CtlAt(c)'
    BY <1>1, <1>2, <1>3, <1>4, <1>7, <2>1, MovesIs
       DEF CtlAt, ModeAt, TransAt, MarkStepAt, CkStepAt, LocksAt, InWrite,
           FrameStepAt, InLogAt, HdrPc, RecoverPc, MarkPc, WritePc, RestartPc, FramePc, CkPc,
           CkRunPc, CkWritePc, CkMode
  <2>3. QED BY <1>2, <1>4, <1>7, <2>1, <2>2, MovesCtl DEF WalPc, CkPc, CkRunPc
<1>8. QED BY <1>1, <1>5, <1>6, <1>7, CkMarkDoes

LEMMA CkPutCtl == ASSUME Ctl, NEW c \in Conn, CkPut(c) PROVE Ctl'
<1> DEFINE i == call[c].i
           k == [call[c] EXCEPT !.i = i + 1]
<1>1. WalTypeOK /\ Steady /\ CtlAt(c) /\ CkStepAt(c)
  BY DEF Ctl, CtlAt
<1>2. /\ pc[c] = "ckput" /\ i \in 1..(NReader - 1) /\ UNCHANGED <<files, seed, env>>
      /\ L!Unlock(c, {READ(i)}) /\ Does(c, "ckmark", k, w[c], cached[c], mine[c])
  BY <1>1, CkPutDoes DEF Calls
<1>3. PICK m \in Nat : Shm(H, shm.hdr[1], shm.nBackfill, [shm.aReadMark EXCEPT ![i] = m], shm.aPgno)
  BY <1>1, CkPutDoes
<1>4. i \in Readers /\ i + 1 \in 1..NReader /\ i + 1 \in Nat
  BY <1>2, WalAssumption DEF Readers
<1>5. /\ k \in Call /\ k.mode = call[c].mode /\ k.h1 = call[c].h1 /\ k.i = i + 1
      /\ k.todo = call[c].todo
  BY <1>1, <1>4, Types DEF Call
<1> HIDE DEF k, i
<1>6. FilesOK(c)
  BY <1>2, <1>3, IndexBound, ShmFiles DEF mxH
<1>7. LockStep(c)
  <2>1. {READ(i)} \in SUBSET Slot
    BY <1>4, Slots
  <2>2. QED BY <1>2, <2>1 DEF LockStep
<1>8. CtlAt(c)'
  <2>1. /\ pc'[c] = "ckmark" /\ call'[c] = k /\ w'[c] = w[c] /\ mine'[c] = mine[c] /\ wal' = wal
        /\ sharedMask'[c] = sharedMask[c] \ {READ(i)} /\ exclMask'[c] = exclMask[c] \ {READ(i)}
    <3>1. pc'[c] = "ckmark" /\ call'[c] = k /\ w'[c] = w[c] /\ mine'[c] = mine[c]
      BY <1>1, <1>2, DoesIs
    <3>2. /\ sharedMask'[c] = sharedMask[c] \ {READ(i)}
           /\ exclMask'[c] = exclMask[c] \ {READ(i)}
      BY <1>1, <1>2, OwnLocks
    <3>3. wal' = wal
      BY <1>1, <1>2 DEF files
    <3>4. QED BY <3>1, <3>2, <3>3
  <2>2. READ(i) # CKPT
    BY <1>4, Slots
  <2>3. w[c].readLock = -1 /\ call[c].mode \in CkMode /\ ~InWrite(c)
    BY <1>1, <1>2
       DEF CtlAt, ModeAt, TransAt, MarkStepAt, CkStepAt, LocksAt, InWrite,
           FrameStepAt, InLogAt, HdrPc, RecoverPc, MarkPc, WritePc, RestartPc, FramePc, CkPc,
           CkRunPc, CkWritePc, CkMode
  <2>4. QED BY <1>1, <1>2, <1>4, <1>5, <2>1, <2>2, <2>3
            DEF CtlAt, ModeAt, TransAt, MarkStepAt, CkStepAt, LocksAt, InWrite,
                FrameStepAt, InLogAt, HdrPc, RecoverPc, MarkPc, WritePc, RestartPc, FramePc, CkPc,
                CkRunPc, CkWritePc, CkMode
<1>9. QED BY <1>1, <1>2, <1>5, <1>6, <1>7, <1>8, Types, CtlStep DEF WalPc, CkPc, CkRunPc

LEMMA CkLock0Ctl == ASSUME Ctl, NEW c \in Conn, CkLock0(c) PROVE Ctl'
<1>1. WalTypeOK /\ Steady /\ CtlAt(c)
  BY DEF Ctl
<1>2. pc[c] = "cklock0" /\ Quiet
  BY <1>1, CkLock0Does
<1>3. FilesOK(c) /\ wal' = wal /\ call[c].mode \in CkMode
  BY <1>1, <1>2, QuietFiles DEF Quiet, files, CtlAt, ModeAt, CkPc, CkRunPc
<1>4. CASE UNCHANGED lockVars /\ Moves(c, "ckend")
  <2>1. LockStep(c) /\ sharedMask'[c] = sharedMask[c] /\ exclMask'[c] = exclMask[c]
    BY <1>1, <1>4, OwnLocks DEF LockStep
  <2>2. CtlAt(c)'
    BY <1>1, <1>2, <1>3, <1>4, <2>1, MovesIs
       DEF CtlAt, ModeAt, TransAt, MarkStepAt, CkStepAt, LocksAt, InWrite,
           FrameStepAt, InLogAt, HdrPc, RecoverPc, MarkPc, WritePc, RestartPc, FramePc, CkPc,
           CkRunPc, CkWritePc, CkMode
  <2>3. QED BY <1>2, <1>3, <1>4, <2>1, <2>2, MovesCtl DEF WalPc, CkPc
<1>5. CASE /\ L!LockExclusive(c, {READ(0)})
           /\ Calls(c, "cksync", [call[c] EXCEPT !.nBackfill = shm.nBackfill])
  <2> DEFINE k == [call[c] EXCEPT !.nBackfill = shm.nBackfill]
  <2>1. /\ k \in Call /\ k.mode = call[c].mode /\ k.h1 = call[c].h1 /\ k.i = call[c].i
        /\ k.todo = call[c].todo
    <3>1. shm.nBackfill \in Nat
      BY <1>1, Types DEF Index
    <3>2. QED BY <1>1, <3>1, Types DEF Call
  <2>2. Does(c, "cksync", k, w[c], cached[c], mine[c])
    BY <1>5 DEF Calls
  <2> HIDE DEF k
  <2>3. {READ(0)} \in SUBSET Slot
    BY Slots
  <2>4. LockStep(c)
    BY <1>5, <2>3 DEF LockStep
  <2>5. CtlAt(c)'
    <3>1. /\ pc'[c] = "cksync" /\ call'[c] = k /\ w'[c] = w[c] /\ mine'[c] = mine[c]
          /\ sharedMask'[c] = sharedMask[c] /\ exclMask'[c] = exclMask[c] \cup {READ(0)}
      <4>1. pc'[c] = "cksync" /\ call'[c] = k /\ w'[c] = w[c] /\ mine'[c] = mine[c]
        BY <1>1, <1>5, <2>2, DoesIs
      <4>2. sharedMask'[c] = sharedMask[c] /\ exclMask'[c] = exclMask[c] \cup {READ(0)}
        BY <1>1, <1>5, <2>2, OwnLocks
      <4>3. QED BY <4>1, <4>2
    <3>2. QED BY <1>1, <1>2, <1>3, <2>1, <3>1
              DEF CtlAt, ModeAt, TransAt, MarkStepAt, CkStepAt, LocksAt, InWrite,
                  FrameStepAt, InLogAt, HdrPc, RecoverPc, MarkPc, WritePc, RestartPc, FramePc, CkPc,
                  CkRunPc, CkWritePc, CkMode
  <2>6. QED BY <1>1, <1>2, <1>3, <2>1, <2>2, <2>4, <2>5, Types, CtlStep DEF WalPc, CkPc, CkRunPc, CkWritePc
<1>6. QED BY <1>1, <1>4, <1>5, CkLock0Does

LEMMA CkSyncCtl == ASSUME Ctl, NEW c \in Conn, CkSync(c) PROVE Ctl'
<1>1. WalTypeOK /\ Steady /\ CtlAt(c) /\ LogBound
  BY DEF Ctl
<1>2. /\ pc[c] = "cksync" /\ Moves(c, "ckpage")
      /\ walDisk' = wal /\ UNCHANGED <<lockVars, shm, wal, db, dbDisk, seed, env>>
  BY <1>1, CkSyncDoes
<1>3. Len(wal.frames) \in Nat
  BY <1>1 DEF WalTypeOK, Log
<1>4. FilesOK(c) /\ LockStep(c)
  BY <1>1, <1>2, <1>3, DiskFiles DEF LockStep, WalTypeOK, LogBound
<1>5. CtlAt(c)'
  <2>1. sharedMask'[c] = sharedMask[c] /\ exclMask'[c] = exclMask[c] /\ wal' = wal
    BY <1>1, <1>2, OwnLocks
  <2>2. QED BY <1>1, <1>2, <2>1, MovesIs
            DEF CtlAt, ModeAt, TransAt, MarkStepAt, CkStepAt, LocksAt, InWrite,
                FrameStepAt, InLogAt, HdrPc, RecoverPc, MarkPc, WritePc, RestartPc, FramePc, CkPc,
                CkRunPc, CkWritePc, CkMode
<1>6. QED BY <1>2, <1>4, <1>5, MovesCtl DEF WalPc, CkPc, CkRunPc, CkWritePc

LEMMA CkPageCtl == ASSUME Ctl, NEW c \in Conn, CkPage(c) PROVE Ctl'
<1>1. WalTypeOK /\ Steady /\ CtlAt(c) /\ LogBound /\ CkStepAt(c) /\ InLogAt(c)
  BY DEF Ctl, CtlAt
<1>2. pc[c] = "ckpage" /\ UNCHANGED <<lockVars, shm, wal, walDisk, dbDisk, seed, env>>
  BY <1>1, CkPageDoes
<1>3. Len(wal.frames) \in Nat
  BY <1>1 DEF WalTypeOK, Log
<1>4. LockStep(c) /\ sharedMask'[c] = sharedMask[c] /\ exclMask'[c] = exclMask[c] /\ wal' = wal
  BY <1>1, <1>2, OwnLocks DEF LockStep
<1>5. ASSUME db' \in Seq(Int) PROVE FilesOK(c)
  BY <1>1, <1>2, <1>3, <1>5, DiskFiles DEF WalTypeOK, LogBound
<1>6. CASE db' = db /\ Moves(c, "cktrunc")
  <2>1. CtlAt(c)'
    BY <1>1, <1>2, <1>4, <1>6, MovesIs
       DEF CtlAt, ModeAt, TransAt, MarkStepAt, CkStepAt, LocksAt, InWrite,
           FrameStepAt, InLogAt, HdrPc, RecoverPc, MarkPc, WritePc, RestartPc, FramePc, CkPc,
           CkRunPc, CkWritePc, CkMode
  <2>2. db' \in Seq(Int)
    BY <1>1, <1>6 DEF WalTypeOK
  <2>3. QED BY <1>2, <1>4, <1>5, <1>6, <2>1, <2>2, MovesCtl DEF WalPc, CkPc, CkRunPc, CkWritePc
<1>7. ASSUME NEW t \in Backfills(c), db' \in Seq(Int),
             Calls(c, "ckpage", [call[c] EXCEPT !.todo = call[c].todo \ {t}])
      PROVE  Ctl'
  <2> DEFINE k == [call[c] EXCEPT !.todo = call[c].todo \ {t}]
  <2>1. /\ k \in Call /\ k.mode = call[c].mode /\ k.h1 = call[c].h1 /\ k.i = call[c].i
        /\ k.todo \subseteq call[c].todo
    <3>1. call[c].todo \ {t} \in SUBSET (Nat \X Nat)
      BY <1>1, Types DEF Call
    <3>2. QED BY <1>1, <3>1, Types DEF Call
  <2>2. Does(c, "ckpage", k, w[c], cached[c], mine[c])
    BY <1>7 DEF Calls
  <2> HIDE DEF k
  <2>3. CtlAt(c)'
    <3>1. pc'[c] = "ckpage" /\ call'[c] = k /\ w'[c] = w[c] /\ mine'[c] = mine[c]
      BY <1>1, <2>2, DoesIs
    <3>2. QED BY <1>1, <1>2, <1>4, <2>1, <3>1
              DEF CtlAt, ModeAt, TransAt, MarkStepAt, CkStepAt, LocksAt, InWrite,
                  FrameStepAt, InLogAt, HdrPc, RecoverPc, MarkPc, WritePc, RestartPc, FramePc, CkPc,
                  CkRunPc, CkWritePc, CkMode
  <2>4. FilesOK(c)
    BY <1>5, <1>7
  <2>5. QED BY <1>1, <1>2, <1>4, <2>1, <2>2, <2>3, <2>4, Types, CtlStep DEF WalPc, CkPc, CkRunPc, CkWritePc
<1>8. QED BY <1>1, <1>6, <1>7, CkPageDoes

LEMMA CkTruncCtl == ASSUME Ctl, NEW c \in Conn, CkTrunc(c) PROVE Ctl'
<1>1. WalTypeOK /\ Steady /\ CtlAt(c) /\ LogBound
  BY DEF Ctl
<1>2. /\ pc[c] = "cktrunc" /\ UNCHANGED <<lockVars, shm, wal, walDisk, dbDisk, seed, env>>
      /\ db' \in Seq(Int)
  BY <1>1, CkTruncDoes DEF WalTypeOK
<1>3. Len(wal.frames) \in Nat
  BY <1>1 DEF WalTypeOK, Log
<1>4. LockStep(c) /\ sharedMask'[c] = sharedMask[c] /\ exclMask'[c] = exclMask[c] /\ wal' = wal
  BY <1>1, <1>2, OwnLocks DEF LockStep
<1>5. FilesOK(c)
  BY <1>1, <1>2, <1>3, DiskFiles DEF WalTypeOK, LogBound
<1>6. PICK to \in {"ckdbsync", "ckdone"} : Moves(c, to)
  BY <1>1, CkTruncDoes
<1>7. CtlAt(c)'
  BY <1>1, <1>2, <1>4, <1>6, MovesIs
     DEF CtlAt, ModeAt, TransAt, MarkStepAt, CkStepAt, LocksAt, InWrite,
         FrameStepAt, InLogAt, HdrPc, RecoverPc, MarkPc, WritePc, RestartPc, FramePc, CkPc,
         CkRunPc, CkWritePc, CkMode
<1>8. QED BY <1>2, <1>4, <1>5, <1>6, <1>7, MovesCtl DEF WalPc, CkPc, CkRunPc, CkWritePc

LEMMA CkDbSyncCtl == ASSUME Ctl, NEW c \in Conn, CkDbSync(c) PROVE Ctl'
<1>1. WalTypeOK /\ Steady /\ CtlAt(c) /\ LogBound
  BY DEF Ctl
<1>2. /\ pc[c] = "ckdbsync" /\ Moves(c, "ckdone")
      /\ dbDisk' = db /\ UNCHANGED <<lockVars, shm, wal, walDisk, db, seed, env>>
  BY <1>1, CkDbSyncDoes
<1>3. Len(wal.frames) \in Nat
  BY <1>1 DEF WalTypeOK, Log
<1>4. LockStep(c) /\ sharedMask'[c] = sharedMask[c] /\ exclMask'[c] = exclMask[c] /\ wal' = wal
  BY <1>1, <1>2, OwnLocks DEF LockStep
<1>5. FilesOK(c)
  BY <1>1, <1>2, <1>3, DiskFiles DEF WalTypeOK, LogBound
<1>6. CtlAt(c)'
  BY <1>1, <1>2, <1>4, MovesIs
     DEF CtlAt, ModeAt, TransAt, MarkStepAt, CkStepAt, LocksAt, InWrite,
         FrameStepAt, InLogAt, HdrPc, RecoverPc, MarkPc, WritePc, RestartPc, FramePc, CkPc,
         CkRunPc, CkWritePc, CkMode
<1>7. QED BY <1>2, <1>4, <1>5, <1>6, MovesCtl DEF WalPc, CkPc, CkRunPc, CkWritePc

LEMMA CkDoneCtl == ASSUME Ctl, NEW c \in Conn, CkDone(c) PROVE Ctl'
<1>1. WalTypeOK /\ Steady /\ CtlAt(c)
  BY DEF Ctl
<1>2. /\ pc[c] = "ckdone" /\ Moves(c, "ckend") /\ UNCHANGED <<files, seed, env>>
      /\ L!Unlock(c, {READ(0)})
      /\ Shm(H, shm.hdr[1], call[c].mxSafeFrame, shm.aReadMark, shm.aPgno)
  BY <1>1, CkDoneDoes
<1>3. FilesOK(c)
  BY <1>2, IndexBound, ShmFiles DEF mxH
<1>4. LockStep(c)
  <2>1. {READ(0)} \in SUBSET Slot
    BY Slots
  <2>2. QED BY <1>2, <2>1 DEF LockStep
<1>5. CtlAt(c)'
  <2>1. /\ CKPT \in exclMask[c] => CKPT \in exclMask'[c]
        /\ wal' = wal
    <3>1. CKPT \in exclMask[c] => CKPT \in exclMask'[c]
      <4>1. CKPT \notin {READ(0)}
        BY Slots
      <4>2. QED BY <1>1, <1>2, <4>1, KeepsLock
    <3>2. wal' = wal
      BY <1>1, <1>2, Slots DEF files
    <3>3. QED BY <3>1, <3>2
  <2>2. w[c].readLock = -1 /\ call[c].mode \in CkMode /\ ~InWrite(c)
    BY <1>1, <1>2
       DEF CtlAt, ModeAt, TransAt, MarkStepAt, CkStepAt, LocksAt, InWrite,
           FrameStepAt, InLogAt, HdrPc, RecoverPc, MarkPc, WritePc, RestartPc, FramePc, CkPc,
           CkRunPc, CkWritePc, CkMode
  <2>3. QED BY <1>1, <1>2, <2>1, <2>2, MovesIs
            DEF CtlAt, ModeAt, TransAt, MarkStepAt, CkStepAt, LocksAt, InWrite,
                FrameStepAt, InLogAt, HdrPc, RecoverPc, MarkPc, WritePc, RestartPc, FramePc, CkPc,
                CkRunPc, CkWritePc, CkMode
<1>6. QED BY <1>2, <1>3, <1>4, <1>5, MovesCtl DEF WalPc, CkPc

LEMMA CkEndCtl == ASSUME Ctl, NEW c \in Conn, CkEnd(c) PROVE Ctl'
<1>1. WalTypeOK /\ Steady /\ CtlAt(c)
  BY DEF Ctl
<1>2. pc[c] = "ckend" /\ Quiet /\ L!Unlock(c, {WRITE, CKPT})
  BY <1>1, CkEndDoes
<1>3. PICK h \in {ZeroHdr, w[c].hdr} :
        Does(c, "idle", NoCall, [w[c] EXCEPT !.hdr = h], cached[c], mine[c])
  <2>1. [w[c] EXCEPT !.hdr = w[c].hdr] = w[c]
    BY <1>1, Types DEF WalObj
  <2>2. QED BY <1>1, <2>1, CkEndDoes DEF Returns
<1> DEFINE o == [w[c] EXCEPT !.hdr = h]
<1>4. o \in WalObj /\ o.hdr = h /\ o.svpt = w[c].svpt /\ o.readLock = w[c].readLock
  BY <1>1, Blanks, Types DEF WalObj
<1>5. Does(c, "idle", NoCall, o, cached[c], mine[c])
  BY <1>3
<1> HIDE DEF o
<1>6. FilesOK(c) /\ LockStep(c)
  <2>1. {WRITE, CKPT} \in SUBSET Slot
    BY Slots
  <2>2. QED BY <1>2, <2>1, QuietFiles DEF LockStep, Quiet
<1>7. CtlAt(c)'
  <2>1. /\ pc'[c] = "idle" /\ call'[c] = NoCall /\ w'[c] = o /\ mine'[c] = mine[c] /\ wal' = wal
        /\ Len(wal.frames) \in Nat
    BY <1>1, <1>2, <1>5, DoesIs DEF files, WalTypeOK, Log, Quiet
  <2>2. w[c].readLock = -1 /\ ~InWrite(c) /\ w[c].svpt = None
    BY <1>1, <1>2
       DEF CtlAt, ModeAt, TransAt, MarkStepAt, CkStepAt, LocksAt, InWrite,
           FrameStepAt, InLogAt, HdrPc, RecoverPc, MarkPc, WritePc, RestartPc, FramePc, CkPc,
           CkRunPc, CkWritePc, CkMode
  <2>3. h.mxFrame <= Len(wal.frames)
    BY <1>1, <2>1 DEF CtlAt, InLogAt, ZeroHdr
  <2>4. QED BY <1>1, <1>2, <1>4, <2>1, <2>2, <2>3
            DEF NoCall, ZeroHdr, CtlAt, ModeAt, TransAt, MarkStepAt, CkStepAt, LocksAt, InWrite,
                                 FrameStepAt, InLogAt, HdrPc, RecoverPc, MarkPc, WritePc, RestartPc, FramePc, CkPc,
                                 CkRunPc, CkWritePc, CkMode
<1>8. NoCall.mode = "passive"
  BY DEF NoCall
<1>9. QED BY <1>1, <1>2, <1>4, <1>5, <1>6, <1>7, <1>8, Blanks, Types, CtlStep DEF WalPc

LEMMA CkFailsCtl == ASSUME Ctl, NEW c \in Conn, CkFails(c) PROVE Ctl'
<1>1. WalTypeOK /\ Steady /\ CtlAt(c)
  BY DEF Ctl
<1>2. /\ pc[c] \in {"cksync", "ckpage", "cktrunc", "ckdbsync"}
      /\ UNCHANGED <<shm, files, seed>> /\ EnvOK' /\ L!Unlock(c, {READ(0)})
  BY <1>1, CkFailsDoes
<1>3. FilesOK(c)
  BY <1>2, QuietFiles
<1>4. LockStep(c)
  <2>1. {READ(0)} \in SUBSET Slot
    BY Slots
  <2>2. QED BY <1>2, <2>1 DEF LockStep
<1>5. /\ CKPT \in exclMask[c] => CKPT \in exclMask'[c]
      /\ wal' = wal
  <2>1. CKPT \in exclMask[c] => CKPT \in exclMask'[c]
    <3>1. CKPT \notin {READ(0)}
      BY Slots
    <3>2. QED BY <1>1, <1>2, <3>1, KeepsLock
  <2>2. wal' = wal
    BY <1>1, <1>2, Slots DEF files
  <2>3. QED BY <2>1, <2>2
<1>6. w[c].readLock = -1 /\ call[c].mode \in CkMode /\ ~InWrite(c)
  BY <1>1, <1>2
     DEF CtlAt, ModeAt, TransAt, MarkStepAt, CkStepAt, LocksAt, InWrite,
         FrameStepAt, InLogAt, HdrPc, RecoverPc, MarkPc, WritePc, RestartPc, FramePc, CkPc,
         CkRunPc, CkWritePc, CkMode
<1>7. CASE call[c].mode # "close" /\ Moves(c, "ckend")
  <2>1. CtlAt(c)'
    BY <1>1, <1>2, <1>5, <1>6, <1>7, MovesIs
       DEF CtlAt, ModeAt, TransAt, MarkStepAt, CkStepAt, LocksAt, InWrite,
           FrameStepAt, InLogAt, HdrPc, RecoverPc, MarkPc, WritePc, RestartPc, FramePc, CkPc,
           CkRunPc, CkWritePc, CkMode
  <2>2. QED BY <1>2, <1>3, <1>4, <1>7, <2>1, MovesCtl DEF WalPc, CkPc
<1>8. CASE Calls(c, "closing", [call[c] EXCEPT !.mode = "passive"])
  <2> DEFINE k == [call[c] EXCEPT !.mode = "passive"]
  <2>1. k \in Call /\ k.mode = "passive" /\ k.h1 = call[c].h1
    BY <1>1, Types DEF Call, CkMode
  <2>2. Does(c, "closing", k, w[c], cached[c], mine[c])
    BY <1>8 DEF Calls
  <2> HIDE DEF k
  <2>3. CtlAt(c)'
    <3>1. pc'[c] = "closing" /\ call'[c] = k /\ w'[c] = w[c] /\ mine'[c] = mine[c]
      BY <1>1, <2>2, DoesIs
    <3>2. QED BY <1>1, <1>2, <1>5, <1>6, <2>1, <3>1
              DEF CtlAt, ModeAt, TransAt, MarkStepAt, CkStepAt, LocksAt, InWrite,
                  FrameStepAt, InLogAt, HdrPc, RecoverPc, MarkPc, WritePc, RestartPc, FramePc, CkPc,
                  CkRunPc, CkWritePc, CkMode
  <2>4. QED BY <1>1, <1>2, <1>3, <1>4, <2>1, <2>2, <2>3, Types, CtlStep DEF WalPc, CkPc
<1>9. QED BY <1>1, <1>7, <1>8, CkFailsDoes

\* What a connection has that has closed.
LEMMA ClosedCtl ==
  ASSUME NEW c \in Conn, pc'[c] = "closed", call'[c] = NoCall, w'[c] = FreshWal,
         cached'[c] = None, mine'[c] = None, wal' \in Log
  PROVE  CtlAt(c)'
<1>1. Len(wal'.frames) \in Nat
  BY DEF Log
<1>2. QED BY <1>1
          DEF NoCall, FreshWal, ZeroHdr, CtlAt, ModeAt, TransAt, MarkStepAt, CkStepAt, LocksAt, InWrite,
                                         FrameStepAt, InLogAt, HdrPc, RecoverPc, MarkPc, WritePc, RestartPc, FramePc, CkPc,
                                         CkRunPc, CkWritePc, CkMode

LEMMA GoesIs ==
  ASSUME WalTypeOK, NEW c \in Conn, Goes(c)
  PROVE  /\ pc'[c] = "closed" /\ call'[c] = NoCall /\ w'[c] = FreshWal
         /\ cached'[c] = None /\ mine'[c] = None
         /\ Does(c, "closed", NoCall, FreshWal, None, None) /\ LockStep(c)
BY DoesIs DEF Goes, LockStep

LEMMA CloseCtl == ASSUME Ctl, NEW c \in Conn, Close(c) PROVE Ctl'
<1>1. WalTypeOK /\ Steady /\ CtlAt(c)
  BY DEF Ctl
<1>2. /\ pc[c] = "idle" /\ w[c].readLock < 0 /\ ~InWrite(c)
      /\ UNCHANGED <<shm, files, seed>> /\ EnvOK'
  BY <1>1, CloseDoes
<1>3. FilesOK(c) /\ wal' = wal /\ wal \in Log
  BY <1>1, <1>2, QuietFiles DEF files, WalTypeOK
<1>4. CASE Goes(c)
  <2>1. CtlAt(c)'
    BY <1>1, <1>3, <1>4, GoesIs, ClosedCtl
  <2>2. NoCall.mode = "passive"
    BY DEF NoCall
  <2>3. QED BY <1>1, <1>2, <1>3, <1>4, <2>1, <2>2, GoesIs, Blanks, CtlStep DEF WalPc
<1>5. CASE /\ \A d \in Conn \ {c} : pc[d] = "closed"
           /\ L!LockExclusive(c, {CKPT})
           /\ Calls(c, "hdr0", [NoCall EXCEPT !.mode = "close"])
  <2> DEFINE k == [NoCall EXCEPT !.mode = "close"]
  <2>1. k \in Call /\ k.mode = "close" /\ k.h1 = ZeroHdr
    BY Blanks DEF NoCall, Call, CkMode
  <2>2. Does(c, "hdr0", k, w[c], cached[c], mine[c])
    BY <1>5 DEF Calls
  <2> HIDE DEF k
  <2>3. LockStep(c)
    BY <1>5, Slots DEF LockStep
  <2>4. CtlAt(c)'
    <3>1. /\ pc'[c] = "hdr0" /\ call'[c] = k /\ w'[c] = w[c] /\ mine'[c] = mine[c]
          /\ sharedMask'[c] = sharedMask[c] /\ exclMask'[c] = exclMask[c] \cup {CKPT}
          /\ Len(wal.frames) \in Nat
      <4>1. pc'[c] = "hdr0" /\ call'[c] = k /\ w'[c] = w[c] /\ mine'[c] = mine[c]
        BY <1>1, <1>3, <1>5, <2>2, DoesIs
      <4>2. sharedMask'[c] = sharedMask[c] /\ exclMask'[c] = exclMask[c] \cup {CKPT}
        BY <1>1, <1>3, <1>5, <2>2, OwnLocks
      <4>3. Len(wal.frames) \in Nat
        BY <1>1, <1>3, <1>5, <2>2 DEF Log
      <4>4. QED BY <4>1, <4>2, <4>3
    <3>2. w[c].readLock = -1 /\ w[c].svpt = None
      BY <1>1, <1>2, Types DEF WalObj, CtlAt, TransAt
    <3>3. QED BY <1>1, <1>2, <1>3, <2>1, <3>1, <3>2
              DEF ZeroHdr, CtlAt, ModeAt, TransAt, MarkStepAt, CkStepAt, LocksAt, InWrite,
                           FrameStepAt, InLogAt, HdrPc, RecoverPc, MarkPc, WritePc, RestartPc, FramePc, CkPc,
                           CkRunPc, CkWritePc, CkMode
  <2>5. QED BY <1>1, <1>2, <1>3, <1>5, <2>1, <2>2, <2>3, <2>4, Types, CtlStep DEF WalPc, HdrPc
<1>6. QED BY <1>1, <1>4, <1>5, CloseDoes

\* Nobody is left.
LEMMA AllClosedCtl ==
  ASSUME WalTypeOK', Steady', Excluded', LogBound',
         \A c \in Conn : /\ pc'[c] = "closed" /\ call'[c] = NoCall /\ w'[c] = FreshWal
                         /\ cached'[c] = None /\ mine'[c] = None
  PROVE  Ctl'
<1>1. \A c \in Conn : CtlAt(c)'
  BY ClosedCtl DEF WalTypeOK
<1>2. ClosesAlone' /\ IndexInLog'
  BY DEF ClosesAlone, IndexInLog, NoCall
<1>3. QED BY <1>1, <1>2 DEF Ctl

LEMMA FinishCloseCtl == ASSUME Ctl, NEW c \in Conn, FinishClose(c) PROVE Ctl'
<1>1. /\ WalTypeOK /\ Steady /\ Excluded /\ ClosesAlone /\ LogBound /\ CtlAt(c)
      /\ \A d \in Conn : CtlAt(d)
  BY DEF Ctl
<1>2. Goes(c) /\ UNCHANGED <<shm, db, dbDisk, seed, env>>
  BY <1>1, FinishCloseDoes
<1>3. CASE pc[c] = "ckend" /\ call[c].mode = "close" /\ wal' = EmptyLog /\ walDisk' = EmptyLog
  <2>1. \A d \in Conn \ {c} : /\ pc[d] = "closed" /\ call[d] = NoCall /\ w[d] = FreshWal
                              /\ cached[d] = None /\ mine[d] = None
    BY <1>1, <1>3 DEF ClosesAlone, CtlAt, ModeAt, TransAt
  <2>2. \A d \in Conn : /\ pc'[d] = "closed" /\ call'[d] = NoCall /\ w'[d] = FreshWal
                        /\ cached'[d] = None /\ mine'[d] = None
    BY <1>1, <1>2, <2>1, DoesIs, GoesIs
  <2>3. Excluded' /\ sharedMask' \in [Conn -> SUBSET Slot] /\ exclMask' \in [Conn -> SUBSET Slot]
    BY <1>1, <1>2, GoesIs, LocksOK
  <2>4. WalTypeOK'
    BY <1>1, <1>2, <1>3, <2>3, GoesIs, DoesType, Blanks DEF WalTypeOK, WalPc
  <2>5. LogBound'
    <3>1. Len(EmptyLog.frames) = 0
      BY DEF EmptyLog
    <3>2. QED BY <1>3, <3>1, WalAssumption DEF LogBound
  <2>6. Steady'
    BY <1>1, <1>2 DEF Steady
  <2>7. QED BY <2>2, <2>3, <2>4, <2>5, <2>6, AllClosedCtl
<1>4. CASE pc[c] = "closing" /\ UNCHANGED <<wal, walDisk>>
  <2>1. wal \in Log
    BY <1>1 DEF WalTypeOK
  <2>2. CtlAt(c)'
    BY <1>1, <1>2, <1>4, <2>1, GoesIs, ClosedCtl
  <2>3. FilesOK(c)
    BY <1>2, <1>4, QuietFiles DEF files
  <2>4. NoCall.mode = "passive"
    BY DEF NoCall
  <2>5. QED BY <1>1, <1>2, <1>4, <2>2, <2>3, <2>4, GoesIs, Blanks, CtlStep DEF WalPc
<1>5. QED BY <1>1, <1>3, <1>4, FinishCloseDoes

LEMMA PowerLossCtl == ASSUME Ctl, PowerLoss PROVE Ctl'
<1>1. WalTypeOK /\ Steady /\ LogBound
  BY DEF Ctl
<1>2. /\ L!Drop(Conn) /\ EnvOK' /\ UNCHANGED seed /\ shm' = ZeroShm
      /\ pc' = [c \in Conn |-> "closed"] /\ call' = [c \in Conn |-> NoCall]
      /\ w' = [c \in Conn |-> FreshWal] /\ cached' = [c \in Conn |-> None]
      /\ mine' = [c \in Conn |-> None]
      /\ db' \in Seq(Int) /\ dbDisk' \in Seq(Int)
      /\ wal' \in Log /\ walDisk' = wal' /\ Len(wal'.frames) <= MaxFrame
  BY <1>1, PowerLossDoes
<1>3. sharedMask' = [c \in Conn |-> {}] /\ exclMask' = [c \in Conn |-> {}]
  BY <1>2 DEF L!Drop
<1>4. WalTypeOK' /\ Steady' /\ Excluded' /\ LogBound'
  BY <1>1, <1>2, <1>3, Blanks DEF WalTypeOK, EnvOK, Excluded, LogBound, WalPc
<1>5. QED BY <1>2, <1>4, AllClosedCtl

LEMMA NoKill == ASSUME Steady, NEW c \in Conn, Kill(c) PROVE FALSE
BY DEF Steady, Kill, Budget

\* Control and locks are kept by every step.
LEMMA CtlNext == ASSUME Ctl, [Next]_vars PROVE Ctl'
<1>1. CASE UNCHANGED vars
  BY <1>1 DEF vars, lockVars, files, ghosts, Ctl, WalTypeOK, Steady, Excluded, ClosesAlone,
              IndexInLog, LogBound, CtlAt, ModeAt, TransAt, MarkStepAt, FrameStepAt, CkStepAt,
              InLogAt, LocksAt, InWrite
<1>2. CASE PowerLoss
  BY <1>2, PowerLossCtl
<1>3. ASSUME NEW c \in Conn,
             \/ Open(c) \/ BeginRead(c) \/ ReadHdr0(c) \/ ReadHdr1(c) \/ LockHdr(c)
             \/ ReadHdrAgain(c) \/ Recover(c) \/ RecoverHdr0(c) \/ RecoverInfo(c)
             \/ CheckBackfill(c) \/ Lock0(c) \/ ChooseMark(c) \/ GrabMark(c) \/ PutMark(c)
             \/ LockMark(c) \/ EndRead(c) \/ BeginWrite(c) \/ Savepoint(c) \/ SavepointUndo(c)
      PROVE  Ctl'
  BY <1>3, OpenCtl, BeginReadCtl, ReadHdr0Ctl, ReadHdr1Ctl, LockHdrCtl, ReadHdrAgainCtl, RecoverCtl,
     RecoverHdr0Ctl, RecoverInfoCtl, CheckBackfillCtl, Lock0Ctl, ChooseMarkCtl, GrabMarkCtl,
     PutMarkCtl, LockMarkCtl, EndReadCtl, BeginWriteCtl, SavepointCtl, SavepointUndoCtl
<1>4. ASSUME NEW c \in Conn, Spill(c) \/ Commit(c) PROVE Ctl'
  BY <1>4, SpillDoes, CommitDoes, StartsCtl DEF Ctl
<1>5. ASSUME NEW c \in Conn,
             \/ RestartLog(c) \/ RestartHdr1(c) \/ RestartHdr0(c) \/ RestartInfo(c)
             \/ WriteWalHdr(c) \/ SyncWalHdr(c) \/ WriteFrame(c) \/ SyncFrames(c)
             \/ AppendIndex(c) \/ CommitHdr0(c) \/ FramesFail(c) \/ Rollback(c)
      PROVE  Ctl'
  BY <1>5, RestartLogCtl, RestartHdr1Ctl, RestartHdr0Ctl, RestartInfoCtl, WriteWalHdrCtl,
     SyncWalHdrCtl, WriteFrameCtl, SyncFramesCtl, AppendIndexCtl, CommitHdr0Ctl, FramesFailCtl,
     RollbackCtl
<1>6. ASSUME NEW c \in Conn,
             \/ Checkpoint(c) \/ CkStart(c) \/ CkMark(c) \/ CkPut(c) \/ CkLock0(c) \/ CkSync(c)
             \/ CkPage(c) \/ CkTrunc(c) \/ CkDbSync(c) \/ CkDone(c) \/ CkEnd(c) \/ CkFails(c)
             \/ Close(c) \/ FinishClose(c) \/ Kill(c)
      PROVE  Ctl'
  BY <1>6, CheckpointCtl, CkStartCtl, CkMarkCtl, CkPutCtl, CkLock0Ctl, CkSyncCtl, CkPageCtl,
     CkTruncCtl, CkDbSyncCtl, CkDoneCtl, CkEndCtl, CkFailsCtl, CloseCtl, FinishCloseCtl, NoKill
     DEF Ctl
<1>7. QED BY <1>1, <1>2, <1>3, <1>4, <1>5, <1>6 DEF Next

\* The connections start with the files of Init.
LEMMA DbOfInit ==
  ASSUME Init
  PROVE  db \in Seq(Int) /\ Len(db) \in Nat \ {0} /\ dbDisk = db /\ \A p \in 1..Len(db) : db[p] = 0
<1> DEFINE m == Max(env.sizes)
<1>1. env \in Setups /\ env \in Setup
  BY WalAssumption DEF Init
<1>2. env.sizes \subseteq Nat \ {0} /\ env.sizes # {} /\ IsFiniteSet(env.sizes)
  BY <1>1, WalAssumption DEF Setup
<1>3. PICK n \in Nat : env.sizes \subseteq 0..n
  BY <1>2, BoundOfFinite
<1>4. m \in Nat \ {0}
  BY <1>2, <1>3, MaxIn
<1>5. db = [p \in 1..m |-> 0] /\ dbDisk = db
  BY DEF Init
<1> HIDE DEF m
<1>6. db \in Seq(Int) /\ Len(db) = m
  BY <1>4, <1>5
<1>7. QED BY <1>4, <1>5, <1>6

LEMMA Warm ==
  ASSUME Init
  PROVE  WarmLog \in Log /\ WarmHdr \in Hdr /\ WarmShm \in Index /\ Len(WarmLog.frames) = 1
<1>1. Len(db) \in Nat
  BY DbOfInit
<1>2. WarmHdr \in Hdr
  BY <1>1 DEF WarmHdr, Hdr, Pair
<1>3. READMARK_NOT_USED \in Nat /\ MaxFrame \in Nat
  BY WalAssumption DEF READMARK_NOT_USED
<1>4. /\ [i \in {0, 1} |-> WarmHdr] \in [{0, 1} -> Hdr]
      /\ [i \in Readers |-> IF i < 2 THEN 0 ELSE READMARK_NOT_USED] \in [Readers -> Nat]
      /\ [i \in 1..MaxFrame |-> IF i = 1 THEN 1 ELSE 0] \in [1..MaxFrame -> Nat]
  BY <1>2, <1>3
<1>5. WarmShm \in Index
  BY <1>4 DEF WarmShm, Index
<1> DEFINE f == [pg |-> 1, data |-> 1, nTruncate |-> Len(db), salt |-> 2, prev |-> <<0, 2>>]
<1>6. f \in Frame
  BY <1>1 DEF Frame, Pair
<1>7. WarmLog.frames = <<f>> /\ WarmLog.salt = 2 /\ WarmLog.nCkpt = 0
  BY DEF WarmLog
<1> HIDE DEF f
<1>8. WarmLog \in Log
  BY <1>6 DEF WarmLog, Log, f
<1>9. QED BY <1>2, <1>5, <1>7, <1>8

LEMMA CtlInit == ASSUME Init, Steady PROVE Ctl
<1>1. /\ pc = [c \in Conn |-> IF c \in Users(env) THEN "idle" ELSE "closed"]
      /\ call = [c \in Conn |-> NoCall] /\ w = [c \in Conn |-> FreshWal]
      /\ cached = [c \in Conn |-> None] /\ mine = [c \in Conn |-> None]
      /\ env \in Setup
  BY WalAssumption DEF Init
<1>2. sharedMask = [c \in Conn |-> {}] /\ exclMask = [c \in Conn |-> {}]
  BY DEF Init, L!Init
<1>3. wal \in Log /\ shm \in Index /\ seed \in Nat \ {0} /\ Len(wal.frames) \in {0, 1}
  <2>1. CASE env.warm
    <3>1. wal = WarmLog /\ shm = WarmShm /\ seed = 3
      BY <2>1 DEF Init
    <3>2. QED BY <3>1, Warm
  <2>2. CASE ~env.warm
    <3>1. wal = EmptyLog /\ shm = ZeroShm /\ seed = 1
      BY <2>2 DEF Init
    <3>2. Len(EmptyLog.frames) = 0
      BY DEF EmptyLog
    <3>3. QED BY <3>1, <3>2, Blanks
  <2>3. QED BY <2>1, <2>2
<1>4. walDisk \in Log /\ Len(walDisk.frames) \in {0, 1}
  <2>1. walDisk = wal \/ walDisk = [wal EXCEPT !.frames = <<>>]
    BY DEF Init
  <2> DEFINE l == [wal EXCEPT !.frames = <<>>]
  <2>2. l.frames = <<>> /\ l \in Log
    <3>1. <<>> \in Seq(Frame)
      OBVIOUS
    <3>2. l.frames = <<>>
      BY <1>3 DEF Log
    <3>3. l \in Log
      BY <1>3, <3>1 DEF Log
    <3>4. QED BY <3>2, <3>3
  <2>3. CASE walDisk = wal
    BY <1>3, <2>3
  <2>4. CASE walDisk = l
    <3> HIDE DEF l
    <3>1. Len(walDisk.frames) = 0
      BY <2>2, <2>4
    <3>2. QED BY <2>2, <2>4, <3>1
  <2>5. QED BY <2>1, <2>3, <2>4
<1>5. db \in Seq(Int) /\ dbDisk \in Seq(Int)
  BY DbOfInit
<1>6. WalTypeOK
  BY <1>1, <1>2, <1>3, <1>4, <1>5, Blanks DEF WalTypeOK, WalPc
<1>7. Excluded /\ ClosesAlone /\ LogBound
  <2>1. Excluded
    BY <1>2 DEF Excluded
  <2>2. ClosesAlone
    BY <1>1 DEF ClosesAlone, NoCall
  <2>3. LogBound
    <3>1. 0 <= MaxFrame /\ 1 <= MaxFrame
      BY WalAssumption
    <3>2. Len(wal.frames) <= MaxFrame
      <4>1. Len(wal.frames) = 0 \/ Len(wal.frames) = 1
        BY <1>3
      <4>2. QED BY <3>1, <4>1
    <3>3. Len(walDisk.frames) <= MaxFrame
      <4>1. Len(walDisk.frames) = 0 \/ Len(walDisk.frames) = 1
        BY <1>4
      <4>2. QED BY <3>1, <4>1
    <3>4. QED BY <3>2, <3>3 DEF LogBound
  <2>4. QED BY <2>1, <2>2, <2>3
<1>8. IndexInLog
  <2>1. CASE env.warm
    <3>1. wal = WarmLog /\ shm = WarmShm
      BY <2>1 DEF Init
    <3>2. \A i \in {0, 1} : WarmShm.hdr[i].mxFrame = 1
      BY DEF WarmShm, WarmHdr
    <3>3. Len(wal.frames) = 1
      BY <3>1, Warm
    <3>4. \A i \in {0, 1} : shm.hdr[i].mxFrame = 1
      BY <3>1, <3>2
    <3>5. QED BY <3>3, <3>4 DEF IndexInLog
  <2>2. CASE ~env.warm
    <3>1. wal = EmptyLog /\ shm = ZeroShm
      BY <2>2 DEF Init
    <3>2. \A i \in {0, 1} : ZeroShm.hdr[i].mxFrame = 0
      BY DEF ZeroShm, ZeroHdr
    <3>3. Len(EmptyLog.frames) = 0
      BY DEF EmptyLog
    <3>4. QED BY <3>1, <3>2, <3>3 DEF IndexInLog
  <2>3. QED BY <2>1, <2>2
<1>9. ASSUME NEW c \in Conn PROVE CtlAt(c)
  <2>1. /\ pc[c] \in {"idle", "closed"} /\ call[c] = NoCall /\ w[c] = FreshWal
        /\ cached[c] = None /\ mine[c] = None
    BY <1>1
  <2>2. 0 <= Len(wal.frames)
    BY <1>3
  <2>3. QED BY <2>1, <2>2 DEF NoCall, FreshWal, ZeroHdr, CtlAt, ModeAt, TransAt, MarkStepAt, CkStepAt, LocksAt, InWrite,
                                                         FrameStepAt, InLogAt, HdrPc, RecoverPc, MarkPc, WritePc, RestartPc, FramePc, CkPc,
                                                         CkRunPc, CkWritePc, CkMode
<1>10. QED BY <1>6, <1>7, <1>8, <1>9 DEF Ctl

\* The wal-index, the log and the variables of every connection stay in their ranges, and
\* the operations respect the locks: the write lock, the checkpoint lock and the read marks
\* that a step relies on are held while it runs (WAL_WRITE_LOCK, WAL_CKPT_LOCK,
\* WAL_READ_LOCK(i) in wal.c), as long as no process dies.
THEOREM Control == Spec /\ Steady => []Ctl
<1>1. Init /\ Steady => Ctl
  BY CtlInit
<1>2. Ctl /\ [Next]_vars => Ctl'
  BY CtlNext
<1>3. QED BY <1>1, <1>2, PTL DEF Spec
=============================================================================
