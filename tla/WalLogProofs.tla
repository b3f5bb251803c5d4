---------------------------- MODULE WalLogProofs ----------------------------
(***************************************************************************)
(* What the log file holds, for any number of connections, read marks,     *)
(* frames and pages.                                                       *)
(*                                                                         *)
(* Part 1: a connection that closes with an exclusive lock on the database *)
(* is the only one that uses the log: whoever holds a lock of the          *)
(* wal-index has a reason to (Due), and a checkpoint that runs under the   *)
(* exclusive lock copies all of the log (ClosingAt).                       *)
(*                                                                         *)
(* Part 2: the chain of salts and checksums up to a header and where it    *)
(* breaks (Covers, WriterAt), which commit a recovery would take for the   *)
(* last (EndOfLog), and that a file that has all of the log has the size   *)
(* of the database, too (Whole); together they are Crash, and the steps of *)
(* readers and of checkpoints keep it.  Module WalCrashProofs has the      *)
(* steps of writers and of recovery, and the theorems.                     *)
(***************************************************************************)
EXTENDS WalProofs

-----------------------------------------------------------------------------
(* The last connection to close *)

\* The reasons to hold a lock.
Due(c, s) ==
  \/ s = WRITE /\ (InWrite(c) \/ call[c].mode = "full" \/ pc[c] = "hdragain")
  \/ s = CKPT /\ call[c].mode \in CkMode /\ pc[c] \notin {"idle", "closed"}
  \/ pc[c] \in RecoverPc
  \/ s = READ(call[c].i) /\ pc[c] \in {"putmark", "ckput"}
  \/ s \in Marked /\ pc[c] \in RestartPc
  \/ s = READ(0) /\ pc[c] \in CkWritePc

OnlyLocksAt(c) ==
  /\ \A s \in exclMask[c] : Due(c, s)
  /\ \A s \in sharedMask[c] : w[c].readLock >= 0 /\ s = READ(w[c].readLock)

ClosingAt(c) ==
  call[c].mode = "close" =>
    /\ pc[c] \in {"ckstart"} \cup CkRunPc => w[c].hdr = H /\ H.isInit
    /\ pc[c] \in CkRunPc => call[c].mxSafeFrame = mxH
    /\ pc[c] = "ckend" => H.isInit /\ shm.nBackfill >= mxH

Alone == \A c \in Conn : OnlyLocksAt(c) /\ ClosingAt(c)

-----------------------------------------------------------------------------
(* Alone, step by step *)

LEMMA OnlyLocksStep ==
  ASSUME Ctl, NEW c \in Conn, Others(c), LockStep(c), NEW d \in Conn, d # c, OnlyLocksAt(d)
  PROVE  OnlyLocksAt(d)'
<1>1. sharedMask'[d] = sharedMask[d] /\ exclMask'[d] = exclMask[d]
  BY LocksOK DEF Ctl
<1>2. pc'[d] = pc[d] /\ call'[d] = call[d] /\ w'[d] = w[d] /\ mine'[d] = mine[d]
  BY DEF Others
<1>3. \A s : Due(d, s)' <=> Due(d, s)
  BY <1>2 DEF Due, InWrite
<1>4. QED BY <1>1, <1>2, <1>3 DEF OnlyLocksAt

\* A connection that is not the one that closes last.
LEMMA ClosingStep ==
  ASSUME Ctl, NEW c \in Conn, Others(c), pc[c] # "closed" \/ \A d \in Conn : call[d].mode # "close",
         NEW d \in Conn, d # c
  PROVE  ClosingAt(d)'
<1>1. call[d].mode # "close"
  BY DEF Ctl, ClosesAlone
<1>2. QED BY <1>1 DEF Others, ClosingAt

LEMMA AloneStep ==
  ASSUME Ctl, NEW c \in Conn, Others(c), LockStep(c), Alone,
         pc[c] # "closed" \/ \A d \in Conn : call[d].mode # "close",
         OnlyLocksAt(c)', ClosingAt(c)'
  PROVE  Alone'
BY OnlyLocksStep, ClosingStep DEF Alone

\* The locks after a step that takes none, that gives some up, that takes some.
LEMMA SameLocks ==
  ASSUME WalTypeOK, NEW c \in Conn, OnlyLocksAt(c), \A s : Due(c, s) => Due(c, s)',
         w'[c].readLock = w[c].readLock,
         NEW ss, UNCHANGED lockVars \/ L!Unlock(c, ss)
  PROVE  OnlyLocksAt(c)'
<1>1. exclMask'[c] \subseteq exclMask[c] /\ sharedMask'[c] \subseteq sharedMask[c]
  BY OwnLocks
<1>2. QED BY <1>1 DEF OnlyLocksAt

LEMMA FewerLocks ==
  ASSUME WalTypeOK, NEW c \in Conn, OnlyLocksAt(c), NEW ss, L!Unlock(c, ss),
         \A s \in Slot : Due(c, s) => Due(c, s)' \/ s \in ss,
         w'[c].readLock = w[c].readLock \/ (w'[c].readLock = -1 /\ READ(w[c].readLock) \in ss)
  PROVE  OnlyLocksAt(c)'
<1>1. /\ exclMask'[c] = exclMask[c] \ ss /\ sharedMask'[c] = sharedMask[c] \ ss
      /\ exclMask[c] \subseteq Slot
  BY OwnLocks DEF WalTypeOK
<1>2. QED BY <1>1 DEF OnlyLocksAt

LEMMA MoreLocks ==
  ASSUME WalTypeOK, NEW c \in Conn, OnlyLocksAt(c), NEW ss, L!LockExclusive(c, ss),
         \A s : Due(c, s) \/ s \in ss => Due(c, s)', w'[c].readLock = w[c].readLock
  PROVE  OnlyLocksAt(c)'
<1>1. exclMask'[c] = exclMask[c] \cup ss /\ sharedMask'[c] = sharedMask[c]
  BY OwnLocks
<1>2. QED BY <1>1 DEF OnlyLocksAt

LEMMA NoLocks ==
  ASSUME WalTypeOK, NEW c \in Conn, L!Drop({c})
  PROVE  OnlyLocksAt(c)'
<1>1. exclMask'[c] = {} /\ sharedMask'[c] = {}
  BY OwnLocks
<1>2. QED BY <1>1 DEF OnlyLocksAt

\* The last connection finds no lock in its way.
LEMMA NoneInTheWay ==
  ASSUME Ctl, Alone, NEW c \in Conn, call[c].mode = "close", NEW ss \in SUBSET Slot,
         \A s \in ss : ~Due(c, s) \/ s \notin exclMask[c], w[c].readLock = -1
  PROVE  L!CanExclude(c, ss)
<1>1. WalTypeOK /\ \A d \in Conn : CtlAt(d)
  BY DEF Ctl
<1>2. ASSUME NEW d \in Conn, d # c PROVE sharedMask[d] \cup exclMask[d] = {}
  <2>1. pc[d] = "closed" /\ OnlyLocksAt(d)
    BY <1>2 DEF Ctl, ClosesAlone, Alone
  <2>2. w[d].readLock = -1 /\ mine[d] = None /\ call[d].mode = "passive"
    BY <1>1, <2>1 DEF CtlAt, TransAt, ModeAt, FreshWal, NoCall
  <2>3. \A s : ~Due(d, s)
    BY <2>1, <2>2 DEF Due, InWrite, RecoverPc, RestartPc, CkWritePc
  <2>4. QED BY <2>1, <2>2, <2>3 DEF OnlyLocksAt
<1>3. ss \cap (sharedMask[c] \cup exclMask[c]) = {}
  BY DEF Alone, OnlyLocksAt
<1>4. QED BY <1>2, <1>3 DEF L!CanExclude

\* A step that holds on to its locks, that gives some up, that takes some.
LEMMA KeepsAlone ==
  ASSUME Ctl, Alone, NEW c \in Conn, pc[c] # "closed", NEW to, NEW k, NEW o, NEW ca, NEW mi,
         Does(c, to, k, o, ca, mi), UNCHANGED lockVars, o.readLock = w[c].readLock,
         \A s : Due(c, s) => Due(c, s)', ClosingAt(c)'
  PROVE  Alone'
<1>1. WalTypeOK /\ OnlyLocksAt(c) /\ Others(c) /\ w'[c] = o
  BY OthersKept DEF Ctl, Alone
<1>2. OnlyLocksAt(c)'
  BY <1>1, SameLocks
<1>3. QED BY <1>1, <1>2, AloneStep DEF LockStep

LEMMA UnlocksAlone ==
  ASSUME Ctl, Alone, NEW c \in Conn, pc[c] # "closed", NEW to, NEW k, NEW o, NEW ca, NEW mi,
         Does(c, to, k, o, ca, mi), NEW ss \in SUBSET Slot, L!Unlock(c, ss),
         o.readLock = w[c].readLock \/ (o.readLock = -1 /\ READ(w[c].readLock) \in ss),
         \A s \in Slot : Due(c, s) => Due(c, s)' \/ s \in ss, ClosingAt(c)'
  PROVE  Alone'
<1>1. WalTypeOK /\ OnlyLocksAt(c) /\ Others(c) /\ w'[c] = o
  BY OthersKept DEF Ctl, Alone
<1>2. OnlyLocksAt(c)'
  BY <1>1, FewerLocks
<1>3. QED BY <1>1, <1>2, AloneStep DEF LockStep

LEMMA LocksAlone ==
  ASSUME Ctl, Alone, NEW c \in Conn, pc[c] # "closed", NEW to, NEW k, NEW o, NEW ca, NEW mi,
         Does(c, to, k, o, ca, mi), NEW ss \in SUBSET Slot, L!LockExclusive(c, ss),
         o.readLock = w[c].readLock,
         \A s : Due(c, s) \/ s \in ss => Due(c, s)', ClosingAt(c)'
  PROVE  Alone'
<1>1. WalTypeOK /\ OnlyLocksAt(c) /\ Others(c) /\ w'[c] = o
  BY OthersKept DEF Ctl, Alone
<1>2. OnlyLocksAt(c)'
  BY <1>1, MoreLocks
<1>3. QED BY <1>1, <1>2, AloneStep DEF LockStep

\* What a step starts from.
LEMMA AloneIs ==
  ASSUME Ctl, Alone, NEW c \in Conn
  PROVE  /\ WalTypeOK /\ Steady /\ OnlyLocksAt(c) /\ ClosingAt(c) /\ ModeAt(c) /\ TransAt(c)
         /\ call[c] \in Call /\ w[c] \in WalObj
BY Types DEF Ctl, CtlAt, Alone

LEMMA OpenAlone == ASSUME Ctl, Alone, NEW c \in Conn, Open(c) PROVE Alone'
<1>1. WalTypeOK /\ CtlAt(c) /\ OnlyLocksAt(c)
  BY DEF Ctl, Alone
<1>2. /\ pc[c] = "closed" /\ \A d \in Conn : call[d].mode # "close"
      /\ Does(c, "idle", call[c], FreshWal, cached[c], mine[c]) /\ UNCHANGED lockVars
  BY <1>1, OpenDoes
<1>3. w[c] = FreshWal /\ call[c] = NoCall /\ mine[c] = None
  BY <1>1, <1>2 DEF CtlAt, TransAt, ModeAt
<1>4. /\ Others(c) /\ pc'[c] = "idle" /\ call'[c] = NoCall /\ w'[c] = FreshWal /\ mine'[c] = None
  BY <1>2, <1>3, OthersKept
<1>5. \A s : Due(c, s) => Due(c, s)'
  BY <1>2, <1>3, <1>4 DEF Due, InWrite, NoCall, RecoverPc, RestartPc, CkWritePc
<1>6. OnlyLocksAt(c)'
  BY <1>1, <1>2, <1>3, <1>4, <1>5, SameLocks
<1>7. ClosingAt(c)'
  BY <1>4 DEF ClosingAt, NoCall
<1>8. QED BY <1>2, <1>4, <1>6, <1>7, AloneStep DEF LockStep

LEMMA BeginReadAlone == ASSUME Ctl, Alone, NEW c \in Conn, BeginRead(c) PROVE Alone'
<1>1. WalTypeOK /\ Steady /\ ModeAt(c) /\ TransAt(c)
  BY AloneIs
<1>2. /\ pc[c] = "idle" /\ w[c].readLock < 0 /\ UNCHANGED lockVars
      /\ Calls(c, "hdr0", [NoCall EXCEPT !.mode = "read"])
  BY <1>1, BeginReadDoes
<1> DEFINE k == [NoCall EXCEPT !.mode = "read"]
<1>3. k.mode = "read" /\ call[c].mode = "passive"
  BY <1>1, <1>2 DEF ModeAt, NoCall
<1> HIDE DEF k
<1>4. /\ pc'[c] = "hdr0" /\ call'[c] = k /\ mine'[c] = mine[c]
  BY <1>2, OthersKept DEF Calls, k
<1>5. \A s : Due(c, s) => Due(c, s)'
  BY <1>2, <1>3, <1>4 DEF Due, InWrite, RecoverPc, RestartPc, CkWritePc
<1>6. ClosingAt(c)'
  BY <1>3, <1>4 DEF ClosingAt
<1>7. QED BY <1>2, <1>5, <1>6, KeepsAlone DEF Calls

LEMMA ReadHdr0Alone == ASSUME Ctl, Alone, NEW c \in Conn, ReadHdr0(c) PROVE Alone'
<1>1. WalTypeOK /\ call[c] \in Call
  BY AloneIs
<1>2. pc[c] = "hdr0" /\ Calls(c, "hdr1", [call[c] EXCEPT !.h1 = H]) /\ UNCHANGED lockVars
  BY <1>1, ReadHdr0Does
<1> DEFINE k == [call[c] EXCEPT !.h1 = H]
<1>3. k.mode = call[c].mode
  BY <1>1 DEF Call
<1> HIDE DEF k
<1>4. /\ pc'[c] = "hdr1" /\ call'[c] = k /\ mine'[c] = mine[c]
  BY <1>2, OthersKept DEF Calls, k
<1>5. \A s : Due(c, s) => Due(c, s)'
  BY <1>2, <1>3, <1>4 DEF Due, InWrite, RecoverPc, RestartPc, CkWritePc
<1>6. ClosingAt(c)'
  BY <1>4 DEF ClosingAt, CkRunPc, CkWritePc
<1>7. QED BY <1>2, <1>5, <1>6, KeepsAlone DEF Calls

\* Who closes last publishes nothing while it looks for a header.
LEMMA CloserSees ==
  ASSUME Ctl, Heads, NEW c \in Conn, call[c].mode = "close", pc[c] \notin Publishing
  PROVE  shm.hdr[1] = H
<1>1. \A d \in Conn : d # c => pc[d] = "closed"
  BY DEF Ctl, ClosesAlone
<1>2. QED BY <1>1 DEF Heads, HdrInv, Publishing

\* What is taken for the header.
LEMMA AdoptIs ==
  ASSUME WalTypeOK, NEW c \in Conn, NEW h, Adopts(c, h)
  PROVE  /\ pc'[c] = AfterHdr(c) /\ call'[c].mode = call[c].mode /\ w'[c].hdr = h
         /\ w'[c].readLock = w[c].readLock /\ mine'[c] = mine[c]
         /\ w'[c].nCkpt = w[c].nCkpt /\ w'[c].svpt = w[c].svpt
<1>1. call[c] \in Call /\ w[c] \in WalObj
  BY Types
<1> DEFINE k == [call[c] EXCEPT !.changed = @ \/ w[c].hdr # h]
           o == [w[c] EXCEPT !.hdr = h]
<1>2. k.mode = call[c].mode /\ o.hdr = h /\ o.readLock = w[c].readLock /\ o.nCkpt = w[c].nCkpt /\ o.svpt = w[c].svpt
  BY <1>1 DEF Call, WalObj
<1> HIDE DEF k, o
<1>3. Does(c, AfterHdr(c), k, o, cached[c], mine[c])
  BY DEF Adopts, k, o
<1>4. QED BY <1>2, <1>3, DoesIs

LEMMA ReadHdr1Alone == ASSUME Ctl, Heads, Alone, NEW c \in Conn, ReadHdr1(c) PROVE Alone'
<1>1. WalTypeOK /\ ModeAt(c)
  BY AloneIs
<1>2. pc[c] = "hdr1" /\ UNCHANGED lockVars /\ Quiet
  BY <1>1, ReadHdr1Does
<1>3. CASE call[c].h1 = shm.hdr[1] /\ call[c].h1.isInit /\ Adopts(c, call[c].h1)
  <2>1. /\ pc'[c] = AfterHdr(c) /\ call'[c].mode = call[c].mode /\ w'[c].hdr = call[c].h1
        /\ w'[c].readLock = w[c].readLock /\ mine'[c] = mine[c]
    BY <1>1, <1>3, AdoptIs
  <2>2. AfterHdr(c) \in {"nbackfill", "ckstart"}
    BY DEF AfterHdr
  <2>3. \A s : Due(c, s) => Due(c, s)'
    BY <1>2, <2>1, <2>2 DEF Due, InWrite, RecoverPc, RestartPc, CkWritePc
  <2>4. ClosingAt(c)'
    <3>1. call[c].mode = "close" => call[c].h1 = H
      BY <1>2, <1>3, CloserSees DEF Publishing
    <3>2. H' = H
      BY <1>2 DEF Quiet, H
    <3>3. QED BY <1>3, <2>1, <2>2, <3>1, <3>2 DEF ClosingAt, CkRunPc, CkWritePc
  <2>5. Others(c) /\ OnlyLocksAt(c)
    BY <1>3, OthersKept DEF Adopts, Alone
  <2>6. OnlyLocksAt(c)'
    BY <1>1, <1>2, <2>1, <2>3, <2>5, SameLocks
  <2>7. QED BY <1>2, <2>4, <2>5, <2>6, AloneStep DEF LockStep
<1>4. CASE Moves(c, "hdrlock")
  <2>1. pc'[c] = "hdrlock" /\ call'[c] = call[c] /\ mine'[c] = mine[c]
    BY <1>4, OthersKept DEF Moves
  <2>2. \A s : Due(c, s) => Due(c, s)'
    BY <1>2, <2>1 DEF Due, InWrite, RecoverPc, RestartPc, CkWritePc
  <2>3. ClosingAt(c)'
    BY <2>1 DEF ClosingAt, CkRunPc, CkWritePc
  <2>4. QED BY <1>2, <1>4, <2>2, <2>3, KeepsAlone DEF Moves
<1>5. QED BY <1>1, <1>3, <1>4, ReadHdr1Does

\* A step that goes on with what the connection does.
GoesOn(c, to, k, mi) ==
  /\ pc[c] \notin {"closed", "hdragain", "putmark", "ckput"}
  /\ pc[c] \in RecoverPc => to \in RecoverPc
  /\ pc[c] \in RestartPc => to \in RestartPc
  /\ pc[c] \in CkWritePc => to \in CkWritePc
  /\ call[c].mode \in CkMode /\ pc[c] # "idle" => k.mode = call[c].mode /\ to \notin {"idle", "closed"}
  /\ mine[c] # None => mi # None

LEMMA GoesOnAlone ==
  ASSUME Ctl, Alone, NEW c \in Conn, NEW to, NEW k, NEW o, NEW ca, NEW mi,
         Does(c, to, k, o, ca, mi), UNCHANGED lockVars, o.readLock = w[c].readLock,
         GoesOn(c, to, k, mi), ClosingAt(c)'
  PROVE  Alone'
<1>1. WalTypeOK /\ ModeAt(c)
  BY AloneIs
<1>2. pc'[c] = to /\ call'[c] = k /\ mine'[c] = mi
  BY OthersKept
<1>3. pc[c] = "idle" => call[c].mode = "passive"
  BY <1>1 DEF ModeAt, NoCall
<1>4. \A s : Due(c, s) => Due(c, s)'
  BY <1>2, <1>3 DEF Due, InWrite, GoesOn, CkMode
<1>5. QED BY <1>4, KeepsAlone DEF GoesOn

LEMMA NotClosing == ASSUME NEW c \in Conn, call'[c].mode # "close" PROVE ClosingAt(c)'
BY DEF ClosingAt

\* Such a step of a reader or a writer.
LEMMA WorksOnAlone ==
  ASSUME Ctl, Alone, NEW c \in Conn, NEW to, NEW k, NEW o, NEW ca, NEW mi,
         Does(c, to, k, o, ca, mi), UNCHANGED lockVars, o.readLock = w[c].readLock,
         pc[c] \in {"idle", "nbackfill", "lock0"} \cup (MarkPc \ {"putmark"}) \cup WritePc,
         pc[c] \in RestartPc => to \in RestartPc,
         k.mode = call[c].mode \/ k.mode \in {"write", "passive"},
         mine[c] # None => mi # None
  PROVE  Alone'
<1>1. ModeAt(c)
  BY AloneIs
<1>2. pc'[c] = to /\ call'[c] = k /\ mine'[c] = mi
  BY OthersKept
<1>3. call[c].mode \in {"read", "write"} \/ (pc[c] = "idle" /\ call[c].mode = "passive")
  BY <1>1 DEF ModeAt, NoCall
<1>4. ClosingAt(c)'
  BY <1>2, <1>3, NotClosing
<1>5. GoesOn(c, to, k, mi)
  BY <1>3 DEF GoesOn, MarkPc, WritePc, RestartPc, RecoverPc, CkWritePc, CkMode, FramePc
<1>6. QED BY <1>4, <1>5, GoesOnAlone

LEMMA ViewIsSome == ASSUME Ctl, NEW c \in Conn PROVE View(c) # None
<1>1. w[c] \in WalObj /\ w[c].hdr.mxFrame <= Len(wal.frames) /\ WalTypeOK
  BY Types DEF Ctl, CtlAt, InLogAt
<1>2. View(c) \in Seq(Int)
  BY <1>1, ThroughType DEF View
<1>3. QED BY <1>2, WalAssumption

LEMMA CheckBackfillAlone == ASSUME Ctl, Alone, NEW c \in Conn, CheckBackfill(c) PROVE Alone'
<1>1. /\ WalTypeOK /\ Steady /\ call[c] \in Call /\ w[c] \in WalObj /\ ModeAt(c) /\ TransAt(c)
      /\ CtlAt(c)
  BY AloneIs DEF Ctl
<1>2. /\ pc[c] = "nbackfill" /\ UNCHANGED lockVars
      /\ Moves(c, "lock0") \/ Moves(c, "marks")
  BY <1>1, CheckBackfillDoes
<1>3. QED BY <1>2, WorksOnAlone DEF Moves, RestartPc

LEMMA RetriesAlone ==
  ASSUME Ctl, Alone, NEW c \in Conn, UNCHANGED lockVars, Retries(c), pc[c] \in {"lock0", "grab", "lockmark"}
  PROVE  Alone'
<1>1. pc[c] \in {"idle", "nbackfill", "lock0"} \cup (MarkPc \ {"putmark"}) \cup WritePc /\ pc[c] \notin RestartPc
  BY DEF MarkPc, RestartPc
<1>2. QED BY <1>1, WorksOnAlone DEF Retries, Moves

LEMMA ReadBeginsAlone ==
  ASSUME Ctl, Alone, NEW c \in Conn, NEW i \in Readers, ReadBegins(c, i), pc[c] \in {"lock0", "lockmark"}
  PROVE  Alone'
<1>1. /\ WalTypeOK /\ Steady /\ call[c] \in Call /\ w[c] \in WalObj /\ ModeAt(c) /\ TransAt(c)
      /\ CtlAt(c)
  BY AloneIs DEF Ctl
<1>2. call[c].mode \in {"read", "write"} /\ w[c].readLock = -1
  BY <1>1 DEF ModeAt, TransAt, MarkPc, WritePc, RestartPc, FramePc
<1> DEFINE o == [w[c] EXCEPT !.readLock = i]
<1>3. o.readLock = i
  BY <1>1 DEF WalObj
<1> HIDE DEF o
<1>4. /\ L!LockShared(c, READ(i)) /\ Others(c) /\ w'[c] = o /\ mine'[c] = mine[c]
      /\ \/ pc'[c] = "idle" /\ call'[c] = NoCall /\ call[c].mode = "read"
         \/ pc'[c] = "walhdr" /\ call'[c] = call[c]
  BY OthersKept DEF ReadBegins, o
<1>5. exclMask'[c] = exclMask[c] /\ sharedMask'[c] = {READ(i)}
  <2>1. sharedMask'[c] = sharedMask[c] \cup {READ(i)} /\ exclMask'[c] = exclMask[c]
    BY <1>1, <1>4, OwnLocks
  <2>3. sharedMask[c] = {}
    BY <1>2 DEF Alone, OnlyLocksAt
  <2>2. QED BY <2>1, <2>3
<1>6. \A s : Due(c, s) => Due(c, s)'
  BY <1>1, <1>2, <1>4 DEF Due, InWrite, TransAt, RecoverPc, RestartPc, CkWritePc, CkMode
<1>7. OnlyLocksAt(c)'
  <2>1. OnlyLocksAt(c) /\ i >= 0
    BY DEF Alone, Readers
  <2>2. QED BY <2>1, <1>3, <1>4, <1>5, <1>6 DEF OnlyLocksAt
<1>8. ClosingAt(c)'
  BY <1>2, <1>4, NotClosing DEF NoCall
<1>9. LockStep(c)
  BY <1>4 DEF LockStep, Slot
<1>10. QED BY <1>4, <1>7, <1>8, <1>9, AloneStep

LEMMA Lock0Alone == ASSUME Ctl, Alone, NEW c \in Conn, Lock0(c) PROVE Alone'
<1>1. /\ WalTypeOK /\ Steady /\ call[c] \in Call /\ w[c] \in WalObj /\ ModeAt(c) /\ TransAt(c)
      /\ CtlAt(c)
  BY AloneIs DEF Ctl
<1>2. /\ pc[c] = "lock0"
      /\ ReadBegins(c, 0) \/ (UNCHANGED lockVars /\ (Retries(c) \/ Moves(c, "marks")))
  BY <1>1, Lock0Does
<1>3. CASE ReadBegins(c, 0)
  BY <1>2, <1>3, ReadBeginsAlone, Slots
<1>4. CASE UNCHANGED lockVars /\ Retries(c)
  BY <1>2, <1>4, RetriesAlone
<1>5. CASE UNCHANGED lockVars /\ Moves(c, "marks")
  BY <1>2, <1>5, WorksOnAlone DEF Moves, RestartPc
<1>6. QED BY <1>2, <1>3, <1>4, <1>5

LEMMA LockMarkAlone == ASSUME Ctl, Alone, NEW c \in Conn, LockMark(c) PROVE Alone'
<1>1. /\ WalTypeOK /\ Steady /\ call[c] \in Call /\ w[c] \in WalObj /\ ModeAt(c) /\ TransAt(c)
      /\ CtlAt(c)
  BY AloneIs DEF Ctl
<1>2. /\ pc[c] = "lockmark"
      /\ ReadBegins(c, call[c].mxI) \/ (UNCHANGED lockVars /\ Retries(c))
  BY <1>1, LockMarkDoes
<1>3. CASE ReadBegins(c, call[c].mxI)
  BY <1>1, <1>2, <1>3, ReadBeginsAlone DEF Call
<1>4. QED BY <1>2, <1>3, RetriesAlone

LEMMA ChooseMarkAlone == ASSUME Ctl, Alone, NEW c \in Conn, ChooseMark(c) PROVE Alone'
<1>1. /\ WalTypeOK /\ Steady /\ call[c] \in Call /\ w[c] \in WalObj /\ ModeAt(c) /\ TransAt(c)
      /\ CtlAt(c)
  BY AloneIs DEF Ctl
<1>2. pc[c] = "marks" /\ UNCHANGED lockVars
  BY <1>1, ChooseMarkDoes
<1>3. PICK best \in 0..w[c].hdr.mxFrame, i \in Readers, to \in {"grab", "lockmark"} :
        Calls(c, to, [call[c] EXCEPT !.mxReadMark = best, !.mxI = i, !.i = 1])
  BY <1>1, ChooseMarkDoes
<1> DEFINE k == [call[c] EXCEPT !.mxReadMark = best, !.mxI = i, !.i = 1]
<1>4. k.mode = call[c].mode
  BY <1>1 DEF Call
<1>5. Calls(c, to, k)
  BY <1>3
<1> HIDE DEF k
<1>6. QED BY <1>2, <1>4, <1>5, WorksOnAlone DEF Calls, RestartPc, MarkPc

LEMMA GrabMarkAlone == ASSUME Ctl, Alone, NEW c \in Conn, GrabMark(c) PROVE Alone'
<1>1. /\ WalTypeOK /\ Steady /\ call[c] \in Call /\ w[c] \in WalObj /\ ModeAt(c) /\ TransAt(c)
      /\ CtlAt(c)
  BY AloneIs DEF Ctl
<1>2. /\ pc[c] = "grab"
      /\ \/ L!LockExclusive(c, {READ(call[c].i)}) /\ Moves(c, "putmark") /\ call[c].i < NReader
         \/ UNCHANGED lockVars /\ Calls(c, "grab", [call[c] EXCEPT !.i = call[c].i + 1])
         \/ UNCHANGED lockVars /\ (Retries(c) \/ Moves(c, "lockmark"))
  BY <1>1, GrabMarkDoes
<1>3. CASE L!LockExclusive(c, {READ(call[c].i)}) /\ Moves(c, "putmark") /\ call[c].i < NReader
  <2>1. pc'[c] = "putmark" /\ call'[c] = call[c] /\ mine'[c] = mine[c]
    BY <1>3, OthersKept DEF Moves
  <2>2. call[c].mode # "close" /\ call[c].i \in Readers
    BY <1>1, <1>2, <1>3, WalAssumption DEF ModeAt, MarkPc, CtlAt, MarkStepAt, Readers
  <2>3. {READ(call[c].i)} \in SUBSET Slot
    BY <2>2 DEF Slot
  <2>4. \A s : Due(c, s) \/ s \in {READ(call[c].i)} => Due(c, s)'
    BY <1>2, <2>1 DEF Due, InWrite, RecoverPc, RestartPc, CkWritePc
  <2>5. ClosingAt(c)'
    BY <2>1, <2>2, NotClosing
  <2>6. QED BY <1>2, <1>3, <2>3, <2>4, <2>5, LocksAlone DEF Moves
<1>4. CASE UNCHANGED lockVars /\ Calls(c, "grab", [call[c] EXCEPT !.i = call[c].i + 1])
  <2> DEFINE k == [call[c] EXCEPT !.i = call[c].i + 1]
  <2>1. k.mode = call[c].mode
    BY <1>1 DEF Call
  <2>2. Calls(c, "grab", k)
    BY <1>4
  <2> HIDE DEF k
  <2>3. QED BY <1>2, <1>4, <2>1, <2>2, WorksOnAlone DEF Calls, RestartPc, MarkPc
<1>5. CASE UNCHANGED lockVars /\ Retries(c)
  BY <1>2, <1>5, RetriesAlone
<1>6. CASE UNCHANGED lockVars /\ Moves(c, "lockmark")
  BY <1>2, <1>6, WorksOnAlone DEF Moves, RestartPc, MarkPc
<1>7. QED BY <1>2, <1>3, <1>4, <1>5, <1>6

LEMMA PutMarkAlone == ASSUME Ctl, Alone, NEW c \in Conn, PutMark(c) PROVE Alone'
<1>1. /\ WalTypeOK /\ Steady /\ call[c] \in Call /\ w[c] \in WalObj /\ ModeAt(c) /\ TransAt(c)
      /\ CtlAt(c)
  BY AloneIs DEF Ctl
<1> DEFINE k == [call[c] EXCEPT !.mxI = call[c].i, !.mxReadMark = w[c].hdr.mxFrame]
<1>2. pc[c] = "putmark" /\ Calls(c, "lockmark", k) /\ L!Unlock(c, {READ(call[c].i)})
  BY <1>1, PutMarkDoes
<1>3. k.mode = call[c].mode
  BY <1>1 DEF Call
<1> HIDE DEF k
<1>4. /\ pc'[c] = "lockmark" /\ call'[c] = k /\ mine'[c] = mine[c]
      /\ Does(c, "lockmark", k, w[c], cached[c], mine[c])
  BY <1>2, OthersKept DEF Calls
<1>5. call[c].mode # "close" /\ call[c].i \in Readers
  BY <1>1, <1>2, WalAssumption DEF ModeAt, MarkPc, CtlAt, MarkStepAt, Readers
<1>6. {READ(call[c].i)} \in SUBSET Slot
  BY <1>5 DEF Slot
<1>7. \A s \in Slot : Due(c, s) => Due(c, s)' \/ s \in {READ(call[c].i)}
  BY <1>2, <1>3, <1>4 DEF Due, InWrite, RecoverPc, RestartPc, CkWritePc
<1>8. ClosingAt(c)'
  BY <1>3, <1>4, <1>5, NotClosing
<1>9. QED BY <1>2, <1>4, <1>6, <1>7, <1>8, UnlocksAlone

LEMMA EndReadAlone == ASSUME Ctl, Alone, NEW c \in Conn, EndRead(c) PROVE Alone'
<1>1. /\ WalTypeOK /\ Steady /\ call[c] \in Call /\ w[c] \in WalObj /\ ModeAt(c) /\ TransAt(c)
      /\ CtlAt(c)
  BY AloneIs DEF Ctl
<1> DEFINE o == [w[c] EXCEPT !.readLock = -1]
<1>2. /\ pc[c] = "idle" /\ w[c].readLock >= 0 /\ L!Unlock(c, {READ(w[c].readLock)})
      /\ Does(c, "idle", call[c], o, cached[c], mine[c])
  BY <1>1, EndReadDoes
<1>3. o.readLock = -1
  BY <1>1 DEF WalObj
<1> HIDE DEF o
<1>4. /\ pc'[c] = "idle" /\ call'[c] = call[c] /\ mine'[c] = mine[c]
  BY <1>2, OthersKept
<1>5. call[c].mode # "close" /\ w[c].readLock \in Readers
  BY <1>1, <1>2, WalAssumption DEF ModeAt, NoCall, WalObj, Readers
<1>6. {READ(w[c].readLock)} \in SUBSET Slot
  BY <1>5 DEF Slot
<1>7. \A s \in Slot : Due(c, s) => Due(c, s)' \/ s \in {READ(w[c].readLock)}
  BY <1>2, <1>4 DEF Due, InWrite, RecoverPc, RestartPc, CkWritePc
<1>8. ClosingAt(c)'
  BY <1>4, <1>5, NotClosing
<1>9. QED BY <1>2, <1>3, <1>6, <1>7, <1>8, UnlocksAlone

LEMMA BeginWriteAlone == ASSUME Ctl, Alone, NEW c \in Conn, BeginWrite(c) PROVE Alone'
<1>1. /\ WalTypeOK /\ Steady /\ call[c] \in Call /\ w[c] \in WalObj /\ ModeAt(c) /\ TransAt(c)
      /\ CtlAt(c)
  BY AloneIs DEF Ctl
<1>2. /\ pc[c] = "idle" /\ L!LockExclusive(c, {WRITE})
      /\ Does(c, "idle", call[c], w[c], cached[c], View(c)) /\ mine' = [mine EXCEPT ![c] = View(c)]
  BY <1>1, BeginWriteDoes DEF BeginWrite
<1>3. View(c) # None
  BY ViewIsSome
<1> DEFINE v == View(c)
<1> HIDE DEF v
<1>4. pc'[c] = "idle" /\ call'[c] = call[c] /\ mine'[c] = v
  BY <1>2, OthersKept DEF v
<1>5. call[c].mode = "passive"
  BY <1>1, <1>2 DEF ModeAt, NoCall
<1>6. {WRITE} \in SUBSET Slot
  BY Slots
<1>7. \A s : Due(c, s) \/ s \in {WRITE} => Due(c, s)'
  BY <1>2, <1>3, <1>4, <1>5 DEF Due, InWrite, RecoverPc, RestartPc, CkWritePc, v
<1>8. ClosingAt(c)'
  BY <1>4, <1>5, NotClosing
<1>9. QED BY <1>2, <1>6, <1>7, <1>8, LocksAlone

LEMMA SavepointAlone == ASSUME Ctl, Alone, NEW c \in Conn, Savepoint(c) PROVE Alone'
<1>1. /\ WalTypeOK /\ Steady /\ call[c] \in Call /\ w[c] \in WalObj /\ ModeAt(c) /\ TransAt(c)
      /\ CtlAt(c)
  BY AloneIs DEF Ctl
<1> DEFINE o == [w[c] EXCEPT !.svpt = [mxFrame |-> w[c].hdr.mxFrame, cksum |-> w[c].hdr.cksum,
                                        nCkpt |-> w[c].nCkpt, mine |-> mine[c]]]
<1>2. /\ pc[c] = "idle" /\ UNCHANGED lockVars
      /\ Does(c, "idle", call[c], o, cached[c], mine[c])
  BY <1>1, SavepointDoes
<1>3. o.readLock = w[c].readLock
  BY <1>1 DEF WalObj
<1> HIDE DEF o
<1>4. QED BY <1>2, <1>3, WorksOnAlone DEF RestartPc

LEMMA RefusedAlone ==
  ASSUME Ctl, Alone, NEW c \in Conn, pc[c] \in {"hdrlock", "hdragain"}, Refused(c), call[c].mode # "close",
         (UNCHANGED lockVars /\ pc[c] = "hdrlock") \/ L!Unlock(c, {WRITE})
  PROVE  Alone'
<1>1. /\ WalTypeOK /\ Steady /\ call[c] \in Call /\ w[c] \in WalObj /\ ModeAt(c) /\ TransAt(c)
      /\ CtlAt(c) /\ ClosingAt(c) /\ OnlyLocksAt(c)
  BY AloneIs DEF Ctl
<1>2. /\ w'[c] = w[c] /\ mine'[c] = mine[c] /\ Others(c)
      /\ \/ pc'[c] = "ckend" /\ call'[c] = call[c] /\ call[c].mode # "read"
         \/ pc'[c] = "hdr0" /\ call'[c] = call[c]
         \/ pc'[c] = "idle" /\ call'[c] = NoCall /\ call[c].mode = "read"
  BY OthersKept DEF Refused, Moves
<1>3. \A s \in Slot : Due(c, s) => Due(c, s)' \/ (s = WRITE /\ pc[c] = "hdragain")
  BY <1>1, <1>2 DEF Due, InWrite, RecoverPc, RestartPc, CkWritePc, CkMode
<1>4. ClosingAt(c)'
  BY <1>2, NotClosing DEF NoCall
<1>5. CASE UNCHANGED lockVars /\ pc[c] = "hdrlock"
  <2>1. exclMask[c] \subseteq Slot
    BY <1>1 DEF WalTypeOK
  <2>2. OnlyLocksAt(c)'
    <3>1. exclMask'[c] = exclMask[c] /\ sharedMask'[c] = sharedMask[c]
      BY <1>1, <1>5, OwnLocks
    <3>2. QED BY <1>1, <1>2, <1>3, <1>5, <2>1, <3>1 DEF OnlyLocksAt
  <2>3. QED BY <1>2, <1>4, <1>5, <2>2, AloneStep DEF LockStep
<1>6. CASE L!Unlock(c, {WRITE})
  <2>1. OnlyLocksAt(c)'
    BY <1>1, <1>2, <1>3, <1>6, FewerLocks
  <2>2. {WRITE} \in SUBSET Slot
    BY Slots
  <2>3. QED BY <1>2, <1>4, <1>6, <2>1, <2>2, AloneStep DEF LockStep
<1>7. QED BY <1>5, <1>6

LEMMA LockHdrAlone == ASSUME Ctl, Alone, NEW c \in Conn, LockHdr(c) PROVE Alone'
<1>1. /\ WalTypeOK /\ Steady /\ call[c] \in Call /\ w[c] \in WalObj /\ ModeAt(c) /\ TransAt(c)
      /\ CtlAt(c) /\ ClosingAt(c) /\ OnlyLocksAt(c)
  BY AloneIs DEF Ctl
<1>2. /\ pc[c] = "hdrlock"
      /\ \/ L!LockExclusive(c, {WRITE}) /\ Moves(c, "hdragain")
         \/ UNCHANGED lockVars /\ Refused(c)
  BY <1>1, LockHdrDoes
<1>3. {WRITE} \in SUBSET Slot /\ w[c].readLock = -1
  BY <1>1, <1>2, Slots DEF TransAt, WritePc, RestartPc, FramePc
<1>4. CASE L!LockExclusive(c, {WRITE}) /\ Moves(c, "hdragain")
  <2>1. pc'[c] = "hdragain" /\ call'[c] = call[c] /\ mine'[c] = mine[c]
    BY <1>4, OthersKept DEF Moves
  <2>2. \A s : Due(c, s) \/ s \in {WRITE} => Due(c, s)'
    BY <1>2, <2>1 DEF Due, InWrite, RecoverPc, RestartPc, CkWritePc
  <2>3. ClosingAt(c)'
    BY <2>1 DEF ClosingAt, CkRunPc, CkWritePc
  <2>4. QED BY <1>2, <1>3, <1>4, <2>2, <2>3, LocksAlone DEF Moves
<1>5. CASE ~L!CanExclude(c, {WRITE}) /\ UNCHANGED lockVars /\ Refused(c)
  <2>1. call[c].mode = "close" => \A s \in {WRITE} : ~Due(c, s)
    BY <1>1, <1>2, Slots DEF Due, InWrite, RecoverPc, RestartPc, CkWritePc, TransAt
  <2>2. call[c].mode # "close"
    BY <1>3, <1>5, <2>1, NoneInTheWay
  <2>3. QED BY <1>2, <1>5, <2>2, RefusedAlone
<1>6. pc'[c] = "hdragain" \/ ~L!CanExclude(c, {WRITE})
  BY <1>1 DEF LockHdr, Goto, WalTypeOK
<1>7. Refused(c) => pc'[c] # "hdragain"
  BY OthersKept DEF Refused, Moves
<1>8. QED BY <1>2, <1>4, <1>5, <1>6, <1>7

LEMMA ReadHdrAgainAlone == ASSUME Ctl, Alone, NEW c \in Conn, ReadHdrAgain(c) PROVE Alone'
<1>1. /\ WalTypeOK /\ Steady /\ call[c] \in Call /\ w[c] \in WalObj /\ ModeAt(c) /\ TransAt(c)
      /\ CtlAt(c) /\ ClosingAt(c) /\ OnlyLocksAt(c)
  BY AloneIs DEF Ctl
<1>2. pc[c] = "hdragain" /\ Quiet
  BY <1>1, ReadHdrAgainDoes
<1>3. w[c].readLock = -1 /\ mine[c] = None /\ {WRITE} \in SUBSET Slot
  BY <1>1, <1>2, Slots DEF TransAt, ModeAt, WritePc, RestartPc, FramePc, InWrite, HdrPc
<1>4. CASE GoodHdr /\ L!Unlock(c, {WRITE}) /\ Adopts(c, H)
  <2>1. /\ pc'[c] = AfterHdr(c) /\ call'[c].mode = call[c].mode /\ w'[c].hdr = H
        /\ w'[c].readLock = w[c].readLock /\ mine'[c] = mine[c]
    BY <1>1, <1>4, AdoptIs
  <2>2. AfterHdr(c) \in {"nbackfill", "ckstart"}
    BY DEF AfterHdr
  <2>3. \A s \in Slot : Due(c, s) => Due(c, s)' \/ s \in {WRITE}
    BY <1>2, <2>1, <2>2 DEF Due, InWrite, RecoverPc, RestartPc, CkWritePc
  <2>4. ClosingAt(c)'
    <3>1. H' = H /\ H.isInit
      BY <1>2, <1>4 DEF Quiet, H, GoodHdr
    <3>2. QED BY <2>1, <2>2, <3>1 DEF ClosingAt, CkRunPc, CkWritePc
  <2>5. Others(c)
    BY <1>4, OthersKept DEF Adopts
  <2>6. OnlyLocksAt(c)'
    BY <1>1, <1>4, <2>1, <2>3, FewerLocks
  <2>7. QED BY <1>2, <1>3, <1>4, <2>4, <2>5, <2>6, AloneStep DEF LockStep
<1>5. CASE L!LockExclusive(c, RecoveryLocks(c)) /\ Calls(c, "recover", [call[c] EXCEPT !.changed = TRUE])
  <2> DEFINE k == [call[c] EXCEPT !.changed = TRUE]
  <2>1. k.mode = call[c].mode /\ Calls(c, "recover", k)
    BY <1>1, <1>5 DEF Call
  <2> HIDE DEF k
  <2>2. pc'[c] = "recover" /\ call'[c] = k /\ mine'[c] = mine[c]
    BY <2>1, OthersKept DEF Calls
  <2>3. \A s : Due(c, s)'
    BY <2>2 DEF Due, InWrite, RecoverPc, RestartPc, CkWritePc
  <2>4. ClosingAt(c)'
    BY <2>2 DEF ClosingAt, CkRunPc, CkWritePc
  <2>5. RecoveryLocks(c) \in SUBSET Slot
    BY DEF RecoveryLocks
  <2>6. QED BY <1>2, <1>5, <2>1, <2>3, <2>4, <2>5, LocksAlone DEF Calls
<1>6. CASE ~GoodHdr /\ ~L!CanExclude(c, RecoveryLocks(c)) /\ L!Unlock(c, {WRITE}) /\ HdrBusy(c)
  <2>1. RecoveryLocks(c) \in SUBSET Slot /\ \A s \in RecoveryLocks(c) : s \notin exclMask[c]
    BY DEF RecoveryLocks
  <2>2. call[c].mode # "close"
    BY <1>3, <1>6, <2>1, NoneInTheWay
  <2>3. Refused(c) \/ (GoodHdr /\ Adopts(c, H)) \/ L!LockExclusive(c, RecoveryLocks(c))
    BY <1>1, ReadHdrAgainDoes
  <2>4. Refused(c)
    BY <1>6, <2>3 DEF L!LockExclusive
  <2>5. QED BY <1>2, <1>6, <2>2, <2>4, RefusedAlone
<1>7. \/ GoodHdr
      \/ ~GoodHdr /\ pc'[c] = "recover"
      \/ ~GoodHdr /\ ~L!CanExclude(c, RecoveryLocks(c)) /\ L!Unlock(c, {WRITE}) /\ HdrBusy(c)
  BY <1>1 DEF ReadHdrAgain, Goto, WalTypeOK
<1>8. \/ GoodHdr /\ L!Unlock(c, {WRITE}) /\ Adopts(c, H)
      \/ /\ ~GoodHdr /\ L!LockExclusive(c, RecoveryLocks(c))
         /\ Calls(c, "recover", [call[c] EXCEPT !.changed = TRUE])
      \/ ~GoodHdr /\ L!Unlock(c, {WRITE}) /\ Refused(c)
  BY <1>1, ReadHdrAgainDoes
<1>9. Refused(c) => pc'[c] # "recover"
  BY OthersKept DEF Refused, Moves
<1>10. QED BY <1>4, <1>5, <1>6, <1>7, <1>8, <1>9

LEMMA RecoverAlone == ASSUME Ctl, Alone, NEW c \in Conn, Recover(c) PROVE Alone'
<1>1. /\ WalTypeOK /\ Steady /\ call[c] \in Call /\ w[c] \in WalObj /\ ModeAt(c) /\ TransAt(c)
      /\ CtlAt(c) /\ ClosingAt(c) /\ OnlyLocksAt(c)
  BY AloneIs DEF Ctl
<1>2. pc[c] = "recover" /\ UNCHANGED lockVars
  BY <1>1, RecoverDoes
<1>3. PICK h, n : Does(c, "recover0", call[c], [w[c] EXCEPT !.hdr = h, !.nCkpt = n], cached[c], mine[c])
  BY <1>1, RecoverDoes
<1> DEFINE o == [w[c] EXCEPT !.hdr = h, !.nCkpt = n]
<1>4. o.readLock = w[c].readLock
  BY <1>1 DEF WalObj
<1>5. Does(c, "recover0", call[c], o, cached[c], mine[c])
  BY <1>3
<1> HIDE DEF o
<1>6. pc'[c] = "recover0" /\ call'[c] = call[c] /\ mine'[c] = mine[c]
  BY <1>5, OthersKept
<1>7. ClosingAt(c)' /\ \A s : Due(c, s)'
  BY <1>6 DEF ClosingAt, CkRunPc, Due, InWrite, RecoverPc, RestartPc, CkWritePc
<1>8. QED BY <1>2, <1>4, <1>5, <1>7, KeepsAlone

LEMMA RecoverHdr0Alone == ASSUME Ctl, Alone, NEW c \in Conn, RecoverHdr0(c) PROVE Alone'
<1>1. /\ WalTypeOK /\ Steady /\ call[c] \in Call /\ w[c] \in WalObj /\ ModeAt(c) /\ TransAt(c)
      /\ CtlAt(c) /\ ClosingAt(c) /\ OnlyLocksAt(c)
  BY AloneIs DEF Ctl
<1>2. pc[c] = "recover0" /\ UNCHANGED lockVars /\ Moves(c, "recoverinfo")
  BY <1>1, RecoverHdr0Does
<1>6. pc'[c] = "recoverinfo" /\ call'[c] = call[c] /\ mine'[c] = mine[c]
  BY <1>2, OthersKept DEF Moves
<1>7. ClosingAt(c)' /\ \A s : Due(c, s)'
  BY <1>6 DEF ClosingAt, CkRunPc, Due, InWrite, RecoverPc, RestartPc, CkWritePc
<1>8. QED BY <1>2, <1>7, KeepsAlone DEF Moves

LEMMA RecoverInfoAlone == ASSUME Ctl, Heads, Alone, NEW c \in Conn, RecoverInfo(c) PROVE Alone'
<1>1. /\ WalTypeOK /\ Steady /\ call[c] \in Call /\ w[c] \in WalObj /\ ModeAt(c) /\ TransAt(c)
      /\ CtlAt(c) /\ ClosingAt(c) /\ OnlyLocksAt(c)
  BY AloneIs DEF Ctl
<1> DEFINE ss == Slot \ (IF call[c].mode = "read" THEN {} ELSE {CKPT})
<1>2. /\ pc[c] = "recoverinfo" /\ Moves(c, AfterHdr(c)) /\ L!Unlock(c, ss)
      /\ \E marks : Shm(H, shm.hdr[1], 0, marks, shm.aPgno)
  BY <1>1, RecoverInfoDoes
<1>3. pc'[c] = AfterHdr(c) /\ call'[c] = call[c] /\ mine'[c] = mine[c] /\ w'[c] = w[c]
  BY <1>2, OthersKept DEF Moves
<1>4. ss \in SUBSET Slot
  OBVIOUS
<1>5. call[c].mode # "read" => call[c].mode \in CkMode /\ pc'[c] = "ckstart"
  BY <1>1, <1>2, <1>3 DEF ModeAt, HdrPc, RecoverPc, Call, AfterHdr
<1>6. \A s \in Slot : Due(c, s) => Due(c, s)' \/ s \in ss
  BY <1>3, <1>5 DEF Due
<1>7. ClosingAt(c)'
  <2>1. H' = H /\ w[c].hdr = H /\ H.isInit
    BY <1>2 DEF Shm, H, Heads, HeadAt
  <2>2. pc'[c] \in {"nbackfill", "ckstart"}
    BY <1>3 DEF AfterHdr
  <2>3. QED BY <1>3, <2>1, <2>2 DEF ClosingAt, CkRunPc, CkWritePc
<1> HIDE DEF ss
<1>8. QED BY <1>2, <1>4, <1>6, <1>7, UnlocksAlone DEF Moves

LEMMA SavepointUndoAlone == ASSUME Ctl, Alone, NEW c \in Conn, SavepointUndo(c) PROVE Alone'
<1>1. /\ WalTypeOK /\ Steady /\ call[c] \in Call /\ w[c] \in WalObj /\ ModeAt(c) /\ TransAt(c)
      /\ CtlAt(c) /\ ClosingAt(c) /\ OnlyLocksAt(c)
  BY AloneIs DEF Ctl
<1>2. pc[c] = "idle" /\ w[c].svpt # None /\ UNCHANGED lockVars
  BY <1>1, SavepointUndoDoes
<1>3. \E o : Does(c, "idle", call[c], o, cached[c], w[c].svpt.mine) /\ o.readLock = w[c].readLock
  <2> DEFINE o1 == [w[c] EXCEPT !.hdr = [w[c].hdr EXCEPT !.mxFrame = UndoTo(c), !.cksum = w[c].svpt.cksum],
                            !.svpt = None]
             o2 == [w[c] EXCEPT !.svpt = None]
  <2>1. o1.readLock = w[c].readLock /\ o2.readLock = w[c].readLock
    BY <1>1 DEF WalObj
  <2>2. \/ Does(c, "idle", call[c], o1, cached[c], w[c].svpt.mine)
        \/ Does(c, "idle", call[c], o2, cached[c], w[c].svpt.mine)
    BY <1>1, SavepointUndoDoes
  <2> HIDE DEF o1, o2
  <2>3. QED BY <2>1, <2>2
<1>4. PICK o : Does(c, "idle", call[c], o, cached[c], w[c].svpt.mine) /\ o.readLock = w[c].readLock
  BY <1>3
<1>5. w[c].svpt.mine # None
  <2>1. w[c].svpt \in Svpt
    BY <1>1, <1>2 DEF WalObj
  <2>2. w[c].svpt.mine \in Seq(Int)
    BY <2>1 DEF Svpt
  <2>3. QED BY <2>2, WalAssumption
<1>6. QED BY <1>2, <1>4, <1>5, WorksOnAlone DEF RestartPc

LEMMA StartsAlone ==
  ASSUME Ctl, Alone, NEW c \in Conn, NEW list \in Seq(Nat \ {0}), NEW m \in Nat, NEW n \in Nat, Starts(c, list, m, n)
  PROVE  Alone'
<1>1. /\ WalTypeOK /\ Steady /\ call[c] \in Call /\ w[c] \in WalObj /\ ModeAt(c) /\ TransAt(c)
      /\ CtlAt(c) /\ ClosingAt(c) /\ OnlyLocksAt(c)
  BY AloneIs DEF Ctl
<1> DEFINE k == [NoCall EXCEPT !.list = list, !.nTruncate = n, !.data = seed, !.mode = "write"]
           v == Changed(mine[c], Range(list), m, seed)
<1>2. pc[c] = "idle" /\ InWrite(c) /\ UNCHANGED lockVars /\ Does(c, "restart", k, w[c], cached[c], v)
  BY DEF Starts
<1>3. k.mode = "write"
  BY DEF NoCall
<1>4. v # None
  <2>1. mine[c] \in Seq(Int) /\ seed \in Nat
    BY <1>1, <1>2 DEF WalTypeOK, Image, InWrite
  <2>2. v \in Seq(Int)
    BY <2>1, ChangedType
  <2>3. QED BY <2>2, WalAssumption
<1> HIDE DEF k, v
<1>5. QED BY <1>2, <1>3, <1>4, WorksOnAlone DEF RestartPc

LEMMA RestartLogAlone == ASSUME Ctl, Alone, NEW c \in Conn, RestartLog(c) PROVE Alone'
<1>1. /\ WalTypeOK /\ Steady /\ call[c] \in Call /\ w[c] \in WalObj /\ ModeAt(c) /\ TransAt(c)
      /\ CtlAt(c) /\ ClosingAt(c) /\ OnlyLocksAt(c)
  BY AloneIs DEF Ctl
<1>2. pc[c] = "restart" /\ pc[c] \in WritePc /\ pc[c] \notin RestartPc /\ call[c].mode = "write"
  BY <1>1, RestartLogDoes DEF WritePc, RestartPc, ModeAt
<1>3. CASE UNCHANGED lockVars /\ Moves(c, "walhdr")
  BY <1>2, <1>3, WorksOnAlone DEF Moves
<1>4. CASE /\ L!LockExclusive(c, Marked)
           /\ Does(c, "restart1", call[c], [w[c] EXCEPT !.nCkpt = w[c].nCkpt + 1,
                       !.hdr = [w[c].hdr EXCEPT !.mxFrame = 0, !.salt = seed]], cached[c], mine[c])
  <2> DEFINE o == [w[c] EXCEPT !.nCkpt = w[c].nCkpt + 1,
                       !.hdr = [w[c].hdr EXCEPT !.mxFrame = 0, !.salt = seed]]
  <2>1. o.readLock = w[c].readLock
    BY <1>1 DEF WalObj
  <2>2. Does(c, "restart1", call[c], o, cached[c], mine[c])
    BY <1>4
  <2> HIDE DEF o
  <2>3. pc'[c] = "restart1" /\ call'[c] = call[c] /\ mine'[c] = mine[c]
    BY <2>2, OthersKept
  <2>4. \A s : Due(c, s) \/ s \in Marked => Due(c, s)'
    BY <1>2, <2>3 DEF Due, InWrite, RecoverPc, RestartPc, CkWritePc
  <2>5. ClosingAt(c)'
    BY <1>2, <2>3, NotClosing
  <2>6. QED BY <1>2, <1>4, <2>1, <2>2, <2>4, <2>5, LocksAlone, Slots
<1>5. CASE /\ w[c].readLock = 0 /\ L!Unlock(c, {READ(0)})
           /\ Does(c, "marks", call[c], [w[c] EXCEPT !.readLock = -1], cached[c], mine[c])
  <2> DEFINE o == [w[c] EXCEPT !.readLock = -1]
  <2>1. o.readLock = -1 /\ READ(w[c].readLock) \in {READ(0)}
    BY <1>1, <1>5 DEF WalObj
  <2>2. Does(c, "marks", call[c], o, cached[c], mine[c])
    BY <1>5
  <2> HIDE DEF o
  <2>3. pc'[c] = "marks" /\ call'[c] = call[c] /\ mine'[c] = mine[c]
    BY <2>2, OthersKept
  <2>4. \A s \in Slot : Due(c, s) => Due(c, s)' \/ s \in {READ(0)}
    BY <1>2, <2>3 DEF Due, InWrite, RecoverPc, RestartPc, CkWritePc
  <2>5. ClosingAt(c)' /\ {READ(0)} \in SUBSET Slot
    BY <1>2, <2>3, NotClosing, Slots
  <2>6. QED BY <1>2, <1>5, <2>1, <2>2, <2>4, <2>5, UnlocksAlone
<1>6. QED BY <1>1, <1>3, <1>4, <1>5, RestartLogDoes

LEMMA RestartHdr1Alone == ASSUME Ctl, Alone, NEW c \in Conn, RestartHdr1(c) PROVE Alone'
<1>1. /\ WalTypeOK /\ Steady /\ call[c] \in Call /\ w[c] \in WalObj /\ ModeAt(c) /\ TransAt(c)
      /\ CtlAt(c) /\ ClosingAt(c) /\ OnlyLocksAt(c)
  BY AloneIs DEF Ctl
<1>2. pc[c] = "restart1" /\ UNCHANGED lockVars /\ Moves(c, "restart0")
  BY <1>1, RestartHdr1Does
<1>3. QED BY <1>2, WorksOnAlone DEF Moves, RestartPc, WritePc, FramePc

LEMMA RestartHdr0Alone == ASSUME Ctl, Alone, NEW c \in Conn, RestartHdr0(c) PROVE Alone'
<1>1. /\ WalTypeOK /\ Steady /\ call[c] \in Call /\ w[c] \in WalObj /\ ModeAt(c) /\ TransAt(c)
      /\ CtlAt(c) /\ ClosingAt(c) /\ OnlyLocksAt(c)
  BY AloneIs DEF Ctl
<1>2. pc[c] = "restart0" /\ UNCHANGED lockVars /\ Moves(c, "restartinfo")
  BY <1>1, RestartHdr0Does
<1>3. QED BY <1>2, WorksOnAlone DEF Moves, RestartPc, WritePc, FramePc

LEMMA SyncWalHdrAlone == ASSUME Ctl, Alone, NEW c \in Conn, SyncWalHdr(c) PROVE Alone'
<1>1. /\ WalTypeOK /\ Steady /\ call[c] \in Call /\ w[c] \in WalObj /\ ModeAt(c) /\ TransAt(c)
      /\ CtlAt(c) /\ ClosingAt(c) /\ OnlyLocksAt(c)
  BY AloneIs DEF Ctl
<1>2. pc[c] = "walhdrsync" /\ UNCHANGED lockVars /\ Moves(c, "frame")
  BY <1>1, SyncWalHdrDoes
<1>3. QED BY <1>2, WorksOnAlone DEF Moves, RestartPc, WritePc, FramePc

LEMMA SyncFramesAlone == ASSUME Ctl, Alone, NEW c \in Conn, SyncFrames(c) PROVE Alone'
<1>1. /\ WalTypeOK /\ Steady /\ call[c] \in Call /\ w[c] \in WalObj /\ ModeAt(c) /\ TransAt(c)
      /\ CtlAt(c) /\ ClosingAt(c) /\ OnlyLocksAt(c)
  BY AloneIs DEF Ctl
<1>2. pc[c] = "framesync" /\ UNCHANGED lockVars /\ Moves(c, "index")
  BY <1>1, SyncFramesDoes
<1>3. QED BY <1>2, WorksOnAlone DEF Moves, RestartPc, WritePc, FramePc

LEMMA RestartInfoAlone == ASSUME Ctl, Alone, NEW c \in Conn, RestartInfo(c) PROVE Alone'
<1>1. /\ WalTypeOK /\ Steady /\ call[c] \in Call /\ w[c] \in WalObj /\ ModeAt(c) /\ TransAt(c)
      /\ CtlAt(c) /\ ClosingAt(c) /\ OnlyLocksAt(c)
  BY AloneIs DEF Ctl
<1> DEFINE o == [w[c] EXCEPT !.readLock = -1]
           ss == Marked \cup {READ(0)}
<1>2. pc[c] = "restartinfo" /\ L!Unlock(c, ss) /\ Does(c, "marks", call[c], o, cached[c], mine[c])
  BY <1>1, RestartInfoDoes
<1>3. o.readLock = -1 /\ w[c].readLock = 0 /\ call[c].mode = "write"
  BY <1>1, <1>2 DEF WalObj, TransAt, ModeAt, RestartPc, WritePc
<1> HIDE DEF o
<1>4. pc'[c] = "marks" /\ call'[c] = call[c] /\ mine'[c] = mine[c]
  BY <1>2, OthersKept
<1>5. \A s \in Slot : Due(c, s) => Due(c, s)' \/ s \in ss
  BY <1>2, <1>3, <1>4 DEF Due, InWrite, RecoverPc, RestartPc, CkWritePc, CkMode
<1>6. ClosingAt(c)'
  BY <1>3, <1>4, NotClosing
<1>7. ss \in SUBSET Slot /\ READ(w[c].readLock) \in ss
  BY <1>3, Slots
<1> HIDE DEF ss
<1>8. QED BY <1>2, <1>3, <1>5, <1>6, <1>7, UnlocksAlone

LEMMA WriteWalHdrAlone == ASSUME Ctl, Alone, NEW c \in Conn, WriteWalHdr(c) PROVE Alone'
<1>1. /\ WalTypeOK /\ Steady /\ call[c] \in Call /\ w[c] \in WalObj /\ ModeAt(c) /\ TransAt(c)
      /\ CtlAt(c) /\ ClosingAt(c) /\ OnlyLocksAt(c)
  BY AloneIs DEF Ctl
<1> DEFINE k == [call[c] EXCEPT !.iFrame = w[c].hdr.mxFrame]
<1>2. pc[c] = "walhdr" /\ UNCHANGED lockVars
  BY <1>1, WriteWalHdrDoes
<1>3. k.mode = call[c].mode
  BY <1>1 DEF Call
<1>4. \E to, o : Does(c, to, k, o, cached[c], mine[c]) /\ o.readLock = w[c].readLock
  <2>1. CASE Calls(c, "frame", k)
    BY <2>1 DEF Calls
  <2>2. ASSUME NEW salt, Does(c, "walhdrsync", k,
                         [w[c] EXCEPT !.hdr = [w[c].hdr EXCEPT !.salt = salt, !.cksum = <<0, salt>>]],
                         cached[c], mine[c])
        PROVE  \E to, o : Does(c, to, k, o, cached[c], mine[c]) /\ o.readLock = w[c].readLock
    <3> DEFINE o == [w[c] EXCEPT !.hdr = [w[c].hdr EXCEPT !.salt = salt, !.cksum = <<0, salt>>]]
    <3>1. o.readLock = w[c].readLock /\ Does(c, "walhdrsync", k, o, cached[c], mine[c])
      BY <1>1, <2>2 DEF WalObj
    <3> HIDE DEF o, k
    <3>2. QED BY <3>1
  <2> HIDE DEF k
  <2>3. QED BY <1>1, <2>1, <2>2, WriteWalHdrDoes DEF k
<1>5. PICK to, o : Does(c, to, k, o, cached[c], mine[c]) /\ o.readLock = w[c].readLock
  BY <1>4
<1> HIDE DEF k
<1>6. QED BY <1>2, <1>3, <1>5, WorksOnAlone DEF RestartPc, WritePc, FramePc

LEMMA WriteFrameAlone == ASSUME Ctl, Alone, NEW c \in Conn, WriteFrame(c) PROVE Alone'
<1>1. /\ WalTypeOK /\ Steady /\ call[c] \in Call /\ w[c] \in WalObj /\ ModeAt(c) /\ TransAt(c)
      /\ CtlAt(c) /\ ClosingAt(c) /\ OnlyLocksAt(c)
  BY AloneIs DEF Ctl
<1> DEFINE k == [call[c] EXCEPT !.iFrame = call[c].iFrame + 1]
<1>2. pc[c] = "frame" /\ UNCHANGED lockVars
  BY <1>1, WriteFrameDoes DEF CtlAt
<1>3. k.mode = call[c].mode
  BY <1>1 DEF Call
<1>4. PICK to, pg : Does(c, to, k, [w[c] EXCEPT !.hdr = [w[c].hdr EXCEPT !.cksum = <<call[c].data, pg>>]],
                         cached[c], mine[c])
  BY <1>1, WriteFrameDoes DEF CtlAt
<1> DEFINE o == [w[c] EXCEPT !.hdr = [w[c].hdr EXCEPT !.cksum = <<call[c].data, pg>>]]
<1>5. o.readLock = w[c].readLock /\ Does(c, to, k, o, cached[c], mine[c])
  BY <1>1, <1>4 DEF WalObj
<1> HIDE DEF k, o
<1>6. QED BY <1>2, <1>3, <1>5, WorksOnAlone DEF RestartPc, WritePc, FramePc

LEMMA AppendIndexAlone == ASSUME Ctl, Alone, NEW c \in Conn, AppendIndex(c) PROVE Alone'
<1>1. /\ WalTypeOK /\ Steady /\ call[c] \in Call /\ w[c] \in WalObj /\ ModeAt(c) /\ TransAt(c)
      /\ CtlAt(c) /\ ClosingAt(c) /\ OnlyLocksAt(c)
  BY AloneIs DEF Ctl
<1>2. pc[c] = "index" /\ UNCHANGED lockVars
  BY <1>1, AppendIndexDoes DEF CtlAt, Ctl
<1>3. PICK h : \/ Does(c, "commit0", call[c], [w[c] EXCEPT !.hdr = h], cached[c], mine[c])
               \/ Does(c, "idle", NoCall, [w[c] EXCEPT !.hdr = h], cached[c], mine[c])
  BY <1>1, AppendIndexDoes DEF CtlAt, Ctl
<1> DEFINE o == [w[c] EXCEPT !.hdr = h]
<1>4. o.readLock = w[c].readLock
  BY <1>1 DEF WalObj
<1>5. Does(c, "commit0", call[c], o, cached[c], mine[c]) \/ Does(c, "idle", NoCall, o, cached[c], mine[c])
  BY <1>3
<1>6. NoCall.mode = "passive"
  BY DEF NoCall
<1> HIDE DEF o
<1>7. QED BY <1>2, <1>4, <1>5, <1>6, WorksOnAlone DEF RestartPc, WritePc, FramePc

LEMMA CommitHdr0Alone == ASSUME Ctl, Alone, NEW c \in Conn, CommitHdr0(c) PROVE Alone'
<1>1. /\ WalTypeOK /\ Steady /\ call[c] \in Call /\ w[c] \in WalObj /\ ModeAt(c) /\ TransAt(c)
      /\ CtlAt(c) /\ ClosingAt(c) /\ OnlyLocksAt(c)
  BY AloneIs DEF Ctl
<1> DEFINE o == [w[c] EXCEPT !.svpt = None]
<1>2. pc[c] = "commit0" /\ L!Unlock(c, {WRITE}) /\ Does(c, "idle", NoCall, o, mine[c], None)
  BY <1>1, CommitHdr0Does
<1>3. o.readLock = w[c].readLock /\ call[c].mode = "write"
  BY <1>1, <1>2 DEF WalObj, ModeAt, WritePc, FramePc
<1> HIDE DEF o
<1>4. pc'[c] = "idle" /\ call'[c] = NoCall
  BY <1>2, OthersKept
<1>5. \A s \in Slot : Due(c, s) => Due(c, s)' \/ s \in {WRITE}
  BY <1>2, <1>3, <1>4 DEF Due, InWrite, RecoverPc, RestartPc, CkWritePc, CkMode
<1>6. ClosingAt(c)' /\ {WRITE} \in SUBSET Slot
  BY <1>4, NotClosing, Slots DEF NoCall
<1>7. QED BY <1>2, <1>3, <1>5, <1>6, UnlocksAlone

LEMMA FramesFailAlone == ASSUME Ctl, Alone, NEW c \in Conn, FramesFail(c) PROVE Alone'
<1>1. /\ WalTypeOK /\ Steady /\ call[c] \in Call /\ w[c] \in WalObj /\ ModeAt(c) /\ TransAt(c)
      /\ CtlAt(c) /\ ClosingAt(c) /\ OnlyLocksAt(c)
  BY AloneIs DEF Ctl
<1>2. pc[c] \in {"walhdr", "walhdrsync", "frame", "framesync"} /\ Moves(c, "failed") /\ UNCHANGED lockVars
  BY <1>1, FramesFailDoes
<1>3. QED BY <1>2, WorksOnAlone DEF Moves, RestartPc, WritePc, FramePc

LEMMA RollbackAlone == ASSUME Ctl, Alone, NEW c \in Conn, Rollback(c) PROVE Alone'
<1>1. /\ WalTypeOK /\ Steady /\ call[c] \in Call /\ w[c] \in WalObj /\ ModeAt(c) /\ TransAt(c)
      /\ CtlAt(c) /\ ClosingAt(c) /\ OnlyLocksAt(c)
  BY AloneIs DEF Ctl
<1> DEFINE o == [w[c] EXCEPT !.hdr = H, !.svpt = None]
<1>2. pc[c] \in {"idle", "failed"} /\ L!Unlock(c, {WRITE}) /\ Does(c, "idle", NoCall, o, cached[c], None)
  BY <1>1, RollbackDoes
<1>3. o.readLock = w[c].readLock /\ call[c].mode \in {"write", "passive"}
  BY <1>1, <1>2 DEF WalObj, ModeAt, WritePc, FramePc, NoCall
<1> HIDE DEF o
<1>4. pc'[c] = "idle" /\ call'[c] = NoCall
  BY <1>2, OthersKept
<1>5. \A s \in Slot : Due(c, s) => Due(c, s)' \/ s \in {WRITE}
  BY <1>1, <1>2, <1>3, <1>4 DEF Due, InWrite, RecoverPc, RestartPc, CkWritePc, CkMode, ModeAt, WritePc, FramePc
<1>6. ClosingAt(c)' /\ {WRITE} \in SUBSET Slot
  BY <1>4, NotClosing, Slots DEF NoCall
<1>7. QED BY <1>2, <1>3, <1>5, <1>6, UnlocksAlone

LEMMA CheckpointAlone == ASSUME Ctl, Alone, NEW c \in Conn, Checkpoint(c) PROVE Alone'
<1>1. /\ WalTypeOK /\ Steady /\ call[c] \in Call /\ w[c] \in WalObj /\ ModeAt(c) /\ TransAt(c)
      /\ CtlAt(c) /\ ClosingAt(c) /\ OnlyLocksAt(c)
  BY AloneIs DEF Ctl
<1>2. pc[c] = "idle" /\ call[c].mode = "passive"
  BY <1>1, CheckpointDoes DEF ModeAt, NoCall
<1>3. ASSUME NEW m \in {"passive", "full"}, NEW k, k = [NoCall EXCEPT !.mode = m], Calls(c, "hdr0", k),
             L!LockExclusive(c, IF m = "full" THEN {CKPT, WRITE} ELSE {CKPT})
      PROVE  Alone'
  <2> DEFINE ss == IF m = "full" THEN {CKPT, WRITE} ELSE {CKPT}
  <2>1. k.mode = m
    BY <1>3 DEF NoCall
  <2>2. pc'[c] = "hdr0" /\ call'[c] = k /\ mine'[c] = mine[c]
    BY <1>3, OthersKept DEF Calls
  <2>3. \A s : Due(c, s) \/ s \in ss => Due(c, s)'
    BY <1>2, <2>1, <2>2 DEF Due, InWrite, RecoverPc, RestartPc, CkWritePc, CkMode
  <2>4. ClosingAt(c)' /\ ss \in SUBSET Slot
    BY <2>1, <2>2, NotClosing, Slots
  <2>5. L!LockExclusive(c, ss)
    BY <1>3
  <2> HIDE DEF ss
  <2>6. QED BY <1>2, <1>3, <2>3, <2>4, <2>5, LocksAlone DEF Calls
<1>4. \/ L!LockExclusive(c, {CKPT}) /\ Calls(c, "hdr0", [NoCall EXCEPT !.mode = "passive"])
      \/ L!LockExclusive(c, {CKPT, WRITE}) /\ Calls(c, "hdr0", [NoCall EXCEPT !.mode = "full"])
  BY <1>1, CheckpointDoes
<1>5. CASE L!LockExclusive(c, {CKPT}) /\ Calls(c, "hdr0", [NoCall EXCEPT !.mode = "passive"])
  BY <1>3, <1>5
<1>6. CASE L!LockExclusive(c, {CKPT, WRITE}) /\ Calls(c, "hdr0", [NoCall EXCEPT !.mode = "full"])
  BY <1>3, <1>6
<1>7. QED BY <1>4, <1>5, <1>6

LEMMA ClosingKept ==
  ASSUME NEW c \in Conn, H' = H, shm'.nBackfill = shm.nBackfill, w'[c].hdr = w[c].hdr, ClosingAt(c),
         call'[c].mode = call[c].mode, call'[c].mxSafeFrame = call[c].mxSafeFrame,
         pc[c] \in CkRunPc, pc'[c] \in CkRunPc
  PROVE  ClosingAt(c)'
BY DEF ClosingAt, CkRunPc, CkWritePc, mxH, H

\* A step of a checkpoint that goes on.
LEMMA CkGoesAlone ==
  ASSUME Ctl, Alone, NEW c \in Conn, pc[c] \in CkPc \ {"ckput", "ckend", "closing"}, NEW to \in CkRunPc \cup {"ckend"}, NEW k,
         Calls(c, to, k), UNCHANGED lockVars, k.mode = call[c].mode, pc[c] \in CkWritePc => to \in CkWritePc,
         ClosingAt(c)'
  PROVE  Alone'
<1>1. /\ WalTypeOK /\ Steady /\ call[c] \in Call /\ w[c] \in WalObj /\ ModeAt(c) /\ TransAt(c)
      /\ CtlAt(c) /\ ClosingAt(c) /\ OnlyLocksAt(c)
  BY AloneIs DEF Ctl
<1>2. call[c].mode \in CkMode /\ mine[c] = None
  BY <1>1 DEF ModeAt, TransAt, CkPc, CkRunPc, CkWritePc, InWrite, CkMode
<1>3. GoesOn(c, to, k, mine[c])
  BY <1>2 DEF GoesOn, CkPc, CkRunPc, RecoverPc, RestartPc, CkWritePc
<1>4. QED BY <1>3, GoesOnAlone DEF Calls

LEMMA CkStartAlone == ASSUME Ctl, Alone, NEW c \in Conn, CkStart(c) PROVE Alone'
<1>1. /\ WalTypeOK /\ Steady /\ call[c] \in Call /\ w[c] \in WalObj /\ ModeAt(c) /\ TransAt(c)
      /\ CtlAt(c) /\ ClosingAt(c) /\ OnlyLocksAt(c)
  BY AloneIs DEF Ctl
<1>2. pc[c] = "ckstart" /\ UNCHANGED lockVars /\ Quiet /\ w[c].hdr.mxFrame <= MaxFrame
  <2>1. pc[c] = "ckstart"
    BY DEF CkStart
  <2>2. w[c].hdr.mxFrame <= MaxFrame
    BY <2>1, InMaxFrame
  <2>3. QED BY <1>1, <2>2, CkStartDoes
<1>3. H' = H /\ shm'.nBackfill = shm.nBackfill
  BY <1>2 DEF Quiet, H
<1>4. CASE shm.nBackfill >= w[c].hdr.mxFrame /\ Moves(c, "ckend")
  <2>1. pc'[c] = "ckend" /\ call'[c] = call[c] /\ w'[c] = w[c]
    BY <1>4, OthersKept DEF Moves
  <2>2. ClosingAt(c)'
    BY <1>1, <1>2, <1>3, <1>4, <2>1 DEF ClosingAt, CkRunPc, CkWritePc, mxH, H
  <2>3. QED BY <1>2, <1>4, <2>2, CkGoesAlone DEF Moves, Calls, CkPc, CkRunPc, CkWritePc
<1>5. ASSUME NEW todo, Calls(c, "ckmark", [call[c] EXCEPT !.mxSafeFrame = w[c].hdr.mxFrame, !.i = 1, !.todo = todo])
      PROVE  Alone'
  <2> DEFINE k == [call[c] EXCEPT !.mxSafeFrame = w[c].hdr.mxFrame, !.i = 1, !.todo = todo]
  <2>1. k.mode = call[c].mode /\ k.mxSafeFrame = w[c].hdr.mxFrame /\ Calls(c, "ckmark", k)
    BY <1>1, <1>5 DEF Call
  <2> HIDE DEF k
  <2>2. pc'[c] = "ckmark" /\ call'[c] = k /\ w'[c] = w[c]
    BY <2>1, OthersKept DEF Calls
  <2>3. ClosingAt(c)'
    BY <1>1, <1>2, <1>3, <2>1, <2>2 DEF ClosingAt, CkRunPc, CkWritePc, mxH, H
  <2>4. QED BY <1>2, <2>1, <2>3, CkGoesAlone DEF CkPc, CkRunPc, CkWritePc
<1>6. QED BY <1>1, <1>2, <1>4, <1>5, CkStartDoes

LEMMA CkMarkAlone == ASSUME Ctl, Alone, NEW c \in Conn, CkMark(c) PROVE Alone'
<1>1. /\ WalTypeOK /\ Steady /\ call[c] \in Call /\ w[c] \in WalObj /\ ModeAt(c) /\ TransAt(c)
      /\ CtlAt(c) /\ ClosingAt(c) /\ OnlyLocksAt(c)
  BY AloneIs DEF Ctl
<1>2. pc[c] = "ckmark" /\ Quiet /\ H' = H /\ shm'.nBackfill = shm.nBackfill
  BY <1>1, CkMarkDoes DEF Quiet, H, CtlAt
<1>3. pc[c] \in CkRunPc /\ pc[c] \in CkPc \ {"ckput", "ckend", "closing"} /\ pc[c] \notin CkWritePc
  BY <1>2 DEF CkPc, CkRunPc, CkWritePc
<1>4. CASE call[c].i < NReader /\ L!LockExclusive(c, {READ(call[c].i)}) /\ Moves(c, "ckput")
  <2>1. pc'[c] = "ckput" /\ call'[c] = call[c] /\ mine'[c] = mine[c] /\ w'[c] = w[c]
    BY <1>4, OthersKept DEF Moves
  <2>2. {READ(call[c].i)} \in SUBSET Slot
    BY <1>1, <1>3, <1>4, WalAssumption DEF CtlAt, CkStepAt, Slot, Readers
  <2>3. \A s : Due(c, s) \/ s \in {READ(call[c].i)} => Due(c, s)'
    BY <1>2, <2>1 DEF Due, InWrite, RecoverPc, RestartPc, CkWritePc
  <2>4. ClosingAt(c)'
    BY <1>1, <1>2, <1>3, <2>1, ClosingKept DEF CkRunPc
  <2>5. QED BY <1>2, <1>4, <2>2, <2>3, <2>4, LocksAlone DEF Moves
<1>5. ASSUME UNCHANGED lockVars, NEW s \in Nat, Calls(c, "ckmark", [call[c] EXCEPT !.i = call[c].i + 1, !.mxSafeFrame = s]),
             call[c].mode = "close" => s = call[c].mxSafeFrame
      PROVE  Alone'
  <2> DEFINE k == [call[c] EXCEPT !.i = call[c].i + 1, !.mxSafeFrame = s]
  <2>1. k.mode = call[c].mode /\ k.mxSafeFrame = s /\ Calls(c, "ckmark", k)
    BY <1>1, <1>5 DEF Call
  <2> HIDE DEF k
  <2>2. pc'[c] = "ckmark" /\ call'[c] = k /\ w'[c] = w[c]
    BY <2>1, OthersKept DEF Calls
  <2>3. ClosingAt(c)'
    BY <1>1, <1>2, <1>3, <1>5, <2>1, <2>2 DEF ClosingAt, CkRunPc, CkWritePc, mxH, H
  <2>4. QED BY <1>3, <1>5, <2>1, <2>3, CkGoesAlone DEF CkRunPc
<1>6. CASE UNCHANGED lockVars /\ Moves(c, "cklock0")
  <2>1. pc'[c] = "cklock0" /\ call'[c] = call[c] /\ w'[c] = w[c]
    BY <1>6, OthersKept DEF Moves
  <2>2. ClosingAt(c)'
    BY <1>1, <1>2, <1>3, <2>1, ClosingKept DEF CkRunPc
  <2>3. QED BY <1>3, <1>6, <2>2, CkGoesAlone DEF Moves, Calls, CkRunPc
<1>7. ASSUME call[c].i < NReader, UNCHANGED lockVars,
             call[c].mxSafeFrame > shm.aReadMark[call[c].i] => ~L!CanExclude(c, {READ(call[c].i)}),
             call' = [call EXCEPT ![c].i = call[c].i + 1,
                                  ![c].mxSafeFrame = Min({@, shm.aReadMark[call[c].i]})],
             UNCHANGED <<pc, w, cached, mine>>
      PROVE  Alone'
  <2> DEFINE y == shm.aReadMark[call[c].i]
             s == Min({call[c].mxSafeFrame, y})
  <2>1. call[c].i \in Readers /\ call[c].i # 0 /\ READ(call[c].i) \in Slot
    BY <1>1, <1>3, <1>7, WalAssumption DEF CtlAt, CkStepAt, Slot, Readers
  <2>2. y \in Nat /\ call[c].mxSafeFrame \in Nat
    BY <1>1, <2>1 DEF WalTypeOK, Index, Call
  <2>3. \E z \in {call[c].mxSafeFrame, y} : \A v \in {call[c].mxSafeFrame, y} : z <= v
    BY <2>2, LeastIsIn, {call[c].mxSafeFrame, y} \subseteq Nat
  <2>4. s \in {call[c].mxSafeFrame, y} /\ s <= call[c].mxSafeFrame /\ s <= y
    BY <2>3 DEF Min
  <2>5. call' = [call EXCEPT ![c] = [call[c] EXCEPT !.i = call[c].i + 1, !.mxSafeFrame = s]]
    BY <1>1, <1>7 DEF WalTypeOK, Call
  <2>6. call[c].mode = "close" => call[c].mxSafeFrame <= y
    <3>1. call[c].mode = "close" => L!CanExclude(c, {READ(call[c].i)})
      <4>1. w[c].readLock = -1 /\ mine[c] = None
        BY <1>1, <1>2 DEF TransAt, WritePc, RestartPc, FramePc, ModeAt, CkPc, CkRunPc, InWrite, CkMode
      <4>2. ~Due(c, READ(call[c].i))
        BY <1>2, <2>1, <4>1, Slots DEF Due, InWrite, RecoverPc, RestartPc, CkWritePc
      <4>3. QED BY <2>1, <4>1, <4>2, NoneInTheWay
    <3>2. QED BY <1>7, <2>2, <3>1
  <2> HIDE DEF s
  <2>7. Calls(c, "ckmark", [call[c] EXCEPT !.i = call[c].i + 1, !.mxSafeFrame = s])
    BY <1>1, <1>2, <1>7, <2>5, SameUpdate DEF Calls, Does
  <2>8. s \in Nat /\ (call[c].mode = "close" => s = call[c].mxSafeFrame)
    <3> HIDE DEF y
    <3>1. QED BY <2>2, <2>4, <2>6
  <2>9. QED BY <1>5, <1>7, <2>7, <2>8
<1>8. UNCHANGED <<w, cached, mine>>
  BY DEF CkMark, ghosts
<1>9. CASE call[c].i < NReader /\ L!LockExclusive(c, {READ(call[c].i)}) /\ Goto(c, "ckput") /\ UNCHANGED call
  BY <1>1, <1>4, <1>8, <1>9, SameUpdate DEF Moves, Does, Goto
<1>10. CASE Goto(c, "cklock0") /\ UNCHANGED <<lockVars, call>>
  BY <1>1, <1>6, <1>8, <1>10, SameUpdate DEF Moves, Does, Goto
<1>11. QED BY <1>7, <1>8, <1>9, <1>10 DEF CkMark

LEMMA CkPutAlone == ASSUME Ctl, Alone, NEW c \in Conn, CkPut(c) PROVE Alone'
<1>1. /\ WalTypeOK /\ Steady /\ call[c] \in Call /\ w[c] \in WalObj /\ ModeAt(c) /\ TransAt(c)
      /\ CtlAt(c) /\ ClosingAt(c) /\ OnlyLocksAt(c)
  BY AloneIs DEF Ctl
<1> DEFINE k == [call[c] EXCEPT !.i = call[c].i + 1]
<1>2. /\ pc[c] = "ckput" /\ call[c].i \in 1..(NReader - 1) /\ L!Unlock(c, {READ(call[c].i)}) /\ Calls(c, "ckmark", k)
      /\ \E m \in Nat : Shm(H, shm.hdr[1], shm.nBackfill, [shm.aReadMark EXCEPT ![call[c].i] = m], shm.aPgno)
  BY <1>1, CkPutDoes DEF CtlAt
<1>3. k.mode = call[c].mode /\ k.mxSafeFrame = call[c].mxSafeFrame
  BY <1>1 DEF Call
<1> HIDE DEF k
<1>4. pc'[c] = "ckmark" /\ call'[c] = k /\ mine'[c] = mine[c] /\ w'[c] = w[c]
      /\ H' = H /\ shm'.nBackfill = shm.nBackfill
  BY <1>2, OthersKept DEF Calls, Shm, H
<1>5. \A s \in Slot : Due(c, s) => Due(c, s)' \/ s \in {READ(call[c].i)}
  BY <1>2, <1>3, <1>4 DEF Due, InWrite, RecoverPc, RestartPc, CkWritePc
<1>6. ClosingAt(c)'
  BY <1>1, <1>2, <1>3, <1>4, ClosingKept DEF CkRunPc
<1>7. {READ(call[c].i)} \in SUBSET Slot
  BY <1>2, WalAssumption DEF Slot, Readers
<1>8. QED BY <1>2, <1>5, <1>6, <1>7, UnlocksAlone DEF Calls

LEMMA CkLock0Alone == ASSUME Ctl, Alone, NEW c \in Conn, CkLock0(c) PROVE Alone'
<1>1. /\ WalTypeOK /\ Steady /\ call[c] \in Call /\ w[c] \in WalObj /\ ModeAt(c) /\ TransAt(c)
      /\ CtlAt(c) /\ ClosingAt(c) /\ OnlyLocksAt(c)
  BY AloneIs DEF Ctl
<1>2. pc[c] = "cklock0" /\ Quiet /\ H' = H /\ shm'.nBackfill = shm.nBackfill
  BY <1>1, CkLock0Does DEF Quiet, H
<1>3. CASE /\ shm.nBackfill < call[c].mxSafeFrame /\ L!LockExclusive(c, {READ(0)})
           /\ Calls(c, "cksync", [call[c] EXCEPT !.nBackfill = shm.nBackfill])
  <2> DEFINE k == [call[c] EXCEPT !.nBackfill = shm.nBackfill]
  <2>1. k.mode = call[c].mode /\ k.mxSafeFrame = call[c].mxSafeFrame /\ k.i = call[c].i /\ Calls(c, "cksync", k)
    BY <1>1, <1>3 DEF Call
  <2> HIDE DEF k
  <2>2. pc'[c] = "cksync" /\ call'[c] = k /\ mine'[c] = mine[c] /\ w'[c] = w[c]
    BY <2>1, OthersKept DEF Calls
  <2>3. \A s : Due(c, s) \/ s \in {READ(0)} => Due(c, s)'
    BY <1>2, <2>1, <2>2 DEF Due, InWrite, RecoverPc, RestartPc, CkWritePc
  <2>4. ClosingAt(c)'
    BY <1>1, <1>2, <2>1, <2>2, ClosingKept DEF CkRunPc, CkWritePc
  <2>5. QED BY <1>2, <1>3, <2>1, <2>3, <2>4, LocksAlone, Slots DEF Calls
<1>4. CASE UNCHANGED lockVars /\ Moves(c, "ckend")
  <2>1. pc'[c] = "ckend" /\ call'[c] = call[c] /\ w'[c] = w[c]
    BY <1>4, OthersKept DEF Moves
  <2>2. shm.nBackfill >= call[c].mxSafeFrame \/ ~L!CanExclude(c, {READ(0)})
    BY <1>1, <2>1 DEF CkLock0, Goto, WalTypeOK
  <2>3. call[c].mode = "close" => L!CanExclude(c, {READ(0)})
    <3>1. w[c].readLock = -1 /\ mine[c] = None
      BY <1>1, <1>2 DEF TransAt, WritePc, RestartPc, FramePc, ModeAt, CkPc, CkRunPc, InWrite, CkMode
    <3>2. ~Due(c, READ(0))
      BY <1>2, <3>1, Slots DEF Due, InWrite, RecoverPc, RestartPc, CkWritePc
    <3>3. QED BY <3>1, <3>2, NoneInTheWay, Slots
  <2>4. ClosingAt(c)'
    BY <1>1, <1>2, <2>1, <2>2, <2>3 DEF ClosingAt, CkRunPc, CkWritePc, mxH, H
  <2>5. QED BY <1>2, <1>4, <2>4, CkGoesAlone DEF Moves, Calls, CkPc, CkRunPc, CkWritePc
<1>5. QED BY <1>1, <1>3, <1>4, CkLock0Does

LEMMA CkSyncAlone == ASSUME Ctl, Alone, NEW c \in Conn, CkSync(c) PROVE Alone'
<1>1. /\ WalTypeOK /\ Steady /\ call[c] \in Call /\ w[c] \in WalObj /\ ModeAt(c) /\ TransAt(c)
      /\ CtlAt(c) /\ ClosingAt(c) /\ OnlyLocksAt(c)
  BY AloneIs DEF Ctl
<1>2. /\ pc[c] = "cksync" /\ UNCHANGED <<lockVars, shm>>
      /\ \E to \in {"ckpage"} : Moves(c, to)
  BY <1>1, CkSyncDoes
<1>3. PICK to \in {"ckpage"} : Moves(c, to)
  BY <1>2
<1>4. pc'[c] = to /\ call'[c] = call[c] /\ w'[c] = w[c] /\ H' = H /\ shm'.nBackfill = shm.nBackfill
  BY <1>2, <1>3, OthersKept DEF Moves, H
<1>5. ClosingAt(c)'
  BY <1>1, <1>2, <1>4, ClosingKept DEF CkRunPc, CkWritePc
<1>6. QED BY <1>2, <1>3, <1>5, CkGoesAlone DEF Moves, Calls, CkPc, CkRunPc, CkWritePc

LEMMA CkTruncAlone == ASSUME Ctl, Alone, NEW c \in Conn, CkTrunc(c) PROVE Alone'
<1>1. /\ WalTypeOK /\ Steady /\ call[c] \in Call /\ w[c] \in WalObj /\ ModeAt(c) /\ TransAt(c)
      /\ CtlAt(c) /\ ClosingAt(c) /\ OnlyLocksAt(c)
  BY AloneIs DEF Ctl
<1>2. /\ pc[c] = "cktrunc" /\ UNCHANGED <<lockVars, shm>>
      /\ \E to \in {"ckdbsync", "ckdone"} : Moves(c, to)
  BY <1>1, CkTruncDoes
<1>3. PICK to \in {"ckdbsync", "ckdone"} : Moves(c, to)
  BY <1>2
<1>4. pc'[c] = to /\ call'[c] = call[c] /\ w'[c] = w[c] /\ H' = H /\ shm'.nBackfill = shm.nBackfill
  BY <1>2, <1>3, OthersKept DEF Moves, H
<1>5. ClosingAt(c)'
  BY <1>1, <1>2, <1>4, ClosingKept DEF CkRunPc, CkWritePc
<1>6. QED BY <1>2, <1>3, <1>5, CkGoesAlone DEF Moves, Calls, CkPc, CkRunPc, CkWritePc

LEMMA CkDbSyncAlone == ASSUME Ctl, Alone, NEW c \in Conn, CkDbSync(c) PROVE Alone'
<1>1. /\ WalTypeOK /\ Steady /\ call[c] \in Call /\ w[c] \in WalObj /\ ModeAt(c) /\ TransAt(c)
      /\ CtlAt(c) /\ ClosingAt(c) /\ OnlyLocksAt(c)
  BY AloneIs DEF Ctl
<1>2. /\ pc[c] = "ckdbsync" /\ UNCHANGED <<lockVars, shm>>
      /\ \E to \in {"ckdone"} : Moves(c, to)
  BY <1>1, CkDbSyncDoes
<1>3. PICK to \in {"ckdone"} : Moves(c, to)
  BY <1>2
<1>4. pc'[c] = to /\ call'[c] = call[c] /\ w'[c] = w[c] /\ H' = H /\ shm'.nBackfill = shm.nBackfill
  BY <1>2, <1>3, OthersKept DEF Moves, H
<1>5. ClosingAt(c)'
  BY <1>1, <1>2, <1>4, ClosingKept DEF CkRunPc, CkWritePc
<1>6. QED BY <1>2, <1>3, <1>5, CkGoesAlone DEF Moves, Calls, CkPc, CkRunPc, CkWritePc

LEMMA CkPageAlone == ASSUME Ctl, Alone, NEW c \in Conn, CkPage(c) PROVE Alone'
<1>1. /\ WalTypeOK /\ Steady /\ call[c] \in Call /\ w[c] \in WalObj /\ ModeAt(c) /\ TransAt(c)
      /\ CtlAt(c) /\ ClosingAt(c) /\ OnlyLocksAt(c)
  BY AloneIs DEF Ctl
<1>2. pc[c] = "ckpage" /\ UNCHANGED <<lockVars, shm>>
  BY <1>1, CkPageDoes DEF CtlAt
<1>3. \E to, k : to \in {"ckpage", "cktrunc"} /\ Calls(c, to, k) /\ k.mode = call[c].mode /\ k.mxSafeFrame = call[c].mxSafeFrame
  <2>1. CASE Moves(c, "cktrunc")
    BY <2>1 DEF Moves, Calls
  <2>2. ASSUME NEW t, Calls(c, "ckpage", [call[c] EXCEPT !.todo = call[c].todo \ {t}])
        PROVE  \E to, k : to \in {"ckpage", "cktrunc"} /\ Calls(c, to, k) /\ k.mode = call[c].mode /\ k.mxSafeFrame = call[c].mxSafeFrame
    <3> DEFINE k == [call[c] EXCEPT !.todo = call[c].todo \ {t}]
    <3>1. k.mode = call[c].mode /\ k.mxSafeFrame = call[c].mxSafeFrame /\ Calls(c, "ckpage", k)
      BY <1>1, <2>2 DEF Call
    <3> HIDE DEF k
    <3>2. QED BY <3>1
  <2>3. QED BY <1>1, <2>1, <2>2, CkPageDoes DEF CtlAt
<1>4. PICK to, k : to \in {"ckpage", "cktrunc"} /\ Calls(c, to, k) /\ k.mode = call[c].mode /\ k.mxSafeFrame = call[c].mxSafeFrame
  BY <1>3
<1>5. pc'[c] = to /\ call'[c] = k /\ w'[c] = w[c] /\ H' = H /\ shm'.nBackfill = shm.nBackfill
  BY <1>2, <1>4, OthersKept DEF Calls, H
<1>6. ClosingAt(c)'
  BY <1>1, <1>2, <1>4, <1>5, ClosingKept DEF CkRunPc, CkWritePc
<1>7. QED BY <1>2, <1>4, <1>6, CkGoesAlone DEF CkPc, CkRunPc, CkWritePc

LEMMA CkDoneAlone == ASSUME Ctl, Alone, NEW c \in Conn, CkDone(c) PROVE Alone'
<1>1. /\ WalTypeOK /\ Steady /\ call[c] \in Call /\ w[c] \in WalObj /\ ModeAt(c) /\ TransAt(c)
      /\ CtlAt(c) /\ ClosingAt(c) /\ OnlyLocksAt(c)
  BY AloneIs DEF Ctl
<1>2. /\ pc[c] = "ckdone" /\ Moves(c, "ckend") /\ L!Unlock(c, {READ(0)})
      /\ Shm(H, shm.hdr[1], call[c].mxSafeFrame, shm.aReadMark, shm.aPgno)
  BY <1>1, CkDoneDoes
<1>3. /\ pc'[c] = "ckend" /\ call'[c] = call[c] /\ mine'[c] = mine[c] /\ w'[c] = w[c]
      /\ H' = H /\ shm'.nBackfill = call[c].mxSafeFrame
  BY <1>2, OthersKept DEF Moves, Shm, H
<1>4. \A s \in Slot : Due(c, s) => Due(c, s)' \/ s \in {READ(0)}
  BY <1>2, <1>3 DEF Due, InWrite, RecoverPc, RestartPc, CkWritePc
<1>5. ClosingAt(c)'
  <2>1. H \in Hdr
    BY <1>1, Types
  <2>2. QED BY <1>1, <1>2, <1>3, <2>1 DEF ClosingAt, CkRunPc, CkWritePc, Hdr, mxH, H
<1>6. {READ(0)} \in SUBSET Slot
  BY Slots
<1>7. QED BY <1>2, <1>4, <1>5, <1>6, UnlocksAlone DEF Moves

LEMMA CkEndAlone == ASSUME Ctl, Alone, NEW c \in Conn, CkEnd(c) PROVE Alone'
<1>1. /\ WalTypeOK /\ Steady /\ call[c] \in Call /\ w[c] \in WalObj /\ ModeAt(c) /\ TransAt(c)
      /\ CtlAt(c) /\ ClosingAt(c) /\ OnlyLocksAt(c)
  BY AloneIs DEF Ctl
<1>2. /\ pc[c] = "ckend" /\ call[c].mode # "close" /\ L!Unlock(c, {WRITE, CKPT})
  BY <1>1, CkEndDoes
<1>3. \E o : Does(c, "idle", NoCall, o, cached[c], mine[c]) /\ o.readLock = w[c].readLock
  <2> DEFINE o == [w[c] EXCEPT !.hdr = ZeroHdr]
  <2>1. o.readLock = w[c].readLock
    BY <1>1 DEF WalObj
  <2>2. Does(c, "idle", NoCall, o, cached[c], mine[c]) \/ Does(c, "idle", NoCall, w[c], cached[c], mine[c])
    BY <1>1, CkEndDoes DEF Returns
  <2> HIDE DEF o
  <2>3. QED BY <2>1, <2>2
<1>4. PICK o : Does(c, "idle", NoCall, o, cached[c], mine[c]) /\ o.readLock = w[c].readLock
  BY <1>3
<1>5. pc'[c] = "idle" /\ call'[c] = NoCall /\ mine'[c] = mine[c]
  BY <1>4, OthersKept
<1>6. \A s \in Slot : Due(c, s) => Due(c, s)' \/ s \in {WRITE, CKPT}
  BY <1>2, <1>5 DEF Due, InWrite, RecoverPc, RestartPc, CkWritePc
<1>7. ClosingAt(c)' /\ {WRITE, CKPT} \in SUBSET Slot
  BY <1>5, NotClosing, Slots DEF NoCall
<1>8. QED BY <1>2, <1>4, <1>6, <1>7, UnlocksAlone

LEMMA CkFailsAlone == ASSUME Ctl, Alone, NEW c \in Conn, CkFails(c) PROVE Alone'
<1>1. /\ WalTypeOK /\ Steady /\ call[c] \in Call /\ w[c] \in WalObj /\ ModeAt(c) /\ TransAt(c)
      /\ CtlAt(c) /\ ClosingAt(c) /\ OnlyLocksAt(c)
  BY AloneIs DEF Ctl
<1>2. pc[c] \in CkWritePc /\ L!Unlock(c, {READ(0)}) /\ call[c].mode \in CkMode
  BY <1>1, CkFailsDoes DEF CkWritePc, ModeAt, CkPc, CkRunPc
<1>3. CASE call[c].mode = "close" /\ Calls(c, "closing", [call[c] EXCEPT !.mode = "passive"])
  <2> DEFINE k == [call[c] EXCEPT !.mode = "passive"]
  <2>1. k.mode = "passive" /\ Calls(c, "closing", k)
    BY <1>1, <1>3 DEF Call
  <2> HIDE DEF k
  <2>2. pc'[c] = "closing" /\ call'[c] = k /\ mine'[c] = mine[c]
    BY <2>1, OthersKept DEF Calls
  <2>3. \A s \in Slot : Due(c, s) => Due(c, s)' \/ s \in {READ(0)}
    BY <1>2, <1>3, <2>1, <2>2 DEF Due, InWrite, RecoverPc, RestartPc, CkWritePc, CkMode
  <2>4. ClosingAt(c)' /\ {READ(0)} \in SUBSET Slot
    BY <2>1, <2>2, NotClosing, Slots
  <2>5. QED BY <1>2, <2>1, <2>3, <2>4, UnlocksAlone DEF Calls, CkWritePc
<1>4. CASE call[c].mode # "close" /\ Moves(c, "ckend")
  <2>2. pc'[c] = "ckend" /\ call'[c] = call[c] /\ mine'[c] = mine[c]
    BY <1>4, OthersKept DEF Moves
  <2>3. \A s \in Slot : Due(c, s) => Due(c, s)' \/ s \in {READ(0)}
    BY <1>2, <2>2 DEF Due, InWrite, RecoverPc, RestartPc, CkWritePc, CkMode
  <2>4. ClosingAt(c)' /\ {READ(0)} \in SUBSET Slot
    BY <1>4, <2>2, NotClosing, Slots
  <2>5. QED BY <1>2, <1>4, <2>3, <2>4, UnlocksAlone DEF Moves, CkWritePc
<1>5. QED BY <1>1, <1>3, <1>4, CkFailsDoes

LEMMA GoesAlone == ASSUME Ctl, Alone, NEW c \in Conn, Goes(c), pc[c] # "closed" PROVE Alone'
<1>1. /\ WalTypeOK /\ Steady /\ call[c] \in Call /\ w[c] \in WalObj /\ ModeAt(c) /\ TransAt(c)
      /\ CtlAt(c) /\ ClosingAt(c) /\ OnlyLocksAt(c)
  BY AloneIs DEF Ctl
<1>2. Others(c) /\ call'[c] = NoCall
  BY OthersKept DEF Goes
<1>3. OnlyLocksAt(c)' /\ ClosingAt(c)'
  BY <1>1, <1>2, NoLocks, NotClosing DEF Goes, NoCall
<1>4. QED BY <1>2, <1>3, AloneStep DEF LockStep, Goes

LEMMA CloseAlone == ASSUME Ctl, Alone, NEW c \in Conn, Close(c) PROVE Alone'
<1>1. /\ WalTypeOK /\ Steady /\ call[c] \in Call /\ w[c] \in WalObj /\ ModeAt(c) /\ TransAt(c)
      /\ CtlAt(c) /\ ClosingAt(c) /\ OnlyLocksAt(c)
  BY AloneIs DEF Ctl
<1>2. pc[c] = "idle" /\ call[c].mode = "passive"
  BY <1>1, CloseDoes DEF ModeAt, NoCall
<1>3. CASE Goes(c)
  BY <1>2, <1>3, GoesAlone
<1>4. CASE L!LockExclusive(c, {CKPT}) /\ Calls(c, "hdr0", [NoCall EXCEPT !.mode = "close"])
  <2> DEFINE k == [NoCall EXCEPT !.mode = "close"]
  <2>1. k.mode = "close" /\ Calls(c, "hdr0", k)
    BY <1>4 DEF NoCall
  <2> HIDE DEF k
  <2>2. pc'[c] = "hdr0" /\ call'[c] = k /\ mine'[c] = mine[c]
    BY <2>1, OthersKept DEF Calls
  <2>3. \A s : Due(c, s) \/ s \in {CKPT} => Due(c, s)'
    BY <1>2, <2>1, <2>2 DEF Due, InWrite, RecoverPc, RestartPc, CkWritePc, CkMode
  <2>4. ClosingAt(c)' /\ {CKPT} \in SUBSET Slot
    BY <2>2, Slots DEF ClosingAt, CkRunPc, CkWritePc
  <2>5. QED BY <1>2, <1>4, <2>1, <2>3, <2>4, LocksAlone DEF Calls
<1>5. QED BY <1>1, <1>3, <1>4, CloseDoes

LEMMA FinishCloseAlone == ASSUME Ctl, Alone, NEW c \in Conn, FinishClose(c) PROVE Alone'
<1>1. /\ WalTypeOK /\ Steady /\ call[c] \in Call /\ w[c] \in WalObj /\ ModeAt(c) /\ TransAt(c)
      /\ CtlAt(c) /\ ClosingAt(c) /\ OnlyLocksAt(c)
  BY AloneIs DEF Ctl
<1>2. QED BY <1>1, FinishCloseDoes, GoesAlone

LEMMA PowerLossAlone == ASSUME Ctl, PowerLoss PROVE Alone'
<1>1. WalTypeOK /\ Steady /\ LogBound
  BY DEF Ctl
<1>2. L!Drop(Conn) /\ call' = [c \in Conn |-> NoCall]
  BY <1>1, PowerLossDoes
<1>3. sharedMask' = [c \in Conn |-> {}] /\ exclMask' = [c \in Conn |-> {}]
  BY <1>2 DEF L!Drop
<1>4. ASSUME NEW c \in Conn PROVE OnlyLocksAt(c)' /\ ClosingAt(c)'
  BY <1>2, <1>3 DEF OnlyLocksAt, ClosingAt, NoCall
<1>5. QED BY <1>4 DEF Alone

LEMMA AloneInit == ASSUME Init PROVE Alone
<1>1. sharedMask = [c \in Conn |-> {}] /\ exclMask = [c \in Conn |-> {}] /\ call = [c \in Conn |-> NoCall]
  BY DEF Init, L!Init
<1>2. ASSUME NEW c \in Conn PROVE OnlyLocksAt(c) /\ ClosingAt(c)
  BY <1>1 DEF OnlyLocksAt, ClosingAt, NoCall
<1>3. QED BY <1>2 DEF Alone

LEMMA AloneStutter == ASSUME Alone, UNCHANGED vars PROVE Alone'
BY DEF vars, lockVars, files, ghosts, Alone, OnlyLocksAt, ClosingAt, Due, InWrite, H, mxH

LEMMA AloneNext == ASSUME Ctl, Heads, Alone, [Next]_vars PROVE Alone'
<1>1. CASE UNCHANGED vars
  BY <1>1, AloneStutter
<1>2. CASE PowerLoss
  BY <1>2, PowerLossAlone
<1>3. ASSUME NEW c \in Conn,
             \/ Open(c) \/ BeginRead(c) \/ ReadHdr0(c) \/ ReadHdr1(c) \/ LockHdr(c)
             \/ ReadHdrAgain(c) \/ Recover(c) \/ RecoverHdr0(c) \/ RecoverInfo(c)
             \/ CheckBackfill(c) \/ Lock0(c) \/ ChooseMark(c) \/ GrabMark(c) \/ PutMark(c)
             \/ LockMark(c) \/ EndRead(c) \/ BeginWrite(c) \/ Savepoint(c) \/ SavepointUndo(c)
      PROVE  Alone'
  BY <1>3, OpenAlone, BeginReadAlone, ReadHdr0Alone, ReadHdr1Alone, LockHdrAlone, ReadHdrAgainAlone, RecoverAlone,
     RecoverHdr0Alone, RecoverInfoAlone, CheckBackfillAlone, Lock0Alone, ChooseMarkAlone, GrabMarkAlone,
     PutMarkAlone, LockMarkAlone, EndReadAlone, BeginWriteAlone, SavepointAlone, SavepointUndoAlone
<1>4. ASSUME NEW c \in Conn, Spill(c) \/ Commit(c) PROVE Alone'
  BY <1>4, SpillDoes, CommitDoes, StartsAlone DEF Ctl
<1>5. ASSUME NEW c \in Conn,
             \/ RestartLog(c) \/ RestartHdr1(c) \/ RestartHdr0(c) \/ RestartInfo(c)
             \/ WriteWalHdr(c) \/ SyncWalHdr(c) \/ WriteFrame(c) \/ SyncFrames(c)
             \/ AppendIndex(c) \/ CommitHdr0(c) \/ FramesFail(c) \/ Rollback(c)
      PROVE  Alone'
  BY <1>5, RestartLogAlone, RestartHdr1Alone, RestartHdr0Alone, RestartInfoAlone, WriteWalHdrAlone,
     SyncWalHdrAlone, WriteFrameAlone, SyncFramesAlone, AppendIndexAlone, CommitHdr0Alone, FramesFailAlone, RollbackAlone
<1>6. ASSUME NEW c \in Conn,
             \/ Checkpoint(c) \/ CkStart(c) \/ CkMark(c) \/ CkPut(c) \/ CkLock0(c) \/ CkSync(c)
             \/ CkPage(c) \/ CkTrunc(c) \/ CkDbSync(c) \/ CkDone(c) \/ CkEnd(c) \/ CkFails(c)
             \/ Close(c) \/ FinishClose(c)
      PROVE  Alone'
  BY <1>6, CheckpointAlone, CkStartAlone, CkMarkAlone, CkPutAlone, CkLock0Alone, CkSyncAlone, CkPageAlone,
     CkTruncAlone, CkDbSyncAlone, CkDoneAlone, CkEndAlone, CkFailsAlone, CloseAlone, FinishCloseAlone
<1>7. ASSUME NEW c \in Conn, Kill(c) PROVE FALSE
  BY <1>7, NoKill DEF Ctl
<1>8. QED BY <1>1, <1>2, <1>3, <1>4, <1>5, <1>6, <1>7 DEF Next

\* sqlite3WalClose() of the last connection: from its checkpoint to the deletion of the
\* log it works with the header of the last commit and copies all of the log, nobody else
\* holds a lock of the wal-index but for a reason, and the log is deleted only when every
\* frame of it is in the database.
THEOREM CloserIsAlone == Spec /\ Steady => [](WalInv /\ Alone)
<1>1. Init /\ Steady => WalInv /\ Alone
  BY CtlInit, HeadsInit, DataInit, AloneInit DEF WalInv
<1>2. WalInv /\ Alone /\ [Next]_vars => (WalInv /\ Alone)'
  BY CtlNext, HeadsNext, DataNext, AloneNext DEF WalInv
<1>3. QED BY <1>1, <1>2, PTL DEF Spec

-----------------------------------------------------------------------------
(* The chain of the log *)

\* The running checksum after k frames.
Chain(log, k) == IF k = 0 THEN <<0, log.salt>> ELSE <<log.frames[k].data, log.frames[k].pg>>

\* walDecodeFrame(): frame i continues the chain.
Links(log, i) == /\ log.frames[i].salt = log.salt /\ log.frames[i].pg # 0
                 /\ log.frames[i].prev = Chain(log, i - 1)

\* The page of a database that the first k frames of the log make of the file.
Pgs        == [i \in 1..Len(wal.frames) |-> wal.frames[i].pg]
LF(k, p)   == LastFrame(Pgs, k, p)
LAt(k, p)  == IF LF(k, p) = 0 THEN DbAt(p) ELSE wal.frames[LF(k, p)].data

\* The header h, or all of it but the checksum, is one of the log file.
Counts(h) == h.mxFrame > 0 =>
               /\ h.salt = wal.salt /\ h.salt > 0
               /\ \A i \in 1..h.mxFrame : Links(wal, i) /\ shm.aPgno[i] = wal.frames[i].pg
Covers(h) == Counts(h) /\ (h.mxFrame > 0 => h.cksum = Chain(wal, h.mxFrame))

\* A commit that ends with frame mx.
Commits(h) == h.mxFrame > 0 => wal.frames[h.mxFrame].nTruncate = h.nPage

\* A salt is drawn once, a checksum is drawn once.
DrawnInv ==
  \A l \in {wal, walDisk} :
    /\ l.nCkpt > 0 => l.salt > 0
    /\ \A i \in 1..Len(l.frames) : l.frames[i].salt < seed /\ l.frames[i].prev[1] < seed

\* The wal-index is in use.
Live == H.isInit /\ \E c \in Conn : pc[c] # "closed"

\* A connection that counts checkpoints has seen a salt.
CountAt(c) ==
  w[c].nCkpt > 0 =>
    \/ H.isInit /\ H.salt > 0 /\ (InWrite(c) => w[c].hdr.salt > 0)
    \/ pc[c] = "recover0" /\ w[c].hdr.salt > 0

-----------------------------------------------------------------------------
(* The log of a writer *)

InFrames == {"walhdrsync", "frame", "framesync", "index"}

\* The frames that the call has written, by their number in the log.
Written(c) == IF pc[c] \in InFrames THEN call[c].iFrame
              ELSE IF pc[c] = "commit0" THEN w[c].hdr.mxFrame ELSE 0

\* The frames of the call.
NewFrames(c) ==
  LET mx == w[c].hdr.mxFrame
      x  == call[c]
  IN
  /\ wal.salt = w[c].hdr.salt /\ wal.salt > 0
  /\ w[c].hdr.cksum = Chain(wal, x.iFrame)
  /\ \A j \in 1..(x.iFrame - mx) :
       /\ Links(wal, mx + j)
       /\ wal.frames[mx + j].pg = x.list[j]
       /\ wal.frames[mx + j].nTruncate = IF j = Len(x.list) THEN x.nTruncate ELSE 0

\* No frame behind those that the call has written continues the chain from them.
Breaks(c) ==
  /\ call[c].mode = "write" /\ pc[c] # "failed" =>
       \A i \in 1..Len(wal.frames) : i > Written(c) => wal.frames[i].prev[1] # call[c].data

\* Where the next frame begins a log.
Begins(c) ==
  /\ pc[c] \in {"restart1", "restart0"} =>
       \A i \in 1..Len(wal.frames) : wal.frames[i].salt # w[c].hdr.salt
  /\ w[c].hdr.mxFrame = 0 /\ pc[c] \notin {"restart1", "restart0"} =>
       w[c].hdr.salt \in {wal.salt, H.salt}

\* Nothing is left of an earlier commit once a frame is written.
GivenUp(c) ==
  pc[c] \in {"framesync", "index", "commit0"} \/ (pc[c] = "frame" /\ call[c].iFrame > w[c].hdr.mxFrame)
    => limbo = None

WriterAt(c) ==
  InWrite(c) /\ pc[c] # "failed" =>
    /\ Counts(w[c].hdr)
    /\ pc[c] \notin InFrames => Covers(w[c].hdr)
    /\ pc[c] \in InFrames => NewFrames(c)
    /\ \A i \in (mxH + 1)..w[c].hdr.mxFrame :
         wal.frames[i].nTruncate = IF pc[c] = "commit0" /\ i = w[c].hdr.mxFrame
                                   THEN w[c].hdr.nPage ELSE 0
    /\ w[c].svpt # None /\ UndoTo(c) > 0 => w[c].svpt.cksum = Chain(wal, UndoTo(c))
    /\ Breaks(c) /\ Begins(c) /\ GivenUp(c)

-----------------------------------------------------------------------------
(* What a recovery finds *)

Salted(s) == [wal EXCEPT !.salt = s]

\* The commit in limbo ends with frame k.
Cut(k) == /\ limbo # None
          /\ wal.frames[k].nTruncate = Len(limbo)
          /\ \A p \in 1..Len(limbo) : limbo[p] = LAt(k, p) /\ (p > Size(H) => LF(k, p) > mxH)

Committing == \E c \in Conn : CommitFrameWritten(c)

EndOfLog ==
  IF mxH > 0
  THEN LastCommit(wal) = mxH \/ Committing \/ (LastCommit(wal) > mxH /\ Cut(LastCommit(wal)))
  ELSE \A s \in {wal.salt, H.salt} :
         \/ Committing /\ s = wal.salt
         \/ Recovered(db, Salted(s)) \in {Last(hist), limbo}

\* A file that has all of the log.
Whole == mxH = 0 \/ shm.nBackfill >= mxH => Len(db) = Size(H)

HistOK == /\ hist \in Seq(Seq(Int)) /\ hist # <<>>
          /\ floor \in Nat \ {0} /\ limbo \in Image /\ lossy \in BOOLEAN

LogInv ==
  /\ Live => /\ Last(hist) = Current /\ ~lossy
             /\ Covers(H) /\ Commits(H) /\ EndOfLog /\ Whole
  /\ ~Live /\ ~lossy => Recovered(db, wal) \in {Last(hist), limbo}

RecoverAt(c) ==
  pc[c] = "recover0" => /\ Covers(w[c].hdr) /\ Commits(w[c].hdr)
                        /\ LastCommit(wal) = w[c].hdr.mxFrame
                        /\ w[c].hdr.mxFrame = 0 => w[c].hdr.nPage = 0
                        /\ w[c].hdr.salt \in {0, wal.salt}

\* The size of the file while a checkpoint ends.
CkSizeAt(c) ==
  pc[c] \in {"ckdbsync", "ckdone"} /\ call[c].mxSafeFrame >= mxH => Len(db) = Size(H)

CrashAt(c) == CountAt(c) /\ WriterAt(c) /\ RecoverAt(c) /\ CkSizeAt(c)

Crash == /\ DrawnInv /\ HistOK /\ LogInv
         /\ \A c \in Conn : CrashAt(c)

-----------------------------------------------------------------------------
(* The frames that a recovery reads *)

LEMMA LogIs ==
  ASSUME NEW log \in Log
  PROVE  /\ log.frames \in Seq(Frame) /\ Len(log.frames) \in Nat /\ log.salt \in Nat /\ log.nCkpt \in Nat
         /\ \A i \in 1..Len(log.frames) :
              /\ log.frames[i] \in Frame /\ log.frames[i].pg \in Nat /\ log.frames[i].data \in Nat
              /\ log.frames[i].nTruncate \in Nat /\ log.frames[i].salt \in Nat /\ log.frames[i].prev[1] \in Nat
<1>1. log.frames \in Seq(Frame) /\ Len(log.frames) \in Nat /\ log.salt \in Nat /\ log.nCkpt \in Nat
  BY DEF Log
<1>2. ASSUME NEW i \in 1..Len(log.frames)
      PROVE  /\ log.frames[i] \in Frame /\ log.frames[i].pg \in Nat /\ log.frames[i].data \in Nat
             /\ log.frames[i].nTruncate \in Nat /\ log.frames[i].salt \in Nat /\ log.frames[i].prev[1] \in Nat
  <2>1. log.frames[i] \in Frame
    BY <1>1
  <2>2. QED BY <2>1 DEF Frame, Pair
<1>3. QED BY <1>1, <1>2

LEMMA ValidIs ==
  ASSUME NEW log \in Log
  PROVE  /\ ValidFrames(log) \in 0..Len(log.frames)
         /\ \A i \in 1..ValidFrames(log) : Links(log, i)
         /\ \A k \in 0..Len(log.frames) : (\A i \in 1..k : Links(log, i)) => k <= ValidFrames(log)
<1>1. Len(log.frames) \in Nat
  BY LogIs
<1> DEFINE Ok(i) == /\ log.frames[i].salt = log.salt
                    /\ log.frames[i].pg # 0
                    /\ log.frames[i].prev = IF i = 1 THEN <<0, log.salt>>
                                            ELSE <<log.frames[i - 1].data, log.frames[i - 1].pg>>
           K == {k \in 0..Len(log.frames) : \A i \in 1..k : Ok(i)}
<1>2. 0 \in K /\ K \subseteq 0..Len(log.frames)
  BY <1>1
<1>3. Max(K) \in K /\ \A k \in K : k <= Max(K)
  <2> HIDE DEF K
  <2>1. QED BY <1>1, <1>2, MaxIn
<1>4. ValidFrames(log) = Max(K)
  BY DEF ValidFrames
<1>5. ASSUME NEW i \in 1..Len(log.frames) PROVE Ok(i) <=> Links(log, i)
  BY <1>1 DEF Links, Chain
<1> HIDE DEF Ok
<1>6. Max(K) \in 0..Len(log.frames) /\ \A i \in 1..Max(K) : Ok(i)
  BY <1>3
<1>7. ASSUME NEW k \in 0..Len(log.frames), \A i \in 1..k : Ok(i) PROVE k <= Max(K)
  <2>1. k \in K
    BY <1>7
  <2>2. QED BY <1>3, <2>1
<1> HIDE DEF K
<1>8. \A i \in 1..Max(K) : Links(log, i)
  <2>1. ASSUME NEW i \in 1..Max(K) PROVE Links(log, i)
    <3>1. i \in 1..Len(log.frames) /\ Ok(i)
      BY <1>1, <1>6
    <3>2. QED BY <1>5, <3>1
  <2>2. QED BY <2>1
<1>9. ASSUME NEW k \in 0..Len(log.frames), \A i \in 1..k : Links(log, i) PROVE k <= Max(K)
  <2>1. ASSUME NEW i \in 1..k PROVE Ok(i)
    <3>1. i \in 1..Len(log.frames) /\ Links(log, i)
      BY <1>1, <1>9
    <3>2. QED BY <1>5, <3>1
  <2>2. QED BY <1>7, <2>1
<1>10. QED BY <1>4, <1>6, <1>8, <1>9

\* The chain ends where the next frame does not continue it.
LEMMA ChainEnds ==
  ASSUME NEW log \in Log, NEW k \in 0..Len(log.frames), \A i \in 1..k : Links(log, i),
         k < Len(log.frames) => ~Links(log, k + 1)
  PROVE  ValidFrames(log) = k
<1>1. Len(log.frames) \in Nat
  BY LogIs
<1>2. QED BY <1>1, ValidIs

LEMMA CommitIs ==
  ASSUME NEW log \in Log
  PROVE  /\ LastCommit(log) \in 0..ValidFrames(log)
         /\ LastCommit(log) # 0 => log.salt # 0 /\ log.frames[LastCommit(log)].nTruncate # 0
         /\ log.salt # 0 => \A i \in 1..ValidFrames(log) : log.frames[i].nTruncate # 0 => i <= LastCommit(log)
<1> DEFINE n == ValidFrames(log)
           K == {0} \cup {i \in 1..n : log.frames[i].nTruncate # 0}
<1>1. n \in Nat
  BY ValidIs, LogIs
<1>2. K \subseteq 0..n /\ K # {}
  BY <1>1
<1>3. Max(K) \in K /\ \A i \in K : i <= Max(K)
  <2> HIDE DEF K, n
  <2>1. QED BY <1>1, <1>2, MaxIn
<1>4. LastCommit(log) = IF log.salt = 0 THEN 0 ELSE Max(K)
  BY DEF LastCommit
<1>5. QED BY <1>1, <1>2, <1>3, <1>4

\* The last commit is frame mx if all later frames of the chain are no commits.
LEMMA CommitAt ==
  ASSUME NEW log \in Log, log.salt # 0, NEW mx \in 0..ValidFrames(log),
         mx # 0 => log.frames[mx].nTruncate # 0,
         \A i \in 1..ValidFrames(log) : i > mx => log.frames[i].nTruncate = 0
  PROVE  LastCommit(log) = mx
<1>1. ValidFrames(log) \in Nat
  BY ValidIs, LogIs
<1>2. QED BY <1>1, CommitIs

LEMMA FileAsRead == ASSUME NEW file \in Seq(Int) PROVE file = [p \in 1..Len(file) |-> file[p]]
OBVIOUS

LEMMA RecoveredFile ==
  ASSUME NEW log \in Log, NEW file \in Seq(Int), LastCommit(log) = 0
  PROVE  Recovered(file, log) = file
<1> DEFINE aPgno == [i \in 1..0 |-> log.frames[i].pg]
           From(p) == LastFrame(aPgno, 0, p)
<1>1. \A p : From(p) = 0
  BY LastFrameIs
<1>2. Recovered(file, log) = [p \in 1..Len(file) |->
        IF From(p) # 0 THEN log.frames[From(p)].data ELSE IF p <= Len(file) THEN file[p] ELSE 0]
  BY DEF Recovered
<1> HIDE DEF From
<1>3. Recovered(file, log) = [p \in 1..Len(file) |-> file[p]]
  BY <1>1, <1>2
<1>4. QED BY <1>3, FileAsRead

LEMMA RecoveredLog ==
  ASSUME wal \in Log, LastCommit(wal) # 0
  PROVE  Recovered(db, wal) = [p \in 1..wal.frames[LastCommit(wal)].nTruncate |-> LAt(LastCommit(wal), p)]
<1> DEFINE mx == LastCommit(wal)
           aPgno == [i \in 1..mx |-> wal.frames[i].pg]
           From(p) == LastFrame(aPgno, mx, p)
<1>1. mx \in Nat /\ mx <= Len(wal.frames) /\ Len(wal.frames) \in Nat
  BY LastCommitIn, LogIs
<1>2. \A p : From(p) = LF(mx, p)
  <2>1. \A i \in 1..mx : aPgno[i] = Pgs[i]
    BY <1>1 DEF Pgs
  <2> HIDE DEF aPgno, mx
  <2>2. QED BY <1>1, <2>1, LastFrameAgrees DEF LF
<1>3. Recovered(db, wal) = [p \in 1..wal.frames[mx].nTruncate |->
        IF From(p) # 0 THEN wal.frames[From(p)].data ELSE IF p <= Len(db) THEN db[p] ELSE 0]
  BY DEF Recovered
<1> HIDE DEF From, mx
<1>4. QED BY <1>2, <1>3 DEF LAt, DbAt, mx

\* Frames of another log are not read.
LEMMA OtherLog ==
  ASSUME NEW log \in Log, NEW file \in Seq(Int), Len(log.frames) > 0 => log.frames[1].salt # log.salt
  PROVE  Recovered(file, log) = file
<1>1. Len(log.frames) \in Nat
  BY LogIs
<1>2. ValidFrames(log) = 0
  BY <1>1, ChainEnds DEF Links
<1>3. LastCommit(log) = 0
  BY <1>2, CommitIs
<1>4. QED BY <1>3, RecoveredFile

LEMMA SaltedIs ==
  ASSUME wal \in Log, NEW s \in Nat
  PROVE  /\ Salted(s) \in Log /\ Salted(s).salt = s /\ Salted(s).frames = wal.frames
         /\ Salted(wal.salt) = wal
BY DEF Salted, Log

\* The header of the log counts for a recovery only by its salt.
LEMMA SameRecovered ==
  ASSUME NEW file, NEW log, NEW lig, lig.salt = log.salt, lig.frames = log.frames
  PROVE  LastCommit(lig) = LastCommit(log) /\ Recovered(file, lig) = Recovered(file, log)
<1>1. ValidFrames(lig) = ValidFrames(log)
  BY DEF ValidFrames
<1>2. LastCommit(lig) = LastCommit(log)
  BY <1>1 DEF LastCommit
<1>3. QED BY <1>2 DEF Recovered

\* The frames that a header counts, in the index and in the log.
LEMMA CountsIs ==
  ASSUME wal \in Log, NEW k \in Nat, k <= Len(wal.frames),
         \A i \in 1..k : shm.aPgno[i] = wal.frames[i].pg
  PROVE  \A p : LF(k, p) = F(k, p) /\ LAt(k, p) = At(k, p)
<1>1. Len(wal.frames) \in Nat
  BY LogIs
<1>2. \A i \in 1..k : Pgs[i] = shm.aPgno[i]
  BY <1>1 DEF Pgs
<1>3. \A p : LF(k, p) = F(k, p)
  BY <1>2, LastFrameAgrees DEF LF, F
<1>4. QED BY <1>3 DEF LAt, At

LEMMA LFIs ==
  ASSUME wal \in Log, NEW m \in Nat, m <= Len(wal.frames), NEW p
  PROVE  /\ LF(m, p) \in 0..m /\ (LF(m, p) # 0 => wal.frames[LF(m, p)].pg = p)
         /\ \A i \in 1..m : wal.frames[i].pg = p => i <= LF(m, p)
<1>1. Len(wal.frames) \in Nat
  BY LogIs
<1>2. \A i \in 1..m : Pgs[i] = wal.frames[i].pg
  BY <1>1 DEF Pgs
<1>3. LF(m, p) \in 0..m /\ (LF(m, p) # 0 => Pgs[LF(m, p)] = p) /\ \A i \in 1..m : Pgs[i] = p => i <= LF(m, p)
  BY LastFrameIs DEF LF
<1>4. QED BY <1>2, <1>3

LEMMA LFOfPrefix ==
  ASSUME NEW m \in Nat, NEW k \in 0..m, NEW p
  PROVE  LF(k, p) <= LF(m, p) /\ (LF(m, p) <= k => LF(k, p) = LF(m, p))
BY LastFrameOfPrefix DEF LF

-----------------------------------------------------------------------------
(* What a recovery would find *)

LEMMA LiveIs ==
  ASSUME Ctl, Heads, \E c \in Conn : pc[c] # "closed"
  PROVE  /\ WalTypeOK /\ wal \in Log /\ db \in Seq(Int) /\ Len(db) \in Nat /\ H \in Hdr
         /\ mxH \in Nat /\ H.nPage \in Nat /\ H.salt \in Nat /\ (mxH > 0 => H.nPage > 0)
         /\ mxH <= Len(wal.frames) /\ Len(wal.frames) \in Nat /\ Len(wal.frames) <= MaxFrame
         /\ Size(H) \in Nat /\ seed \in Nat /\ shm.nBackfill \in Nat /\ MaxFrame \in Nat
<1>1. PICK c \in Conn : pc[c] # "closed"
  OBVIOUS
<1>2. WalTypeOK /\ H \in Hdr /\ seed \in Nat /\ (mxH > 0 => H.nPage > 0)
  BY HeadIs, Types DEF Known
<1>3. mxH \in Nat /\ H.nPage \in Nat /\ H.salt \in Nat
  BY <1>2, HdrIs DEF mxH
<1>4. mxH <= Len(wal.frames) /\ Len(wal.frames) \in Nat
  BY <1>1, InMaxFrame
<1>5. Len(wal.frames) <= MaxFrame
  BY DEF Ctl, LogBound
<1>6. wal \in Log /\ db \in Seq(Int) /\ Len(db) \in Nat /\ shm.nBackfill \in Nat
  BY <1>2 DEF WalTypeOK, Index
<1>7. QED BY <1>2, <1>3, <1>4, <1>5, <1>6, SizeIs, WalAssumption

\* A recovery makes of the log what a header that covers it makes of the index.
LEMMA ViewRecovered ==
  ASSUME wal \in Log, db \in Seq(Int), NEW h \in Hdr, Covers(h), Commits(h), LastCommit(wal) = h.mxFrame,
         h.mxFrame > 0 => h.nPage > 0, h.mxFrame = 0 => Size(h) = Len(db)
  PROVE  Recovered(db, wal) = LogView(h)
<1>1. h.mxFrame \in Nat /\ h.nPage \in Nat /\ h.mxFrame <= Len(wal.frames) /\ Len(wal.frames) \in Nat
  BY HdrIs, LastCommitIn, LogIs
<1>2. CASE h.mxFrame = 0
  <2>1. Recovered(db, wal) = db
    BY <1>2, RecoveredFile
  <2>2. LogView(h) = [p \in 1..Len(db) |-> DbAt(p)]
    BY <1>2, NoFrames DEF LogView
  <2>3. LogView(h) = [p \in 1..Len(db) |-> db[p]]
    BY <2>2 DEF DbAt
  <2>4. QED BY <2>1, <2>3, FileAsRead
<1>3. CASE h.mxFrame > 0
  <2>1. Recovered(db, wal) = [p \in 1..wal.frames[h.mxFrame].nTruncate |-> LAt(h.mxFrame, p)]
    BY <1>1, <1>3, RecoveredLog
  <2>2. wal.frames[h.mxFrame].nTruncate = Size(h)
    BY <1>1, <1>3 DEF Commits, Size
  <2>3. \A p : LAt(h.mxFrame, p) = At(h.mxFrame, p)
    BY <1>1, <1>3, CountsIs DEF Covers, Counts
  <2>4. QED BY <2>1, <2>2, <2>3 DEF LogView
<1>4. QED BY <1>1, <1>2, <1>3

LEMMA FileIsWhole ==
  ASSUME Ctl, Heads, Data, NEW c \in Conn, pc[c] # "closed", mxH = 0 \/ shm.nBackfill >= mxH, Whole
  PROVE  Current = db
<1>1. /\ mxH \in Nat /\ shm.nBackfill \in Nat /\ db \in Seq(Int)
  BY LiveIs
<1>2. Current = FileView(H)
  BY <1>1, FileIsCurrent
<1>3. Size(H) = Len(db)
  BY DEF Whole
<1>4. FileView(H) = [p \in 1..Len(db) |-> db[p]]
  BY <1>3 DEF FileView, DbAt
<1>5. QED BY <1>1, <1>2, <1>4, FileAsRead

LEMMA CutRecovers ==
  ASSUME wal \in Log, limbo \in Image, LastCommit(wal) # 0, Cut(LastCommit(wal))
  PROVE  Recovered(db, wal) = limbo
<1>1. limbo \in Seq(Int)
  BY DEF Image, Cut
<1>2. Recovered(db, wal) = [p \in 1..Len(limbo) |-> LAt(LastCommit(wal), p)]
  BY RecoveredLog DEF Cut
<1>3. Recovered(db, wal) = [p \in 1..Len(limbo) |-> limbo[p]]
  BY <1>2 DEF Cut
<1>4. QED BY <1>1, <1>3, FileAsRead

\* Unless a commit is being made, a recovery finds the last one, or one that was cut off.
LEMMA RecoverNow ==
  ASSUME Ctl, Heads, Data, Crash, Live, ~Committing
  PROVE  Recovered(db, wal) \in {Last(hist), limbo}
<1>1. LogInv /\ HistOK
  BY DEF Crash
<1>2. Last(hist) = Current /\ Covers(H) /\ Commits(H) /\ EndOfLog
  BY <1>1 DEF LogInv
<1>3. wal \in Log /\ db \in Seq(Int) /\ H \in Hdr /\ mxH \in Nat /\ H.nPage \in Nat /\ (mxH > 0 => H.nPage > 0)
  BY LiveIs DEF Live
<1>4. CASE mxH > 0 /\ LastCommit(wal) = mxH
  <2>1. Recovered(db, wal) = LogView(H)
    BY <1>2, <1>3, <1>4, ViewRecovered DEF mxH
  <2>2. QED BY <1>2, <2>1 DEF Current
<1>5. CASE mxH > 0 /\ LastCommit(wal) # mxH
  <2>1. LastCommit(wal) > mxH /\ Cut(LastCommit(wal))
    BY <1>2, <1>5 DEF EndOfLog
  <2>2. LastCommit(wal) # 0 /\ limbo \in Image
    BY <1>1, <1>3, <1>5, <2>1 DEF HistOK
  <2>3. QED BY <1>3, <2>1, <2>2, CutRecovers
<1>6. CASE mxH = 0
  <2>1. Recovered(db, Salted(wal.salt)) \in {Last(hist), limbo}
    BY <1>2, <1>6 DEF EndOfLog
  <2>2. wal.salt \in Nat
    BY <1>3, LogIs
  <2>3. QED BY <1>3, <2>1, <2>2, SaltedIs
<1>7. QED BY <1>3, <1>4, <1>5, <1>6

\* A commit whose last frame is written is what a recovery finds.
LEMMA CommitRecovers ==
  ASSUME Ctl, Heads, Data, Crash, NEW c \in Conn, CommitFrameWritten(c)
  PROVE  LET n == Written(c) IN
         /\ InWrite(c) /\ n \in Nat /\ n > mxH /\ n <= Len(wal.frames)
         /\ LastCommit(wal) = n /\ wal.frames[n].nTruncate = Len(mine[c])
         /\ \A p \in 1..Len(mine[c]) : mine[c][p] = LAt(n, p) /\ (p > Size(H) => LF(n, p) > mxH)
         /\ Recovered(db, wal) = mine[c] /\ wal.frames[1].salt = wal.salt
<1> DEFINE n == Written(c)
           mx == w[c].hdr.mxFrame
           x == call[c]
<1>1. /\ pc[c] \in {"framesync", "index", "commit0"} /\ x.nTruncate # 0
  BY DEF CommitFrameWritten
<1>2. /\ CtlAt(c) /\ HeadAt(c) /\ WriteAt(c) /\ WriterAt(c)
  BY DataIs DEF Crash, CrashAt
<1>3. /\ InWrite(c) /\ x.mode = "write" /\ mine[c] \in Seq(Int) /\ x.list \in Seq(Nat \ {0}) /\ Len(x.list) \in Nat
      /\ x.iFrame \in Nat /\ x.data \in Nat
  <2>1. InWrite(c) /\ x.mode = "write"
    BY <1>1, <1>2 DEF CtlAt, ModeAt, TransAt, WritePc, FramePc
  <2>2. mine[c] \in Image /\ x \in Call
    BY DataIs, Types
  <2>3. mine[c] \in Seq(Int)
    BY <2>1, <2>2 DEF Image, InWrite
  <2>4. x.list \in Seq(Nat \ {0}) /\ x.iFrame \in Nat /\ x.data \in Nat
    BY <2>2 DEF Call
  <2>5. Len(x.list) \in Nat
    BY <2>4
  <2>6. QED BY <2>1, <2>3, <2>4, <2>5
<1>4. /\ wal \in Log /\ mxH \in Nat /\ Len(wal.frames) \in Nat /\ mx \in Nat /\ mx >= mxH
      /\ w[c].hdr \in Hdr /\ mx <= Len(wal.frames)
  <2>1. wal \in Log /\ mxH \in Nat /\ Len(wal.frames) \in Nat
    BY <1>1, LiveIs
  <2>2. w[c].hdr \in Hdr /\ mx \in Nat
    BY DataIs, Types
  <2>3. mx >= mxH /\ mx <= Len(wal.frames)
    BY <1>1, <1>2, <1>3 DEF WriteAt, CtlAt, InLogAt
  <2>4. QED BY <2>1, <2>2, <2>3
<1>5. /\ Counts(w[c].hdr) /\ Breaks(c) /\ w[c].hdr.cksum[1] = x.data /\ x.nTruncate = Len(mine[c])
      /\ Overlays(mine[c], mx, Pending(c))
      /\ \A i \in (mxH + 1)..mx : wal.frames[i].nTruncate = IF pc[c] = "commit0" /\ i = mx
                                                            THEN w[c].hdr.nPage ELSE 0
  BY <1>1, <1>2, <1>3 DEF WriterAt, HeadAt, WriteAt, ContentAt
<1>6. \A p : LF(mx, p) = F(mx, p) /\ LAt(mx, p) = At(mx, p)
  BY <1>4, <1>5, CountsIs DEF Counts
<1>7. /\ n \in Nat /\ n > mxH /\ n <= Len(wal.frames) /\ n >= 1 /\ wal.salt > 0
      /\ \A i \in 1..n : Links(wal, i)
      /\ Chain(wal, n)[1] = x.data /\ wal.frames[n].nTruncate = x.nTruncate
      /\ \A p \in 1..Len(mine[c]) : mine[c][p] = LAt(n, p) /\ (p > Size(H) => LF(n, p) > mxH)
  <2>1. CASE pc[c] = "commit0"
    <3>1. n = mx /\ mx > mxH /\ w[c].hdr.nPage = x.nTruncate /\ Covers(w[c].hdr) /\ Pending(c) = {}
      BY <1>1, <1>2, <1>3, <2>1 DEF Written, InFrames, WriteAt, ContentAt, HeadAt, WriterAt, Pending
    <3>2. wal.salt > 0 /\ (\A i \in 1..n : Links(wal, i)) /\ Chain(wal, n) = w[c].hdr.cksum
      BY <1>4, <3>1 DEF Covers, Counts
    <3>3. wal.frames[n].nTruncate = x.nTruncate
      BY <1>4, <1>5, <2>1, <3>1
    <3>4. \A p \in 1..Len(mine[c]) : mine[c][p] = At(mx, p) /\ (p > Size(H) => F(mx, p) > mxH)
      BY <1>5, <3>1 DEF Overlays
    <3>5. QED BY <1>4, <1>5, <1>6, <3>1, <3>2, <3>3, <3>4
  <2>2. CASE pc[c] \in {"framesync", "index"}
    <3>1. /\ n = x.iFrame /\ n = mx + Len(x.list) /\ Len(x.list) >= 1 /\ n <= Len(wal.frames)
          /\ NewFrames(c) /\ Pending(c) = Range(x.list) /\ ContentAt(c)
      BY <1>1, <1>2, <1>3, <2>2 DEF Written, InFrames, CtlAt, FrameStepAt, WriterAt, WriteAt, Pending
    <3>n. /\ n \in Nat /\ mx \in Nat /\ mxH \in Nat /\ Len(x.list) \in Nat /\ Len(wal.frames) \in Nat
          /\ n = mx + Len(x.list) /\ Len(x.list) >= 1 /\ mx < n /\ mxH <= mx /\ n <= Len(wal.frames)
      <4> HIDE DEF x, mx, n
      <4>1. mx \in Nat /\ mxH \in Nat /\ mxH <= mx /\ Len(x.list) \in Nat /\ Len(wal.frames) \in Nat
        BY <1>3, <1>4
      <4>2. n = mx + Len(x.list) /\ Len(x.list) >= 1 /\ n <= Len(wal.frames)
        BY <3>1
      <4>3. QED BY ONLY <4>1, <4>2
    <3>2. /\ wal.salt > 0 /\ Chain(wal, n) = w[c].hdr.cksum
          /\ \A j \in 1..Len(x.list) :
               /\ Links(wal, mx + j) /\ wal.frames[mx + j].pg = x.list[j]
               /\ wal.frames[mx + j].nTruncate = IF j = Len(x.list) THEN x.nTruncate ELSE 0
      <4>1. x.iFrame - mx = Len(x.list)
        <5> HIDE DEF x, mx, n
        <5>1. QED BY <3>n, <3>1, OffsetBy
      <4>2. /\ wal.salt > 0 /\ Chain(wal, x.iFrame) = w[c].hdr.cksum
            /\ \A j \in 1..(x.iFrame - mx) :
                 /\ Links(wal, mx + j) /\ wal.frames[mx + j].pg = x.list[j]
                 /\ wal.frames[mx + j].nTruncate = IF j = Len(x.list) THEN x.nTruncate ELSE 0
        BY <3>1 DEF NewFrames
      <4> HIDE DEF x, mx, n
      <4>3. QED BY <3>1, <4>1, <4>2
    <3>3. \A j \in 1..Len(x.list) : wal.frames[mx + j].data = x.data
      <4>1. x.iFrame - mx = Len(x.list)
        <5> HIDE DEF x, mx, n
        <5>1. QED BY <3>n, <3>1, OffsetBy
      <4>2. \A j \in 1..(x.iFrame - mx) : wal.frames[mx + j].data = x.data
        BY <2>2, <3>1 DEF ContentAt
      <4> HIDE DEF x, mx, n
      <4>3. QED BY <4>1, <4>2
    <3>4. ASSUME NEW i \in 1..n PROVE Links(wal, i)
      <4>1. CASE i <= mx
        BY <1>4, <1>5, <4>1 DEF Counts
      <4>2. CASE i > mx
        <5>1. i - mx \in 1..Len(x.list) /\ i = mx + (i - mx)
          <6> HIDE DEF x, mx, n
          <6>1. i \in Nat /\ mx < i /\ i <= mx + Len(x.list)
            BY <3>n, <4>2
          <6>2. QED BY <3>n, <6>1, OffsetIn
        <5>2. QED BY <3>2, <5>1
      <4>3. QED BY <3>n, <4>1, <4>2
    <3>5. wal.frames[n].nTruncate = x.nTruncate
      <4> HIDE DEF x, mx, n
      <4>1. Len(x.list) \in 1..Len(x.list)
        BY <1>3, <3>1
      <4>2. QED BY <3>1, <3>2, <4>1
    <3>6. ASSUME NEW p \in 1..Len(mine[c])
          PROVE  mine[c][p] = LAt(n, p) /\ (p > Size(H) => LF(n, p) > mxH)
      <4>1. /\ LF(n, p) \in 0..n /\ (LF(n, p) # 0 => wal.frames[LF(n, p)].pg = p)
            /\ \A i \in 1..n : wal.frames[i].pg = p => i <= LF(n, p)
        BY <1>3, <1>4, <3>1, LFIs
      <4>2. CASE p \in Range(x.list)
        <5>1. PICK j \in 1..Len(x.list) : p = x.list[j]
          <6> HIDE DEF x, mx, n
          <6>1. DOMAIN x.list = 1..Len(x.list)
            BY <1>3
          <6>2. QED BY <4>2, <6>1, Zenon DEF Range
        <5>2. mx + j \in 1..n /\ wal.frames[mx + j].pg = p
          <6> HIDE DEF x, mx, n
          <6>1. mx + j \in 1..n
            BY ONLY <3>n, <5>1, OffsetBy
          <6>2. wal.frames[mx + j].pg = p
            BY <3>2, <5>1
          <6>3. QED BY <6>1, <6>2
        <5>3. LF(n, p) >= mx + j /\ LF(n, p) > mx
          <6> HIDE DEF x, mx, n
          <6>1. QED BY <3>n, <4>1, <5>2
        <5>4. LF(n, p) - mx \in 1..Len(x.list) /\ LF(n, p) = mx + (LF(n, p) - mx)
          <6> HIDE DEF x, mx, n
          <6>1. LF(n, p) \in Nat /\ mx < LF(n, p) /\ LF(n, p) <= mx + Len(x.list)
            BY <3>n, <4>1, <5>3
          <6>2. QED BY <3>n, <6>1, OffsetIn
        <5>5. wal.frames[LF(n, p)].data = x.data /\ LF(n, p) # 0
          <6> HIDE DEF x, mx, n
          <6>1. PICK q : q = LF(n, p) - mx
            OBVIOUS
          <6>2. q \in 1..Len(x.list) /\ LF(n, p) = mx + q
            BY <5>4, <6>1
          <6>3. wal.frames[mx + q].data = x.data
            BY <3>3, <6>2
          <6>4. LF(n, p) # 0
            BY <3>n, <4>1, <5>3
          <6>5. QED BY <6>2, <6>3, <6>4
        <5>6. mine[c][p] = x.data
          BY <2>2, <3>1, <4>2 DEF ContentAt
        <5>7. QED BY <1>4, <4>1, <5>3, <5>5, <5>6 DEF LAt
      <4>3. CASE p \notin Range(x.list)
        <5>1. LF(n, p) <= mx
          <6>1. SUFFICES ASSUME LF(n, p) > mx PROVE FALSE
            BY <1>4, <4>1
          <6>2. LF(n, p) - mx \in 1..Len(x.list) /\ LF(n, p) = mx + (LF(n, p) - mx)
            <7> HIDE DEF x, mx, n
            <7>1. LF(n, p) \in Nat /\ mx < LF(n, p) /\ LF(n, p) <= mx + Len(x.list)
              BY <3>n, <4>1, <6>1
            <7>2. QED BY <3>n, <7>1, OffsetIn
          <6>3. x.list[LF(n, p) - mx] = p
            <7> HIDE DEF x, mx, n
            <7>1. LF(n, p) # 0
              BY <3>n, <6>1
            <7>2. QED BY <3>2, <4>1, <6>2, <7>1
          <6>4. DOMAIN x.list = 1..Len(x.list)
            BY <1>3
          <6>5. QED BY <4>3, <6>2, <6>3, <6>4, Zenon DEF Range
        <5>2. mx \in 0..n
          BY <3>n
        <5>3. LF(n, p) = LF(mx, p)
          BY <3>1, <5>1, <5>2, LFOfPrefix, n \in Nat
        <5>4. mine[c][p] = At(mx, p) /\ (p > Size(H) => F(mx, p) > mxH)
          BY <1>5, <3>1, <4>3 DEF Overlays
        <5>5. LAt(n, p) = LAt(mx, p)
          BY <5>3 DEF LAt
        <5>6. QED BY <1>6, <5>3, <5>4, <5>5
      <4>4. QED BY <4>2, <4>3
    <3>7. n > mxH /\ n >= 1
      <4> HIDE DEF x, mx, n
      <4>1. QED BY ONLY <3>n
    <3>8. Chain(wal, n)[1] = x.data /\ wal.salt > 0
      BY <1>5, <3>2
    <3>9. QED BY <3>n, <3>4, <3>5, <3>6, <3>7, <3>8
  <2>3. QED BY <1>1, <2>1, <2>2
<1>8. n < Len(wal.frames) => ~Links(wal, n + 1)
  <2>1. n < Len(wal.frames) => wal.frames[n + 1].prev[1] # x.data
    <3>1. \A i \in 1..Len(wal.frames) : i > n => wal.frames[i].prev[1] # x.data
      BY <1>1, <1>3, <1>5 DEF Breaks
    <3> HIDE DEF x, mx, n
    <3>2. n < Len(wal.frames) => n + 1 \in 1..Len(wal.frames) /\ n + 1 > n
      BY <1>4, <1>7
    <3>3. QED BY <3>1, <3>2
  <2>2. QED BY <1>7, <2>1 DEF Links
<1>9. LastCommit(wal) = n
  <2>1. ValidFrames(wal) = n
    <3> HIDE DEF n
    <3>1. n \in 0..Len(wal.frames)
      BY <1>4, <1>7
    <3>2. QED BY <1>4, <1>7, <1>8, <3>1, ChainEnds
  <2>2. wal.salt # 0 /\ wal.frames[n].nTruncate # 0
    BY <1>1, <1>7
  <2> HIDE DEF n
  <2>3. n \in 0..ValidFrames(wal) /\ \A i \in 1..ValidFrames(wal) : i > n => wal.frames[i].nTruncate = 0
    BY <1>7, <2>1
  <2>4. QED BY <1>4, <2>2, <2>3, CommitAt
<1>10. Recovered(db, wal) = mine[c]
  <2>1. Recovered(db, wal) = [p \in 1..Len(mine[c]) |-> LAt(n, p)]
    BY <1>4, <1>5, <1>7, <1>9, RecoveredLog
  <2>2. Recovered(db, wal) = [p \in 1..Len(mine[c]) |-> mine[c][p]]
    BY <1>7, <2>1
  <2>3. QED BY <1>3, <2>2, FileAsRead
<1>11. wal.frames[1].salt = wal.salt
  BY <1>7, 1 \in 1..n DEF Links
<1>12. QED BY <1>3, <1>5, <1>7, <1>9, <1>10, <1>11

-----------------------------------------------------------------------------
(* The frame of a step *)

LEMMA CrashIs ==
  ASSUME Crash, NEW c \in Conn
  PROVE  /\ DrawnInv /\ HistOK /\ LogInv /\ CountAt(c) /\ WriterAt(c) /\ RecoverAt(c) /\ CkSizeAt(c)
         /\ hist \in Seq(Seq(Int)) /\ hist # <<>> /\ floor \in Nat \ {0} /\ limbo \in Image /\ lossy \in BOOLEAN
         /\ Live => Last(hist) = Current /\ ~lossy /\ Covers(H) /\ Commits(H) /\ EndOfLog /\ Whole
         /\ ~Live /\ ~lossy => Recovered(db, wal) \in {Last(hist), limbo}
BY DEF Crash, CrashAt, HistOK, LogInv

\* Nothing that the others look at changes, or they have no part in it.
LEMMA OthersCrash ==
  ASSUME Ctl, Crash, NEW c \in Conn, Others(c),
         (UNCHANGED <<wal, limbo>> /\ shm'.aPgno = shm.aPgno) \/ WRITE \in exclMask[c],
         H' = H \/ (H'.isInit /\ (H'.salt > 0 \/ ~H.isInit) /\ WRITE \in exclMask[c]),
         (H' = H /\ db' = db) \/ \A d \in Conn \ {c} : CkSizeAt(d)'
  PROVE  \A d \in Conn \ {c} : CrashAt(d)'
<1>1. SUFFICES ASSUME NEW d \in Conn, d # c PROVE CrashAt(d)'
  OBVIOUS
<1>2. CrashAt(d) /\ pc'[d] = pc[d] /\ call'[d] = call[d] /\ w'[d] = w[d] /\ mine'[d] = mine[d]
  BY <1>1 DEF Crash, Others
<1>3. WRITE \in exclMask[c] => ~InWrite(d) /\ pc[d] \notin RecoverPc
  BY <1>1, WriterAlone
<1>4. CountAt(d)'
  BY <1>2, <1>3 DEF CrashAt, CountAt, InWrite, RecoverPc, H
<1>5. WriterAt(d)' /\ RecoverAt(d)'
  <2>1. CASE WRITE \in exclMask[c]
    BY <1>2, <1>3, <2>1 DEF WriterAt, RecoverAt, InWrite, RecoverPc
  <2>2. CASE UNCHANGED <<wal, limbo>> /\ shm'.aPgno = shm.aPgno /\ H' = H
    <3>1. \A h : (Counts(h)' <=> Counts(h)) /\ (Covers(h)' <=> Covers(h)) /\ (Commits(h)' <=> Commits(h))
      BY <2>2 DEF Counts, Covers, Commits, Links, Chain
    <3>2. (NewFrames(d)' <=> NewFrames(d)) /\ (Breaks(d)' <=> Breaks(d)) /\ (Begins(d)' <=> Begins(d))
          /\ (GivenUp(d)' <=> GivenUp(d)) /\ UndoTo(d)' = UndoTo(d)
      BY <1>2, <2>2 DEF NewFrames, Breaks, Begins, GivenUp, Written, Links, Chain, UndoTo, H
    <3>3. WriterAt(d)'
      BY <1>2, <2>2, <3>1, <3>2 DEF CrashAt, WriterAt, InWrite, mxH, H, Chain
    <3>4. RecoverAt(d)'
      BY <1>2, <2>2, <3>1 DEF CrashAt, RecoverAt
    <3>5. QED BY <3>3, <3>4
  <2>3. QED BY <2>1, <2>2
<1>6. CkSizeAt(d)'
  <2>1. CASE H' = H /\ db' = db
    BY <1>2, <2>1 DEF CrashAt, CkSizeAt, mxH, H, Size
  <2>2. QED BY <1>1, <2>1
<1>7. QED BY <1>4, <1>5, <1>6 DEF CrashAt

LEMMA StepCrash ==
  ASSUME Ctl, Crash, NEW c \in Conn, Others(c),
         (UNCHANGED <<wal, limbo>> /\ shm'.aPgno = shm.aPgno) \/ WRITE \in exclMask[c],
         H' = H \/ (H'.isInit /\ (H'.salt > 0 \/ ~H.isInit) /\ WRITE \in exclMask[c]),
         (H' = H /\ db' = db) \/ \A d \in Conn \ {c} : CkSizeAt(d)',
         DrawnInv', HistOK', LogInv', CrashAt(c)'
  PROVE  Crash'
<1>1. \A d \in Conn \ {c} : CrashAt(d)'
  BY OthersCrash
<1>2. QED BY <1>1 DEF Crash

\* Log and database stay.
LEMMA SameFiles ==
  ASSUME UNCHANGED <<wal, db>>
  PROVE  /\ \A m, p : LF(m, p)' = LF(m, p) /\ LAt(m, p)' = LAt(m, p)
         /\ \A i : Links(wal, i)' <=> Links(wal, i)
         /\ \A k : Chain(wal, k)' = Chain(wal, k)
         /\ \A h : Commits(h)' <=> Commits(h)
         /\ LastCommit(wal)' = LastCommit(wal) /\ Recovered(db, wal)' = Recovered(db, wal)
         /\ \A s : Recovered(db, Salted(s))' = Recovered(db, Salted(s))
<1>1. Pgs' = Pgs /\ \A p : DbAt(p)' = DbAt(p)
  BY DEF Pgs, DbAt
<1>2. \A m, p : LF(m, p)' = LF(m, p)
  BY <1>1 DEF LF
<1>3. \A m, p : LAt(m, p)' = LAt(m, p)
  BY <1>1, <1>2 DEF LAt
<1>4. QED BY <1>2, <1>3 DEF Links, Chain, Commits, Salted

LEMMA SameDrawn ==
  ASSUME WalTypeOK, DrawnInv, wal' = wal, walDisk' \in {walDisk, wal}, seed' \in Nat, seed' >= seed
  PROVE  DrawnInv'
<1>1. /\ seed \in Nat /\ wal \in Log /\ walDisk \in Log
  BY DEF WalTypeOK
<1>2. ASSUME NEW l \in {wal, walDisk}
      PROVE  /\ l.nCkpt > 0 => l.salt > 0
             /\ \A i \in 1..Len(l.frames) : l.frames[i].salt < seed' /\ l.frames[i].prev[1] < seed'
  <2>1. \A i \in 1..Len(l.frames) : l.frames[i].salt \in Nat /\ l.frames[i].prev[1] \in Nat
    BY <1>1, LogIs
  <2>2. QED BY <1>1, <2>1 DEF DrawnInv
<1>3. QED BY <1>2 DEF DrawnInv

\* A header counts the same frames.
LEMMA SameCounts ==
  ASSUME wal' = wal, NEW h, h.mxFrame \in Nat,
         \A i \in 1..h.mxFrame : shm'.aPgno[i] = shm.aPgno[i]
  PROVE  (Counts(h)' <=> Counts(h)) /\ (Covers(h)' <=> Covers(h)) /\ (Commits(h)' <=> Commits(h))
BY DEF Counts, Covers, Commits, Links, Chain

LEMMA SameCurrent ==
  ASSUME mxH \in Nat, H' = H, db' = db, wal' = wal, \A i \in 1..mxH : shm'.aPgno[i] = shm.aPgno[i]
  PROVE  Current' = Current /\ Size(H)' = Size(H) /\ mxH' = mxH
<1>1. mxH' = mxH /\ Size(H)' = Size(H) /\ \A p : DbAt(p)' = DbAt(p)
  BY DEF mxH, H, Size, DbAt
<1>2. \A p : F(mxH, p)' = F(mxH, p)
  <2>1. \A p : LastFrame(shm'.aPgno, mxH, p) = LastFrame(shm.aPgno, mxH, p)
    BY LastFrameAgrees
  <2>2. QED BY <1>1, <2>1 DEF F
<1>3. \A p : At(mxH, p)' = At(mxH, p)
  BY <1>1, <1>2 DEF At
<1>4. QED BY <1>1, <1>3 DEF Current, LogView, mxH, H

\* A step that publishes nothing and writes neither the log nor the database.
LEMMA QuietCrash ==
  ASSUME Ctl, Heads, Crash, NEW c \in Conn, Others(c), H' = H, UNCHANGED <<wal, db, hist, lossy, limbo>>,
         walDisk' \in {walDisk, wal}, floor' \in Nat \ {0}, seed' \in Nat, seed' >= seed,
         \E d \in Conn : pc[d] # "closed", \E d \in Conn : pc'[d] # "closed",
         \A i \in 1..mxH : shm'.aPgno[i] = shm.aPgno[i],
         shm'.aPgno = shm.aPgno \/ WRITE \in exclMask[c],
         shm'.nBackfill = shm.nBackfill \/ Whole',
         CommitFrameWritten(c)' <=> CommitFrameWritten(c), CrashAt(c)'
  PROVE  Crash'
<1>1. /\ DrawnInv /\ HistOK /\ LogInv
  BY CrashIs
<1>2. WalTypeOK /\ mxH \in Nat /\ H \in Hdr
  BY LiveIs
<1>3. DrawnInv'
  BY <1>1, <1>2, SameDrawn
<1>4. HistOK'
  BY <1>1 DEF HistOK
<1>5. Live' <=> Live
  BY DEF Live, H
<1>6. Current' = Current /\ Size(H)' = Size(H) /\ mxH' = mxH
  BY <1>2, SameCurrent
<1>7. (Covers(H)' <=> Covers(H)) /\ (Commits(H)' <=> Commits(H))
  <2>1. (Covers(H) <=> Covers(H)) /\ H.mxFrame \in Nat
    BY <1>2 DEF mxH
  <2>2. PICK h : h = H
    OBVIOUS
  <2>3. (Covers(h)' <=> Covers(h)) /\ (Commits(h)' <=> Commits(h))
    BY <2>1, <2>2, SameCounts DEF mxH
  <2>4. QED BY <2>2, <2>3 DEF Covers, Counts, Commits
<1>8. EndOfLog' <=> EndOfLog
  <2>1. Committing' <=> Committing
    <3>1. ASSUME NEW d \in Conn PROVE CommitFrameWritten(d)' <=> CommitFrameWritten(d)
      BY DEF CommitFrameWritten, Others
    <3>2. QED BY <3>1 DEF Committing
  <2>2. \A k : Cut(k)' <=> Cut(k)
    BY <1>6, SameFiles DEF Cut
  <2>3. PICK s : s = H.salt
    OBVIOUS
  <2>4. H'.salt = s
    BY <2>3
  <2>5. QED BY <1>6, <2>1, <2>2, <2>3, <2>4, SameFiles DEF EndOfLog
<1>9. Whole => Whole'
  BY <1>6 DEF Whole
<1>10. LogInv'
  BY <1>1, <1>5, <1>6, <1>7, <1>8, <1>9, SameFiles DEF LogInv
<1>11. QED BY <1>3, <1>4, <1>10, StepCrash

\* A connection that does not write.
LEMMA ReaderCrashAt ==
  ASSUME Crash, NEW c \in Conn, H' = H, w'[c].nCkpt = w[c].nCkpt, mine'[c] = None,
         pc[c] # "recover0", pc'[c] \notin {"recover0", "ckdbsync", "ckdone"}
  PROVE  CrashAt(c)'
<1>1. CountAt(c)
  BY CrashIs
<1>2. ~InWrite(c)'
  BY DEF InWrite
<1>3. CountAt(c)'
  BY <1>1, <1>2 DEF CountAt, H
<1>4. QED BY <1>2, <1>3 DEF CrashAt, WriterAt, RecoverAt, CkSizeAt

-----------------------------------------------------------------------------
(* Steps that read, that choose a mark or that run a checkpoint *)

\* The wal-index, as far as a recovery agrees with it.
ShmKept(c) ==
  /\ H' = H /\ (shm'.nBackfill = shm.nBackfill \/ Whole')
  /\ \/ shm'.aPgno = shm.aPgno
     \/ WRITE \in exclMask[c] /\ \A i \in 1..mxH : shm'.aPgno[i] = shm.aPgno[i]

Past == <<hist, floor, limbo, lossy>>

LEMMA ShmIsKept ==
  ASSUME NEW c \in Conn
  PROVE  /\ UNCHANGED shm => ShmKept(c)
         /\ \A h1, marks : Shm(H, h1, shm.nBackfill, marks, shm.aPgno) => ShmKept(c)
BY DEF ShmKept, Shm, H

\* Steps that write no frame.
Aside == {"closed", "recover0", "framesync", "index", "commit0"}

LEMMA SteadyCrash ==
  ASSUME Ctl, Heads, Crash, NEW c \in Conn, NEW to, NEW k, NEW o, NEW ca, NEW mi, Does(c, to, k, o, ca, mi),
         ShmKept(c), UNCHANGED <<wal, db, seed, Past>>, walDisk' \in {walDisk, wal},
         pc[c] \notin Aside, to \notin Aside \cup {"ckdbsync", "ckdone"}, o.nCkpt = w[c].nCkpt,
         \/ mi = None
         \/ /\ mine[c] # None /\ o.hdr = w[c].hdr /\ o.svpt = w[c].svpt /\ shm'.aPgno = shm.aPgno
            /\ k.mode = "write" => call[c].mode = "write" /\ k.data = call[c].data
            /\ pc[c] \notin {"failed", "restart1", "restart0"} \cup InFrames
            /\ to \notin {"restart1", "restart0"} \cup InFrames
  PROVE  Crash'
<1>1. Others(c) /\ pc'[c] = to /\ call'[c] = k /\ w'[c] = o /\ mine'[c] = mi
  BY OthersKept
<1>2. CrashAt(c)'
  <2>1. CASE mi = None
    BY <1>1, <2>1, ReaderCrashAt DEF Aside, ShmKept
  <2>2. CASE /\ mine[c] # None /\ o.hdr = w[c].hdr /\ o.svpt = w[c].svpt /\ shm'.aPgno = shm.aPgno
             /\ k.mode = "write" => call[c].mode = "write" /\ k.data = call[c].data
             /\ pc[c] \notin {"failed", "restart1", "restart0"} \cup InFrames
             /\ to \notin {"restart1", "restart0"} \cup InFrames
    <3>1. InWrite(c) /\ CountAt(c) /\ WriterAt(c) /\ H' = H /\ mxH' = mxH
      BY <2>2, CrashIs DEF InWrite, ShmKept, mxH, H
    <3>2. w[c].hdr.mxFrame \in Nat
      BY Types, HdrIs DEF Ctl
    <3>3. PICK h : h = w[c].hdr
      OBVIOUS
    <3>4. (Counts(h)' <=> Counts(h)) /\ (Covers(h)' <=> Covers(h))
      BY <2>2, <3>2, <3>3, SameCounts
    <3>5. Counts(w[c].hdr)' /\ Covers(w[c].hdr)'
      <4>1. Counts(h) /\ Covers(h)
        BY <2>2, <3>1, <3>3 DEF WriterAt
      <4>2. w'[c].hdr = h
        BY <1>1, <2>2, <3>3
      <4>3. QED BY <3>4, <4>1, <4>2 DEF Counts, Covers
    <3>6. UndoTo(c)' = UndoTo(c) /\ w'[c].svpt = w[c].svpt /\ w'[c].hdr = w[c].hdr
      BY <1>1, <2>2 DEF UndoTo
    <3>7. Breaks(c)'
      BY <1>1, <2>2, <3>1 DEF WriterAt, Breaks, Written, InFrames, Aside
    <3>8. Begins(c)'
      BY <1>1, <2>2, <3>1 DEF WriterAt, Begins, H
    <3>9. GivenUp(c)'
      BY <1>1, <2>2 DEF GivenUp, Aside, InFrames
    <3>10. WriterAt(c)'
      <4>1. /\ w[c].svpt # None /\ UndoTo(c) > 0 => w[c].svpt.cksum = Chain(wal, UndoTo(c))
            /\ \A i \in (mxH + 1)..w[c].hdr.mxFrame : wal.frames[i].nTruncate = 0
        BY <2>2, <3>1 DEF WriterAt, Aside
      <4>2. /\ w'[c].svpt # None /\ UndoTo(c)' > 0 => w'[c].svpt.cksum = Chain(wal', UndoTo(c)')
            /\ \A i \in (mxH' + 1)..w'[c].hdr.mxFrame : wal'.frames[i].nTruncate = 0
        BY <3>1, <3>6, <4>1
      <4>3. pc'[c] \notin InFrames \cup {"commit0"}
        BY <1>1, <2>2 DEF Aside
      <4>4. QED BY <3>5, <3>7, <3>8, <3>9, <4>2, <4>3 DEF WriterAt
    <3>11. CountAt(c)'
      BY <1>1, <2>2, <3>1 DEF CountAt, InWrite, Aside, H
    <3>12. QED BY <1>1, <3>10, <3>11 DEF CrashAt, RecoverAt, CkSizeAt, Aside
  <2>3. QED BY <2>1, <2>2
<1>3. floor \in Nat \ {0} /\ seed \in Nat /\ seed >= seed
  BY CrashIs DEF Ctl, WalTypeOK
<1>4. pc[c] # "closed" /\ pc'[c] # "closed" /\ ~CommitFrameWritten(c) /\ ~CommitFrameWritten(c)'
  BY <1>1 DEF Aside, CommitFrameWritten
<1>5. \A i \in 1..mxH : shm'.aPgno[i] = shm.aPgno[i]
  BY DEF ShmKept
<1>6. QED BY <1>1, <1>2, <1>3, <1>4, <1>5, QuietCrash DEF ShmKept, Past

LEMMA PastKept ==
  ASSUME NEW c \in Conn
  PROVE  /\ Open(c) \/ BeginRead(c) \/ ReadHdr0(c) \/ ReadHdr1(c) \/ LockHdr(c) => UNCHANGED Past
         /\ ReadHdrAgain(c) \/ Recover(c) \/ RecoverInfo(c) \/ CheckBackfill(c) => UNCHANGED Past
         /\ Lock0(c) \/ ChooseMark(c) \/ GrabMark(c) \/ PutMark(c) \/ LockMark(c) => UNCHANGED Past
         /\ EndRead(c) \/ BeginWrite(c) \/ Savepoint(c) \/ SavepointUndo(c) => UNCHANGED Past
         /\ Spill(c) \/ Commit(c) \/ RestartLog(c) \/ RestartHdr1(c) \/ RestartHdr0(c) => UNCHANGED Past
         /\ RestartInfo(c) \/ WriteWalHdr(c) \/ SyncWalHdr(c) \/ SyncFrames(c) => UNCHANGED Past
         /\ AppendIndex(c) \/ Rollback(c) \/ Checkpoint(c) \/ CkStart(c) \/ CkMark(c) => UNCHANGED Past
         /\ CkPut(c) \/ CkLock0(c) \/ CkPage(c) \/ CkTrunc(c) \/ CkDbSync(c) => UNCHANGED Past
         /\ CkDone(c) \/ CkEnd(c) \/ CkFails(c) \/ Close(c) \/ FinishClose(c) => UNCHANGED Past
<1>1. Open(c) \/ BeginRead(c) \/ ReadHdr0(c) \/ ReadHdr1(c) \/ LockHdr(c) => UNCHANGED Past
  BY DEF Past, ghosts, Open, BeginRead, ReadHdr0, ReadHdr1, LockHdr
<1>2. ReadHdrAgain(c) \/ Recover(c) \/ RecoverInfo(c) \/ CheckBackfill(c) => UNCHANGED Past
  BY DEF Past, ghosts, ReadHdrAgain, Recover, RecoverInfo, CheckBackfill
<1>3. Lock0(c) \/ ChooseMark(c) \/ GrabMark(c) \/ PutMark(c) \/ LockMark(c) => UNCHANGED Past
  BY DEF Past, ghosts, Lock0, ChooseMark, GrabMark, PutMark, LockMark
<1>4. EndRead(c) \/ BeginWrite(c) \/ Savepoint(c) \/ SavepointUndo(c) => UNCHANGED Past
  BY DEF Past, ghosts, EndRead, BeginWrite, Savepoint, SavepointUndo
<1>5. Spill(c) \/ Commit(c) \/ RestartLog(c) \/ RestartHdr1(c) \/ RestartHdr0(c) => UNCHANGED Past
  BY DEF Past, ghosts, Spill, Commit, StartFrames, RestartLog, RestartHdr1, RestartHdr0
<1>6. RestartInfo(c) \/ WriteWalHdr(c) \/ SyncWalHdr(c) \/ SyncFrames(c) => UNCHANGED Past
  BY DEF Past, ghosts, RestartInfo, WriteWalHdr, SyncWalHdr, SyncFrames
<1>7. AppendIndex(c) \/ Rollback(c) \/ Checkpoint(c) \/ CkStart(c) \/ CkMark(c) => UNCHANGED Past
  BY DEF Past, ghosts, AppendIndex, Rollback, Checkpoint, CkStart, CkMark
<1>8. CkPut(c) \/ CkLock0(c) \/ CkPage(c) \/ CkTrunc(c) \/ CkDbSync(c) => UNCHANGED Past
  BY DEF Past, ghosts, CkPut, CkLock0, CkPage, CkTrunc, CkDbSync
<1>9. CkDone(c) \/ CkEnd(c) \/ CkFails(c) \/ Close(c) \/ FinishClose(c) => UNCHANGED Past
  BY DEF Past, ghosts, CkDone, CkEnd, CkFails, Close, FinishClose
<1>10. QED BY <1>1, <1>2, <1>3, <1>4, <1>5, <1>6, <1>7, <1>8, <1>9

LEMMA NoWriter ==
  ASSUME Ctl, NEW c \in Conn,
         \/ pc[c] # "idle" /\ call[c].mode # "write"
         \/ pc[c] = "idle" /\ w[c].readLock < 0
         \/ ~InWrite(c)
  PROVE  mine[c] = None
<1>1. TransAt(c) /\ WalTypeOK
  BY DEF Ctl, CtlAt
<1>2. w[c].readLock \in (-1)..(NReader - 1) /\ NReader \in Nat
  BY <1>1, Types, WalAssumption DEF WalObj
<1>3. QED BY <1>1, <1>2 DEF TransAt, InWrite

LEMMA ReaderCrash ==
  ASSUME Ctl, Heads, Crash, NEW c \in Conn, NEW to, NEW k, NEW o, NEW ca, Does(c, to, k, o, ca, mine[c]),
         mine[c] = None, ShmKept(c), UNCHANGED <<files, seed, Past>>,
         pc[c] \notin Aside, to \notin Aside \cup {"ckdbsync", "ckdone"}, o.nCkpt = w[c].nCkpt
  PROVE  Crash'
<1>1. UNCHANGED <<wal, db, seed, Past>> /\ walDisk' \in {walDisk, wal}
  BY DEF files
<1>2. QED BY <1>1, SteadyCrash

LEMMA ReaderCalls ==
  ASSUME Ctl, Heads, Crash, NEW c \in Conn, NEW to, NEW k, Calls(c, to, k),
         mine[c] = None, ShmKept(c), UNCHANGED <<files, seed, Past>>,
         pc[c] \notin Aside, to \notin Aside \cup {"ckdbsync", "ckdone"}
  PROVE  Crash'
BY ReaderCrash DEF Calls

LEMMA ReaderMoves ==
  ASSUME Ctl, Heads, Crash, NEW c \in Conn, NEW to, Moves(c, to),
         mine[c] = None, ShmKept(c), UNCHANGED <<files, seed, Past>>,
         pc[c] \notin Aside, to \notin Aside \cup {"ckdbsync", "ckdone"}
  PROVE  Crash'
BY ReaderCrash DEF Moves

LEMMA CrashTypes ==
  ASSUME Ctl, NEW c \in Conn
  PROVE  WalTypeOK /\ Steady /\ ModeAt(c) /\ TransAt(c) /\ CtlAt(c) /\ w[c] \in WalObj /\ call[c] \in Call
BY Types DEF Ctl, CtlAt

LEMMA BeginReadCrash == ASSUME Ctl, Heads, Crash, NEW c \in Conn, BeginRead(c) PROVE Crash'
<1>1. pc[c] = "idle" /\ mine[c] = None /\ Calls(c, "hdr0", [NoCall EXCEPT !.mode = "read"])
      /\ UNCHANGED <<shm, files, seed>>
  BY CrashTypes, BeginReadDoes, NoWriter
<1>2. UNCHANGED Past /\ ShmKept(c)
  BY <1>1, PastKept, ShmIsKept
<1>3. QED BY <1>1, <1>2, ReaderCalls DEF Aside

LEMMA ReadHdr0Crash == ASSUME Ctl, Heads, Crash, NEW c \in Conn, ReadHdr0(c) PROVE Crash'
<1>1. pc[c] = "hdr0" /\ Calls(c, "hdr1", [call[c] EXCEPT !.h1 = H]) /\ UNCHANGED <<shm, files, seed>>
  BY CrashTypes, ReadHdr0Does DEF Quiet
<1>2. UNCHANGED Past /\ ShmKept(c) /\ mine[c] = None
  BY <1>1, PastKept, ShmIsKept, CrashTypes, NoWriter DEF ModeAt, HdrPc
<1>3. QED BY <1>1, <1>2, ReaderCalls DEF Aside

LEMMA AdoptsCrash ==
  ASSUME Ctl, Heads, Crash, NEW c \in Conn, pc[c] \in {"hdr1", "hdragain"}, Quiet, UNCHANGED Past,
         NEW h, Adopts(c, h)
  PROVE  Crash'
<1> DEFINE o == [w[c] EXCEPT !.hdr = h]
           to == AfterHdr(c)
           k == [call[c] EXCEPT !.changed = @ \/ w[c].hdr # h]
<1>1. o.nCkpt = w[c].nCkpt /\ to \in {"nbackfill", "ckstart"}
  BY CrashTypes DEF WalObj, AfterHdr
<1>2. UNCHANGED <<shm, files, seed>> /\ ShmKept(c) /\ mine[c] = None
  BY ShmIsKept, CrashTypes, NoWriter DEF ModeAt, HdrPc, Quiet
<1>3. Does(c, to, k, o, cached[c], mine[c])
  BY DEF Adopts
<1> HIDE DEF o, to, k
<1>4. QED BY <1>1, <1>2, <1>3, ReaderCrash DEF Aside

LEMMA ReadHdr1Crash == ASSUME Ctl, Heads, Crash, NEW c \in Conn, ReadHdr1(c) PROVE Crash'
<1>1. pc[c] = "hdr1" /\ Quiet /\ (Adopts(c, call[c].h1) \/ Moves(c, "hdrlock"))
  BY CrashTypes, ReadHdr1Does
<1>2. UNCHANGED Past /\ ShmKept(c) /\ mine[c] = None /\ UNCHANGED <<shm, files, seed>>
  BY <1>1, PastKept, ShmIsKept, CrashTypes, NoWriter DEF ModeAt, HdrPc, Quiet
<1>3. CASE Adopts(c, call[c].h1)
  BY <1>1, <1>2, <1>3, AdoptsCrash
<1>4. CASE Moves(c, "hdrlock")
  BY <1>1, <1>2, <1>4, ReaderMoves DEF Aside
<1>5. QED BY <1>1, <1>3, <1>4

LEMMA RefusedCrash ==
  ASSUME Ctl, Heads, Crash, NEW c \in Conn, pc[c] \in {"hdrlock", "hdragain"}, Quiet, UNCHANGED Past, Refused(c)
  PROVE  Crash'
<1>1. ShmKept(c) /\ mine[c] = None /\ UNCHANGED <<shm, files, seed>>
  BY ShmIsKept, CrashTypes, NoWriter DEF ModeAt, HdrPc, Quiet
<1>2. CASE Moves(c, "ckend") \/ Moves(c, "hdr0")
  BY <1>1, <1>2, ReaderMoves DEF Aside
<1>3. CASE Does(c, "idle", NoCall, w[c], None, mine[c])
  BY <1>1, <1>3, ReaderCrash DEF Aside
<1>4. QED BY <1>2, <1>3 DEF Refused

LEMMA LockHdrCrash == ASSUME Ctl, Heads, Crash, NEW c \in Conn, LockHdr(c) PROVE Crash'
<1>1. pc[c] = "hdrlock" /\ Quiet /\ (Moves(c, "hdragain") \/ Refused(c))
  BY CrashTypes, LockHdrDoes
<1>2. UNCHANGED Past /\ ShmKept(c) /\ mine[c] = None /\ UNCHANGED <<shm, files, seed>>
  BY <1>1, PastKept, ShmIsKept, CrashTypes, NoWriter DEF ModeAt, HdrPc, Quiet
<1>3. CASE Moves(c, "hdragain")
  BY <1>1, <1>2, <1>3, ReaderMoves DEF Aside
<1>4. QED BY <1>1, <1>2, <1>3, RefusedCrash

LEMMA ReadHdrAgainCrash == ASSUME Ctl, Heads, Crash, NEW c \in Conn, ReadHdrAgain(c) PROVE Crash'
<1> DEFINE k == [call[c] EXCEPT !.changed = TRUE]
<1>1. pc[c] = "hdragain" /\ Quiet /\ (Adopts(c, H) \/ Calls(c, "recover", k) \/ Refused(c))
  BY CrashTypes, ReadHdrAgainDoes
<1>2. UNCHANGED Past /\ ShmKept(c) /\ mine[c] = None /\ UNCHANGED <<shm, files, seed>>
  BY <1>1, PastKept, ShmIsKept, CrashTypes, NoWriter DEF ModeAt, HdrPc, Quiet
<1> HIDE DEF k
<1>3. CASE Adopts(c, H)
  BY <1>1, <1>2, <1>3, AdoptsCrash
<1>4. CASE Calls(c, "recover", k)
  BY <1>1, <1>2, <1>4, ReaderCalls DEF Aside
<1>5. QED BY <1>1, <1>2, <1>3, <1>4, RefusedCrash

LEMMA RecoverInfoCrash == ASSUME Ctl, Heads, Crash, NEW c \in Conn, RecoverInfo(c) PROVE Crash'
<1>1. /\ pc[c] = "recoverinfo" /\ Moves(c, AfterHdr(c)) /\ UNCHANGED <<files, seed>>
      /\ \E marks : Shm(H, shm.hdr[1], 0, marks, shm.aPgno)
  BY CrashTypes, RecoverInfoDoes
<1>2. shm.nBackfill = 0
  BY <1>1 DEF Heads, HeadAt, RecoverPc
<1>3. ShmKept(c) /\ UNCHANGED Past
  BY <1>1, <1>2, ShmIsKept, PastKept
<1>4. mine[c] = None /\ AfterHdr(c) \in {"nbackfill", "ckstart"}
  BY <1>1, CrashTypes, NoWriter DEF ModeAt, HdrPc, RecoverPc, AfterHdr
<1>5. QED BY <1>1, <1>3, <1>4, ReaderMoves DEF Aside

LEMMA CheckBackfillCrash == ASSUME Ctl, Heads, Crash, NEW c \in Conn, CheckBackfill(c) PROVE Crash'
<1>1. pc[c] = "nbackfill" /\ UNCHANGED <<shm, files, seed>> /\ (Moves(c, "lock0") \/ Moves(c, "marks"))
  BY CrashTypes, CheckBackfillDoes DEF Quiet
<1>2. UNCHANGED Past /\ ShmKept(c) /\ mine[c] = None
  BY <1>1, PastKept, ShmIsKept, CrashTypes, NoWriter DEF ModeAt
<1>3. QED BY <1>1, <1>2, ReaderMoves DEF Aside

\* A step that chooses a mark, of a reader or of a writer that begins again.
LEMMA MarkCrash ==
  ASSUME Ctl, Heads, Crash, NEW c \in Conn, pc[c] \in MarkPc \cup {"lock0"},
         NEW to \in MarkPc \cup {"hdr0", "walhdr", "idle"}, NEW k, NEW o, NEW ca,
         Does(c, to, k, o, ca, mine[c]), o.hdr = w[c].hdr, o.svpt = w[c].svpt, o.nCkpt = w[c].nCkpt,
         k.mode = "write" => call[c].mode = "write" /\ k.data = call[c].data,
         UNCHANGED <<files, seed, Past>>, ShmKept(c), shm'.aPgno = shm.aPgno
  PROVE  Crash'
<1>1. UNCHANGED <<wal, db, seed, Past>> /\ walDisk' \in {walDisk, wal}
  BY DEF files
<1>2. /\ pc[c] \notin Aside \cup {"failed", "restart1", "restart0"} \cup InFrames
      /\ to \notin Aside \cup {"ckdbsync", "ckdone", "restart1", "restart0"} \cup InFrames
  BY DEF MarkPc, Aside, InFrames
<1>3. QED BY <1>1, <1>2, SteadyCrash

LEMMA MarkCallsCrash ==
  ASSUME Ctl, Heads, Crash, NEW c \in Conn, pc[c] \in MarkPc \cup {"lock0"},
         NEW to \in MarkPc \cup {"hdr0"}, NEW k, Calls(c, to, k),
         k.mode = call[c].mode, k.data = call[c].data,
         UNCHANGED <<files, seed, Past>>, ShmKept(c), shm'.aPgno = shm.aPgno
  PROVE  Crash'
<1>1. Does(c, to, k, w[c], cached[c], mine[c])
  BY DEF Calls
<1>2. QED BY <1>1, MarkCrash

LEMMA ReadBeginsCrash ==
  ASSUME Ctl, Heads, Crash, NEW c \in Conn, pc[c] \in {"lock0", "lockmark"}, Quiet, UNCHANGED Past,
         NEW i \in Readers, ReadBegins(c, i)
  PROVE  Crash'
<1> DEFINE o == [w[c] EXCEPT !.readLock = i]
<1>1. o.hdr = w[c].hdr /\ o.svpt = w[c].svpt /\ o.nCkpt = w[c].nCkpt
  BY CrashTypes DEF WalObj
<1>2. ShmKept(c) /\ UNCHANGED <<files, seed>> /\ shm' = shm /\ pc[c] \in MarkPc \cup {"lock0"}
  BY ShmIsKept DEF Quiet, MarkPc
<1>3. \/ Does(c, "idle", NoCall, o, Filled(c, i), mine[c])
      \/ Does(c, "walhdr", call[c], o, cached[c], mine[c])
  BY DEF ReadBegins
<1>4. NoCall.mode # "write"
  BY DEF NoCall
<1> HIDE DEF o
<1>5. QED BY <1>1, <1>2, <1>3, <1>4, MarkCrash

LEMMA RetriesCrash ==
  ASSUME Ctl, Heads, Crash, NEW c \in Conn, pc[c] \in MarkPc \cup {"lock0"}, Quiet, UNCHANGED Past,
         NEW to \in MarkPc, Retries(c) \/ Moves(c, to)
  PROVE  Crash'
<1>1. ShmKept(c) /\ UNCHANGED <<files, seed>> /\ shm' = shm
  BY ShmIsKept DEF Quiet
<1>2. \E t \in MarkPc \cup {"hdr0"} : Calls(c, t, call[c])
  BY DEF Retries, Moves, Calls, MarkPc
<1>3. QED BY <1>1, <1>2, MarkCallsCrash

LEMMA Lock0Crash == ASSUME Ctl, Heads, Crash, NEW c \in Conn, Lock0(c) PROVE Crash'
<1>1. pc[c] = "lock0" /\ Quiet /\ (ReadBegins(c, 0) \/ Retries(c) \/ Moves(c, "marks")) /\ UNCHANGED Past
  BY CrashTypes, Lock0Does, PastKept
<1>2. 0 \in Readers /\ "marks" \in MarkPc
  BY Slots DEF MarkPc
<1>3. QED BY <1>1, <1>2, ReadBeginsCrash, RetriesCrash

LEMMA ChooseMarkCrash == ASSUME Ctl, Heads, Crash, NEW c \in Conn, ChooseMark(c) PROVE Crash'
<1>1. /\ pc[c] = "marks" /\ Quiet /\ UNCHANGED Past
  BY CrashTypes, ChooseMarkDoes, PastKept
<1>2. PICK best \in 0..w[c].hdr.mxFrame, i \in Readers, to \in {"grab", "lockmark"} :
        Calls(c, to, [call[c] EXCEPT !.mxReadMark = best, !.mxI = i, !.i = 1])
  BY CrashTypes, ChooseMarkDoes
<1> DEFINE k == [call[c] EXCEPT !.mxReadMark = best, !.mxI = i, !.i = 1]
<1>3. k.mode = call[c].mode /\ k.data = call[c].data /\ Calls(c, to, k)
  BY <1>2, CrashTypes DEF Call
<1>4. ShmKept(c) /\ UNCHANGED <<files, seed>> /\ shm' = shm /\ pc[c] \in MarkPc /\ to \in MarkPc
  BY <1>1, ShmIsKept DEF Quiet, MarkPc
<1> HIDE DEF k
<1>5. QED BY <1>1, <1>3, <1>4, MarkCallsCrash

LEMMA GrabMarkCrash == ASSUME Ctl, Heads, Crash, NEW c \in Conn, GrabMark(c) PROVE Crash'
<1> DEFINE k == [call[c] EXCEPT !.i = call[c].i + 1]
<1>1. /\ pc[c] = "grab" /\ Quiet /\ UNCHANGED Past
      /\ Moves(c, "putmark") \/ Calls(c, "grab", k) \/ Retries(c) \/ Moves(c, "lockmark")
  BY CrashTypes, GrabMarkDoes, PastKept
<1>2. k.mode = call[c].mode /\ k.data = call[c].data
  BY CrashTypes DEF Call
<1>3. /\ ShmKept(c) /\ UNCHANGED <<files, seed>> /\ shm' = shm /\ pc[c] \in MarkPc
      /\ "putmark" \in MarkPc /\ "lockmark" \in MarkPc /\ "grab" \in MarkPc
  BY <1>1, ShmIsKept DEF Quiet, MarkPc
<1> HIDE DEF k
<1>4. CASE Calls(c, "grab", k)
  BY <1>1, <1>2, <1>3, <1>4, MarkCallsCrash
<1>5. QED BY <1>1, <1>3, <1>4, RetriesCrash

LEMMA PutMarkCrash == ASSUME Ctl, Heads, Crash, NEW c \in Conn, PutMark(c) PROVE Crash'
<1> DEFINE k == [call[c] EXCEPT !.mxI = call[c].i, !.mxReadMark = w[c].hdr.mxFrame]
           marks == [shm.aReadMark EXCEPT ![call[c].i] = w[c].hdr.mxFrame]
<1>1. /\ pc[c] = "putmark" /\ UNCHANGED <<files, seed, Past>> /\ Calls(c, "lockmark", k)
      /\ Shm(H, shm.hdr[1], shm.nBackfill, marks, shm.aPgno)
  BY CrashTypes, PutMarkDoes, PastKept
<1>2. k.mode = call[c].mode /\ k.data = call[c].data
  BY CrashTypes DEF Call
<1> HIDE DEF k, marks
<1>3. ShmKept(c) /\ shm'.aPgno = shm.aPgno /\ pc[c] \in MarkPc /\ "lockmark" \in MarkPc
  BY <1>1, ShmIsKept DEF Shm, MarkPc
<1>4. QED BY <1>1, <1>2, <1>3, MarkCallsCrash

LEMMA LockMarkCrash == ASSUME Ctl, Heads, Crash, NEW c \in Conn, LockMark(c) PROVE Crash'
<1>1. /\ pc[c] = "lockmark" /\ Quiet /\ (ReadBegins(c, call[c].mxI) \/ Retries(c)) /\ UNCHANGED Past
      /\ call[c].mxI \in Readers /\ "marks" \in MarkPc
  BY CrashTypes, LockMarkDoes, PastKept DEF Call, MarkPc
<1>2. QED BY <1>1, ReadBeginsCrash, RetriesCrash DEF MarkPc

LEMMA EndReadCrash == ASSUME Ctl, Heads, Crash, NEW c \in Conn, EndRead(c) PROVE Crash'
<1> DEFINE o == [w[c] EXCEPT !.readLock = -1]
<1>1. /\ pc[c] = "idle" /\ Quiet /\ mine[c] = None /\ UNCHANGED Past
      /\ Does(c, "idle", call[c], o, cached[c], mine[c])
  BY CrashTypes, EndReadDoes, PastKept, NoWriter
<1>2. o.nCkpt = w[c].nCkpt /\ ShmKept(c) /\ UNCHANGED <<files, seed>>
  BY <1>1, CrashTypes, ShmIsKept DEF WalObj, Quiet
<1> HIDE DEF o
<1>3. QED BY <1>1, <1>2, ReaderCrash DEF Aside

LEMMA RollbackCrash == ASSUME Ctl, Heads, Crash, NEW c \in Conn, Rollback(c) PROVE Crash'
<1> DEFINE o == [w[c] EXCEPT !.hdr = H, !.svpt = None]
<1>1. /\ pc[c] \in {"idle", "failed"} /\ InWrite(c) /\ UNCHANGED <<files, seed, Past>>
      /\ Does(c, "idle", NoCall, o, cached[c], None)
      /\ Shm(H, shm.hdr[1], shm.nBackfill, shm.aReadMark, CleanUp(shm.aPgno, mxH))
  BY CrashTypes, RollbackDoes, PastKept
<1>2. o.nCkpt = w[c].nCkpt
  BY CrashTypes DEF WalObj
<1>3. mxH \in Nat /\ mxH <= MaxFrame
  BY <1>1, LiveIs, InMaxFrame
<1>4. \A i \in 1..mxH : shm'.aPgno[i] = shm.aPgno[i]
  <2> DEFINE n == mxH
  <2> HIDE DEF n
  <2>1. n \in Nat /\ n <= MaxFrame /\ n <= n
    BY <1>3 DEF n
  <2>2. \A i \in 1..n : CleanUp(shm.aPgno, n)[i] = shm.aPgno[i]
    BY <2>1, CleanUpKeeps
  <2>3. QED BY <1>1, <2>2 DEF Shm, n
<1>5. WRITE \in exclMask[c]
  BY <1>1, CrashTypes DEF CtlAt, LocksAt
<1>6. ShmKept(c)
  BY <1>1, <1>4, <1>5 DEF ShmKept, Shm, H
<1>7. UNCHANGED <<wal, db, seed, Past>> /\ walDisk' \in {walDisk, wal}
  BY <1>1 DEF files
<1> HIDE DEF o
<1>8. QED BY <1>1, <1>2, <1>6, <1>7, SteadyCrash DEF Aside

-----------------------------------------------------------------------------
(* Checkpoints *)

LEMMA CkCallsCrash ==
  ASSUME Ctl, Heads, Crash, NEW c \in Conn, pc[c] \in CkPc \cup {"idle"}, mine[c] = None,
         NEW to \in {"hdr0", "ckmark", "ckput", "cklock0", "cksync", "ckpage", "ckend", "closing"},
         NEW k, Calls(c, to, k), ShmKept(c), UNCHANGED <<files, seed, Past>>
  PROVE  Crash'
<1>1. pc[c] \notin Aside /\ to \notin Aside \cup {"ckdbsync", "ckdone"}
  BY DEF Aside, CkPc, CkRunPc, CkWritePc
<1>2. QED BY <1>1, ReaderCalls

LEMMA CkMoved ==
  ASSUME NEW c \in Conn, NEW to, Moves(c, to)
  PROVE  Calls(c, to, call[c])
BY DEF Moves, Calls

LEMMA CheckpointCrash == ASSUME Ctl, Heads, Crash, NEW c \in Conn, Checkpoint(c) PROVE Crash'
<1>1. pc[c] = "idle" /\ mine[c] = None /\ UNCHANGED <<shm, files, seed, Past>> /\ \E k : Calls(c, "hdr0", k)
  BY CrashTypes, CheckpointDoes, NoWriter, PastKept
<1>2. QED BY <1>1, ShmIsKept, CkCallsCrash

LEMMA CkIdle ==
  ASSUME Ctl, NEW c \in Conn, pc[c] \in CkPc
  PROVE  mine[c] = None
BY CheckpointsOnly DEF InWrite

LEMMA CkStartCrash == ASSUME Ctl, Heads, Crash, NEW c \in Conn, CkStart(c) PROVE Crash'
<1>1. pc[c] \in CkPc /\ pc[c] # "closed"
  BY DEF CkStart, CkPc
<1>2. w[c].hdr.mxFrame <= MaxFrame
  BY <1>1, InMaxFrame
<1>3. /\ Quiet /\ UNCHANGED Past
      /\ Calls(c, "ckend", call[c]) \/ \E k : Calls(c, "ckmark", k)
  BY <1>2, CrashTypes, CkStartDoes, PastKept, CkMoved
<1>4. QED BY <1>1, <1>3, ShmIsKept, CkIdle, CkCallsCrash DEF Quiet

LEMMA CkMarkCrash == ASSUME Ctl, Heads, Crash, NEW c \in Conn, CkMark(c) PROVE Crash'
<1>1. pc[c] \in CkPc
  BY DEF CkMark, CkPc, CkRunPc
<1>2. CtlAt(c) /\ WalTypeOK
  BY CrashTypes
<1>3. /\ Quiet /\ UNCHANGED Past
      /\ \E to \in {"ckput", "ckmark", "cklock0"} : \E k : Calls(c, to, k)
  BY <1>2, CkMarkDoes, PastKept, CkMoved DEF CtlAt
<1>4. QED BY <1>1, <1>3, ShmIsKept, CkIdle, CkCallsCrash DEF Quiet

LEMMA CkPutCrash == ASSUME Ctl, Heads, Crash, NEW c \in Conn, CkPut(c) PROVE Crash'
<1>1. pc[c] \in CkPc
  BY DEF CkPut, CkPc, CkRunPc
<1>2. CtlAt(c) /\ WalTypeOK
  BY CrashTypes
<1>3. /\ UNCHANGED <<files, seed, Past>> /\ \E k : Calls(c, "ckmark", k)
      /\ \E marks : Shm(H, shm.hdr[1], shm.nBackfill, marks, shm.aPgno)
  BY <1>2, CkPutDoes, PastKept DEF CtlAt
<1>4. QED BY <1>1, <1>3, ShmIsKept, CkIdle, CkCallsCrash

LEMMA CkLock0Crash == ASSUME Ctl, Heads, Crash, NEW c \in Conn, CkLock0(c) PROVE Crash'
<1>1. pc[c] \in CkPc
  BY DEF CkLock0, CkPc, CkRunPc
<1>2. /\ Quiet /\ UNCHANGED Past
      /\ \E to \in {"cksync", "ckend"} : \E k : Calls(c, to, k)
  BY CrashTypes, CkLock0Does, PastKept, CkMoved
<1>3. QED BY <1>1, <1>2, ShmIsKept, CkIdle, CkCallsCrash DEF Quiet

LEMMA CkFailsCrash == ASSUME Ctl, Heads, Crash, NEW c \in Conn, CkFails(c) PROVE Crash'
<1>1. /\ UNCHANGED <<shm, files, seed, Past>> /\ pc[c] \in CkPc
      /\ \E to \in {"closing", "ckend"} : \E k : Calls(c, to, k)
  BY CrashTypes, CkFailsDoes, PastKept, CkMoved DEF CkPc, CkRunPc, CkWritePc
<1>2. QED BY <1>1, ShmIsKept, CkIdle, CkCallsCrash

LEMMA CkEndCrash == ASSUME Ctl, Heads, Crash, NEW c \in Conn, CkEnd(c) PROVE Crash'
<1>1. pc[c] = "ckend" /\ Quiet /\ UNCHANGED Past /\ mine[c] = None
  BY CrashTypes, CkEndDoes, PastKept, CkIdle DEF CkPc
<1>2. \E o : Does(c, "idle", NoCall, o, cached[c], mine[c]) /\ o.nCkpt = w[c].nCkpt
  <2> DEFINE o == [w[c] EXCEPT !.hdr = ZeroHdr]
  <2>1. o.nCkpt = w[c].nCkpt
    BY CrashTypes DEF WalObj
  <2>2. Does(c, "idle", NoCall, o, cached[c], mine[c]) \/ Does(c, "idle", NoCall, w[c], cached[c], mine[c])
    BY CrashTypes, CkEndDoes DEF Returns
  <2> HIDE DEF o
  <2>3. QED BY <2>1, <2>2
<1>3. QED BY <1>1, <1>2, ShmIsKept, ReaderCrash DEF Aside, Quiet

\* A connection that closes has no part in what a recovery finds.
LEMMA GoneCrashAt == ASSUME NEW c \in Conn, w'[c] = FreshWal, mine'[c] = None, pc'[c] \in {"idle", "closed"} PROVE CrashAt(c)'
<1>1. ~InWrite(c)' /\ w'[c].nCkpt = 0
  BY DEF InWrite, FreshWal
<1>2. QED BY <1>1 DEF CrashAt, CountAt, WriterAt, RecoverAt, CkSizeAt

LEMMA CloseCrash == ASSUME Ctl, Heads, Crash, NEW c \in Conn, Close(c) PROVE Crash'
<1>1. pc[c] = "idle" /\ mine[c] = None /\ UNCHANGED <<shm, files, seed, Past>>
  BY CrashTypes, CloseDoes, NoWriter, PastKept
<1>2. CASE Goes(c) /\ \E d \in Conn \ {c} : pc[d] # "closed"
  <2>1. /\ Others(c) /\ pc'[c] = "closed" /\ w'[c] = FreshWal /\ mine'[c] = None
    BY <1>2, OthersKept DEF Goes
  <2>2. \E d \in Conn : pc[d] # "closed" /\ pc'[d] # "closed"
    BY <1>2, <2>1 DEF Others
  <2>3. \E d \in Conn : pc[d] # "closed"
    BY <1>2
  <2>4. \E d \in Conn : pc'[d] # "closed"
    BY <2>2
  <2>5. CrashAt(c)' /\ (CommitFrameWritten(c)' <=> CommitFrameWritten(c))
    BY <1>1, <2>1, GoneCrashAt DEF CommitFrameWritten
  <2>6. H' = H /\ floor \in Nat \ {0} /\ seed \in Nat /\ seed >= seed /\ UNCHANGED <<wal, walDisk, db, floor, seed>>
    BY <1>1, CrashIs DEF H, files, Past, Ctl, WalTypeOK
  <2>7. QED BY <1>1, <2>1, <2>3, <2>4, <2>5, <2>6, QuietCrash DEF Past
<1>3. CASE Calls(c, "hdr0", [NoCall EXCEPT !.mode = "close"])
  BY <1>1, <1>3, ShmIsKept, CkCallsCrash
<1>4. QED BY <1>2, <1>3, CrashTypes, CloseDoes

\* Steps of a checkpoint between its writes.
LEMMA CkQuietCrash ==
  ASSUME Ctl, Heads, Crash, NEW c \in Conn, pc[c] \in CkWritePc, NEW to \in CkWritePc \cup {"ckend"}, Moves(c, to),
         ShmKept(c), shm'.aPgno = shm.aPgno, UNCHANGED <<wal, db, seed, hist, limbo, lossy>>,
         walDisk' \in {walDisk, wal}, floor' \in Nat \ {0}, CkSizeAt(c)'
  PROVE  Crash'
<1>1. Others(c) /\ pc'[c] = to /\ call'[c] = call[c] /\ w'[c] = w[c] /\ mine'[c] = mine[c] /\ mine[c] = None
  BY OthersKept, CkIdle DEF Moves, CkPc, CkRunPc
<1>2. H' = H
  BY DEF ShmKept
<1>3. CrashAt(c)'
  <2>1. CountAt(c)
    BY CrashIs
  <2>2. ~InWrite(c)'
    BY <1>1 DEF InWrite
  <2>3. pc[c] \notin RecoverPc /\ to \notin RecoverPc
    BY DEF RecoverPc, CkWritePc
  <2>4. CountAt(c)'
    BY <1>1, <1>2, <2>1, <2>2, <2>3 DEF CountAt, H, RecoverPc
  <2>5. QED BY <1>1, <2>2, <2>3, <2>4 DEF CrashAt, WriterAt, RecoverAt, RecoverPc
<1>4. pc[c] # "closed" /\ pc'[c] # "closed" /\ ~CommitFrameWritten(c) /\ ~CommitFrameWritten(c)'
  BY <1>1 DEF CommitFrameWritten, CkWritePc
<1>5. seed \in Nat /\ seed >= seed /\ seed' = seed
  BY DEF Ctl, WalTypeOK
<1>6. \A i \in 1..mxH : shm'.aPgno[i] = shm.aPgno[i]
  OBVIOUS
<1>7. shm'.nBackfill = shm.nBackfill \/ Whole'
  BY DEF ShmKept
<1>8. QED BY <1>1, <1>2, <1>3, <1>4, <1>5, <1>6, <1>7, QuietCrash

LEMMA CkSyncCrash == ASSUME Ctl, Heads, Crash, NEW c \in Conn, CkSync(c) PROVE Crash'
<1>1. /\ pc[c] = "cksync" /\ Moves(c, "ckpage") /\ walDisk' = wal /\ UNCHANGED <<shm, wal, db, seed>>
  BY CrashTypes, CkSyncDoes
<1>2. UNCHANGED <<hist, limbo, lossy>> /\ floor' = Len(hist)
  BY DEF CkSync
<1>3. Len(hist) \in Nat \ {0}
  <2>1. hist \in Seq(Seq(Int)) /\ hist # <<>>
    BY CrashIs
  <2>2. QED BY <2>1
<1>4. CkSizeAt(c)'
  <2>1. pc'[c] = "ckpage"
    BY <1>1, OthersKept DEF Moves
  <2>2. QED BY <2>1 DEF CkSizeAt
<1>5. ShmKept(c) /\ pc[c] \in CkWritePc /\ "ckpage" \in CkWritePc
  BY <1>1, ShmIsKept DEF CkWritePc
<1>6. QED BY <1>1, <1>2, <1>3, <1>4, <1>5, CkQuietCrash

LEMMA CkDbSyncCrash == ASSUME Ctl, Heads, Crash, NEW c \in Conn, CkDbSync(c) PROVE Crash'
<1>1. /\ pc[c] = "ckdbsync" /\ Moves(c, "ckdone") /\ UNCHANGED <<shm, wal, walDisk, db, seed, Past>>
  BY CrashTypes, CkDbSyncDoes, PastKept
<1>2. CkSizeAt(c)'
  <2>1. pc'[c] = "ckdone" /\ call'[c] = call[c] /\ H' = H /\ mxH' = mxH /\ Size(H)' = Size(H)
    BY <1>1, OthersKept DEF Moves, H, mxH, Size
  <2>2. CkSizeAt(c)
    BY CrashIs
  <2>3. QED BY <1>1, <2>1, <2>2 DEF CkSizeAt
<1>3. ShmKept(c) /\ pc[c] \in CkWritePc /\ "ckdone" \in CkWritePc /\ floor \in Nat \ {0}
  BY <1>1, ShmIsKept, CrashIs DEF CkWritePc
<1>4. QED BY <1>1, <1>2, <1>3, CkQuietCrash DEF Past

LEMMA CkDoneCrash == ASSUME Ctl, Heads, Data, Crash, NEW c \in Conn, CkDone(c) PROVE Crash'
<1>1. /\ pc[c] = "ckdone" /\ Moves(c, "ckend") /\ UNCHANGED <<files, seed, Past>>
      /\ Shm(H, shm.hdr[1], call[c].mxSafeFrame, shm.aReadMark, shm.aPgno)
  BY CrashTypes, CkDoneDoes, PastKept
<1>2. UNCHANGED <<wal, walDisk, db>> /\ pc[c] \in CkWritePc
  BY <1>1 DEF files, CkWritePc
<1>3. H' = H /\ mxH' = mxH /\ Size(H)' = Size(H) /\ shm'.nBackfill = call[c].mxSafeFrame /\ shm'.aPgno = shm.aPgno
  BY <1>1, <1>2 DEF Shm, H, mxH, Size
<1>4. mxH \in Nat /\ call[c].mxSafeFrame \in Nat /\ w[c].hdr.mxFrame \in Nat
  BY DataIs
<1>5. mxH > 0
  BY <1>2, <1>4, CkIs
<1>6. call[c].mxSafeFrame >= mxH => Len(db) = Size(H)
  BY <1>1, CrashIs DEF CkSizeAt
<1>7. Whole'
  BY <1>2, <1>3, <1>4, <1>5, <1>6 DEF Whole
<1>8. CkSizeAt(c)'
  <2>1. pc'[c] = "ckend"
    BY <1>1, OthersKept DEF Moves
  <2>2. QED BY <2>1 DEF CkSizeAt
<1>9. ShmKept(c)
  BY <1>3, <1>7 DEF ShmKept
<1>10. floor \in Nat \ {0}
  BY CrashIs
<1>11. QED BY <1>1, <1>2, <1>3, <1>8, <1>9, <1>10, CkQuietCrash DEF Past

\* A checkpoint writes pages that a recovery takes from the log.
LEMMA FileCrash ==
  ASSUME Ctl, Heads, Data, Crash, NEW c \in Conn, pc[c] \in CkWritePc, NEW to \in CkWritePc, NEW k, Calls(c, to, k),
         UNCHANGED <<shm, wal, walDisk, seed, Past>>,
         \A p \in 1..H.nPage : F(mxH, p) = 0 => DbAt(p)' = DbAt(p),
         CkSizeAt(c)'
  PROVE  Crash'
<1>1. Others(c) /\ pc'[c] = to /\ call'[c] = k /\ w'[c] = w[c] /\ mine'[c] = mine[c] /\ mine[c] = None
  BY OthersKept, CkIdle DEF Calls, CkPc, CkRunPc
<1>2. H' = H /\ mxH' = mxH /\ shm'.nBackfill = shm.nBackfill
  BY DEF H, mxH
<1>3. pc[c] # "closed"
  BY DEF CkWritePc
<1>4. /\ WalTypeOK /\ wal \in Log /\ mxH \in Nat /\ H.nPage \in Nat /\ mxH <= Len(wal.frames) /\ Len(wal.frames) \in Nat
      /\ shm.nBackfill \in Nat /\ H \in Hdr /\ seed \in Nat /\ w[c].hdr.mxFrame \in Nat /\ Size(H) \in Nat
  BY <1>3, LiveIs, DataIs
<1>5. /\ shm.nBackfill < mxH /\ mxH > 0 /\ H.nPage > 0
      /\ \A d \in Conn \ {c} : pc[d] \notin CkRunPc
  BY <1>4, CkIs
<1>6. Size(H) = H.nPage /\ Size(H)' = H.nPage
  BY <1>2, <1>5 DEF Size
<1>7. \A m, p : F(m, p)' = F(m, p)
  BY DEF F
<1>8. \A p \in 1..H.nPage : At(mxH, p)' = At(mxH, p)
  BY <1>2, <1>7 DEF At
<1>9. Current' = Current
  BY <1>2, <1>6, <1>8 DEF Current, LogView, mxH
<1>10. H.isInit
  <2>1. pc[c] \notin BlankPc
    BY DEF BlankPc, CkWritePc
  <2>2. QED BY <2>1, Recognised
<1>11. Live /\ Live'
  BY <1>1, <1>2, <1>3, <1>10 DEF Live, H, CkWritePc
<1>12. /\ DrawnInv /\ HistOK /\ LogInv /\ Covers(H) /\ Commits(H) /\ EndOfLog /\ Last(hist) = Current /\ ~lossy
  BY <1>11, CrashIs
<1>13. DrawnInv' /\ HistOK'
  <2>1. seed >= seed /\ seed' \in Nat /\ seed' >= seed
    BY <1>4
  <2>2. DrawnInv'
    BY <1>4, <1>12, <2>1, SameDrawn
  <2>3. QED BY <1>12, <2>2 DEF HistOK, Past
<1>14. \A m, p : LF(m, p)' = LF(m, p)
  BY DEF LF, Pgs
<1>15. \A p : LF(mxH, p) = F(mxH, p)
  BY <1>4, <1>5, <1>12, CountsIs DEF Covers, Counts, mxH
<1>16. ASSUME NEW n \in Nat, n > mxH, Cut(n)
       PROVE  Cut(n)'
  <2>1. limbo # None /\ wal.frames[n].nTruncate = Len(limbo) /\ limbo' = limbo /\ limbo \in Seq(Int)
    BY <1>12, <1>16 DEF Cut, Past, HistOK, Image
  <2>2. ASSUME NEW p \in 1..Len(limbo) PROVE LAt(n, p)' = LAt(n, p)
    <3>1. CASE LF(n, p) # 0
      BY <1>14, <3>1 DEF LAt
    <3>2. CASE LF(n, p) = 0
      <4>1. p \in Nat \ {0}
        BY <2>1
      <4>2. p <= H.nPage
        BY <1>4, <1>6, <1>16, <3>2, <4>1 DEF Cut
      <4>3. LF(mxH, p) <= 0 /\ LF(mxH, p) \in 0..mxH
        BY <1>4, <1>16, <3>2, LFOfPrefix, LFIs, mxH \in 0..n
      <4>4. F(mxH, p) = 0
        BY <1>4, <1>15, <4>3
      <4>5. DbAt(p)' = DbAt(p)
        BY <4>1, <4>2, <4>4, <1>4
      <4>6. QED BY <1>14, <3>2, <4>5 DEF LAt
    <3>3. QED BY <3>1, <3>2
  <2>3. QED BY <1>2, <1>6, <1>14, <1>16, <2>1, <2>2 DEF Cut
<1>17. EndOfLog'
  <2>1. Committing' <=> Committing
    <3>1. ~CommitFrameWritten(c) /\ ~CommitFrameWritten(c)'
      BY <1>1 DEF CommitFrameWritten, CkWritePc
    <3>2. ASSUME NEW d \in Conn PROVE CommitFrameWritten(d)' <=> CommitFrameWritten(d)
      BY <1>1, <3>1 DEF CommitFrameWritten, Others
    <3>3. QED BY <3>2 DEF Committing
  <2>2. LastCommit(wal)' = LastCommit(wal) /\ LastCommit(wal) \in Nat
    BY <1>4, LastCommitIn
  <2>3. PICK n : n = LastCommit(wal)
    OBVIOUS
  <2>4. n = mxH \/ Committing \/ (n > mxH /\ Cut(n))
    BY <1>5, <1>12, <2>3 DEF EndOfLog
  <2>5. n = mxH' \/ Committing' \/ (n > mxH' /\ Cut(n)')
    BY <1>2, <1>16, <2>1, <2>2, <2>3, <2>4
  <2>6. QED BY <1>2, <1>5, <2>2, <2>3, <2>5 DEF EndOfLog, Cut
<1>18. Whole'
  BY <1>2, <1>4, <1>5 DEF Whole
<1>19. Covers(H)' /\ Commits(H)'
  <2>1. PICK h : h = H
    OBVIOUS
  <2>2. (Covers(h)' <=> Covers(h)) /\ (Commits(h)' <=> Commits(h))
    BY <1>4, <2>1, SameCounts DEF mxH
  <2>3. QED BY <1>2, <1>12, <2>1, <2>2 DEF Covers, Counts, Commits
<1>20. LogInv'
  BY <1>9, <1>11, <1>12, <1>17, <1>18, <1>19 DEF LogInv, Past
<1>21. \A d \in Conn \ {c} : CkSizeAt(d)'
  BY <1>1, <1>5 DEF CkSizeAt, Others, CkRunPc, CkWritePc
<1>22. CrashAt(c)'
  <2>1. CountAt(c)
    BY CrashIs
  <2>2. ~InWrite(c)'
    BY <1>1 DEF InWrite
  <2>3. pc[c] # "recover0" /\ to # "recover0"
    BY DEF CkWritePc
  <2>4. CountAt(c)'
    BY <1>1, <1>2, <2>1, <2>2, <2>3 DEF CountAt
  <2>5. QED BY <1>1, <2>2, <2>3, <2>4 DEF CrashAt, WriterAt, RecoverAt
<1>23. QED BY <1>1, <1>2, <1>13, <1>20, <1>21, <1>22, StepCrash DEF Past

LEMMA CkPageCrash == ASSUME Ctl, Heads, Data, Crash, NEW c \in Conn, CkPage(c) PROVE Crash'
<1> DEFINE x == call[c]
           mx == w[c].hdr.mxFrame
<1>1. /\ WalTypeOK /\ CkStepAt(c) /\ InLogAt(c) /\ x \in Call /\ mx \in Nat /\ x.mxSafeFrame \in Nat
      /\ shm.nBackfill \in Nat /\ mxH \in Nat /\ H.nPage \in Nat
  BY CrashTypes, DataIs DEF CtlAt
<1>2. pc[c] = "ckpage" /\ UNCHANGED <<shm, wal, walDisk, seed, Past>>
  BY <1>1, CkPageDoes, PastKept
<1>3. pc[c] \in CkWritePc /\ "ckpage" \in CkWritePc /\ "cktrunc" \in CkWritePc
  BY <1>2 DEF CkWritePc
<1>4. CASE db' = db /\ Moves(c, "cktrunc")
  <2>1. CkSizeAt(c)'
    BY <1>4, OthersKept DEF Moves, CkSizeAt
  <2>2. \A p : DbAt(p)' = DbAt(p)
    BY <1>4 DEF DbAt
  <2>3. Calls(c, "cktrunc", x)
    BY <1>4 DEF Moves, Calls
  <2>4. QED BY <1>2, <1>3, <2>1, <2>2, <2>3, FileCrash
<1>5. ASSUME NEW t \in Backfills(c),
             \A p \in Nat \ {0} : (IF p <= Len(db') THEN db'[p] ELSE 0)
                                    = IF p = t[1] THEN wal.frames[t[2]].data
                                      ELSE IF p <= Len(db) THEN db[p] ELSE 0,
             Calls(c, "ckpage", [x EXCEPT !.todo = x.todo \ {t}])
      PROVE  Crash'
  <2>1. CkSizeAt(c)'
    <3>1. pc'[c] = "ckpage"
      BY <1>5, OthersKept DEF Calls
    <3>2. QED BY <3>1 DEF CkSizeAt
  <2>2. /\ mx <= mxH /\ (\A z \in x.todo : z[2] = F(mx, z[1])) /\ shm.nBackfill < mx
    BY <1>3, CkIs
  <2>3. t[2] = F(mx, t[1]) /\ t[1] \in Nat /\ t[2] \in Nat /\ t[2] > 0
    <3>1. t \in x.todo /\ x.nBackfill < t[2] /\ x.nBackfill \in Nat /\ x.todo \subseteq Nat \X Nat
      BY <1>1, <1>5 DEF Backfills, Call
    <3>2. t[1] \in Nat /\ t[2] \in Nat
      BY <3>1
    <3>3. QED BY <2>2, <3>1, <3>2
  <2>4. ASSUME NEW p \in 1..H.nPage, F(mxH, p) = 0 PROVE DbAt(p)' = DbAt(p)
    <3>1. F(mx, p) <= F(mxH, p)
      BY <1>1, <2>2, FOfPrefix, mx \in 0..mxH
    <3>2. p # t[1] /\ p \in Nat \ {0}
      BY <1>1, <2>3, <2>4, <3>1
    <3>3. QED BY <1>5, <3>2 DEF DbAt
  <2> DEFINE k == [x EXCEPT !.todo = x.todo \ {t}]
  <2>5. Calls(c, "ckpage", k)
    BY <1>5
  <2> HIDE DEF k
  <2>6. QED BY <1>2, <1>3, <2>1, <2>4, <2>5, FileCrash
<1>6. QED BY <1>1, <1>4, <1>5, CkPageDoes

LEMMA CkTruncCrash == ASSUME Ctl, Heads, Data, Crash, NEW c \in Conn, CkTrunc(c) PROVE Crash'
<1> DEFINE x == call[c]
<1>1. /\ WalTypeOK /\ x \in Call /\ w[c].hdr.mxFrame \in Nat /\ x.mxSafeFrame \in Nat
      /\ shm.nBackfill \in Nat /\ mxH \in Nat /\ H.nPage \in Nat /\ db \in Seq(Int)
  BY CrashTypes, DataIs DEF WalTypeOK
<1>2. pc[c] = "cktrunc" /\ UNCHANGED <<shm, wal, walDisk, seed, Past>>
  BY <1>1, CkTruncDoes, PastKept
<1>3. pc[c] \in CkWritePc /\ "ckdbsync" \in CkWritePc /\ "ckdone" \in CkWritePc
  BY <1>2 DEF CkWritePc
<1>4. /\ Follows(w[c].hdr) /\ x.mxSafeFrame <= w[c].hdr.mxFrame /\ w[c].hdr.mxFrame <= mxH /\ H.nPage > 0
  BY <1>3, CkIs
<1>5. H' = H /\ mxH' = mxH
  BY <1>2 DEF H, mxH
<1>6. CASE /\ x.mxSafeFrame = mxH /\ db' \in Seq(Int) /\ Len(db') = w[c].hdr.nPage
           /\ \A p \in 1..w[c].hdr.nPage : db'[p] = IF p <= Len(db) THEN db[p] ELSE 0
           /\ Moves(c, "ckdbsync")
  <2>1. w[c].hdr = H
    BY <1>1, <1>4, <1>6 DEF Follows
  <2>2. CkSizeAt(c)'
    BY <1>4, <1>5, <1>6, <2>1 DEF CkSizeAt, Size
  <2>3. \A p \in 1..H.nPage : DbAt(p)' = DbAt(p)
    BY <1>1, <1>6, <2>1 DEF DbAt
  <2>4. Calls(c, "ckdbsync", x)
    BY <1>6 DEF Moves, Calls
  <2>5. QED BY <1>2, <1>3, <2>2, <2>3, <2>4, FileCrash
<1>7. CASE x.mxSafeFrame # mxH /\ db' = db /\ Moves(c, "ckdone")
  <2>1. CkSizeAt(c)'
    <3>1. call'[c] = x
      BY <1>7, OthersKept DEF Moves
    <3>2. x.mxSafeFrame < mxH
      BY <1>1, <1>4, <1>7
    <3>3. QED BY <1>1, <1>5, <3>1, <3>2 DEF CkSizeAt
  <2>2. \A p : DbAt(p)' = DbAt(p)
    BY <1>7 DEF DbAt
  <2>3. Calls(c, "ckdone", x)
    BY <1>7 DEF Moves, Calls
  <2>4. QED BY <1>2, <1>3, <2>1, <2>2, <2>3, FileCrash
<1>8. QED
  <2>1. x.mxSafeFrame # mxH => db' = db /\ Goto(c, "ckdone")
    BY DEF CkTrunc, mxH, H
  <2>2. x.mxSafeFrame = mxH \/ Moves(c, "ckdone")
    <3>1. Goto(c, "ckdone") => Moves(c, "ckdone")
      <4>1. UNCHANGED <<call, w, cached, mine>>
        BY DEF CkTrunc, ghosts
      <4>2. QED BY <1>1, <4>1, SameUpdate DEF Moves, Does, Goto
    <3>2. QED BY <2>1, <3>1
  <2>3. CASE x.mxSafeFrame # mxH
    BY <1>7, <2>1, <2>2, <2>3
  <2>4. CASE x.mxSafeFrame = mxH
    <3>1. ~(Moves(c, "ckdone"))
      <4>1. Goto(c, "ckdbsync")
        BY <2>4 DEF CkTrunc, mxH, H
      <4>2. pc'[c] = "ckdbsync"
        BY <1>1, <4>1 DEF Goto, WalTypeOK
      <4>3. QED BY <4>2, OthersKept DEF Moves
    <3>2. QED BY <1>1, <1>6, <3>1, CkTruncDoes
  <2>5. QED BY <2>3, <2>4
=============================================================================
