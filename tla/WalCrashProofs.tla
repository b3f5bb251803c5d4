--------------------------- MODULE WalCrashProofs ---------------------------
(***************************************************************************)
(* A recovery of the write-ahead log at any moment finds the last commit,  *)
(* or one that is being made or was cut off, for any number of             *)
(* connections, read marks, frames and pages; and the log that is deleted  *)
(* by the last connection to close has left everything in the database.    *)
(***************************************************************************)
EXTENDS WalLogProofs

-----------------------------------------------------------------------------
(* Steps of a writer that publish nothing *)

LEMMA WriterIs ==
  ASSUME Ctl, Heads, Crash, NEW c \in Conn, InWrite(c)
  PROVE  /\ WalTypeOK /\ CtlAt(c) /\ ModeAt(c) /\ TransAt(c) /\ w[c] \in WalObj /\ call[c] \in Call
         /\ pc[c] \notin {"closed"} \cup RecoverPc \cup CkPc /\ WRITE \in exclMask[c] /\ H.isInit /\ Live
         /\ CountAt(c) /\ WriterAt(c) /\ DrawnInv /\ Covers(H) /\ Commits(H) /\ Whole /\ EndOfLog
         /\ Last(hist) = Current /\ ~lossy /\ HistOK
         /\ w[c].hdr \in Hdr /\ w[c].hdr.mxFrame \in Nat /\ w[c].hdr.salt \in Nat /\ w[c].hdr.nPage \in Nat
         /\ w[c].nCkpt \in Nat /\ call[c].iFrame \in Nat /\ call[c].data \in Nat
         /\ w[c].hdr.mxFrame <= Len(wal.frames) /\ w[c].hdr.mxFrame <= MaxFrame
         /\ seed \in Nat
<1>1. WalTypeOK /\ CtlAt(c) /\ ModeAt(c) /\ TransAt(c) /\ w[c] \in WalObj /\ call[c] \in Call
  BY CrashTypes
<1>2. pc[c] \notin {"closed"} \cup RecoverPc \cup CkPc
  BY <1>1 DEF ModeAt, TransAt, InWrite, HdrPc, RecoverPc, CkPc, CkRunPc, CkWritePc, CkMode
<1>3. WRITE \in exclMask[c]
  BY <1>1 DEF CtlAt, LocksAt
<1>4. H.isInit
  BY Recognised
<1>5. Live
  BY <1>2, <1>4 DEF Live
<1>6. w[c].hdr \in Hdr /\ w[c].hdr.mxFrame \in Nat /\ w[c].hdr.salt \in Nat /\ w[c].hdr.nPage \in Nat /\ w[c].nCkpt \in Nat
  BY <1>1, Types, HdrIs DEF WalObj
<1>7. call[c].iFrame \in Nat /\ call[c].data \in Nat
  BY <1>1 DEF Call
<1>8. w[c].hdr.mxFrame <= Len(wal.frames) /\ w[c].hdr.mxFrame <= MaxFrame
  BY <1>2, InMaxFrame
<1>9. seed \in Nat
  BY <1>1 DEF WalTypeOK
<1>10. QED BY <1>1, <1>2, <1>3, <1>4, <1>5, <1>6, <1>7, <1>8, <1>9, CrashIs

\* What has to be shown of such a step.
LEMMA WriterCrash ==
  ASSUME Ctl, Heads, Crash, NEW c \in Conn, NEW to, NEW k, NEW o, NEW ca, NEW mi, Does(c, to, k, o, ca, mi),
         ShmKept(c), UNCHANGED <<wal, db, Past>>, walDisk' \in {walDisk, wal}, seed' \in Nat, seed' >= seed,
         pc[c] # "closed", to \notin {"closed", "recover0", "ckdbsync", "ckdone"},
         CommitFrameWritten(c)' <=> CommitFrameWritten(c), CountAt(c)', WriterAt(c)'
  PROVE  Crash'
<1>1. Others(c) /\ pc'[c] = to
  BY OthersKept
<1>2. CrashAt(c)'
  BY <1>1 DEF CrashAt, RecoverAt, CkSizeAt
<1>3. floor \in Nat \ {0}
  BY CrashIs
<1>4. \A i \in 1..mxH : shm'.aPgno[i] = shm.aPgno[i]
  BY DEF ShmKept
<1>5. pc'[c] # "closed"
  BY <1>1
<1>6. QED BY <1>1, <1>2, <1>3, <1>4, <1>5, QuietCrash DEF ShmKept, Past

LEMMA BeginWriteCrash == ASSUME Ctl, Heads, Crash, NEW c \in Conn, BeginWrite(c) PROVE Crash'
<1>1. /\ pc[c] = "idle" /\ w[c].readLock >= 0 /\ ~InWrite(c) /\ H = w[c].hdr
      /\ Does(c, "idle", call[c], w[c], cached[c], View(c)) /\ UNCHANGED <<shm, files, seed, Past>>
  BY CrashTypes, BeginWriteDoes, PastKept
<1>2. /\ pc'[c] = "idle" /\ call'[c] = call[c] /\ w'[c] = w[c] /\ H' = H /\ mxH' = mxH
      /\ UNCHANGED <<wal, walDisk, db, shm>> /\ call[c].mode = "passive" /\ w[c].svpt = None
  BY <1>1, OthersKept, CrashTypes DEF H, mxH, files, ModeAt, TransAt, NoCall
<1>3. H.isInit /\ Live
  BY <1>1, Recognised DEF Live
<1>4. Covers(H) /\ CountAt(c) /\ mxH \in Nat
  BY <1>1, <1>3, CrashIs, LiveIs
<1>5. CountAt(c)'
  BY <1>1, <1>2, <1>4 DEF CountAt
<1>6. Covers(w[c].hdr)' /\ Counts(w[c].hdr)'
  BY <1>1, <1>2, <1>4 DEF Covers, Counts, Links, Chain
<1>7. (mxH' + 1)..w'[c].hdr.mxFrame = {}
  BY <1>1, <1>2, <1>4 DEF mxH
<1>8. Breaks(c)' /\ Begins(c)' /\ GivenUp(c)'
  BY <1>1, <1>2 DEF Breaks, Begins, GivenUp
<1>9. WriterAt(c)'
  BY <1>2, <1>6, <1>7, <1>8 DEF WriterAt, InFrames
<1>10. ~CommitFrameWritten(c) /\ ~CommitFrameWritten(c)'
  BY <1>1, <1>2 DEF CommitFrameWritten
<1>11. seed \in Nat /\ seed >= seed
  BY DEF Ctl, WalTypeOK
<1>12. ShmKept(c)
  BY <1>1, ShmIsKept
<1>13. QED BY <1>1, <1>2, <1>5, <1>9, <1>10, <1>11, <1>12, WriterCrash

\* The writer stands where it stood.
LEMMA SameWriter ==
  ASSUME NEW c \in Conn, WriterAt(c), pc[c] \in {"idle", "restart"}, pc'[c] \in {"idle", "restart"},
         InWrite(c), UNCHANGED <<wal, shm, limbo>>, w'[c].hdr = w[c].hdr,
         w'[c].svpt # None /\ UndoTo(c)' > 0 => w'[c].svpt.cksum = Chain(wal, UndoTo(c)'),
         Breaks(c)'
  PROVE  WriterAt(c)'
<1>1. /\ Counts(w[c].hdr) /\ Covers(w[c].hdr)
      /\ \A i \in (mxH + 1)..w[c].hdr.mxFrame : wal.frames[i].nTruncate = 0
      /\ Begins(c)
  BY DEF WriterAt, InFrames
<1>2. Counts(w[c].hdr)' /\ Covers(w[c].hdr)'
  BY <1>1 DEF Counts, Covers, Links, Chain
<1>3. mxH' = mxH /\ H' = H
  BY DEF mxH, H
<1>4. Begins(c)' /\ GivenUp(c)'
  BY <1>1, <1>3 DEF Begins, GivenUp
<1>5. QED BY <1>1, <1>2, <1>3, <1>4 DEF WriterAt, InFrames

LEMMA SavepointCrash == ASSUME Ctl, Heads, Crash, NEW c \in Conn, Savepoint(c) PROVE Crash'
<1> DEFINE s == [mxFrame |-> w[c].hdr.mxFrame, cksum |-> w[c].hdr.cksum, nCkpt |-> w[c].nCkpt, mine |-> mine[c]]
           o == [w[c] EXCEPT !.svpt = s]
<1>1. /\ pc[c] = "idle" /\ InWrite(c) /\ Quiet /\ UNCHANGED Past /\ Does(c, "idle", call[c], o, cached[c], mine[c])
  BY CrashTypes, SavepointDoes, PastKept
<1>2. WriterAt(c) /\ CountAt(c) /\ w[c] \in WalObj /\ seed \in Nat
  BY <1>1, WriterIs
<1>3. o.hdr = w[c].hdr /\ o.nCkpt = w[c].nCkpt /\ o.svpt = s /\ s.mxFrame = w[c].hdr.mxFrame /\ s.cksum = w[c].hdr.cksum
      /\ s.nCkpt = w[c].nCkpt
  BY <1>2 DEF WalObj
<1> HIDE DEF o, s
<1>4. pc'[c] = "idle" /\ call'[c] = call[c] /\ w'[c] = o /\ mine'[c] = mine[c] /\ H' = H /\ UNCHANGED <<shm, wal, walDisk, db, seed, limbo>>
  BY <1>1, OthersKept DEF Quiet, files, H, Past
<1>5. UndoTo(c)' = w[c].hdr.mxFrame
  BY <1>3, <1>4 DEF UndoTo
<1>6. w'[c].svpt # None /\ UndoTo(c)' > 0 => w'[c].svpt.cksum = Chain(wal, UndoTo(c)')
  BY <1>1, <1>2, <1>3, <1>4, <1>5 DEF WriterAt, Covers, InFrames
<1>7. Breaks(c)'
  BY <1>1, <1>2, <1>4 DEF WriterAt, Breaks, Written, InFrames
<1>8. WriterAt(c)'
  BY <1>1, <1>2, <1>3, <1>4, <1>6, <1>7, SameWriter
<1>9. CountAt(c)'
  BY <1>1, <1>2, <1>3, <1>4 DEF CountAt, InWrite
<1>10. ~CommitFrameWritten(c) /\ ~CommitFrameWritten(c)' /\ seed >= seed
  BY <1>1, <1>2, <1>4 DEF CommitFrameWritten
<1>11. ShmKept(c)
  BY <1>4, ShmIsKept
<1>12. QED BY <1>1, <1>2, <1>4, <1>8, <1>9, <1>10, <1>11, WriterCrash

\* The pages of a call are drawn last.
LEMMA StartsCrash ==
  ASSUME Ctl, Heads, Crash, NEW c \in Conn, NEW list, NEW m, NEW n, Starts(c, list, m, n), UNCHANGED Past
  PROVE  Crash'
<1> DEFINE k == [NoCall EXCEPT !.list = list, !.nTruncate = n, !.data = seed, !.mode = "write"]
           mi == Changed(mine[c], Range(list), m, seed)
<1>1. /\ pc[c] = "idle" /\ InWrite(c) /\ Does(c, "restart", k, w[c], cached[c], mi)
      /\ UNCHANGED <<shm, files>> /\ seed' = seed + 1
  BY DEF Starts
<1>2. WriterAt(c) /\ CountAt(c) /\ DrawnInv /\ seed \in Nat /\ WalTypeOK
  BY <1>1, WriterIs
<1>3. k.data = seed
  BY DEF NoCall
<1> HIDE DEF k, mi
<1>4. pc'[c] = "restart" /\ call'[c] = k /\ w'[c] = w[c] /\ H' = H /\ UNCHANGED <<shm, wal, walDisk, db, limbo>>
  BY <1>1, OthersKept DEF files, H, Past
<1>5. UndoTo(c)' = UndoTo(c)
  BY <1>4 DEF UndoTo
<1>6. w'[c].svpt # None /\ UndoTo(c)' > 0 => w'[c].svpt.cksum = Chain(wal, UndoTo(c)')
  BY <1>1, <1>2, <1>4, <1>5 DEF WriterAt
<1>7. Breaks(c)'
  <2>1. ASSUME NEW i \in 1..Len(wal.frames) PROVE wal.frames[i].prev[1] # seed
    <3>1. wal \in Log /\ wal.frames[i].prev[1] \in Nat
      BY <1>2, LogIs DEF WalTypeOK
    <3>2. wal.frames[i].prev[1] < seed
      BY <1>2 DEF DrawnInv
    <3>3. QED BY <1>2, <3>1, <3>2
  <2>2. QED BY <1>3, <1>4, <2>1 DEF Breaks
<1>8. WriterAt(c)'
  BY <1>1, <1>2, <1>4, <1>6, <1>7, SameWriter
<1>9. CountAt(c)'
  BY <1>1, <1>2, <1>4 DEF CountAt, InWrite
<1>10. ~CommitFrameWritten(c) /\ ~CommitFrameWritten(c)' /\ seed' >= seed /\ seed' \in Nat
  BY <1>1, <1>2, <1>4 DEF CommitFrameWritten
<1>11. ShmKept(c)
  BY <1>4, ShmIsKept
<1>12. QED BY <1>1, <1>2, <1>4, <1>8, <1>9, <1>10, <1>11, WriterCrash

LEMMA SpillCrash == ASSUME Ctl, Heads, Crash, NEW c \in Conn, Spill(c) PROVE Crash'
<1>1. \E list \in Seq(Nat \ {0}), m \in Nat, n \in Nat : Starts(c, list, m, n)
  BY CrashTypes, SpillDoes
<1>2. QED BY <1>1, PastKept, StartsCrash

LEMMA CommitCrash == ASSUME Ctl, Heads, Crash, NEW c \in Conn, Commit(c) PROVE Crash'
<1>1. \E list \in Seq(Nat \ {0}), m \in Nat, n \in Nat : Starts(c, list, m, n)
  BY CrashTypes, CommitDoes
<1>2. QED BY <1>1, PastKept, StartsCrash

LEMMA SavepointUndoCrash == ASSUME Ctl, Heads, Data, Crash, NEW c \in Conn, SavepointUndo(c) PROVE Crash'
<1> DEFINE s == w[c].svpt
           to == UndoTo(c)
           o1 == [w[c] EXCEPT !.hdr = [w[c].hdr EXCEPT !.mxFrame = to, !.cksum = s.cksum], !.svpt = None]
           o2 == [w[c] EXCEPT !.svpt = None]
<1>1. /\ pc[c] = "idle" /\ InWrite(c) /\ s # None /\ UNCHANGED <<files, seed, Past>>
      /\ \/ /\ to < w[c].hdr.mxFrame /\ Does(c, "idle", call[c], o1, cached[c], s.mine)
            /\ Shm(H, shm.hdr[1], shm.nBackfill, shm.aReadMark, CleanUp(shm.aPgno, to))
         \/ Does(c, "idle", call[c], o2, cached[c], s.mine) /\ UNCHANGED shm
  BY CrashTypes, SavepointUndoDoes, PastKept
<1>2. /\ WriterAt(c) /\ CountAt(c) /\ w[c] \in WalObj /\ seed \in Nat /\ WRITE \in exclMask[c]
      /\ w[c].hdr \in Hdr /\ w[c].hdr.mxFrame \in Nat /\ w[c].hdr.mxFrame <= MaxFrame
  BY <1>1, WriterIs
<1>3. /\ mxH \in Nat /\ WriteAt(c)
  BY DataIs
<1>4. to \in Nat /\ mxH <= to
  BY <1>1, <1>2, <1>3 DEF WriteAt, SvptAt, UndoTo, WalObj, Svpt
<1>5. call[c].mode = "passive"
  BY <1>1, <1>2, CrashTypes DEF ModeAt, NoCall
<1>6. seed >= seed /\ UNCHANGED <<wal, walDisk, db, limbo>>
  BY <1>1, <1>2 DEF files, Past
<1>7. /\ \A i \in 1..w[c].hdr.mxFrame : Links(wal, i) /\ shm.aPgno[i] = wal.frames[i].pg
      /\ w[c].hdr.mxFrame > 0 => w[c].hdr.salt = wal.salt /\ w[c].hdr.salt > 0
      /\ \A i \in (mxH + 1)..w[c].hdr.mxFrame : wal.frames[i].nTruncate = 0
      /\ to > 0 => s.cksum = Chain(wal, to)
  BY <1>1, <1>2, <1>4 DEF WriterAt, Counts
<1>8. CASE /\ to < w[c].hdr.mxFrame /\ Does(c, "idle", call[c], o1, cached[c], s.mine)
           /\ Shm(H, shm.hdr[1], shm.nBackfill, shm.aReadMark, CleanUp(shm.aPgno, to))
  <2>1. /\ o1.hdr.mxFrame = to /\ o1.hdr.cksum = s.cksum /\ o1.hdr.salt = w[c].hdr.salt /\ o1.svpt = None
        /\ o1.nCkpt = w[c].nCkpt
    BY <1>2 DEF WalObj, Hdr
  <2>2. Does(c, "idle", call[c], o1, cached[c], s.mine)
    BY <1>8
  <2> HIDE DEF o1
  <2>3. /\ pc'[c] = "idle" /\ call'[c] = call[c] /\ w'[c] = o1
    BY <2>2, OthersKept
  <2>4. H' = H /\ mxH' = mxH /\ shm'.nBackfill = shm.nBackfill /\ shm'.aPgno = CleanUp(shm.aPgno, to)
    BY <1>8 DEF Shm, H, mxH
  <2>5. \A i \in 1..to : shm'.aPgno[i] = shm.aPgno[i]
    <3>1. PICK n : n = to
      OBVIOUS
    <3>2. n \in Nat /\ n <= MaxFrame /\ n <= n
      BY <1>2, <1>4, <1>8, <3>1, WalAssumption
    <3>3. \A i \in 1..n : CleanUp(shm.aPgno, n)[i] = shm.aPgno[i]
      BY <3>2, CleanUpKeeps
    <3>4. QED BY <2>4, <3>1, <3>3
  <2> HIDE DEF to
  <2>6. ShmKept(c)
    BY <1>2, <1>3, <1>4, <2>4, <2>5 DEF ShmKept
  <2>7. \A i \in 1..to : Links(wal, i) /\ shm'.aPgno[i] = wal.frames[i].pg
    BY <1>2, <1>4, <1>7, <1>8, <2>5
  <2>8. \A i \in (mxH + 1)..to : wal.frames[i].nTruncate = 0
    BY <1>2, <1>3, <1>4, <1>7, <1>8
  <2>9. wal.salt = w[c].hdr.salt /\ wal.salt > 0
    BY <1>2, <1>4, <1>7, <1>8
  <2>10. Counts(w[c].hdr)' /\ Covers(w[c].hdr)'
    BY <1>6, <1>7, <2>1, <2>3, <2>7, <2>9 DEF Counts, Covers, Links, Chain
  <2>11. Breaks(c)' /\ Begins(c)' /\ GivenUp(c)'
    BY <1>5, <1>6, <2>1, <2>3, <2>9 DEF Breaks, Begins, GivenUp
  <2>12. WriterAt(c)'
    BY <1>6, <2>1, <2>3, <2>4, <2>8, <2>10, <2>11 DEF WriterAt, InFrames
  <2>13. CountAt(c)'
    BY <1>1, <1>2, <2>1, <2>3, <2>4 DEF CountAt
  <2>14. ~CommitFrameWritten(c) /\ ~CommitFrameWritten(c)'
    BY <1>1, <2>3 DEF CommitFrameWritten
  <2>15. QED BY <1>1, <1>2, <1>6, <2>2, <2>6, <2>12, <2>13, <2>14, WriterCrash
<1>9. CASE Does(c, "idle", call[c], o2, cached[c], s.mine) /\ UNCHANGED shm
  <2>1. o2.hdr = w[c].hdr /\ o2.svpt = None /\ o2.nCkpt = w[c].nCkpt
    BY <1>2 DEF WalObj
  <2> HIDE DEF o2, to
  <2>2. /\ pc'[c] = "idle" /\ call'[c] = call[c] /\ w'[c] = o2 /\ H' = H
    BY <1>9, OthersKept DEF H
  <2>3. WriterAt(c)'
    <3>1. Breaks(c)'
      BY <1>5, <2>2 DEF Breaks
    <3>2. QED BY <1>1, <1>2, <1>6, <1>9, <2>1, <2>2, <3>1, SameWriter
  <2>4. CountAt(c)'
    BY <1>1, <1>2, <2>1, <2>2 DEF CountAt
  <2>5. ~CommitFrameWritten(c) /\ ~CommitFrameWritten(c)'
    BY <1>1, <2>2 DEF CommitFrameWritten
  <2>6. ShmKept(c)
    BY <1>9, ShmIsKept
  <2>7. QED BY <1>1, <1>2, <1>6, <1>9, <2>3, <2>4, <2>5, <2>6, WriterCrash
<1>10. QED BY <1>1, <1>8, <1>9

\* A new salt is one that no frame has.
LEMMA RestartLogCrash == ASSUME Ctl, Heads, Data, Crash, NEW c \in Conn, RestartLog(c) PROVE Crash'
<1> DEFINE o2 == [w[c] EXCEPT !.nCkpt = w[c].nCkpt + 1, !.hdr = [w[c].hdr EXCEPT !.mxFrame = 0, !.salt = seed]]
           o3 == [w[c] EXCEPT !.readLock = -1]
<1>1. /\ pc[c] = "restart" /\ UNCHANGED <<shm, files, Past>>
      /\ \/ seed' = seed /\ Moves(c, "walhdr")
         \/ w[c].readLock = 0 /\ shm.nBackfill > 0 /\ seed' = seed + 1 /\ Does(c, "restart1", call[c], o2, cached[c], mine[c])
         \/ seed' = seed /\ Does(c, "marks", call[c], o3, cached[c], mine[c])
  BY CrashTypes, RestartLogDoes, PastKept
<1>2. call[c].mode = "write" /\ InWrite(c) /\ mine[c] # None
  BY <1>1, CrashTypes DEF ModeAt, TransAt, WritePc, InWrite
<1>3. /\ WriterAt(c) /\ CountAt(c) /\ w[c] \in WalObj /\ seed \in Nat /\ WRITE \in exclMask[c] /\ DrawnInv
      /\ w[c].hdr \in Hdr /\ Covers(H) /\ H.isInit /\ WalTypeOK /\ w[c].nCkpt \in Nat
  BY <1>2, WriterIs
<1>4. UNCHANGED <<wal, walDisk, db, shm, limbo>> /\ ShmKept(c)
  BY <1>1, ShmIsKept DEF files, Past
<1>5. CASE seed' = seed /\ Moves(c, "walhdr")
  <2>1. Does(c, "walhdr", call[c], w[c], cached[c], mine[c])
    BY <1>5 DEF Moves
  <2>2. pc[c] \notin Aside \cup {"failed", "restart1", "restart0"} \cup InFrames
    BY <1>1 DEF Aside, InFrames
  <2>3. "walhdr" \notin Aside \cup {"ckdbsync", "ckdone"} /\ "walhdr" \notin {"restart1", "restart0"} \cup InFrames
    BY DEF Aside, InFrames
  <2>4. QED BY <1>1, <1>2, <1>4, <1>5, <2>1, <2>2, <2>3, SteadyCrash
<1>6. CASE seed' = seed /\ Does(c, "marks", call[c], o3, cached[c], mine[c])
  <2>1. o3.hdr = w[c].hdr /\ o3.svpt = w[c].svpt /\ o3.nCkpt = w[c].nCkpt
    BY <1>3 DEF WalObj
  <2>2. pc[c] \notin Aside \cup {"failed", "restart1", "restart0"} \cup InFrames
    BY <1>1 DEF Aside, InFrames
  <2>3. "marks" \notin Aside \cup {"ckdbsync", "ckdone"} /\ "marks" \notin {"restart1", "restart0"} \cup InFrames
    BY DEF Aside, InFrames
  <2> HIDE DEF o3
  <2>4. QED BY <1>1, <1>2, <1>4, <1>6, <2>1, <2>2, <2>3, SteadyCrash
<1>7. CASE w[c].readLock = 0 /\ shm.nBackfill > 0 /\ seed' = seed + 1 /\ Does(c, "restart1", call[c], o2, cached[c], mine[c])
  <2>1. o2.hdr.mxFrame = 0 /\ o2.hdr.salt = seed /\ o2.svpt = w[c].svpt /\ o2.nCkpt = w[c].nCkpt + 1
    BY <1>3 DEF WalObj, Hdr
  <2> HIDE DEF o2
  <2>2. pc'[c] = "restart1" /\ call'[c] = call[c] /\ w'[c] = o2 /\ H' = H /\ mxH' = mxH
    BY <1>4, <1>7, OthersKept DEF H, mxH
  <2>3. mxH > 0 /\ mxH \in Nat
    <3>1. mxH \in Nat /\ shm.nBackfill \in Nat /\ BackfillInv
      BY DataIs
    <3>2. \A d \in Conn : pc[d] # "restartinfo"
      BY <1>1, <1>3, WriterAlone DEF WritePc, RestartPc
    <3>3. QED BY <1>7, <3>1, <3>2 DEF BackfillInv
  <2>4. seed > 0
    BY <1>3 DEF WalTypeOK
  <2>5. CountAt(c)'
    BY <1>3, <2>1, <2>2, <2>3, <2>4 DEF CountAt, Covers, Counts, mxH
  <2>6. ASSUME NEW i \in 1..Len(wal.frames)
        PROVE  wal.frames[i].salt # seed
    <3>1. wal \in Log /\ wal.frames[i].salt \in Nat
      BY <1>3, LogIs DEF WalTypeOK
    <3>2. wal.frames[i].salt < seed
      BY <1>3 DEF DrawnInv
    <3>3. QED BY <1>3, <3>1, <3>2
  <2>7. Begins(c)' /\ GivenUp(c)'
    BY <1>4, <2>1, <2>2, <2>6 DEF Begins, GivenUp
  <2>8. Breaks(c)'
    BY <1>1, <1>2, <1>3, <1>4, <2>2 DEF WriterAt, Breaks, Written, InFrames
  <2>9. w[c].svpt # None => UndoTo(c)' = 0
    <3>1. w[c].svpt # None => w[c].svpt.nCkpt <= w[c].nCkpt /\ w[c].svpt.nCkpt \in Nat
      BY <1>2, <1>3, DataIs DEF WriteAt, SvptAt, WalObj, Svpt
    <3>2. QED BY <1>3, <2>1, <2>2, <3>1 DEF UndoTo
  <2>10. (mxH' + 1)..w'[c].hdr.mxFrame = {}
    BY <2>1, <2>2, <2>3
  <2>11. Counts(w[c].hdr)' /\ Covers(w[c].hdr)'
    BY <2>1, <2>2 DEF Counts, Covers
  <2>12. WriterAt(c)'
    BY <2>1, <2>2, <2>7, <2>8, <2>9, <2>10, <2>11 DEF WriterAt, InFrames
  <2>13. ~CommitFrameWritten(c) /\ ~CommitFrameWritten(c)' /\ seed' \in Nat /\ seed' >= seed
    BY <1>1, <1>3, <1>7, <2>2 DEF CommitFrameWritten
  <2>14. QED BY <1>1, <1>4, <1>7, <2>5, <2>12, <2>13, WriterCrash
<1>8. QED BY <1>1, <1>5, <1>6, <1>7

LEMMA RestartHdr1Crash == ASSUME Ctl, Heads, Crash, NEW c \in Conn, RestartHdr1(c) PROVE Crash'
<1>1. /\ pc[c] = "restart1" /\ Moves(c, "restart0") /\ UNCHANGED <<files, seed, Past>>
      /\ Shm(H, w[c].hdr, shm.nBackfill, shm.aReadMark, shm.aPgno)
  BY CrashTypes, RestartHdr1Does, PastKept
<1>2. InWrite(c)
  BY <1>1, CrashTypes DEF ModeAt, TransAt, WritePc, RestartPc
<1>3. WriterAt(c) /\ CountAt(c) /\ seed \in Nat /\ w[c].hdr.mxFrame \in Nat
  BY <1>2, WriterIs
<1>4. /\ pc'[c] = "restart0" /\ call'[c] = call[c] /\ w'[c] = w[c] /\ mine'[c] = mine[c]
      /\ UNCHANGED <<wal, walDisk, db, limbo>>
  BY <1>1, OthersKept DEF Moves, files, Past
<1>5. H' = H /\ mxH' = mxH /\ shm'.aPgno = shm.aPgno /\ ShmKept(c)
  BY <1>1, ShmIsKept DEF Shm, H, mxH
<1>6. Counts(w[c].hdr)' /\ Covers(w[c].hdr)'
  BY <1>1, <1>2, <1>3, <1>4, <1>5 DEF WriterAt, Counts, Covers, Links, Chain, InFrames
<1>7. Breaks(c)' /\ Begins(c)' /\ GivenUp(c)' /\ UndoTo(c)' = UndoTo(c)
  BY <1>1, <1>2, <1>3, <1>4, <1>5 DEF WriterAt, Breaks, Begins, GivenUp, Written, InFrames, UndoTo
<1>8. /\ w[c].svpt # None /\ UndoTo(c) > 0 => w[c].svpt.cksum = Chain(wal, UndoTo(c))
      /\ \A i \in (mxH + 1)..w[c].hdr.mxFrame : wal.frames[i].nTruncate = 0
  BY <1>1, <1>2, <1>3 DEF WriterAt
<1>9. WriterAt(c)'
  BY <1>4, <1>5, <1>6, <1>7, <1>8 DEF WriterAt, InFrames
<1>10. CountAt(c)'
  BY <1>1, <1>2, <1>3, <1>4, <1>5 DEF CountAt, InWrite
<1>11. ~CommitFrameWritten(c) /\ ~CommitFrameWritten(c)' /\ seed >= seed
  BY <1>1, <1>3, <1>4 DEF CommitFrameWritten
<1>12. Does(c, "restart0", call[c], w[c], cached[c], mine[c])
  BY <1>1 DEF Moves
<1>13. QED BY <1>1, <1>3, <1>4, <1>5, <1>9, <1>10, <1>11, <1>12, WriterCrash

\* The file has all of a log of no frames.
LEMMA RestartInfoCrash == ASSUME Ctl, Heads, Data, Crash, NEW c \in Conn, RestartInfo(c) PROVE Crash'
<1> DEFINE o == [w[c] EXCEPT !.readLock = -1]
<1>1. /\ pc[c] = "restartinfo" /\ UNCHANGED <<files, seed, Past>>
      /\ Does(c, "marks", call[c], o, cached[c], mine[c])
      /\ \E marks : Shm(H, shm.hdr[1], 0, marks, shm.aPgno)
  BY CrashTypes, RestartInfoDoes, PastKept
<1>2. InWrite(c) /\ mine[c] # None
  BY <1>1, CrashTypes DEF ModeAt, TransAt, WritePc, RestartPc, InWrite
<1>3. Whole /\ w[c] \in WalObj
  BY <1>2, WriterIs
<1>4. mxH = 0
  BY <1>1, <1>2, DataIs DEF WriteAt
<1>5. UNCHANGED <<wal, walDisk, db>>
  BY <1>1 DEF files
<1>6. H' = H /\ mxH' = mxH /\ Size(H)' = Size(H) /\ shm'.aPgno = shm.aPgno
  BY <1>1, <1>5 DEF Shm, H, mxH, Size
<1>7. ShmKept(c)
  BY <1>3, <1>4, <1>5, <1>6 DEF ShmKept, Whole
<1>8. o.hdr = w[c].hdr /\ o.svpt = w[c].svpt /\ o.nCkpt = w[c].nCkpt
  BY <1>3 DEF WalObj
<1>9. pc[c] \notin Aside /\ pc[c] \notin {"failed", "restart1", "restart0"} \cup InFrames
  BY <1>1 DEF Aside, InFrames
<1>10. "marks" \notin Aside \cup {"ckdbsync", "ckdone"} /\ "marks" \notin {"restart1", "restart0"} \cup InFrames
  BY DEF Aside, InFrames
<1> HIDE DEF o
<1>11. QED BY <1>1, <1>2, <1>5, <1>6, <1>7, <1>8, <1>9, <1>10, SteadyCrash

LEMMA SameFrames ==
  ASSUME NEW c \in Conn, WriterAt(c), InWrite(c), pc[c] \in InFrames, pc'[c] \in {"frame", "index"},
         UNCHANGED <<wal, shm, limbo>>, call'[c] = call[c], w'[c] = w[c], GivenUp(c)'
  PROVE  WriterAt(c)'
<1>1. /\ Counts(w[c].hdr) /\ NewFrames(c) /\ Breaks(c) /\ Begins(c)
      /\ \A i \in (mxH + 1)..w[c].hdr.mxFrame : wal.frames[i].nTruncate = 0
      /\ w[c].svpt # None /\ UndoTo(c) > 0 => w[c].svpt.cksum = Chain(wal, UndoTo(c))
  BY DEF WriterAt, InFrames
<1>2. /\ Counts(w[c].hdr)' /\ UndoTo(c)' = UndoTo(c)
      /\ NewFrames(c)'
  <2>1. Counts(w[c].hdr)'
    BY <1>1 DEF Counts, Links, Chain
  <2>2. UndoTo(c)' = UndoTo(c)
    BY DEF UndoTo
  <2>3. NewFrames(c)' <=> NewFrames(c)
    BY DEF NewFrames, Links, Chain
  <2>4. QED BY <1>1, <2>1, <2>2, <2>3
<1>3. mxH' = mxH /\ H' = H
  BY DEF mxH, H
<1>4. Breaks(c)' /\ Begins(c)'
  BY <1>1, <1>3 DEF Breaks, Begins, Written, InFrames
<1>5. pc'[c] \in InFrames /\ pc'[c] \notin {"commit0", "failed"}
  BY DEF InFrames
<1>6. QED BY <1>1, <1>2, <1>3, <1>4, <1>5 DEF WriterAt

LEMMA SyncsCrash ==
  ASSUME Ctl, Heads, Crash, NEW c \in Conn, NEW to, Moves(c, to), UNCHANGED <<shm, wal, db, seed, Past>>, walDisk' = wal,
         \/ pc[c] = "walhdrsync" /\ to = "frame"
         \/ pc[c] = "framesync" /\ to = "index"
  PROVE  Crash'
<1>1. InWrite(c)
  BY CrashTypes DEF ModeAt, TransAt, WritePc, FramePc
<1>2. /\ WriterAt(c) /\ CountAt(c) /\ seed \in Nat /\ w[c].hdr.mxFrame \in Nat /\ FrameStepAt(c)
  BY <1>1, WriterIs DEF CtlAt
<1>3. /\ pc'[c] = to /\ call'[c] = call[c] /\ w'[c] = w[c] /\ mine'[c] = mine[c] /\ limbo' = limbo /\ H' = H
  BY OthersKept DEF Moves, Past, H
<1>4. GivenUp(c)'
  BY <1>1, <1>2, <1>3 DEF WriterAt, GivenUp, FrameStepAt
<1>5. WriterAt(c)'
  BY <1>1, <1>2, <1>3, <1>4, SameFrames DEF InFrames
<1>6. CountAt(c)'
  BY <1>1, <1>2, <1>3 DEF CountAt, InWrite
<1>7. CommitFrameWritten(c)' <=> CommitFrameWritten(c)
  BY <1>3 DEF CommitFrameWritten
<1>8. ShmKept(c) /\ seed >= seed
  BY <1>2, ShmIsKept
<1>9. Does(c, to, call[c], w[c], cached[c], mine[c])
  BY DEF Moves
<1>10. QED BY <1>2, <1>5, <1>6, <1>7, <1>8, <1>9, WriterCrash

LEMMA SyncWalHdrCrash == ASSUME Ctl, Heads, Crash, NEW c \in Conn, SyncWalHdr(c) PROVE Crash'
BY CrashTypes, SyncWalHdrDoes, PastKept, SyncsCrash

LEMMA SyncFramesCrash == ASSUME Ctl, Heads, Crash, NEW c \in Conn, SyncFrames(c) PROVE Crash'
BY CrashTypes, SyncFramesDoes, PastKept, SyncsCrash

LEMMA AppendIndexCrash == ASSUME Ctl, Heads, Data, Crash, NEW c \in Conn, AppendIndex(c) PROVE Crash'
<1> SUFFICES ASSUME NEW mx, NEW l, NEW n,
                    mx = w[c].hdr.mxFrame, l = call[c].list, n = mx + Len(l)
             PROVE  Crash'
  OBVIOUS
<1>1. pc[c] = "index" /\ UNCHANGED Past
  BY PastKept DEF AppendIndex
<1>2. InWrite(c) /\ call[c].mode = "write"
  BY <1>1, CrashTypes DEF ModeAt, TransAt, WritePc, FramePc
<1>3. /\ WriterAt(c) /\ CountAt(c) /\ seed \in Nat /\ mx \in Nat /\ FrameStepAt(c) /\ WalTypeOK /\ CtlAt(c)
      /\ WRITE \in exclMask[c] /\ w[c] \in WalObj /\ call[c] \in Call
  BY <1>2, WriterIs DEF CtlAt
<1>4. LogBound
  BY DEF Ctl
<1>5. PICK idx \in [1..MaxFrame -> Nat], h \in Hdr :
        /\ UNCHANGED <<files, seed>>
        /\ \A i \in 1..mx : idx[i] = shm.aPgno[i]
        /\ \A i \in 1..Len(l) : idx[mx + i] = l[i]
        /\ h.mxFrame = n /\ h.cksum = w[c].hdr.cksum /\ h.salt = w[c].hdr.salt
        /\ \/ /\ call[c].nTruncate # 0 /\ h.nPage = call[c].nTruncate
              /\ Does(c, "commit0", call[c], [w[c] EXCEPT !.hdr = h], cached[c], mine[c])
              /\ Shm(H, h, shm.nBackfill, shm.aReadMark, idx)
           \/ /\ call[c].nTruncate = 0
              /\ Does(c, "idle", NoCall, [w[c] EXCEPT !.hdr = h], cached[c], mine[c])
              /\ Shm(H, shm.hdr[1], shm.nBackfill, shm.aReadMark, idx)
  BY <1>3, <1>4, AppendIndexDoes, ZenonT(60)
<1> DEFINE o == [w[c] EXCEPT !.hdr = h]
<1>6. /\ o.hdr = h /\ o.svpt = w[c].svpt /\ o.nCkpt = w[c].nCkpt
  BY <1>3 DEF WalObj
<1> HIDE DEF o
<1>7. /\ w'[c] = o /\ mine'[c] = mine[c]
      /\ \/ pc'[c] = "commit0" /\ call'[c] = call[c] /\ call[c].nTruncate # 0 /\ h.nPage = call[c].nTruncate
            /\ Does(c, "commit0", call[c], o, cached[c], mine[c])
         \/ pc'[c] = "idle" /\ call'[c] = NoCall /\ call[c].nTruncate = 0
            /\ Does(c, "idle", NoCall, o, cached[c], mine[c])
  BY <1>5, OthersKept DEF o
<1>8. /\ shm'.hdr[0] = H /\ shm'.nBackfill = shm.nBackfill /\ shm'.aPgno = idx
      /\ UNCHANGED <<wal, walDisk, db, seed, limbo>>
  BY <1>1, <1>5 DEF Shm, files, Past
<1>9. H' = H /\ mxH' = mxH
  BY <1>8 DEF H, mxH
<1>10. l \in Seq(Nat \ {0}) /\ Len(l) \in Nat /\ Len(l) >= 1 /\ n \in Nat /\ mx < n
  <2>1. l \in Seq(Nat \ {0}) /\ Len(l) \in Nat
    BY <1>3 DEF Call
  <2>2. Len(l) >= 1
    BY <1>1, <1>2, <1>3 DEF FrameStepAt
  <2>3. QED BY <1>3, <2>1, <2>2, SMTT(30)
<1>n. mx \in Nat /\ Len(l) \in Nat /\ n = mx + Len(l)
  BY <1>3, <1>10
<1>11. mxH \in Nat /\ mxH <= mx
  BY <1>1, <1>2, DataIs DEF WriteAt
<1>12. call[c].iFrame = n /\ call[c].iFrame - mx = Len(l)
  <2>1. call[c].iFrame = n
    BY <1>1, <1>3 DEF FrameStepAt
  <2>2. QED BY <1>3, <1>10, <2>1, OffsetBy
<1>13. /\ wal.salt = h.salt /\ wal.salt > 0 /\ h.cksum = Chain(wal, n)
       /\ \A j \in 1..Len(l) : /\ Links(wal, mx + j) /\ wal.frames[mx + j].pg = l[j]
                               /\ wal.frames[mx + j].nTruncate = IF j = Len(l) THEN call[c].nTruncate ELSE 0
  BY <1>1, <1>2, <1>3, <1>5, <1>12 DEF WriterAt, NewFrames, InFrames
<1>14. /\ \A i \in 1..mx : Links(wal, i) /\ shm.aPgno[i] = wal.frames[i].pg
       /\ \A i \in (mxH + 1)..mx : wal.frames[i].nTruncate = 0
       /\ w[c].svpt # None /\ UndoTo(c) > 0 => w[c].svpt.cksum = Chain(wal, UndoTo(c))
       /\ Breaks(c) /\ GivenUp(c)
  BY <1>1, <1>2, <1>3 DEF WriterAt, Counts
<1>15. ASSUME NEW i \in 1..n
       PROVE  /\ Links(wal, i) /\ idx[i] = wal.frames[i].pg
              /\ i > mxH => wal.frames[i].nTruncate = IF i = n THEN call[c].nTruncate ELSE 0
  <2>1. CASE i <= mx
    <3>1. i \in 1..mx /\ i # n
      BY <1>3, <1>10, <2>1
    <3>2. i > mxH => i \in (mxH + 1)..mx
      BY <1>3, <1>11, <3>1
    <3>3. QED BY <1>5, <1>14, <3>1, <3>2
  <2>2. CASE i > mx
    <3>1. PICK j \in 1..Len(l) : i = mx + j
      <4>1. i \in Nat /\ mx < i /\ i <= mx + Len(l)
        BY <1>10, <2>2
      <4>2. i - mx \in 1..Len(l) /\ i = mx + (i - mx)
        BY ONLY <1>n, <4>1, OffsetIn
      <4>3. QED BY <4>2
    <3>2. i = n <=> j = Len(l)
      BY ONLY <1>n, <3>1
    <3>3. QED BY <1>5, <1>13, <3>1, <3>2
  <2>3. QED BY <1>3, <2>1, <2>2
<1>16. ShmKept(c)
  <2>1. \A i \in 1..mxH : idx[i] = shm.aPgno[i]
    BY <1>3, <1>5, <1>11
  <2>2. QED BY <1>3, <1>8, <1>9, <2>1 DEF ShmKept
<1>17. Counts(w[c].hdr)' /\ Covers(w[c].hdr)'
  <2>1. w'[c].hdr = h
    BY <1>6, <1>7
  <2>2. Counts(h)' /\ Covers(h)'
    <3>1. \A i \in 1..n : Links(wal, i)' /\ shm'.aPgno[i] = wal'.frames[i].pg
      BY <1>8, <1>15 DEF Links, Chain
    <3>2. Chain(wal', n) = h.cksum /\ wal'.salt = h.salt /\ h.salt > 0
      BY <1>8, <1>13 DEF Chain
    <3>3. h.mxFrame = n
      BY <1>5
    <3>4. Counts(h)'
      BY <3>1, <3>2, <3>3 DEF Counts
    <3>5. QED BY <3>2, <3>3, <3>4 DEF Covers
  <2>3. QED BY <2>1, <2>2 DEF Counts, Covers
<1>18. \A i \in (mxH' + 1)..w'[c].hdr.mxFrame :
         wal'.frames[i].nTruncate = IF pc'[c] = "commit0" /\ i = w'[c].hdr.mxFrame THEN w'[c].hdr.nPage ELSE 0
  <2>1. ASSUME NEW i \in (mxH + 1)..n
        PROVE  wal.frames[i].nTruncate = IF pc'[c] = "commit0" /\ i = n THEN h.nPage ELSE 0
    <3>1. i \in 1..n /\ i > mxH
      BY <1>10, <1>11
    <3>2. wal.frames[i].nTruncate = IF i = n THEN call[c].nTruncate ELSE 0
      BY <1>15, <3>1
    <3>3. QED BY <1>7, <3>2
  <2>2. QED BY <1>5, <1>6, <1>7, <1>8, <1>9, <2>1
<1>19. UndoTo(c)' = UndoTo(c) /\ w'[c].svpt = w[c].svpt
  BY <1>6, <1>7 DEF UndoTo
<1>20. Breaks(c)'
  <2>1. CASE pc'[c] = "commit0" /\ call'[c] = call[c]
    <3>1. Written(c) = n /\ Written(c)' = n
      <4>1. w'[c].hdr.mxFrame = n
        BY <1>5, <1>6, <1>7
      <4>2. QED BY <1>1, <1>12, <2>1, <4>1 DEF Written, InFrames
    <3>2. pc[c] # "failed" /\ call[c].mode = "write"
      BY <1>1, <1>2
    <3>3. \A i \in 1..Len(wal.frames) : i > n => wal.frames[i].prev[1] # call[c].data
      BY <1>14, <3>1, <3>2 DEF Breaks
    <3>4. QED BY <1>8, <2>1, <3>1, <3>3 DEF Breaks
  <2>2. CASE call'[c] = NoCall
    BY <2>2 DEF Breaks, NoCall
  <2>3. QED BY <1>7, <2>1, <2>2
<1>21. Begins(c)' /\ GivenUp(c)'
  <2>1. h.mxFrame # 0
    BY <1>3, <1>5, <1>10
  <2>2. QED BY <1>1, <1>6, <1>7, <1>8, <1>14, <2>1 DEF Begins, GivenUp
<1>22. WriterAt(c)'
  BY <1>7, <1>8, <1>14, <1>17, <1>18, <1>19, <1>20, <1>21 DEF WriterAt, InFrames, Chain
<1>23. CountAt(c)'
  BY <1>1, <1>2, <1>3, <1>5, <1>6, <1>7, <1>9 DEF CountAt, InWrite
<1>24. (CommitFrameWritten(c)' <=> CommitFrameWritten(c)) /\ seed >= seed
  BY <1>1, <1>3, <1>7 DEF CommitFrameWritten
<1>25. QED BY <1>1, <1>3, <1>7, <1>8, <1>16, <1>22, <1>23, <1>24, WriterCrash

\* The commit that is cut off is what a recovery finds from now on.
LEMMA FramesFailCrash == ASSUME Ctl, Heads, Data, Crash, NEW c \in Conn, FramesFail(c) PROVE Crash'
<1>1. /\ pc[c] \in {"walhdr", "walhdrsync", "frame", "framesync"} /\ Moves(c, "failed")
      /\ UNCHANGED <<shm, files, seed, hist, floor, lossy>>
      /\ limbo' = IF CommitFrameWritten(c) THEN mine[c] ELSE limbo
  BY CrashTypes, FramesFailDoes DEF FramesFail
<1>2. InWrite(c) /\ mine[c] # None
  BY <1>1, CrashTypes DEF ModeAt, TransAt, WritePc, FramePc, InWrite
<1>3. /\ CountAt(c) /\ DrawnInv /\ HistOK /\ WalTypeOK /\ WRITE \in exclMask[c] /\ Live /\ Last(hist) = Current /\ ~lossy
      /\ Covers(H) /\ Commits(H) /\ Whole /\ seed \in Nat /\ w[c].hdr.mxFrame \in Nat
  BY <1>2, WriterIs
<1>4. Others(c) /\ pc'[c] = "failed" /\ call'[c] = call[c] /\ w'[c] = w[c] /\ mine'[c] = mine[c]
  BY <1>1, OthersKept DEF Moves
<1>5. UNCHANGED <<wal, walDisk, db, shm>> /\ H' = H /\ mxH' = mxH
  BY <1>1 DEF files, H, mxH
<1>6. CountAt(c)' /\ WriterAt(c)' /\ ~CommitFrameWritten(c)'
  BY <1>1, <1>3, <1>4, <1>5 DEF CountAt, WriterAt, InWrite, CommitFrameWritten
<1>7. CASE ~CommitFrameWritten(c)
  <2>1. ShmKept(c) /\ UNCHANGED Past /\ seed >= seed
    BY <1>1, <1>3, <1>7, ShmIsKept DEF Past
  <2>2. Does(c, "failed", call[c], w[c], cached[c], mine[c])
    BY <1>1 DEF Moves
  <2>3. QED BY <1>1, <1>3, <1>5, <1>6, <1>7, <2>1, <2>2, WriterCrash
<1>8. CASE CommitFrameWritten(c)
  <2>1. PICK n : n = Written(c)
    OBVIOUS
  <2>2. /\ n \in Nat /\ n > mxH /\ LastCommit(wal) = n /\ wal.frames[n].nTruncate = Len(mine[c])
        /\ \A p \in 1..Len(mine[c]) : mine[c][p] = LAt(n, p) /\ (p > Size(H) => LF(n, p) > mxH)
        /\ Recovered(db, wal) = mine[c] /\ wal.frames[1].salt = wal.salt
    BY <1>8, <2>1, CommitRecovers
  <2>3. limbo' = mine[c]
    BY <1>1, <1>8
  <2>4. /\ mxH \in Nat /\ wal \in Log /\ db \in Seq(Int) /\ H.salt \in Nat /\ wal.salt \in Nat
    <3>1. pc[c] # "closed"
      BY <1>1
    <3>2. QED BY <3>1, LiveIs, LogIs
  <2>5. DrawnInv'
    BY <1>1, <1>3, <1>5, SameDrawn
  <2>6. HistOK'
    <3>1. mine[c] \in Image
      BY <1>3 DEF WalTypeOK
    <3>2. QED BY <1>1, <1>3, <2>3, <3>1 DEF HistOK
  <2>7. Current' = Current /\ Size(H)' = Size(H)
    BY <1>5, <2>4, SameCurrent
  <2>8. Covers(H)' /\ Commits(H)' /\ Whole'
    BY <1>3, <1>5, <2>7 DEF Covers, Counts, Commits, Links, Chain, Whole
  <2>9. EndOfLog'
    <3>1. CASE mxH > 0
      <4>1. LastCommit(wal)' = n /\ n > mxH'
        BY <1>5, <2>2
      <4>2. Cut(n)'
        BY <1>2, <1>5, <2>2, <2>3, <2>7, SameFiles DEF Cut
      <4>3. QED BY <1>5, <3>1, <4>1, <4>2 DEF EndOfLog
    <3>2. CASE mxH = 0
      <4>1. Current = db
        BY <1>1, <1>3, <3>2, FileIsWhole
      <4>2. ASSUME NEW s \in {wal.salt, H.salt}
            PROVE  Recovered(db, Salted(s)) \in {Last(hist), mine[c]}
        <5>1. CASE s = wal.salt
          BY <2>2, <2>4, <5>1, SaltedIs
        <5>2. CASE s # wal.salt
          <6>1. /\ Salted(s) \in Log /\ Salted(s).frames = wal.frames /\ Salted(s).salt = s
            BY <2>4, SaltedIs
          <6>2. Recovered(db, Salted(s)) = db
            BY <2>2, <2>4, <5>2, <6>1, OtherLog
          <6>3. QED BY <1>3, <4>1, <6>2
        <5>3. QED BY <5>1, <5>2
      <4>3. \A s \in {wal.salt, H.salt} : Recovered(db, Salted(s))' \in {Last(hist), mine[c]}
        BY <1>5, <4>2, SameFiles
      <4>4. QED BY <1>1, <1>5, <2>3, <3>2, <4>3 DEF EndOfLog, Salted
    <3>3. QED BY <2>4, <3>1, <3>2
  <2>10. Live'
    BY <1>3, <1>4, <1>5 DEF Live
  <2>11. LogInv'
    BY <1>1, <1>3, <2>7, <2>8, <2>9, <2>10 DEF LogInv
  <2>12. CrashAt(c)'
    BY <1>4, <1>6 DEF CrashAt, RecoverAt, CkSizeAt
  <2>13. QED BY <1>3, <1>4, <1>5, <2>5, <2>6, <2>11, <2>12, StepCrash
<1>9. QED BY <1>7, <1>8

\* The first connection to open empties the wal-index.
LEMMA OpenCrash == ASSUME Ctl, Heads, Crash, NEW c \in Conn, Open(c) PROVE Crash'
<1>1. /\ pc[c] = "closed" /\ Does(c, "idle", call[c], FreshWal, cached[c], mine[c])
      /\ shm' = IF \A d \in Conn : pc[d] = "closed" THEN ZeroShm ELSE shm
      /\ UNCHANGED <<files, seed, Past>>
  BY CrashTypes, OpenDoes, PastKept
<1>2. /\ \A d \in Conn : pc[d] = "closed" => w[d] = FreshWal /\ mine[d] = None
  BY CrashTypes DEF TransAt
<1>3. /\ Others(c) /\ pc'[c] = "idle" /\ w'[c] = FreshWal /\ mine'[c] = None
      /\ UNCHANGED <<wal, walDisk, db, hist, floor, limbo, lossy>>
  BY <1>1, <1>2, OthersKept DEF files, Past
<1>4. CrashAt(c)'
  BY <1>3, GoneCrashAt
<1>5. DrawnInv /\ HistOK /\ LogInv /\ floor \in Nat \ {0} /\ WalTypeOK /\ seed \in Nat /\ seed >= seed
  BY CrashIs DEF Ctl, WalTypeOK
<1>6. CASE \E d \in Conn : pc[d] # "closed"
  <2>1. shm' = shm /\ H' = H
    BY <1>1, <1>6 DEF H
  <2>2. ~CommitFrameWritten(c) /\ ~CommitFrameWritten(c)'
    BY <1>1, <1>3 DEF CommitFrameWritten
  <2>3. \E d \in Conn : pc'[d] # "closed"
    BY <1>3
  <2>4. QED BY <1>1, <1>3, <1>4, <1>5, <1>6, <2>1, <2>2, <2>3, QuietCrash
<1>7. CASE \A d \in Conn : pc[d] = "closed"
  <2>1. ~Live
    BY <1>7 DEF Live
  <2>2. ~Live'
    BY <1>1, <1>7 DEF Live, H, ZeroShm, ZeroHdr
  <2>3. DrawnInv'
    BY <1>1, <1>3, <1>5, SameDrawn
  <2>4. HistOK'
    BY <1>3, <1>5 DEF HistOK
  <2>5. LogInv'
    BY <1>3, <1>5, <2>1, <2>2 DEF LogInv
  <2>6. ASSUME NEW d \in Conn PROVE CrashAt(d)'
    <3>1. CASE d = c
      BY <1>4, <3>1
    <3>2. CASE d # c
      <4>1. w'[d] = FreshWal /\ mine'[d] = None /\ pc'[d] = "closed"
        BY <1>2, <1>3, <1>7, <3>2 DEF Others
      <4>2. QED BY <4>1, GoneCrashAt
    <3>3. QED BY <3>1, <3>2
  <2>7. QED BY <2>3, <2>4, <2>5, <2>6 DEF Crash
<1>8. QED BY <1>6, <1>7

-----------------------------------------------------------------------------
(* Recovery *)

\* The new header covers the log up to its last commit.
LEMMA RecoverCrash == ASSUME Ctl, Heads, Crash, NEW c \in Conn, Recover(c) PROVE Crash'
<1> SUFFICES ASSUME NEW mx, NEW n, NEW h, NEW k,
                    mx = LastCommit(wal), n = IF wal.salt = 0 THEN 0 ELSE ValidFrames(wal),
                    h = [isInit |-> TRUE, iChange |-> 0, mxFrame |-> mx,
                         nPage |-> IF mx = 0 THEN 0 ELSE wal.frames[mx].nTruncate,
                         cksum |-> IF mx = 0 THEN <<0, 0>> ELSE <<wal.frames[mx].data, wal.frames[mx].pg>>,
                         salt |-> IF wal.frames = <<>> THEN 0 ELSE wal.salt],
                    k = IF wal.frames = <<>> THEN w[c].nCkpt ELSE wal.nCkpt
             PROVE  Crash'
  OBVIOUS
<1>1. pc[c] = "recover" /\ UNCHANGED <<files, seed, Past>> /\ Others(c) /\ pc'[c] = "recover0" /\ mine'[c] = mine[c]
      /\ shm'.hdr[0] = H /\ shm'.nBackfill = shm.nBackfill
  <2>1. PICK o, g, idx : /\ pc[c] = "recover" /\ UNCHANGED <<files, seed>>
                         /\ Does(c, "recover0", call[c], o, cached[c], mine[c])
                         /\ Shm(H, g, shm.nBackfill, shm.aReadMark, idx)
    BY CrashTypes, RecoverDoes
  <2>2. Others(c) /\ pc'[c] = "recover0" /\ mine'[c] = mine[c]
    BY <2>1, OthersKept
  <2>3. QED BY <2>1, <2>2, PastKept DEF Shm
<1>2. /\ WalTypeOK /\ CtlAt(c) /\ w[c] \in WalObj /\ DrawnInv /\ HistOK /\ LogInv /\ CountAt(c)
      /\ wal \in Log /\ seed \in Nat /\ seed >= seed
  <2>1. WalTypeOK /\ CtlAt(c) /\ w[c] \in WalObj
    BY CrashTypes
  <2>2. DrawnInv /\ HistOK /\ LogInv /\ CountAt(c)
    BY CrashIs
  <2>3. wal \in Log /\ seed \in Nat
    BY <2>1 DEF WalTypeOK
  <2>4. seed >= seed
    BY <2>3
  <2>5. QED BY <2>1, <2>2, <2>3, <2>4
<1>3. /\ UNCHANGED <<wal, walDisk, db, hist, floor, limbo, lossy>> /\ H' = H /\ mxH' = mxH
  BY <1>1 DEF files, Past, H, mxH
<1>4. ~H.isInit /\ ~Live /\ ~Live'
  BY <1>1, <1>3 DEF Heads, HeadAt, Live
<1>5. WRITE \in exclMask[c] /\ mine[c] = None
  BY <1>1, <1>2, NoWriter, Slots DEF CtlAt, LocksAt, RecoverPc, ModeAt, HdrPc
<1>6. /\ w'[c].hdr = h /\ w'[c].nCkpt = k
  <2>1. w' = [w EXCEPT ![c].hdr = h, ![c].nCkpt = k]
    BY DEF Recover
  <2>2. w \in [Conn -> WalObj]
    BY <1>2 DEF WalTypeOK
  <2>3. QED BY <2>1, <2>2 DEF WalObj
<1>7. /\ h.mxFrame = mx /\ h.nPage = (IF mx = 0 THEN 0 ELSE wal.frames[mx].nTruncate) /\ (h.cksum = Chain(wal, mx) \/ mx = 0)
      /\ h.salt = (IF wal.frames = <<>> THEN 0 ELSE wal.salt)
  BY DEF Chain
<1>8. /\ mx \in 0..ValidFrames(wal) /\ ValidFrames(wal) \in 0..Len(wal.frames) /\ Len(wal.frames) \in Nat
      /\ mx # 0 => wal.salt # 0
      /\ \A i \in 1..ValidFrames(wal) : Links(wal, i)
      /\ wal.salt \in Nat /\ wal.nCkpt \in Nat
  BY <1>2, CommitIs, ValidIs, LogIs
<1>9. ASSUME NEW i \in 1..mx
      PROVE  shm'.aPgno[i] = wal.frames[i].pg
  <2>1. shm' = [shm EXCEPT !.hdr[1] = h,
                  !.aPgno = [j \in 1..MaxFrame |->
                               IF j <= n THEN wal.frames[j].pg
                               ELSE IF n > 0 THEN 0 ELSE @[j]]]
    BY DEF Recover
  <2>2. shm'.aPgno = [j \in 1..MaxFrame |-> IF j <= n THEN wal.frames[j].pg
                                            ELSE IF n > 0 THEN 0 ELSE shm.aPgno[j]]
    BY <1>2, <2>1 DEF WalTypeOK, Index
  <2>3. i \in 1..MaxFrame /\ i <= n
    BY <1>2, <1>8, WalAssumption DEF Ctl, LogBound
  <2>4. QED BY <2>2, <2>3
<1>10. mx # 0 => wal.frames # <<>>
  BY <1>8
<1>11. Covers(h)' /\ Commits(h)'
  <2>1. \A i \in 1..mx : Links(wal, i)' /\ shm'.aPgno[i] = wal'.frames[i].pg
    <3>1. ASSUME NEW i \in 1..mx PROVE i \in 1..ValidFrames(wal)
      BY <1>8
    <3>2. QED BY <1>3, <1>8, <1>9, <3>1 DEF Links, Chain
  <2>2. mx # 0 => h.salt = wal'.salt /\ h.salt > 0 /\ h.cksum = Chain(wal', mx)
    BY <1>3, <1>7, <1>8, <1>10 DEF Chain
  <2>3. mx # 0 => wal'.frames[mx].nTruncate = h.nPage
    BY <1>3, <1>7
  <2>4. h.mxFrame = mx /\ mx \in Nat
    BY <1>7, <1>8
  <2>5. Counts(h)'
    BY <2>1, <2>2, <2>4 DEF Counts
  <2>6. QED BY <2>2, <2>3, <2>4, <2>5 DEF Covers, Commits
<1>12. RecoverAt(c)'
  BY <1>3, <1>6, <1>7, <1>11 DEF RecoverAt, Covers, Counts, Commits, Chain, Links
<1>13. CountAt(c)'
  <2>1. CASE wal.frames = <<>>
    <3>1. k = w[c].nCkpt /\ w[c].nCkpt \in Nat
      BY <1>2, <2>1 DEF WalObj
    <3>2. ~(w[c].nCkpt > 0)
      BY <1>1, <1>2, <1>4 DEF CountAt
    <3>3. QED BY <1>6, <3>1, <3>2 DEF CountAt
  <2>2. CASE wal.frames # <<>>
    <3>1. wal.nCkpt > 0 => wal.salt > 0
      BY <1>2 DEF DrawnInv
    <3>2. k = wal.nCkpt /\ h.salt = wal.salt
      BY <1>7, <2>2
    <3>3. QED BY <1>1, <1>6, <3>1, <3>2 DEF CountAt
  <2>3. QED BY <2>1, <2>2
<1>14. CrashAt(c)'
  BY <1>1, <1>5, <1>12, <1>13 DEF CrashAt, WriterAt, InWrite, CkSizeAt
<1>15. DrawnInv'
  BY <1>1, <1>2, <1>3, SameDrawn
<1>16. HistOK'
  BY <1>2, <1>3 DEF HistOK
<1>17. LogInv'
  BY <1>2, <1>3, <1>4 DEF LogInv
<1>18. QED BY <1>1, <1>3, <1>5, <1>14, <1>15, <1>16, <1>17, StepCrash

LEMMA RecoveredIs == ASSUME wal \in Log, db \in Seq(Int) PROVE Recovered(db, wal) \in Seq(Int)
<1>1. CASE LastCommit(wal) = 0
  BY <1>1, RecoveredFile
<1>2. CASE LastCommit(wal) # 0
  <2>1. PICK k : k = LastCommit(wal)
    OBVIOUS
  <2>2. k \in 1..Len(wal.frames) /\ Len(wal.frames) \in Nat
    BY <1>2, <2>1, LastCommitIn, LogIs
  <2>3. wal.frames[k].nTruncate \in Nat
    BY <2>2, LogIs
  <2>4. ASSUME NEW p \in 1..wal.frames[k].nTruncate PROVE LAt(k, p) \in Int
    <3>1. LF(k, p) \in 0..k
      BY <2>2, LFIs
    <3>2. CASE LF(k, p) = 0
      BY <2>3, <3>2 DEF LAt, DbAt
    <3>3. CASE LF(k, p) # 0
      <4>1. LF(k, p) \in 1..Len(wal.frames)
        BY <2>2, <3>1, <3>3
      <4>2. wal.frames[LF(k, p)].data \in Nat
        BY <4>1, LogIs
      <4>3. QED BY <3>3, <4>2 DEF LAt
    <3>4. QED BY <3>2, <3>3
  <2>5. Recovered(db, wal) = [p \in 1..wal.frames[k].nTruncate |-> LAt(k, p)]
    BY <1>2, <2>1, RecoveredLog
  <2>6. ASSUME NEW n \in Nat, NEW v, \A p \in 1..n : v[p] \in Int
        PROVE  [p \in 1..n |-> v[p]] \in Seq(Int)
    BY <2>6
  <2>7. PICK v : v = [p \in 1..wal.frames[k].nTruncate |-> LAt(k, p)]
    OBVIOUS
  <2>8. \A p \in 1..wal.frames[k].nTruncate : v[p] \in Int
    BY <2>4, <2>7
  <2>9. v = [p \in 1..wal.frames[k].nTruncate |-> v[p]]
    BY <2>7
  <2>10. [p \in 1..wal.frames[k].nTruncate |-> v[p]] \in Seq(Int)
    BY <2>3, <2>6, <2>8
  <2>11. QED BY <2>5, <2>7, <2>9, <2>10
<1>3. QED BY <1>1, <1>2

LEMMA AppendIs ==
  ASSUME NEW T, NEW q \in Seq(T), NEW e \in T
  PROVE  Append(q, e) \in Seq(T) /\ Append(q, e) # <<>> /\ Last(Append(q, e)) = e
BY DEF Last

\* Copy 0 publishes the database that the log was found to hold.
LEMMA RecoverHdr0Crash == ASSUME Ctl, Heads, Crash, NEW c \in Conn, RecoverHdr0(c) PROVE Crash'
<1> SUFFICES ASSUME NEW h, NEW d, h = w[c].hdr, d = Recovered(db, wal)
             PROVE  Crash'
  OBVIOUS
<1>1. /\ pc[c] = "recover0" /\ Moves(c, "recoverinfo") /\ UNCHANGED <<files, seed>>
      /\ Shm(h, shm.hdr[1], shm.nBackfill, shm.aReadMark, shm.aPgno)
  BY CrashTypes, RecoverHdr0Does
<1>2. /\ WalTypeOK /\ CtlAt(c) /\ w[c] \in WalObj /\ DrawnInv /\ HistOK /\ CountAt(c) /\ RecoverAt(c)
      /\ wal \in Log /\ db \in Seq(Int) /\ seed \in Nat /\ seed >= seed
  BY CrashTypes, CrashIs DEF WalTypeOK
<1>3. /\ UNCHANGED <<wal, walDisk, db>> /\ H' = h /\ shm'.aPgno = shm.aPgno /\ shm'.nBackfill = shm.nBackfill
  BY <1>1 DEF files, Shm, H
<1>4. /\ Others(c) /\ pc'[c] = "recoverinfo" /\ w'[c] = w[c] /\ mine'[c] = mine[c]
  BY <1>1, OthersKept DEF Moves
<1>5. WRITE \in exclMask[c] /\ Slot \subseteq exclMask[c] /\ mine[c] = None
  BY <1>1, <1>2, NoWriter, Slots DEF CtlAt, LocksAt, RecoverPc, ModeAt, HdrPc
<1>6. /\ ~H.isInit /\ h.isInit /\ shm.nBackfill = 0 /\ (h.mxFrame > 0 => h.nPage > 0)
  BY <1>1, <1>5 DEF Heads, HeadAt, RecoverPc, InWrite
<1>7. /\ h \in Hdr /\ h.mxFrame \in Nat /\ h.nPage \in Nat /\ h.salt \in Nat /\ Len(db) \in Nat
  BY <1>2, HdrIs DEF WalObj
<1>8. /\ Covers(h) /\ Commits(h) /\ LastCommit(wal) = h.mxFrame /\ (h.mxFrame = 0 => h.nPage = 0)
      /\ h.salt \in {0, wal.salt}
  BY <1>1, <1>2 DEF RecoverAt
<1>9. d = LogView(h) /\ (h.mxFrame = 0 => Size(h) = Len(db))
  <2>1. h.mxFrame = 0 => Size(h) = Len(db)
    BY <1>8 DEF Size
  <2>2. QED BY <1>2, <1>6, <1>7, <1>8, <2>1, ViewRecovered
<1>10. Current' = d
  <2>1. LogView(h)' = LogView(h)
    BY <1>3 DEF LogView, Size, At, F, DbAt
  <2>2. QED BY <1>3, <1>9, <2>1 DEF Current, LogView, Size
<1>11. hist' \in Seq(Seq(Int)) /\ hist' # <<>> /\ Last(hist') = d /\ limbo' = None /\ lossy' = FALSE /\ floor' = floor
  <2> DEFINE K == {k \in (IF lossy THEN floor ELSE Len(hist))..Len(hist) : hist[k] = d}
  <2>1. /\ hist' = IF K # {} THEN SubSeq(hist, 1, Max(K)) ELSE Append(hist, d)
        /\ limbo' = None /\ lossy' = FALSE /\ floor' = floor
    BY DEF RecoverHdr0
  <2>2. d \in Seq(Int)
    BY <1>2, RecoveredIs
  <2>3. hist \in Seq(Seq(Int)) /\ floor \in Nat /\ floor > 0 /\ Len(hist) \in Nat /\ Len(hist) >= 1
    BY <1>2 DEF HistOK
  <2>4. CASE K # {}
    <3>1. K \subseteq 0..Len(hist) /\ \A k \in K : k >= 1 /\ hist[k] = d
      BY <2>3
    <3> HIDE DEF K
    <3>2. PICK m : m = Max(K)
      OBVIOUS
    <3>3. m \in K
      BY <2>3, <2>4, <3>1, <3>2, MaxIn
    <3>4. m \in 1..Len(hist) /\ hist[m] = d
      BY <2>3, <3>1, <3>3
    <3>5. SubSeq(hist, 1, m) \in Seq(Seq(Int)) /\ Len(SubSeq(hist, 1, m)) = m /\ SubSeq(hist, 1, m)[m] = d
      BY <2>3, <3>4
    <3>6. QED BY <2>1, <2>4, <3>2, <3>4, <3>5 DEF Last
  <2>5. CASE K = {}
    <3>1. hist' = Append(hist, d)
      BY <2>1, <2>5
    <3> HIDE DEF K
    <3>2. hist' \in Seq(Seq(Int)) /\ hist' # <<>> /\ Last(hist') = d
      <4>1. PICK T : T = Seq(Int)
        OBVIOUS
      <4>2. d \in T /\ hist \in Seq(T)
        BY <2>2, <2>3, <4>1
      <4>3. hist' \in Seq(T) /\ hist' # <<>> /\ Last(hist') = d
        BY <3>1, <4>2, AppendIs
      <4>4. QED BY <4>1, <4>3
    <3>3. QED BY <2>1, <3>2
  <2>6. QED BY <2>4, <2>5
<1>12. HistOK'
  BY <1>2, <1>11 DEF HistOK, Image
<1>13. DrawnInv'
  BY <1>1, <1>2, <1>3, SameDrawn
<1>14. Covers(H)' /\ Commits(H)'
  BY <1>3, <1>8 DEF Covers, Counts, Commits, Links, Chain
<1>15. mxH' = h.mxFrame /\ Size(H)' = Size(h)
  BY <1>3 DEF mxH, Size
<1>16. EndOfLog'
  <2>1. CASE h.mxFrame > 0
    BY <1>3, <1>8, <1>15, <2>1 DEF EndOfLog
  <2>2. CASE h.mxFrame = 0
    <3>1. wal.salt \in Nat /\ d = db
      BY <1>2, <1>8, <2>2, LogIs, RecoveredFile
    <3>2. ASSUME NEW s \in {wal.salt, h.salt} PROVE Recovered(db, Salted(s)) = d
      <4>1. CASE s = wal.salt
        BY <1>2, <3>1, <4>1, SaltedIs
      <4>2. CASE s # wal.salt
        <5>1. s = 0 /\ Salted(s) \in Log /\ Salted(s).salt = 0
          BY <1>2, <1>8, <4>2, SaltedIs
        <5>2. LastCommit(Salted(s)) = 0
          BY <5>1 DEF LastCommit
        <5>3. QED BY <1>2, <3>1, <5>1, <5>2, RecoveredFile
      <4>3. QED BY <4>1, <4>2
    <3>3. \A s \in {wal.salt, h.salt} : Recovered(db, Salted(s))' = d
      BY <1>3, <3>2, SameFiles
    <3>4. QED BY <1>3, <1>11, <1>15, <2>2, <3>3 DEF EndOfLog, Salted
  <2>3. QED BY <1>7, <2>1, <2>2
<1>17. Whole'
  BY <1>3, <1>6, <1>7, <1>9, <1>15 DEF Whole
<1>18. LogInv'
  <2>1. Live'
    BY <1>3, <1>4, <1>6 DEF Live
  <2>2. QED BY <1>10, <1>11, <1>14, <1>16, <1>17, <2>1 DEF LogInv
<1>19. CountAt(c) /\ (w[c].nCkpt > 0 => h.salt > 0)
  BY <1>2, <1>6 DEF CountAt
<1>20. CrashAt(c)'
  BY <1>3, <1>4, <1>5, <1>6, <1>19 DEF CrashAt, CountAt, WriterAt, RecoverAt, CkSizeAt, InWrite
<1>21. ASSUME NEW e \in Conn \ {c} PROVE CkSizeAt(e)'
  <2>1. pc[e] \notin CkWritePc
    <3>1. READ(0) \in exclMask[c]
      BY <1>5, Slots
    <3>2. LocksAt(e) /\ Excluded
      BY CrashTypes DEF CtlAt, Ctl
    <3>3. READ(0) \notin exclMask[e]
      BY <3>1, <3>2 DEF Excluded
    <3>4. QED BY <3>2, <3>3 DEF LocksAt
  <2>2. pc'[e] = pc[e]
    BY <1>4 DEF Others
  <2>3. QED BY <2>1, <2>2 DEF CkSizeAt, CkWritePc
<1>22. QED BY <1>3, <1>4, <1>5, <1>6, <1>12, <1>13, <1>18, <1>20, <1>21, StepCrash

-----------------------------------------------------------------------------
(* A restart of the log, and the frames of a call *)

\* Only one connection writes frames.
LEMMA NoCommit ==
  ASSUME Ctl, NEW c \in Conn, WRITE \in exclMask[c], ~CommitFrameWritten(c)
  PROVE  ~Committing
<1>1. ASSUME NEW d \in Conn, CommitFrameWritten(d), d # c PROVE FALSE
  <2>1. pc[d] \in WritePc
    BY <1>1 DEF CommitFrameWritten, WritePc, FramePc
  <2>2. QED BY <1>1, <2>1, WriterAlone
<1>2. QED BY <1>1 DEF Committing

\* While one connection has the first read mark, no checkpoint writes.
LEMMA NoCheckpoint ==
  ASSUME Ctl, NEW c \in Conn, READ(0) \in sharedMask[c] \cup exclMask[c], NEW d \in Conn, d # c
  PROVE  pc[d] \notin CkWritePc
<1>1. LocksAt(d) /\ Excluded
  BY CrashTypes DEF CtlAt, Ctl
<1>2. READ(0) \notin exclMask[d]
  BY <1>1 DEF Excluded
<1>3. QED BY <1>1, <1>2 DEF LocksAt

\* The log has no frames any more: the file has them all.
LEMMA RestartHdr0Crash == ASSUME Ctl, Heads, Data, Crash, NEW c \in Conn, RestartHdr0(c) PROVE Crash'
<1> SUFFICES ASSUME NEW h, h = w[c].hdr PROVE Crash'
  OBVIOUS
<1>1. /\ pc[c] = "restart0" /\ Moves(c, "restartinfo") /\ UNCHANGED <<files, seed, Past>>
      /\ Shm(h, shm.hdr[1], shm.nBackfill, shm.aReadMark, shm.aPgno)
  BY CrashTypes, RestartHdr0Does, PastKept
<1>2. InWrite(c) /\ mine[c] # None /\ w[c].readLock = 0 /\ CtlAt(c)
  BY <1>1, CrashTypes DEF ModeAt, TransAt, WritePc, RestartPc, InWrite
<1>3. /\ WriterAt(c) /\ CountAt(c) /\ DrawnInv /\ HistOK /\ WalTypeOK /\ WRITE \in exclMask[c] /\ Live
      /\ Last(hist) = Current /\ ~lossy /\ Whole /\ seed \in Nat /\ seed >= seed
      /\ h \in Hdr /\ h.salt \in Nat /\ h.nPage \in Nat
  BY <1>2, WriterIs
<1>4. /\ UNCHANGED <<wal, walDisk, db, hist, limbo, lossy, floor>> /\ H' = h /\ shm'.aPgno = shm.aPgno
      /\ shm'.nBackfill = shm.nBackfill
  BY <1>1 DEF files, Past, Shm, H
<1>5. Others(c) /\ pc'[c] = "restartinfo" /\ call'[c] = call[c] /\ w'[c] = w[c] /\ mine'[c] = mine[c] /\ cached'[c] = cached[c]
  BY <1>1, OthersKept DEF Moves
<1>6. h.mxFrame = 0 /\ h.salt > 0 /\ h.isInit
  BY <1>1, <1>2 DEF Heads, HeadAt
<1>7. /\ h.nPage = H.nPage /\ mxH > 0 /\ shm.nBackfill >= mxH /\ cached[c] = Current
  BY <1>1, <1>2, DataIs DEF WriteAt
<1>8. Current' = Current
  <2>1. Data'
    BY RestartHdr0Data
  <2>2. InWrite(c)'
    BY <1>2, <1>5 DEF InWrite
  <2>3. (cached[c] = Current)'
    BY <2>1, <2>2 DEF Data, DataAt, WriteAt
  <2>4. QED BY <1>5, <1>7, <2>3
<1>9. /\ mxH \in Nat /\ H.nPage > 0 /\ Size(H) = Len(db) /\ wal \in Log /\ db \in Seq(Int) /\ wal.salt \in Nat
  <2>1. mxH \in Nat /\ wal \in Log /\ db \in Seq(Int) /\ (mxH > 0 => H.nPage > 0)
    BY <1>3, LiveIs DEF Live
  <2>2. QED BY <1>3, <1>7, <2>1, LogIs DEF Whole
<1>10. mxH' = 0 /\ Size(H)' = Len(db)'
  BY <1>4, <1>6, <1>7, <1>9 DEF mxH, Size
<1>11. EndOfLog'
  <2>1. ASSUME NEW s \in {wal.salt, h.salt} PROVE Recovered(db, Salted(s)) \in {Last(hist), limbo}
    <3>1. CASE s = h.salt
      <4>1. /\ Salted(s) \in Log /\ Salted(s).salt = s /\ Salted(s).frames = wal.frames
        BY <1>3, <1>9, <3>1, SaltedIs
      <4>2. \A i \in 1..Len(wal.frames) : wal.frames[i].salt # h.salt
        BY <1>1, <1>2, <1>3 DEF WriterAt, Begins
      <4>3. Recovered(db, Salted(s)) = db
        <5>1. Len(wal.frames) \in Nat
          BY <1>9, LogIs
        <5>2. QED BY <1>9, <3>1, <4>1, <4>2, <5>1, OtherLog
      <4>4. Current = db
        BY <1>1, <1>3, <1>7, FileIsWhole
      <4>5. QED BY <1>3, <4>3, <4>4
    <3>2. CASE s = wal.salt
      <4>1. ~Committing
        BY <1>1, <1>3, NoCommit DEF CommitFrameWritten
      <4>2. Recovered(db, wal) \in {Last(hist), limbo}
        BY <1>3, <4>1, RecoverNow
      <4>3. QED BY <1>9, <3>2, <4>2, SaltedIs
    <3>3. QED BY <3>1, <3>2
  <2>2. \A s \in {wal.salt, h.salt} : Recovered(db, Salted(s))' \in {Last(hist), limbo}
    BY <1>4, <2>1, SameFiles
  <2>3. QED BY <1>4, <1>10, <2>2 DEF EndOfLog, Salted
<1>12. Covers(H)' /\ Commits(H)' /\ Whole'
  BY <1>10 DEF Covers, Counts, Commits, Whole, mxH
<1>13. Live'
  BY <1>4, <1>5, <1>6 DEF Live
<1>14. LogInv'
  BY <1>3, <1>4, <1>8, <1>11, <1>12, <1>13 DEF LogInv
<1>15. DrawnInv' /\ HistOK'
  BY <1>1, <1>3, <1>4, SameDrawn DEF HistOK
<1>16. CountAt(c)'
  BY <1>4, <1>5, <1>6 DEF CountAt
<1>17. WriterAt(c)'
  <2>1. Counts(w[c].hdr)' /\ Covers(w[c].hdr)'
    BY <1>5, <1>6 DEF Counts, Covers
  <2>2. Begins(c)' /\ GivenUp(c)'
    BY <1>4, <1>5 DEF Begins, GivenUp
  <2>3. Breaks(c)'
    BY <1>1, <1>2, <1>3, <1>4, <1>5 DEF WriterAt, Breaks, Written, InFrames
  <2>4. UndoTo(c)' = UndoTo(c)
    BY <1>5 DEF UndoTo
  <2>5. w[c].svpt # None /\ UndoTo(c) > 0 => w[c].svpt.cksum = Chain(wal, UndoTo(c))
    BY <1>1, <1>2, <1>3 DEF WriterAt
  <2>6. (mxH' + 1)..w'[c].hdr.mxFrame = {}
    BY <1>5, <1>6, <1>10
  <2>7. QED BY <1>4, <1>5, <2>1, <2>2, <2>3, <2>4, <2>5, <2>6 DEF WriterAt, InFrames, Chain
<1>18. CrashAt(c)'
  BY <1>5, <1>16, <1>17 DEF CrashAt, RecoverAt, CkSizeAt
<1>19. ASSUME NEW d \in Conn \ {c} PROVE CkSizeAt(d)'
  <2>1. READ(0) \in sharedMask[c]
    BY <1>2 DEF CtlAt, LocksAt
  <2>2. pc[d] \notin CkWritePc
    BY <2>1, NoCheckpoint
  <2>3. pc'[d] = pc[d]
    BY <1>5 DEF Others
  <2>4. QED BY <2>2, <2>3 DEF CkSizeAt, CkWritePc
<1>20. QED BY <1>3, <1>4, <1>5, <1>6, <1>14, <1>15, <1>18, <1>19, StepCrash

LEMMA CurrentIsFile ==
  ASSUME mxH = 0
  PROVE  Current = [p \in 1..Size(H) |-> DbAt(p)]
BY NoFrames DEF Current, LogView, mxH

\* The header of the log is written before its first frame.
LEMMA WriteWalHdrCrash == ASSUME Ctl, Heads, Data, Crash, NEW c \in Conn, WriteWalHdr(c) PROVE Crash'
<1> SUFFICES ASSUME NEW h, NEW mx, NEW salt, h = w[c].hdr, mx = h.mxFrame,
                    salt = IF w[c].nCkpt = 0 THEN seed ELSE h.salt
             PROVE  Crash'
  OBVIOUS
<1>1. /\ pc[c] = "walhdr" /\ UNCHANGED <<shm, walDisk, db, Past>>
  BY PastKept DEF WriteWalHdr
<1>2. InWrite(c) /\ mine[c] # None /\ call[c].mode = "write"
  BY <1>1, CrashTypes DEF ModeAt, TransAt, WritePc, FramePc, InWrite
<1>3. /\ WriterAt(c) /\ CountAt(c) /\ DrawnInv /\ HistOK /\ WalTypeOK /\ WRITE \in exclMask[c] /\ Live
      /\ Last(hist) = Current /\ ~lossy /\ Whole /\ EndOfLog /\ seed \in Nat /\ seed > 0
      /\ h \in Hdr /\ mx \in Nat /\ h.salt \in Nat /\ w[c] \in WalObj /\ call[c] \in Call /\ w[c].nCkpt \in Nat
  BY <1>2, WriterIs DEF WalTypeOK
<1>4. H' = H /\ mxH' = mxH /\ ShmKept(c) /\ UNCHANGED <<hist, floor, limbo, lossy>>
  BY <1>1, ShmIsKept DEF H, mxH, Past
<1>5. /\ Counts(h) /\ Covers(h) /\ Breaks(c) /\ Begins(c)
      /\ \A i \in (mxH + 1)..mx : wal.frames[i].nTruncate = 0
      /\ w[c].svpt # None /\ UndoTo(c) > 0 => w[c].svpt.cksum = Chain(wal, UndoTo(c))
  BY <1>1, <1>2, <1>3 DEF WriterAt, InFrames
<1> DEFINE k == [call[c] EXCEPT !.iFrame = mx]
           o == [w[c] EXCEPT !.hdr = [h EXCEPT !.salt = salt, !.cksum = <<0, salt>>]]
<1>6. k.iFrame = mx /\ k.mode = "write" /\ k.data = call[c].data
  BY <1>2, <1>3 DEF Call
<1>7. CASE mx > 0
  <2>1. Calls(c, "frame", k) /\ UNCHANGED <<wal, seed>>
    <3>1. call' = [call EXCEPT ![c].iFrame = mx] /\ pc' = [pc EXCEPT ![c] = "frame"] /\ UNCHANGED <<w, wal, seed, cached, mine>>
      BY <1>7 DEF WriteWalHdr, Goto, ghosts
    <3>2. call' = [call EXCEPT ![c] = k]
      BY <1>3, <3>1 DEF WalTypeOK
    <3> HIDE DEF k
    <3>3. QED BY <1>3, <3>1, <3>2, SameUpdate DEF Calls, Does
  <2> HIDE DEF k
  <2>2. Does(c, "frame", k, w[c], cached[c], mine[c])
    BY <2>1 DEF Calls
  <2>3. pc'[c] = "frame" /\ call'[c] = k /\ w'[c] = w[c] /\ mine'[c] = mine[c]
    BY <2>2, OthersKept
  <2>4. WriterAt(c)'
    <3>1. Counts(w[c].hdr)'
      BY <1>1, <1>5, <2>1, <2>3 DEF Counts, Links, Chain
    <3>2. NewFrames(c)'
      <4>1. wal.salt = h.salt /\ wal.salt > 0 /\ h.cksum = Chain(wal, mx)
        BY <1>5, <1>7 DEF Covers, Counts
      <4>2. 1..(mx - mx) = {}
        BY <1>3
      <4>3. QED BY <1>6, <2>1, <2>3, <4>1, <4>2 DEF NewFrames, Chain
    <3>3. Breaks(c)'
      BY <1>1, <1>2, <1>3, <1>5, <1>6, <2>1, <2>3 DEF Breaks, Written, InFrames
    <3>4. Begins(c)' /\ GivenUp(c)'
      BY <1>3, <1>6, <1>7, <2>3 DEF Begins, GivenUp
    <3>5. UndoTo(c)' = UndoTo(c)
      BY <2>3 DEF UndoTo
    <3>6. QED BY <1>4, <1>5, <2>1, <2>3, <3>1, <3>2, <3>3, <3>4, <3>5 DEF WriterAt, InFrames, Chain
  <2>5. CountAt(c)'
    BY <1>1, <1>2, <1>3, <1>4, <2>3 DEF CountAt, InWrite
  <2>6. ~CommitFrameWritten(c) /\ ~CommitFrameWritten(c)' /\ seed >= seed
    BY <1>1, <1>3, <2>3 DEF CommitFrameWritten
  <2>7. QED BY <1>1, <1>3, <1>4, <2>1, <2>2, <2>4, <2>5, <2>6, WriterCrash
<1>8. CASE mx = 0
  <2>1. /\ wal' = [wal EXCEPT !.salt = salt, !.nCkpt = w[c].nCkpt]
        /\ seed' = IF w[c].nCkpt = 0 THEN seed + 1 ELSE seed
        /\ w' = [w EXCEPT ![c].hdr.salt = salt, ![c].hdr.cksum = <<0, salt>>]
        /\ pc' = [pc EXCEPT ![c] = "walhdrsync"]
        /\ call' = [call EXCEPT ![c].iFrame = mx]
        /\ UNCHANGED <<cached, mine>>
    BY <1>1, <1>3, <1>8 DEF WriteWalHdr, Goto, ghosts
  <2>2. /\ w' = [w EXCEPT ![c] = o] /\ call' = [call EXCEPT ![c] = k]
    <3>1. w \in [Conn -> WalObj] /\ call \in [Conn -> Call]
      BY <1>3 DEF WalTypeOK
    <3>2. call' = [call EXCEPT ![c] = k]
      BY <2>1, <3>1
    <3>3. w' = [w EXCEPT ![c] = [w[c] EXCEPT !.hdr = [w[c].hdr EXCEPT !.salt = salt, !.cksum = <<0, salt>>]]]
      BY <2>1, <3>1
    <3>4. QED BY <3>2, <3>3
  <2>3. /\ o.hdr.salt = salt /\ o.hdr.cksum = <<0, salt>> /\ o.hdr.mxFrame = 0 /\ o.nCkpt = w[c].nCkpt /\ o.svpt = w[c].svpt
    BY <1>3, <1>8 DEF WalObj, Hdr
  <2> HIDE DEF o, k
  <2>4. Does(c, "walhdrsync", k, o, cached[c], mine[c])
    BY <1>3, <2>1, <2>2, SameUpdate DEF Does
  <2>5. Others(c) /\ pc'[c] = "walhdrsync" /\ call'[c] = k /\ w'[c] = o /\ mine'[c] = mine[c]
    BY <2>4, OthersKept
  <2>6. /\ mxH = 0 /\ wal \in Log /\ db \in Seq(Int) /\ H.salt \in Nat /\ wal.salt \in Nat
    <3>1. mxH <= mx
      BY <1>1, <1>2, DataIs DEF WriteAt
    <3>2. mxH \in Nat /\ wal \in Log /\ db \in Seq(Int) /\ H.salt \in Nat
      BY <1>3, LiveIs DEF Live
    <3>3. QED BY <1>3, <1>8, <3>1, <3>2, LogIs
  <2>7. salt \in Nat /\ salt > 0 /\ (w[c].nCkpt > 0 => salt = h.salt)
    BY <1>1, <1>2, <1>3 DEF CountAt
  <2>8. /\ wal'.salt = salt /\ wal'.nCkpt = w[c].nCkpt /\ wal'.frames = wal.frames
    BY <2>1, <2>6 DEF Log
  <2>9. seed' \in Nat /\ seed' >= seed
    BY <1>3, <2>1
  <2>10. DrawnInv'
    <3>1. ASSUME NEW l \in {wal, walDisk}
          PROVE  \A i \in 1..Len(l.frames) : l.frames[i].salt < seed' /\ l.frames[i].prev[1] < seed'
      <4>1. \A i \in 1..Len(l.frames) : l.frames[i].salt \in Nat /\ l.frames[i].prev[1] \in Nat
        BY <1>3, LogIs DEF WalTypeOK
      <4>2. QED BY <1>3, <2>9, <4>1 DEF DrawnInv
    <3>2. walDisk.nCkpt > 0 => walDisk.salt > 0
      BY <1>3 DEF DrawnInv
    <3>3. ASSUME NEW l \in {wal', walDisk}
          PROVE  /\ l.nCkpt > 0 => l.salt > 0
                 /\ \A i \in 1..Len(l.frames) : l.frames[i].salt < seed' /\ l.frames[i].prev[1] < seed'
      BY <2>7, <2>8, <3>1, <3>2
    <3>4. QED BY <1>1, <3>3 DEF DrawnInv
  <2>11. HistOK'
    BY <1>3, <1>4 DEF HistOK
  <2>12. Current' = Current /\ Size(H)' = Size(H)
    <3>1. Size(H)' = Size(H) /\ \A p : DbAt(p)' = DbAt(p)
      BY <1>1, <1>4 DEF Size, DbAt
    <3>2. Current = [p \in 1..Size(H) |-> DbAt(p)]
      BY <2>6, CurrentIsFile
    <3>3. (mxH = 0)'
      BY <1>4, <2>6
    <3>4. Current' = [p \in 1..Size(H)' |-> DbAt(p)']
      <4>1. ASSUME NEW p PROVE F(mxH, p)' = 0
        <5>1. LastFrame(shm'.aPgno, 0, p) \in 0..0
          BY LastFrameIs
        <5>2. QED BY <3>3, <5>1 DEF F
      <4>2. \A p : At(mxH, p)' = DbAt(p)'
        BY <4>1 DEF At
      <4>3. QED BY <4>2 DEF Current, LogView, mxH
    <3>5. [p \in 1..Size(H)' |-> DbAt(p)'] = [p \in 1..Size(H) |-> DbAt(p)]
      BY <3>1
    <3>6. QED BY <3>1, <3>2, <3>4, <3>5
  <2>13. EndOfLog'
    <3>1. ASSUME NEW s \in {salt, H.salt} PROVE Recovered(db, Salted(s)) \in {Last(hist), limbo}
      <4>1. CASE s \in {wal.salt, H.salt}
        <5>1. ~Committing
          BY <1>1, <1>3, NoCommit DEF CommitFrameWritten
        <5>2. QED BY <1>3, <2>6, <4>1, <5>1 DEF EndOfLog
      <4>2. CASE s \notin {wal.salt, H.salt}
        <5>1. s = seed
          <6>1. w[c].nCkpt # 0 => h.salt \in {wal.salt, H.salt}
            BY <1>1, <1>5, <1>8 DEF Begins
          <6>2. QED BY <4>2, <6>1
        <5>2. Len(wal.frames) > 0 => wal.frames[1].salt # seed
          <6>1. Len(wal.frames) \in Nat /\ \A i \in 1..Len(wal.frames) : wal.frames[i].salt \in Nat
            BY <2>6, LogIs
          <6>2. \A i \in 1..Len(wal.frames) : wal.frames[i].salt < seed
            BY <1>3 DEF DrawnInv
          <6>3. QED BY <1>3, <6>1, <6>2
        <5>3. Salted(s) \in Log /\ Salted(s).frames = wal.frames /\ Salted(s).salt = s
          BY <1>3, <2>6, <5>1, SaltedIs
        <5>4. Recovered(db, Salted(s)) = db
          BY <2>6, <5>1, <5>2, <5>3, OtherLog
        <5>5. Current = db
          BY <1>1, <1>3, <2>6, FileIsWhole
        <5>6. QED BY <1>3, <5>4, <5>5
      <4>3. QED BY <4>1, <4>2
    <3>2. ASSUME NEW s \in {salt, H.salt} PROVE Recovered(db, Salted(s))' \in {Last(hist), limbo}
      <4>1. PICK lig : lig = Salted(s)'
        OBVIOUS
      <4>2. lig.salt = Salted(s).salt /\ lig.frames = Salted(s).frames
        BY <2>1, <2>6, <4>1 DEF Salted, Log
      <4>3. Recovered(db, lig) = Recovered(db, Salted(s))
        BY <4>2, SameRecovered
      <4>4. Recovered(db, Salted(s))' = Recovered(db, lig)
        BY <1>1, <4>1
      <4>5. QED BY <3>1, <4>3, <4>4
    <3>3. QED BY <1>4, <2>6, <2>8, <3>2 DEF EndOfLog, Salted
  <2>14. Covers(H)' /\ Commits(H)' /\ Whole'
    BY <1>1, <1>3, <1>4, <2>6, <2>12 DEF Covers, Counts, Commits, Whole, mxH
  <2>15. Live'
    BY <1>3, <1>4, <2>5 DEF Live
  <2>16. LogInv'
    BY <1>3, <1>4, <2>12, <2>13, <2>14, <2>15 DEF LogInv
  <2>17. CountAt(c)'
    BY <1>1, <1>2, <1>3, <1>4, <2>3, <2>5, <2>7 DEF CountAt, InWrite
  <2>18. WriterAt(c)'
    <3>1. Counts(w[c].hdr)'
      BY <2>3, <2>5 DEF Counts
    <3>2. NewFrames(c)'
      <4>1. 1..(0 - 0) = {}
        OBVIOUS
      <4>2. call'[c].iFrame = 0 /\ w'[c].hdr.mxFrame = 0
        BY <1>6, <1>8, <2>3, <2>5
      <4>3. QED BY <2>3, <2>5, <2>7, <2>8, <4>1, <4>2 DEF NewFrames, Chain
    <3>3. Breaks(c)'
      BY <1>1, <1>2, <1>5, <1>6, <1>8, <2>5, <2>8 DEF Breaks, Written, InFrames
    <3>4. Begins(c)' /\ GivenUp(c)'
      BY <1>6, <1>8, <2>3, <2>5, <2>8 DEF Begins, GivenUp
    <3>5. w'[c].svpt # None => ~(UndoTo(c)' > 0)
      <4>1. w[c].svpt # None => UndoTo(c) <= mx
        BY <1>2, DataIs DEF WriteAt, SvptAt
      <4>2. UndoTo(c)' = UndoTo(c) /\ w'[c].svpt = w[c].svpt
        BY <2>3, <2>5 DEF UndoTo
      <4>3. w[c].svpt # None => UndoTo(c) \in Nat
        BY <1>3 DEF UndoTo, WalObj, Svpt
      <4>4. QED BY <1>8, <4>1, <4>2, <4>3
    <3>6. (mxH' + 1)..w'[c].hdr.mxFrame = {}
      BY <1>4, <2>3, <2>5, <2>6
    <3>7. QED BY <2>5, <3>1, <3>2, <3>3, <3>4, <3>5, <3>6 DEF WriterAt, InFrames
  <2>19. CrashAt(c)'
    BY <2>5, <2>17, <2>18 DEF CrashAt, RecoverAt, CkSizeAt
  <2>20. QED BY <1>1, <1>3, <1>4, <2>5, <2>10, <2>11, <2>16, <2>19, StepCrash
<1>9. QED BY <1>3, <1>7, <1>8

LEMMA FrameOffset ==
  ASSUME NEW n \in Nat, NEW mx \in Nat, NEW len \in Nat, NEW last \in Nat, n \in mx..(mx + len - 1), n <= last
  PROVE  /\ n - mx + 1 \in 1..len /\ n + 1 \in 1..(last + 1)
         /\ n = mx + ((n - mx + 1) - 1) /\ n + 1 = mx + (n - mx + 1) /\ mx <= n
OBVIOUS

\* What writing a frame does.
Wrote(c, n, mx, l, k) ==
  /\ pc[c] = "frame" /\ UNCHANGED <<lockVars, shm, walDisk, db, seed, hist, floor, lossy>> /\ limbo' = None
  /\ n \in Nat /\ mx \in Nat /\ l \in Seq(Nat \ {0}) /\ Len(l) \in Nat /\ k \in 1..Len(l) /\ l[k] \in Nat \ {0}
  /\ n = mx + (k - 1) /\ n + 1 = mx + k /\ n <= Len(wal.frames) /\ mx <= n
  /\ wal' \in Log /\ wal'.salt = wal.salt /\ wal'.nCkpt = wal.nCkpt
  /\ Len(wal'.frames) >= n + 1 /\ Len(wal'.frames) >= Len(wal.frames)
  /\ wal'.frames[n + 1] = [pg |-> l[k], data |-> call[c].data,
                           nTruncate |-> IF k = Len(l) THEN call[c].nTruncate ELSE 0,
                           salt |-> w[c].hdr.salt, prev |-> w[c].hdr.cksum]
  /\ \A j \in 1..Len(wal'.frames) :
       j # n + 1 => j <= Len(wal.frames) /\ wal'.frames[j] = wal.frames[j]
  /\ Others(c) /\ mine'[c] = mine[c] /\ call'[c] = [call[c] EXCEPT !.iFrame = n + 1]
  /\ \E o \in WalObj : /\ w'[c] = o /\ o.hdr = [w[c].hdr EXCEPT !.cksum = <<call[c].data, l[k]>>]
                       /\ o.nCkpt = w[c].nCkpt /\ o.svpt = w[c].svpt
  /\ pc'[c] \in {"frame", "framesync", "index"} /\ (pc'[c] = "frame" <=> k # Len(l))

LEMMA FrameIsWritten ==
  ASSUME WalTypeOK, NEW c \in Conn, WriteFrame(c), FrameStepAt(c)
  PROVE  Wrote(c, call[c].iFrame, w[c].hdr.mxFrame, call[c].list, call[c].iFrame - w[c].hdr.mxFrame + 1)
<1> SUFFICES ASSUME NEW n, NEW mx, NEW l, NEW k, n = call[c].iFrame, mx = w[c].hdr.mxFrame, l = call[c].list,
                    k = n - mx + 1
             PROVE  Wrote(c, n, mx, l, k)
  OBVIOUS
<1> DEFINE last == k = Len(l)
           f == [pg |-> l[k], data |-> call[c].data, nTruncate |-> IF last THEN call[c].nTruncate ELSE 0,
                 salt |-> w[c].hdr.salt, prev |-> w[c].hdr.cksum]
           to == IF ~last THEN "frame"
                 ELSE IF call[c].nTruncate # 0 /\ env.full THEN "framesync" ELSE "index"
           o == [w[c] EXCEPT !.hdr.cksum = <<call[c].data, l[k]>>]
<1>1. /\ pc[c] = "frame" /\ UNCHANGED <<lockVars, shm, walDisk, db, dbDisk, seed, hist, floor, lossy>>
      /\ UNCHANGED <<cached, mine>> /\ limbo' = None
      /\ wal' = [wal EXCEPT !.frames = PutFrame(@, n + 1, f)]
      /\ w' = [w EXCEPT ![c].hdr.cksum = <<call[c].data, l[k]>>]
      /\ call' = [call EXCEPT ![c].iFrame = n + 1] /\ pc' = [pc EXCEPT ![c] = to]
  BY DEF WriteFrame, Goto
<1>2. call[c] \in Call /\ w[c] \in WalObj /\ w[c].hdr \in Hdr /\ wal \in Log
  BY DEF WalTypeOK, WalObj
<1>3. /\ n \in Nat /\ mx \in Nat /\ call[c].data \in Nat /\ l \in Seq(Nat \ {0}) /\ Len(l) \in Nat
      /\ call[c].nTruncate \in Nat /\ w[c].hdr.salt \in Nat /\ w[c].hdr.cksum \in Pair
      /\ wal.frames \in Seq(Frame) /\ Len(wal.frames) \in Nat
  <2>1. n \in Nat /\ call[c].data \in Nat /\ l \in Seq(Nat \ {0}) /\ call[c].nTruncate \in Nat
    BY <1>2 DEF Call
  <2>2. mx \in Nat /\ w[c].hdr.salt \in Nat /\ w[c].hdr.cksum \in Pair
    BY <1>2 DEF Hdr
  <2>3. wal.frames \in Seq(Frame)
    BY <1>2 DEF Log
  <2>4. QED BY <2>1, <2>2, <2>3
<1>4. n \in mx..(mx + Len(l) - 1) /\ n <= Len(wal.frames)
  BY <1>1 DEF FrameStepAt
<1>5. k \in 1..Len(l) /\ n + 1 \in 1..(Len(wal.frames) + 1) /\ n = mx + (k - 1) /\ n + 1 = mx + k /\ mx <= n
  <2>1. /\ n - mx + 1 \in 1..Len(l) /\ n + 1 \in 1..(Len(wal.frames) + 1)
        /\ n = mx + ((n - mx + 1) - 1) /\ n + 1 = mx + (n - mx + 1) /\ mx <= n
    BY ONLY <1>3, <1>4, FrameOffset
  <2>2. QED BY <2>1
<1>6. l[k] \in Nat \ {0}
  <2>1. PICK i \in 1..Len(l) : i = k
    BY <1>5
  <2>2. l[i] \in Nat \ {0}
    BY ONLY <1>3, <2>1
  <2>3. QED BY <2>1, <2>2
<1>7. f \in Frame
  BY <1>3, <1>6 DEF Frame
<1> HIDE DEF f
<1>8. wal' \in Log /\ wal'.salt = wal.salt /\ wal'.nCkpt = wal.nCkpt /\ wal'.frames = PutFrame(wal.frames, n + 1, f)
  BY <1>1, <1>2, <1>3, <1>5, <1>7, PutFrameIs DEF Log
<1>9. LET g == PutFrame(wal.frames, n + 1, f) IN
         /\ Len(g) >= Len(wal.frames) /\ Len(g) >= n + 1
         /\ g[n + 1] = f
         /\ \A j \in 1..Len(g) : j # n + 1 => j <= Len(wal.frames) /\ g[j] = wal.frames[j]
  BY ZenonT(40), <1>3, <1>5, <1>7, PutFrameIs
<1>10. /\ o \in WalObj /\ o.hdr = [w[c].hdr EXCEPT !.cksum = <<call[c].data, l[k]>>]
       /\ o.nCkpt = w[c].nCkpt /\ o.svpt = w[c].svpt /\ w' = [w EXCEPT ![c] = o]
  <2>1. <<call[c].data, l[k]>> \in Pair
    BY <1>3, <1>6 DEF Pair
  <2>2. QED BY <1>1, <1>2, <2>1 DEF WalTypeOK, WalObj, Hdr
<1>11. call' = [call EXCEPT ![c] = [call[c] EXCEPT !.iFrame = n + 1]]
  BY <1>1 DEF WalTypeOK
<1>12. /\ to \in {"frame", "framesync", "index"} /\ (to = "frame" <=> k # Len(l))
  OBVIOUS
<1> HIDE DEF to, o
<1>13. w'[c] = o /\ pc'[c] = to /\ call'[c] = [call[c] EXCEPT !.iFrame = n + 1] /\ mine'[c] = mine[c] /\ Others(c)
  BY <1>1, <1>10, <1>11 DEF Others, WalTypeOK
<1>14. \E b \in WalObj : /\ w'[c] = b /\ b.hdr = [w[c].hdr EXCEPT !.cksum = <<call[c].data, l[k]>>]
                         /\ b.nCkpt = w[c].nCkpt /\ b.svpt = w[c].svpt
  BY <1>10, <1>13
<1>15. wal'.frames[n + 1] = [pg |-> l[k], data |-> call[c].data,
                             nTruncate |-> IF k = Len(l) THEN call[c].nTruncate ELSE 0,
                             salt |-> w[c].hdr.salt, prev |-> w[c].hdr.cksum]
  BY <1>8, <1>9 DEF f
<1>16. /\ Len(wal'.frames) >= n + 1 /\ Len(wal'.frames) >= Len(wal.frames)
       /\ \A j \in 1..Len(wal'.frames) : j # n + 1 => j <= Len(wal.frames) /\ wal'.frames[j] = wal.frames[j]
  BY <1>8, <1>9
<1>17. pc'[c] \in {"frame", "framesync", "index"} /\ (pc'[c] = "frame" <=> k # Len(l))
  BY <1>12, <1>13
<1> HIDE DEF last
<1>18. QED BY <1>1, <1>3, <1>4, <1>5, <1>6, <1>8, <1>13, <1>14, <1>15, <1>16, <1>17, ZenonT(40) DEF Wrote

\* A frame continues the chain; the last one of a commit ends the log.
LEMMA WriteFrameCrash == ASSUME Ctl, Heads, Data, Crash, NEW c \in Conn, WriteFrame(c) PROVE Crash'
<1>1. /\ WalTypeOK /\ CtlAt(c) /\ FrameStepAt(c) /\ ModeAt(c) /\ TransAt(c)
  BY CrashTypes DEF CtlAt
<1>d. PICK n, mx, k, l, h, len, lew :
        /\ n \in Nat /\ mx \in Nat /\ k \in Nat
        /\ n = call[c].iFrame /\ mx = w[c].hdr.mxFrame /\ l = call[c].list /\ h = w[c].hdr
        /\ len = Len(wal.frames) /\ lew = Len(wal'.frames)
        /\ Wrote(c, n, mx, l, k)
  <2>1. PICK n, mx, k, l :
          /\ n = call[c].iFrame /\ mx = w[c].hdr.mxFrame /\ l = call[c].list /\ k = n - mx + 1
          /\ Wrote(c, n, mx, l, k)
    BY <1>1, FrameIsWritten
  <2>2. n \in Nat /\ mx \in Nat /\ k \in Nat
    <3>1. n \in Nat /\ mx \in Nat /\ Len(l) \in Nat /\ k \in 1..Len(l)
      BY <2>1, ZenonT(20) DEF Wrote
    <3>2. \A e \in Nat : \A i \in 1..e : i \in Nat
      OBVIOUS
    <3>3. QED BY <3>1, <3>2, Zenon
  <2>3. QED BY <2>1, <2>2
<1>w. Wrote(c, n, mx, l, k)
  BY <1>d
<1>n. /\ n \in Nat /\ mx \in Nat /\ k \in Nat /\ Len(l) \in Nat /\ k >= 1 /\ k <= Len(l) /\ len \in Nat /\ lew \in Nat
      /\ n + 1 = mx + k /\ n <= len /\ mx <= n /\ lew >= n + 1 /\ lew >= len
  <2>1. wal \in Log /\ wal' \in Log
    BY <1>1, <1>w DEF Wrote, WalTypeOK
  <2>2. len \in Nat /\ lew \in Nat
    BY <1>d, <2>1, LogIs
  <2>3. /\ n \in Nat /\ mx \in Nat /\ Len(l) \in Nat /\ k \in 1..Len(l) /\ n + 1 = mx + k
        /\ n <= len /\ mx <= n /\ lew >= n + 1 /\ lew >= len
    BY <1>d, Zenon DEF Wrote
  <2>4. k \in Nat /\ k >= 1 /\ k <= Len(l)
    BY ONLY <2>3
  <2>5. QED BY <2>2, <2>3, <2>4
<1>f. \A j \in 1..lew : j # n + 1 => j <= len /\ wal'.frames[j] = wal.frames[j]
  BY <1>d DEF Wrote
<1>2. /\ pc[c] = "frame" /\ UNCHANGED <<lockVars, shm, walDisk, db, seed, hist, floor, lossy>> /\ limbo' = None
      /\ wal' \in Log /\ wal'.salt = wal.salt /\ wal'.nCkpt = wal.nCkpt
      /\ Others(c) /\ mine'[c] = mine[c] /\ call'[c] = [call[c] EXCEPT !.iFrame = n + 1]
      /\ pc'[c] \in {"frame", "framesync", "index"} /\ (pc'[c] = "frame" <=> k # Len(l))
      /\ l[k] \in Nat \ {0}
  BY <1>d DEF Wrote
<1>3. wal'.frames[n + 1] = [pg |-> l[k], data |-> call[c].data,
                            nTruncate |-> IF k = Len(l) THEN call[c].nTruncate ELSE 0,
                            salt |-> h.salt, prev |-> h.cksum]
  BY <1>d DEF Wrote
<1>4. PICK o \in WalObj : /\ w'[c] = o /\ o.hdr = [h EXCEPT !.cksum = <<call[c].data, l[k]>>]
                          /\ o.nCkpt = w[c].nCkpt /\ o.svpt = w[c].svpt
  BY <1>d DEF Wrote
<1>5. InWrite(c) /\ call[c].mode = "write"
  BY <1>1, <1>2 DEF ModeAt, TransAt, WritePc, FramePc
<1>6. /\ WriterAt(c) /\ CountAt(c) /\ DrawnInv /\ HistOK /\ WRITE \in exclMask[c] /\ Live
      /\ Last(hist) = Current /\ ~lossy /\ Whole /\ EndOfLog /\ Covers(H) /\ Commits(H) /\ seed \in Nat
      /\ h \in Hdr /\ h.salt \in Nat /\ w[c] \in WalObj /\ call[c] \in Call /\ H.isInit
  BY <1>d, <1>5, WriterIs
<1>7. /\ o.hdr.mxFrame = mx /\ o.hdr.salt = h.salt /\ o.hdr.cksum = <<call[c].data, l[k]>>
      /\ call'[c].iFrame = n + 1 /\ call'[c].list = l /\ call'[c].data = call[c].data
      /\ call'[c].nTruncate = call[c].nTruncate /\ call'[c].mode = "write"
  <2>1. /\ o.hdr.mxFrame = mx /\ o.hdr.salt = h.salt /\ o.hdr.cksum = <<call[c].data, l[k]>>
    BY <1>d, <1>4, <1>6 DEF Hdr
  <2>2. /\ call'[c].iFrame = n + 1 /\ call'[c].list = l /\ call'[c].data = call[c].data
        /\ call'[c].nTruncate = call[c].nTruncate /\ call'[c].mode = "write"
    BY <1>d, <1>2, <1>5, <1>6 DEF Call
  <2>3. QED BY <2>1, <2>2
<1>8. /\ Counts(h) /\ Breaks(c) /\ Begins(c) /\ wal.salt = h.salt /\ wal.salt > 0 /\ h.cksum = Chain(wal, n)
      /\ \A j \in 1..(n - mx) :
           /\ Links(wal, mx + j) /\ wal.frames[mx + j].pg = l[j]
           /\ wal.frames[mx + j].nTruncate = IF j = Len(l) THEN call[c].nTruncate ELSE 0
      /\ \A i \in (mxH + 1)..mx : wal.frames[i].nTruncate = 0
      /\ w[c].svpt # None /\ UndoTo(c) > 0 => w[c].svpt.cksum = Chain(wal, UndoTo(c))
  BY <1>d, <1>2, <1>5, <1>6 DEF WriterAt, NewFrames, InFrames
<1>9. mxH \in Nat /\ mxH <= mx
  BY <1>d, <1>2, <1>5, DataIs DEF WriteAt
<1>10. n - mx = k - 1 /\ k - 1 \in Nat
  BY <1>n
<1>11. ASSUME NEW i \in 1..n PROVE Links(wal, i) /\ (i > mxH => wal.frames[i].nTruncate = 0)
  <2>1. CASE i <= mx
    <3>1. i \in 1..mx /\ (i > mxH => i \in (mxH + 1)..mx)
      BY <1>n, <1>9, <2>1
    <3>2. Links(wal, i)
      BY <1>d, <1>8, <3>1 DEF Counts
    <3>3. QED BY <1>8, <3>1, <3>2
  <2>2. CASE i > mx
    <3>1. i \in Nat /\ mx < i /\ i <= mx + (k - 1)
      BY <1>n, <2>2
    <3>2. i - mx \in 1..(k - 1) /\ i = mx + (i - mx)
      BY <1>n, <1>10, <3>1, OffsetIn
    <3>3. i - mx # Len(l) /\ i - mx \in 1..(n - mx)
      BY <1>n, <1>10, <3>2
    <3>4. QED BY <1>8, <3>2, <3>3
  <2>3. QED BY <1>n, <2>1, <2>2
<1>12. wal \in Log /\ db \in Seq(Int) /\ H.nPage \in Nat
       /\ (mxH > 0 => H.nPage > 0) /\ wal.salt \in Nat /\ H.salt \in Nat
  <2>1. wal \in Log /\ db \in Seq(Int) /\ H.nPage \in Nat /\ (mxH > 0 => H.nPage > 0) /\ H.salt \in Nat
    BY <1>6, LiveIs DEF Live
  <2>2. QED BY <1>2, <2>1, LogIs
<1>13. \A i \in 1..n : wal'.frames[i] = wal.frames[i]
  BY <1>n, <1>f
<1>14. /\ \A i \in 0..n : Chain(wal', i) = Chain(wal, i)
       /\ Chain(wal', n + 1) = <<call[c].data, l[k]>>
  <2>1. \A i \in 0..n : Chain(wal', i) = Chain(wal, i)
    <3>1. \A i \in 0..n : i = 0 \/ i \in 1..n
      BY <1>n
    <3>2. QED BY <1>2, <1>13, <3>1 DEF Chain
  <2>2. Chain(wal', n + 1) = <<call[c].data, l[k]>>
    <3>1. n + 1 # 0
      BY <1>n
    <3>2. QED BY <1>3, <3>1 DEF Chain
  <2>3. QED BY <2>1, <2>2
<1>15. /\ Links(wal', n + 1) /\ wal'.frames[n + 1].pg = l[k]
       /\ wal'.frames[n + 1].nTruncate = IF k = Len(l) THEN call[c].nTruncate ELSE 0
  <2>1. (n + 1) - 1 = n /\ n \in 0..n
    BY <1>n
  <2>2. Chain(wal', (n + 1) - 1) = h.cksum
    BY <1>8, <1>14, <2>1
  <2>3. QED BY <1>2, <1>3, <1>8, <2>2 DEF Links
<1>16. ASSUME NEW i \in 1..n PROVE Links(wal', i)
  <2>1. i - 1 \in 0..n
    BY <1>n
  <2>2. QED BY <1>2, <1>11, <1>13, <1>14, <2>1 DEF Links
<1>17. \A i \in 1..(n + 1) : Links(wal', i)
  <2>1. \A i \in 1..(n + 1) : i = n + 1 \/ i \in 1..n
    BY <1>n
  <2>2. QED BY <1>15, <1>16, <2>1
<1>18. \A i \in 1..lew : i > n + 1 => wal'.frames[i].prev[1] # call[c].data
  <2>1. \A i \in 1..len : i > n => wal.frames[i].prev[1] # call[c].data
    BY <1>d, <1>2, <1>5, <1>8 DEF Breaks, Written, InFrames
  <2>2. \A i \in 1..lew : i > n + 1 => i \in 1..len /\ i > n /\ wal'.frames[i] = wal.frames[i]
    BY <1>n, <1>f
  <2>3. QED BY <2>1, <2>2
<1>19. ValidFrames(wal') = n + 1
  <2>1. n + 1 < lew => ~Links(wal', (n + 1) + 1)
    <3>1. SUFFICES ASSUME n + 1 < lew, Links(wal', (n + 1) + 1) PROVE FALSE
      OBVIOUS
    <3>2. (n + 1) + 1 \in 1..lew /\ (n + 1) + 1 > n + 1 /\ ((n + 1) + 1) - 1 = n + 1
      BY <1>n, <3>1
    <3>3. wal'.frames[(n + 1) + 1].prev = <<call[c].data, l[k]>>
      BY <1>14, <3>1, <3>2 DEF Links
    <3>4. QED BY <1>18, <3>2, <3>3
  <2>2. n + 1 \in 0..lew
    BY <1>n
  <2>3. QED BY <1>d, <1>2, <1>17, <2>1, <2>2, ChainEnds
<1>20. H' = H /\ mxH' = mxH /\ Size(H)' = Size(H) /\ \A p : DbAt(p)' = DbAt(p)
  BY <1>2 DEF H, mxH, Size, DbAt
<1>21. Current' = Current
  <2>1. \A p : F(mxH, p)' = F(mxH, p) /\ F(mxH, p) \in 0..mxH
    <3>1. \A p : LastFrame(shm.aPgno, mxH, p) \in 0..mxH
      BY <1>9, LastFrameIs
    <3>2. QED BY <1>2, <1>20, <3>1 DEF F
  <2>2. \A p : At(mxH, p)' = At(mxH, p)
    <3>1. \A p : F(mxH, p) # 0 => wal'.frames[F(mxH, p)] = wal.frames[F(mxH, p)]
      <4>1. \A p : F(mxH, p) # 0 => F(mxH, p) \in 1..n
        BY <1>n, <1>9, <2>1
      <4>2. QED BY <1>13, <4>1
    <3>2. QED BY <1>20, <2>1, <3>1 DEF At
  <2>3. QED BY <1>20, <2>2 DEF Current, LogView, mxH, H
<1>22. Covers(H)' /\ Commits(H)' /\ Whole'
  <2>1. \A i \in 1..mxH : Links(wal', i) /\ wal'.frames[i] = wal.frames[i]
    <3>1. \A i \in 1..mxH : i \in 1..n
      BY <1>n, <1>9
    <3>2. QED BY <1>13, <1>16, <3>1
  <2>2. Counts(H)'
    BY <1>2, <1>6, <1>20, <2>1 DEF Covers, Counts, mxH
  <2>3. mxH > 0 => H.cksum = Chain(wal', mxH)
    <3>1. mxH \in 0..n
      BY <1>n, <1>9
    <3>2. QED BY <1>6, <1>14, <3>1 DEF Covers, mxH
  <2>4. Covers(H)'
    BY <1>20, <2>2, <2>3 DEF Covers, mxH
  <2>5. Commits(H)'
    <3>1. mxH > 0 => mxH \in 1..mxH
      BY <1>9
    <3>2. QED BY <1>6, <1>20, <2>1, <3>1 DEF Commits, mxH
  <2>6. Whole'
    BY <1>2, <1>6, <1>20 DEF Whole
  <2>7. QED BY <2>2, <2>4, <2>5, <2>6
<1>23. mxH = 0 => Current = db
  BY <1>2, <1>6, FileIsWhole
<1>24. mxH = 0 => \A s \in {wal'.salt, H.salt} : s # wal'.salt => Recovered(db, Salted(s))' = Last(hist)
  <2>1. SUFFICES ASSUME mxH = 0, NEW s \in {wal'.salt, H.salt}, s # wal'.salt
                 PROVE  Recovered(db, Salted(s))' = Last(hist)
    OBVIOUS
  <2>2. PICK lig : lig = Salted(s)'
    OBVIOUS
  <2>3. lig \in Log /\ lig.salt = s /\ lig.frames = wal'.frames
    BY <1>2, <1>12, <2>1, <2>2 DEF Salted, Log
  <2>4. wal'.frames[1].salt = wal'.salt
    <3>1. 1 \in 1..(n + 1)
      BY <1>n
    <3>2. QED BY <1>17, <3>1 DEF Links
  <2>5. Recovered(db, lig) = db
    BY <1>12, <2>1, <2>3, <2>4, OtherLog
  <2>6. Recovered(db, Salted(s))' = Recovered(db, lig)
    BY <1>2, <2>2
  <2>7. QED BY <1>6, <1>23, <2>1, <2>5, <2>6
<1>25. EndOfLog'
  <2>1. CASE k = Len(l) /\ call[c].nTruncate # 0
    <3>1. Committing'
      BY <1>2, <1>7, <2>1 DEF Committing, CommitFrameWritten
    <3>2. H.salt = H.salt'
      BY <1>20
    <3>3. CASE mxH > 0
      BY <1>20, <3>1, <3>3 DEF EndOfLog
    <3>4. CASE mxH = 0
      <4>1. ~((mxH)' > 0)
        BY <1>20, <3>4
      <4>2. \A s \in {wal'.salt, H.salt'} : s = wal'.salt \/ Recovered(db, Salted(s))' = Last(hist)'
        BY <1>2, <1>24, <3>2, <3>4
      <4>3. QED BY <3>1, <4>1, <4>2 DEF EndOfLog
    <3>5. QED BY <1>9, <3>3, <3>4
  <2>2. CASE ~(k = Len(l) /\ call[c].nTruncate # 0)
    <3>1. ASSUME NEW i \in 1..(n + 1), i > mxH PROVE wal'.frames[i].nTruncate = 0
      <4>1. CASE i = n + 1
        BY <1>15, <2>2, <4>1
      <4>2. CASE i # n + 1
        <5>1. i \in 1..n
          BY <1>n, <4>2
        <5>2. QED BY <1>11, <1>13, <3>1, <5>1
      <4>3. QED BY <4>1, <4>2
    <3>2. mxH # 0 => wal'.frames[mxH].nTruncate # 0
      <4>1. mxH # 0 => mxH \in 1..n
        BY <1>n, <1>9
      <4>2. mxH # 0 => wal.frames[mxH].nTruncate = H.nPage
        BY <1>6, <1>9 DEF Commits, mxH
      <4>3. QED BY <1>9, <1>12, <1>13, <4>1, <4>2
    <3>3. LastCommit(wal') = mxH
      <4>1. mxH \in 0..ValidFrames(wal') /\ wal'.salt # 0
        <5>1. mxH \in 0..(n + 1)
          BY <1>n, <1>9
        <5>2. QED BY <1>2, <1>8, <1>12, <1>19, <5>1
      <4>2. \A i \in 1..ValidFrames(wal') : i > mxH => wal'.frames[i].nTruncate = 0
        BY <1>19, <3>1
      <4>3. QED BY <1>2, <3>2, <4>1, <4>2, CommitAt
    <3>4. mxH = 0 => Recovered(db, Salted(wal.salt))' = Last(hist)
      <4>1. SUFFICES ASSUME mxH = 0 PROVE Recovered(db, Salted(wal.salt))' = Last(hist)
        OBVIOUS
      <4>2. PICK lig : lig = Salted(wal.salt)'
        OBVIOUS
      <4>3. lig.salt = wal'.salt /\ lig.frames = wal'.frames
        BY <1>2, <4>2 DEF Salted, Log
      <4>4. Recovered(db, lig) = Recovered(db, wal')
        BY <4>3, SameRecovered
      <4>5. Recovered(db, wal') = db
        BY <1>2, <1>12, <3>3, <4>1, RecoveredFile
      <4>6. Recovered(db, Salted(wal.salt))' = Recovered(db, lig)
        BY <1>2, <4>2
      <4>7. QED BY <1>6, <1>23, <4>1, <4>4, <4>5, <4>6
    <3>5. CASE mxH > 0
      BY <1>2, <1>20, <3>3, <3>5 DEF EndOfLog
    <3>6. CASE mxH = 0
      <4>1. ~((mxH)' > 0)
        BY <1>20, <3>6
      <4>2. H.salt' = H.salt
        BY <1>20
      <4>3. \A s \in {wal.salt', H.salt'} : Recovered(db, Salted(s))' = Last(hist)'
        BY <1>2, <1>24, <3>4, <3>6, <4>2
      <4>4. QED BY <4>1, <4>3 DEF EndOfLog
    <3>7. QED BY <1>9, <3>5, <3>6
  <2>3. QED BY <2>1, <2>2
<1>26. DrawnInv'
  <2>1. h.salt < seed /\ h.cksum[1] < seed
    BY <1>d, HeadIs DEF HeadAt, Older
  <2>2. ASSUME NEW i \in 1..lew PROVE wal'.frames[i].salt < seed /\ wal'.frames[i].prev[1] < seed
    <3>1. CASE i = n + 1
      BY <1>3, <2>1, <3>1
    <3>2. CASE i # n + 1
      <4>1. i \in 1..len /\ wal'.frames[i] = wal.frames[i]
        BY <1>f, <1>n, <3>2
      <4>2. QED BY <1>d, <1>6, <4>1 DEF DrawnInv
    <3>3. QED BY <3>1, <3>2
  <2>3. wal'.nCkpt > 0 => wal'.salt > 0
    BY <1>2, <1>8
  <2>4. QED BY <1>d, <1>2, <1>6, <2>2, <2>3 DEF DrawnInv
<1>27. HistOK'
  BY <1>2, <1>6 DEF HistOK, Image
<1>28. Live'
  <2>1. pc'[c] # "closed"
    BY <1>2
  <2>2. QED BY <1>6, <1>20, <2>1 DEF Live
<1>29. LogInv'
  BY <1>2, <1>6, <1>21, <1>22, <1>25, <1>28 DEF LogInv
<1>30. CountAt(c)'
  BY <1>d, <1>2, <1>4, <1>5, <1>6, <1>7, <1>20 DEF CountAt, InWrite
<1>31. WriterAt(c)'
  <2>1. Counts(w[c].hdr)'
    <3>1. \A i \in 1..mx : Links(wal', i) /\ wal'.frames[i] = wal.frames[i]
      <4>1. \A i \in 1..mx : i \in 1..n
        BY <1>n
      <4>2. QED BY <1>13, <1>16, <4>1
    <3>2. \A i \in 1..mx : shm.aPgno[i] = wal.frames[i].pg
      <4>1. h.mxFrame = mx /\ mx \in Nat /\ Counts(h)
        BY <1>d, <1>8
      <4>2. \A i \in 1..h.mxFrame : h.mxFrame > 0
        BY <4>1
      <4>3. QED BY <4>1, <4>2, Zenon DEF Counts
    <3>3. w'[c].hdr.mxFrame = mx /\ w'[c].hdr.salt = wal'.salt /\ wal'.salt > 0
      BY <1>2, <1>4, <1>7, <1>8
    <3>4. QED BY <1>2, <3>1, <3>2, <3>3 DEF Counts
  <2>2. NewFrames(c)'
    <3>1. (n + 1) - mx = k
      BY <1>n, OffsetBy
    <3>2. ASSUME NEW j \in 1..k
          PROVE  /\ Links(wal', mx + j) /\ wal'.frames[mx + j].pg = l[j]
                 /\ wal'.frames[mx + j].nTruncate = IF j = Len(l) THEN call[c].nTruncate ELSE 0
      <4>1. CASE j = k
        BY <1>n, <1>15, <4>1
      <4>2. CASE j # k
        <5>1. j \in 1..(n - mx) /\ mx + j \in 1..n
          BY <1>n, <1>10, <4>2
        <5>2. QED BY <1>8, <1>13, <1>16, <5>1
      <4>3. QED BY <4>1, <4>2
    <3>3. \A j \in 1..((n + 1) - mx) :
            /\ Links(wal', mx + j) /\ wal'.frames[mx + j].pg = l[j]
            /\ wal'.frames[mx + j].nTruncate = IF j = Len(l) THEN call[c].nTruncate ELSE 0
      BY <3>1, <3>2
    <3>4. wal'.salt = h.salt /\ wal'.salt > 0 /\ <<call[c].data, l[k]>> = Chain(wal', n + 1)
      BY <1>2, <1>8, <1>14
    <3>5. w'[c].hdr.mxFrame = mx /\ w'[c].hdr.salt = h.salt /\ w'[c].hdr.cksum = <<call[c].data, l[k]>>
      BY <1>4, <1>7
    <3>6. QED BY <1>7, <3>3, <3>4, <3>5 DEF NewFrames
  <2>3. \A i \in (mxH' + 1)..w'[c].hdr.mxFrame :
          wal'.frames[i].nTruncate = IF pc'[c] = "commit0" /\ i = w'[c].hdr.mxFrame THEN w'[c].hdr.nPage ELSE 0
    <3>1. \A i \in (mxH + 1)..mx : wal'.frames[i].nTruncate = 0
      <4>1. \A i \in (mxH + 1)..mx : i \in 1..n
        BY <1>n, <1>9
      <4>2. QED BY <1>8, <1>13, <4>1
    <3>2. QED BY <1>2, <1>4, <1>7, <1>20, <3>1
  <2>4. w'[c].svpt # None /\ UndoTo(c)' > 0 => w'[c].svpt.cksum = Chain(wal', UndoTo(c)')
    <3>1. UndoTo(c)' = UndoTo(c) /\ w'[c].svpt = w[c].svpt
      BY <1>4 DEF UndoTo
    <3>2. w[c].svpt # None => UndoTo(c) <= mx /\ UndoTo(c) \in Nat
      BY <1>5, <1>6, <1>d, DataIs DEF WriteAt, SvptAt, UndoTo, WalObj, Svpt
    <3>3. w[c].svpt # None => UndoTo(c) \in 0..n
      BY <1>n, <3>2
    <3>4. QED BY <1>8, <1>14, <3>1, <3>3
  <2>5. Breaks(c)'
    BY <1>d, <1>2, <1>7, <1>18 DEF Breaks, Written, InFrames
  <2>6. Begins(c)' /\ GivenUp(c)'
    BY <1>d, <1>2, <1>4, <1>7, <1>8 DEF Begins, GivenUp
  <2>7. QED BY <1>2, <2>1, <2>2, <2>3, <2>4, <2>5, <2>6 DEF WriterAt, InFrames, Chain
<1>32. CrashAt(c)'
  BY <1>2, <1>30, <1>31 DEF CrashAt, RecoverAt, CkSizeAt
<1>33. QED BY <1>2, <1>6, <1>20, <1>26, <1>27, <1>29, <1>32, StepCrash

\* The commit that a recovery would find becomes the current database.
LEMMA CommitHdr0Crash == ASSUME Ctl, Heads, Data, Crash, NEW c \in Conn, CommitHdr0(c) PROVE Crash'
<1> SUFFICES ASSUME NEW h, NEW n, NEW m, h = w[c].hdr, n = h.mxFrame, m = mine[c] PROVE Crash'
  OBVIOUS
<1>1. /\ pc[c] = "commit0" /\ UNCHANGED <<files, seed>>
      /\ Does(c, "idle", NoCall, [w[c] EXCEPT !.svpt = None], m, None)
      /\ Shm(h, shm.hdr[1], shm.nBackfill, shm.aReadMark, shm.aPgno)
  BY CrashTypes, CommitHdr0Does
<1>2. /\ hist' = Append(hist, m) /\ floor' = (IF env.full THEN Len(hist) + 1 ELSE floor) /\ UNCHANGED <<limbo, lossy>>
  BY DEF CommitHdr0
<1>3. InWrite(c) /\ w[c].readLock >= 1 /\ call[c].mode = "write" /\ m # None
  BY <1>1, CrashTypes DEF ModeAt, TransAt, WritePc, FramePc, InWrite
<1>4. /\ WriterAt(c) /\ CountAt(c) /\ DrawnInv /\ HistOK /\ WalTypeOK /\ WRITE \in exclMask[c] /\ Live
      /\ Last(hist) = Current /\ ~lossy /\ seed \in Nat /\ seed >= seed
      /\ h \in Hdr /\ h.salt \in Nat /\ h.nPage \in Nat /\ n \in Nat /\ w[c] \in WalObj
  BY <1>3, WriterIs
<1> DEFINE o == [w[c] EXCEPT !.svpt = None]
<1>5. o.hdr = h /\ o.nCkpt = w[c].nCkpt /\ o.readLock = w[c].readLock
  BY <1>4 DEF WalObj
<1> HIDE DEF o
<1>6. Others(c) /\ pc'[c] = "idle" /\ call'[c] = NoCall /\ w'[c] = o /\ mine'[c] = None /\ cached'[c] = m
  BY <1>1, OthersKept DEF o
<1>7. /\ UNCHANGED <<wal, walDisk, db>> /\ H' = h /\ mxH' = n /\ shm'.aPgno = shm.aPgno /\ shm'.nBackfill = shm.nBackfill
  BY <1>1 DEF files, Shm, H, mxH
<1>8. /\ h.isInit /\ h.nPage = call[c].nTruncate /\ call[c].nTruncate # 0 /\ CommitFrameWritten(c) /\ Written(c) = n
  BY <1>1, <1>3, HeadIs DEF HeadAt, CommitFrameWritten, Written, InFrames
<1>9. n > mxH /\ LastCommit(wal) = n /\ mxH \in Nat /\ shm.nBackfill \in Nat
  <2>1. n > mxH /\ LastCommit(wal) = n
    BY <1>8, CommitRecovers
  <2>2. mxH \in Nat /\ shm.nBackfill \in Nat
    BY <1>4, LiveIs DEF Live
  <2>3. QED BY <2>1, <2>2
<1>10. /\ Covers(h) /\ h.salt > 0
       /\ \A i \in (mxH + 1)..n : wal.frames[i].nTruncate = IF i = n THEN h.nPage ELSE 0
  <2>1. /\ Covers(h) /\ Counts(h)
        /\ \A i \in (mxH + 1)..n : wal.frames[i].nTruncate = IF i = n THEN h.nPage ELSE 0
    BY <1>1, <1>3, <1>4 DEF WriterAt, InFrames
  <2>2. h.salt > 0
    <3>1. n > 0
      BY <1>4, <1>9
    <3>2. h.mxFrame > 0
      BY <3>1
    <3>3. QED BY <2>1, <3>2 DEF Counts
  <2>3. QED BY <2>1, <2>2
<1>11. Current' = m
  <2>1. Data'
    BY CommitHdr0Data
  <2>2. (ReadAt(c))'
    BY <2>1 DEF Data, DataAt
  <2>3. (~InWrite(c))' /\ (w[c].readLock >= 1)'
    BY <1>3, <1>5, <1>6 DEF InWrite
  <2>4. (cached[c] = LogView(w[c].hdr))'
    BY <2>2, <2>3 DEF ReadAt
  <2>5. (w[c].hdr = H)'
    BY <1>5, <1>6, <1>7
  <2>6. (LogView(w[c].hdr) = Current)'
    BY <2>5 DEF Current
  <2>7. QED BY <1>6, <2>4, <2>6
<1>12. m \in Seq(Int)
  BY <1>3, <1>4 DEF WalTypeOK, Image, InWrite
<1>13. hist' \in Seq(Seq(Int)) /\ hist' # <<>> /\ Last(hist') = m
  <2>1. PICK T : T = Seq(Int)
    OBVIOUS
  <2>2. hist \in Seq(T) /\ m \in T
    BY <1>4, <1>12, <2>1 DEF HistOK
  <2>3. QED BY <1>2, <2>1, <2>2, AppendIs
<1>14. HistOK'
  <2>1. Len(hist) \in Nat
    <3>1. PICK T : T = Seq(Int)
      OBVIOUS
    <3>2. hist \in Seq(T)
      BY <1>4, <3>1 DEF HistOK
    <3>3. QED BY <3>2
  <2>2. floor \in Nat \ {0} /\ Len(hist) + 1 \in Nat \ {0}
    BY <1>4, <2>1 DEF HistOK
  <2>3. floor' \in Nat \ {0}
    BY <1>2, <2>2
  <2>4. limbo' \in Image /\ lossy' \in BOOLEAN
    BY <1>2, <1>4 DEF HistOK
  <2>5. QED BY <1>13, <2>3, <2>4 DEF HistOK
<1>15. shm.nBackfill <= mxH
  <2>1. \A d \in Conn : pc[d] # "restartinfo"
    BY <1>1, <1>4, WriterAlone DEF WritePc, RestartPc
  <2>2. QED BY <2>1 DEF Data, BackfillInv
<1>16. Covers(H)' /\ Commits(H)' /\ Whole' /\ EndOfLog'
  <2>1. Covers(H)'
    BY <1>7, <1>10 DEF Covers, Counts, Links, Chain
  <2>2. Commits(H)'
    <3>1. n \in (mxH + 1)..n
      BY <1>4, <1>9
    <3>2. wal.frames[n].nTruncate = h.nPage
      BY <1>10, <3>1
    <3>3. QED BY <1>7, <3>2 DEF Commits
  <2>3. ~(n = 0) /\ ~(shm.nBackfill >= n) /\ n > 0
    BY <1>4, <1>9, <1>15
  <2>4. Whole'
    BY <1>7, <2>3 DEF Whole
  <2>5. LastCommit(wal)' = n
    BY <1>7, <1>9
  <2>6. EndOfLog'
    BY <1>7, <2>3, <2>5 DEF EndOfLog
  <2>7. QED BY <2>1, <2>2, <2>4, <2>6
<1>17. Live'
  BY <1>6, <1>7, <1>8 DEF Live
<1>18. LogInv'
  BY <1>2, <1>4, <1>11, <1>13, <1>16, <1>17 DEF LogInv
<1>19. DrawnInv'
  BY <1>1, <1>4, <1>7, SameDrawn
<1>20. CrashAt(c)'
  BY <1>5, <1>6, <1>7, <1>8, <1>10 DEF CrashAt, CountAt, WriterAt, InWrite, RecoverAt, CkSizeAt
<1>21. ASSUME NEW d \in Conn \ {c} PROVE CkSizeAt(d)'
  <2>1. CASE pc[d] \in CkWritePc
    <3>1. call[d].mxSafeFrame <= w[d].hdr.mxFrame /\ w[d].hdr.mxFrame <= mxH
      BY <2>1, CkIs
    <3>2. call[d].mxSafeFrame \in Nat /\ w[d].hdr.mxFrame \in Nat
      <4>1. call[d] \in Call /\ w[d] \in WalObj
        BY CrashTypes
      <4>2. call[d].mxSafeFrame \in Nat /\ w[d].hdr \in Hdr
        BY <4>1 DEF Call, WalObj
      <4>3. QED BY <4>2, HdrIs
    <3>3. ~(call[d].mxSafeFrame >= n)
      BY <1>4, <1>9, <3>1, <3>2
    <3>4. call'[d] = call[d]
      BY <1>6 DEF Others
    <3>5. QED BY <1>7, <3>3, <3>4 DEF CkSizeAt
  <2>2. CASE pc[d] \notin CkWritePc
    <3>1. pc'[d] = pc[d]
      BY <1>6 DEF Others
    <3>2. QED BY <2>2, <3>1 DEF CkSizeAt, CkWritePc
  <2>3. QED BY <2>1, <2>2
<1>22. QED BY <1>4, <1>6, <1>7, <1>8, <1>10, <1>14, <1>18, <1>19, <1>20, <1>21, StepCrash

\* The last connection deletes a log that is all in the database, or leaves it to a recovery.
LEMMA FinishCloseCrash == ASSUME Ctl, Heads, Data, Alone, Crash, NEW c \in Conn, FinishClose(c) PROVE Crash'
<1>1. /\ Goes(c) /\ UNCHANGED <<shm, db, dbDisk, seed, env, Past>>
      /\ \/ pc[c] = "ckend" /\ call[c].mode = "close" /\ wal' = EmptyLog /\ walDisk' = EmptyLog
         \/ pc[c] = "closing" /\ UNCHANGED <<wal, walDisk>>
  BY CrashTypes, FinishCloseDoes, PastKept
<1>2. /\ Others(c) /\ pc'[c] = "closed" /\ w'[c] = FreshWal /\ mine'[c] = None
      /\ UNCHANGED <<hist, floor, limbo, lossy>>
  BY <1>1, OthersKept DEF Goes, Past
<1>3. /\ CrashAt(c)' /\ HistOK' /\ H' = H /\ seed' \in Nat /\ seed' >= seed /\ WalTypeOK
      /\ DrawnInv /\ LogInv /\ floor \in Nat \ {0} /\ pc[c] # "closed"
  BY <1>1, <1>2, GoneCrashAt, CrashIs DEF H, HistOK, Ctl, WalTypeOK
<1>4. \A d \in Conn : pc[d] = "closed" => w[d] = FreshWal /\ mine[d] = None
  BY CrashTypes DEF TransAt
<1>5. CASE \E d \in Conn \ {c} : pc[d] # "closed"
  <2>1. UNCHANGED <<wal, walDisk>>
    BY <1>1, <1>5 DEF Ctl, ClosesAlone
  <2>2. \E d \in Conn : pc'[d] # "closed"
    BY <1>2, <1>5 DEF Others
  <2>3. ~CommitFrameWritten(c) /\ ~CommitFrameWritten(c)'
    BY <1>1, <1>2 DEF CommitFrameWritten
  <2>4. \E d \in Conn : pc[d] # "closed"
    BY <1>3
  <2>5. shm' = shm /\ db' = db /\ floor' \in Nat \ {0}
    BY <1>1, <1>2, <1>3
  <2>6. QED BY <1>2, <1>3, <2>1, <2>2, <2>3, <2>4, <2>5, QuietCrash
<1>6. CASE \A d \in Conn \ {c} : pc[d] = "closed"
  <2>1. \A d \in Conn : pc'[d] = "closed"
    BY <1>2, <1>6 DEF Others
  <2>2. ~Live' /\ ~Committing
    BY <1>1, <1>6, <2>1 DEF Live, Committing, CommitFrameWritten
  <2>3. Live => ~lossy /\ Last(hist) = Current /\ Whole
    BY <1>3 DEF LogInv
  <2>4. ASSUME NEW d \in Conn PROVE CrashAt(d)'
    <3>1. CASE d = c
      BY <1>3, <3>1
    <3>2. CASE d # c
      <4>1. w'[d] = FreshWal /\ mine'[d] = None /\ pc'[d] = "closed"
        BY <1>2, <1>4, <1>6, <2>1, <3>2 DEF Others
      <4>2. QED BY <4>1, GoneCrashAt
    <3>3. QED BY <3>1, <3>2
  <2>5. CASE pc[c] = "closing"
    <3>1. UNCHANGED <<wal, walDisk, db>>
      BY <1>1, <2>5
    <3>2. Live => Recovered(db, wal) \in {Last(hist), limbo}
      BY <2>2, RecoverNow
    <3>3. ~lossy => Recovered(db, wal) \in {Last(hist), limbo}
      BY <1>3, <3>2 DEF LogInv
    <3>4. LogInv'
      BY <1>2, <2>2, <3>1, <3>3 DEF LogInv
    <3>5. DrawnInv'
      BY <1>3, <3>1, SameDrawn
    <3>6. QED BY <1>3, <2>4, <3>4, <3>5 DEF Crash
  <2>6. CASE pc[c] = "ckend" /\ call[c].mode = "close"
    <3>1. wal' = EmptyLog /\ walDisk' = EmptyLog /\ db' = db
      BY <1>1, <2>6
    <3>2. H.isInit /\ shm.nBackfill >= mxH
      BY <2>6 DEF Alone, ClosingAt
    <3>3. Live
      BY <1>3, <3>2 DEF Live
    <3>4. Current = db
      BY <1>3, <2>3, <3>2, <3>3, FileIsWhole
    <3>5. Recovered(db, EmptyLog) = db
      <4>1. EmptyLog \in Log /\ Len(EmptyLog.frames) = 0
        BY DEF EmptyLog, Log
      <4>2. db \in Seq(Int)
        BY <1>3 DEF WalTypeOK
      <4>3. QED BY <4>1, <4>2, OtherLog
    <3>6. Recovered(db, wal)' = db
      BY <3>1, <3>5
    <3>7. LogInv'
      BY <1>2, <2>2, <2>3, <3>3, <3>4, <3>6 DEF LogInv
    <3>8. DrawnInv'
      BY <3>1 DEF DrawnInv, EmptyLog
    <3>9. QED BY <1>3, <2>4, <3>7, <3>8 DEF Crash
  <2>7. QED BY <1>1, <2>5, <2>6
<1>7. QED BY <1>5, <1>6

\* What a loss of power leaves is old, new or nothing; nobody promises what a recovery finds.
LEMMA PowerLossCrash == ASSUME Ctl, Heads, Crash, PowerLoss PROVE Crash'
<1>1. /\ WalTypeOK /\ Steady /\ LogBound /\ DrawnInv /\ HistOK
  BY DEF Ctl, Crash
<1>2. /\ UNCHANGED seed /\ shm' = ZeroShm
      /\ pc' = [c \in Conn |-> "closed"] /\ w' = [c \in Conn |-> FreshWal] /\ mine' = [c \in Conn |-> None]
  BY <1>1, PowerLossDoes
<1>3. UNCHANGED <<hist, floor>> /\ lossy' = TRUE /\ limbo' \in Image
  <2>1. mine \in [Conn -> Image] /\ limbo \in Image
    BY <1>1 DEF WalTypeOK, HistOK
  <2>2. limbo' = IF \E c \in Conn : CommitFrameWritten(c)
                 THEN mine[CHOOSE c \in Conn : CommitFrameWritten(c)] ELSE limbo
    BY DEF PowerLoss
  <2>3. ASSUME \E c \in Conn : CommitFrameWritten(c) PROVE limbo' \in Image
    <3>1. (CHOOSE c \in Conn : CommitFrameWritten(c)) \in Conn
      BY <2>3
    <3>2. QED BY <2>1, <2>2, <2>3, <3>1
  <2>4. ASSUME ~\E c \in Conn : CommitFrameWritten(c) PROVE limbo' \in Image
    BY <2>1, <2>2, <2>4
  <2>5. UNCHANGED <<hist, floor>> /\ lossy' = TRUE
    BY DEF PowerLoss
  <2>6. QED BY <2>3, <2>4, <2>5
<1>4. HistOK'
  BY <1>1, <1>3 DEF HistOK
<1>5. ~Live'
  BY <1>2 DEF Live
<1>6. LogInv'
  BY <1>3, <1>5 DEF LogInv
<1>7. seed \in Nat /\ seed > 0
  BY <1>1 DEF WalTypeOK
<1>8. PICK f \in Remains(walDisk.frames, wal.frames, Torn), h \in {walDisk, wal, EmptyLog} :
        LET log == [salt |-> h.salt, nCkpt |-> h.nCkpt, frames |-> f]
        IN wal' = log /\ walDisk' = log
  BY DEF PowerLoss
<1>9. wal' = walDisk' /\ wal'.salt = h.salt /\ wal'.nCkpt = h.nCkpt /\ wal'.frames = f
  BY <1>8
<1>10. h.nCkpt > 0 => h.salt > 0
  BY <1>1 DEF DrawnInv, EmptyLog
<1>11. wal.frames \in Seq(Frame) /\ walDisk.frames \in Seq(Frame)
  BY <1>1 DEF WalTypeOK, Log
<1>12. Torn \in Frame /\ Torn.salt = 0 /\ Torn.prev[1] = 0
  BY DEF Torn, Frame, Pair
<1>13. /\ f \in Seq(Frame)
       /\ \A i \in 1..Len(f) : \/ i <= Len(walDisk.frames) /\ f[i] = walDisk.frames[i]
                               \/ i <= Len(wal.frames) /\ f[i] = wal.frames[i]
                               \/ f[i] = Torn
  <2>1. PICK old \in Seq(Frame), new \in Seq(Frame) : old = walDisk.frames /\ new = wal.frames
    BY <1>11
  <2>2. f \in Remains(old, new, Torn)
    BY <2>1
  <2>3. /\ f \in Seq(Frame)
        /\ \A i \in 1..Len(f) : \/ i <= Len(old) /\ f[i] = old[i]
                                \/ i <= Len(new) /\ f[i] = new[i]
                                \/ f[i] = Torn
    BY ONLY <1>12, <2>1, <2>2, RemainsIs
  <2>4. QED BY <2>1, <2>3
<1>14. ASSUME NEW i \in 1..Len(f) PROVE f[i].salt < seed /\ f[i].prev[1] < seed
  <2>1. Len(f) \in Nat /\ Len(wal.frames) \in Nat /\ Len(walDisk.frames) \in Nat
    BY <1>11, <1>13
  <2>2. CASE i <= Len(walDisk.frames) /\ f[i] = walDisk.frames[i]
    <3>1. i \in 1..Len(walDisk.frames)
      BY <2>1, <2>2
    <3>2. QED BY <1>1, <2>2, <3>1 DEF DrawnInv
  <2>3. CASE i <= Len(wal.frames) /\ f[i] = wal.frames[i]
    <3>1. i \in 1..Len(wal.frames)
      BY <2>1, <2>3
    <3>2. QED BY <1>1, <2>3, <3>1 DEF DrawnInv
  <2>4. CASE f[i] = Torn
    BY <1>7, <1>12, <2>4
  <2>5. QED BY <1>13, <2>2, <2>3, <2>4
<1>15. DrawnInv'
  BY <1>2, <1>9, <1>10, <1>14 DEF DrawnInv
<1>16. \A c \in Conn : CrashAt(c)'
  BY <1>2, GoneCrashAt
<1>17. QED BY <1>4, <1>6, <1>15, <1>16 DEF Crash

LEMMA CrashStutter == ASSUME Crash, UNCHANGED vars PROVE Crash'
<1>1. UNCHANGED <<pc, call, w, mine, shm, wal, walDisk, db, seed, hist, floor, limbo, lossy>>
  BY DEF vars, files, ghosts
<1>2. H' = H /\ mxH' = mxH /\ Size(H)' = Size(H) /\ Current' = Current
  <2>1. H' = H /\ mxH' = mxH /\ \A p : DbAt(p)' = DbAt(p)
    BY <1>1 DEF H, mxH, DbAt
  <2>2. \A p : F(mxH, p)' = F(mxH, p)
    BY <1>1, <2>1 DEF F
  <2>3. \A p : At(mxH, p)' = At(mxH, p)
    BY <1>1, <2>1, <2>2 DEF At
  <2>4. Size(H)' = Size(H)
    BY <1>1, <2>1 DEF Size
  <2>5. QED BY <2>1, <2>3, <2>4 DEF Current, LogView, mxH
<1>3. /\ \A m, p : LF(m, p)' = LF(m, p) /\ LAt(m, p)' = LAt(m, p)
      /\ \A i : Links(wal, i)' <=> Links(wal, i)
      /\ \A k : Chain(wal, k)' = Chain(wal, k)
      /\ \A h : Commits(h)' <=> Commits(h)
      /\ LastCommit(wal)' = LastCommit(wal) /\ Recovered(db, wal)' = Recovered(db, wal)
      /\ \A s : Recovered(db, Salted(s))' = Recovered(db, Salted(s))
  BY <1>1, SameFiles
<1>4. \A h : (Counts(h)' <=> Counts(h)) /\ (Covers(h)' <=> Covers(h))
  BY <1>1, <1>3 DEF Counts, Covers
<1>5. (DrawnInv /\ HistOK)'
  BY <1>1 DEF Crash, DrawnInv, HistOK
<1>6. (Committing' <=> Committing) /\ (Live' <=> Live) /\ (Whole' <=> Whole)
  BY <1>1, <1>2 DEF Committing, CommitFrameWritten, Live, Whole
<1>7. EndOfLog' <=> EndOfLog
  <2>1. \A k : Cut(k)' <=> Cut(k)
    BY <1>1, <1>2, <1>3 DEF Cut
  <2>2. QED BY <1>1, <1>2, <1>3, <1>6, <2>1 DEF EndOfLog
<1>8. LogInv'
  <2>1. (Covers(H)' <=> Covers(H)) /\ (Commits(H)' <=> Commits(H))
    BY <1>2, <1>3, <1>4
  <2>2. QED BY <1>1, <1>2, <1>3, <1>6, <1>7, <2>1 DEF Crash, LogInv
<1>9. ASSUME NEW c \in Conn PROVE CrashAt(c)'
  <2>1. CountAt(c)' /\ CkSizeAt(c)'
    BY <1>1, <1>2 DEF Crash, CrashAt, CountAt, CkSizeAt, InWrite
  <2>2. RecoverAt(c)'
    BY <1>1, <1>3, <1>4 DEF Crash, CrashAt, RecoverAt
  <2>3. WriterAt(c)'
    <3>1. (InWrite(c)' <=> InWrite(c)) /\ UndoTo(c)' = UndoTo(c)
      BY <1>1 DEF InWrite, UndoTo
    <3>2. (Breaks(c)' <=> Breaks(c)) /\ (Begins(c)' <=> Begins(c)) /\ (GivenUp(c)' <=> GivenUp(c))
      BY <1>1, <1>2 DEF Breaks, Begins, GivenUp, Written
    <3>3. NewFrames(c)' <=> NewFrames(c)
      BY <1>1, <1>3 DEF NewFrames
    <3>4. QED BY <1>1, <1>2, <1>3, <1>4, <3>1, <3>2, <3>3 DEF Crash, CrashAt, WriterAt
  <2>4. QED BY <2>1, <2>2, <2>3 DEF CrashAt
<1>10. QED BY <1>5, <1>8, <1>9 DEF Crash

-----------------------------------------------------------------------------
(* Crash is inductive *)

LEMMA ImagesInit ==
  ASSUME db \in Seq(Int), Len(db) > 0
  PROVE  /\ WarmHist \in Seq(Seq(Int)) /\ <<db>> \in Seq(Seq(Int)) /\ Len(WarmHist) = 2 /\ Len(<<db>>) = 1
         /\ Last(<<db>>) = db /\ Last(WarmHist) = [p \in 1..Len(db) |-> IF p = 1 THEN 1 ELSE db[p]]
<1> DEFINE b == [db EXCEPT ![1] = 1]
<1>1. b \in Seq(Int) /\ b = [p \in 1..Len(db) |-> IF p = 1 THEN 1 ELSE db[p]]
  OBVIOUS
<1>2. PICK T : T = Seq(Int)
  OBVIOUS
<1> HIDE DEF b
<1>3. <<db, b>> \in Seq(T) /\ <<db>> \in Seq(T)
  BY <1>1, <1>2
<1>4. Len(<<db, b>>) = 2 /\ Len(<<db>>) = 1 /\ Last(<<db>>) = db /\ Last(<<db, b>>) = b
  BY DEF Last
<1>5. WarmHist = <<db, b>>
  BY DEF WarmHist, b
<1>6. QED BY <1>1, <1>2, <1>3, <1>4, <1>5

LEMMA CrashInit == ASSUME Init, Steady PROVE Crash
<1>1. /\ WalTypeOK /\ wal \in Log /\ db \in Seq(Int) /\ Len(db) > 0 /\ Len(db) \in Nat /\ Ctl
      /\ MaxFrame \in Nat \ {0}
  BY CtlInit, DbOfInit, WalAssumption DEF Ctl, WalTypeOK
<1>2. \A d \in Conn : pc[d] \in {"idle", "closed"} /\ w[d] = FreshWal /\ mine[d] = None
  BY DEF Init
<1>3. ASSUME NEW d \in Conn PROVE CrashAt(d)
  BY <1>2 DEF CrashAt, CountAt, WriterAt, InWrite, RecoverAt, CkSizeAt, FreshWal
<1>4. HistOK
  <2>1. hist \in {<<db>>, WarmHist} /\ limbo = None /\ lossy = FALSE /\ floor \in {Len(hist), 1}
    BY DEF Init
  <2>2. hist \in Seq(Seq(Int)) /\ Len(hist) \in {1, 2}
    BY <1>1, <2>1, ImagesInit
  <2>3. hist # <<>>
    BY <2>2
  <2>4. floor \in Nat \ {0}
    BY <2>1, <2>2
  <2>5. limbo \in Image /\ lossy \in BOOLEAN
    BY <2>1, Blanks
  <2>6. QED BY <2>2, <2>3, <2>4, <2>5 DEF HistOK
<1>5. walDisk = wal \/ walDisk = [wal EXCEPT !.frames = <<>>]
  BY DEF Init
<1>6. walDisk.salt = wal.salt /\ walDisk.nCkpt = wal.nCkpt /\ walDisk.frames \in {wal.frames, <<>>}
  BY <1>1, <1>5 DEF Log
<1>7. lossy = FALSE
  BY DEF Init
<1>8. CASE ~env.warm
  <2>1. wal = EmptyLog /\ shm = ZeroShm /\ hist = <<db>>
    BY <1>8 DEF Init
  <2>2. wal.nCkpt = 0 /\ wal.frames = <<>> /\ Len(wal.frames) = 0
    BY <2>1 DEF EmptyLog
  <2>3. DrawnInv
    BY <1>6, <2>2 DEF DrawnInv
  <2>4. ~Live
    BY <2>1 DEF Live, H, ZeroShm, ZeroHdr
  <2>5. Recovered(db, wal) = db
    BY <1>1, <2>2, OtherLog
  <2>6. Last(hist) = db
    BY <1>1, <2>1, ImagesInit
  <2>7. LogInv
    BY <1>7, <2>4, <2>5, <2>6 DEF LogInv
  <2>8. QED BY <1>3, <1>4, <2>3, <2>7 DEF Crash
<1>9. CASE env.warm
  <2>1. wal = WarmLog /\ shm = WarmShm /\ hist = WarmHist /\ seed = 3
    BY <1>9 DEF Init
  <2>2. /\ wal.salt = 2 /\ wal.nCkpt = 0 /\ Len(wal.frames) = 1 /\ wal.frames[1].pg = 1 /\ wal.frames[1].data = 1
        /\ wal.frames[1].nTruncate = Len(db) /\ wal.frames[1].salt = 2 /\ wal.frames[1].prev = <<0, 2>>
        /\ wal.frames[1].prev[1] = 0
    BY <2>1 DEF WarmLog
  <2>3. DrawnInv
    BY <1>6, <2>1, <2>2 DEF DrawnInv
  <2>4. /\ H.isInit /\ H.mxFrame = 1 /\ mxH = 1 /\ H.nPage = Len(db) /\ H.cksum = <<1, 1>> /\ H.salt = 2
        /\ shm.nBackfill = 0 /\ shm.aPgno[1] = 1
    BY <1>1, <2>1 DEF WarmShm, WarmHdr, H, mxH
  <2>5. Links(wal, 1) /\ Chain(wal, 1) = <<1, 1>>
    BY <2>2 DEF Links, Chain
  <2>6. Covers(H) /\ Commits(H)
    BY <2>2, <2>4, <2>5 DEF Covers, Counts, Commits
  <2>7. ValidFrames(wal) = 1
    <3>1. 1 \in 0..Len(wal.frames) /\ ~(1 < Len(wal.frames)) /\ \A i \in 1..1 : Links(wal, i)
      BY <2>2, <2>5
    <3>2. QED BY <1>1, <3>1, ChainEnds
  <2>8. LastCommit(wal) = 1
    BY <1>1, <2>2, <2>7, CommitAt
  <2>9. H \in Hdr
    BY <1>1 DEF WalTypeOK, Index, H
  <2>10. Recovered(db, wal) = Current
    BY <1>1, <2>4, <2>6, <2>8, <2>9, ViewRecovered DEF Current
  <2>11. Current = [p \in 1..Len(db) |-> IF p = 1 THEN 1 ELSE db[p]]
    <3>1. Size(H) = Len(db)
      BY <1>1, <2>4 DEF Size
    <3>2. ASSUME NEW p \in 1..Len(db) PROVE At(1, p) = IF p = 1 THEN 1 ELSE db[p]
      <4>1. F(1, p) \in 0..1 /\ (F(1, p) # 0 => shm.aPgno[F(1, p)] = p) /\ \A i \in 1..1 : shm.aPgno[i] = p => i <= F(1, p)
        BY FIs
      <4>2. F(1, p) = IF p = 1 THEN 1 ELSE 0
        BY <2>4, <4>1
      <4>3. QED BY <2>2, <4>2 DEF At, DbAt
    <3>3. QED BY <2>4, <3>1, <3>2 DEF Current, LogView
  <2>12. Last(hist) = Current
    BY <1>1, <2>1, <2>11, ImagesInit
  <2>13. EndOfLog /\ Whole
    BY <2>4, <2>8 DEF EndOfLog, Whole
  <2>14. LogInv
    BY <1>7, <2>6, <2>10, <2>12, <2>13 DEF LogInv
  <2>15. QED BY <1>3, <1>4, <2>3, <2>14 DEF Crash
<1>10. QED BY <1>8, <1>9

LEMMA CrashNext == ASSUME Ctl, Heads, Data, Alone, Crash, [Next]_vars PROVE Crash'
<1>1. CASE UNCHANGED vars
  BY <1>1, CrashStutter
<1>2. CASE PowerLoss
  BY <1>2, PowerLossCrash
<1>3. ASSUME NEW c \in Conn,
             \/ Open(c) \/ BeginRead(c) \/ ReadHdr0(c) \/ ReadHdr1(c) \/ LockHdr(c)
             \/ ReadHdrAgain(c) \/ Recover(c) \/ RecoverHdr0(c) \/ RecoverInfo(c)
             \/ CheckBackfill(c) \/ Lock0(c) \/ ChooseMark(c) \/ GrabMark(c) \/ PutMark(c)
             \/ LockMark(c) \/ EndRead(c) \/ BeginWrite(c) \/ Savepoint(c) \/ SavepointUndo(c)
      PROVE  Crash'
  BY <1>3, OpenCrash, BeginReadCrash, ReadHdr0Crash, ReadHdr1Crash, LockHdrCrash, ReadHdrAgainCrash,
     RecoverCrash, RecoverHdr0Crash, RecoverInfoCrash, CheckBackfillCrash, Lock0Crash, ChooseMarkCrash,
     GrabMarkCrash, PutMarkCrash, LockMarkCrash, EndReadCrash, BeginWriteCrash, SavepointCrash, SavepointUndoCrash
<1>4. ASSUME NEW c \in Conn,
             \/ Spill(c) \/ Commit(c)
             \/ RestartLog(c) \/ RestartHdr1(c) \/ RestartHdr0(c) \/ RestartInfo(c)
             \/ WriteWalHdr(c) \/ SyncWalHdr(c) \/ WriteFrame(c) \/ SyncFrames(c)
             \/ AppendIndex(c) \/ CommitHdr0(c) \/ FramesFail(c) \/ Rollback(c)
      PROVE  Crash'
  BY <1>4, SpillCrash, CommitCrash, RestartLogCrash, RestartHdr1Crash, RestartHdr0Crash, RestartInfoCrash,
     WriteWalHdrCrash, SyncWalHdrCrash, WriteFrameCrash, SyncFramesCrash, AppendIndexCrash, CommitHdr0Crash,
     FramesFailCrash, RollbackCrash
<1>5. ASSUME NEW c \in Conn,
             \/ Checkpoint(c) \/ CkStart(c) \/ CkMark(c) \/ CkPut(c) \/ CkLock0(c) \/ CkSync(c)
             \/ CkPage(c) \/ CkTrunc(c) \/ CkDbSync(c) \/ CkDone(c) \/ CkEnd(c) \/ CkFails(c)
             \/ Close(c) \/ FinishClose(c) \/ Kill(c)
      PROVE  Crash'
  BY <1>5, CheckpointCrash, CkStartCrash, CkMarkCrash, CkPutCrash, CkLock0Crash, CkSyncCrash, CkPageCrash,
     CkTruncCrash, CkDbSyncCrash, CkDoneCrash, CkEndCrash, CkFailsCrash, CloseCrash, FinishCloseCrash,
     NoKill DEF Ctl
<1>6. QED BY <1>1, <1>2, <1>3, <1>4, <1>5 DEF Next

\* What a recovery would find, now.
LEMMA CrashIsSafe == ASSUME Ctl, Heads, Data, Crash PROVE CrashSafe
<1> SUFFICES ASSUME ~lossy
             PROVE  Recovered(db, wal) \in {Last(hist), limbo} \cup {mine[c] : c \in {d \in Conn : CommitFrameWritten(d)}}
  BY DEF CrashSafe
<1>1. CASE Committing
  <2>1. PICK c \in Conn : CommitFrameWritten(c)
    BY <1>1 DEF Committing
  <2>2. Recovered(db, wal) = mine[c]
    BY <2>1, CommitRecovers
  <2>3. QED BY <2>1, <2>2
<1>2. CASE ~Committing /\ Live
  BY <1>2, RecoverNow
<1>3. CASE ~Live
  BY <1>3 DEF Crash, LogInv
<1>4. QED BY <1>1, <1>2, <1>3

\* The invariant of WalProofs with the last connection to close and with the content of
\* the log.
CrashInv == WalInv /\ Alone /\ Crash

\* The log file always holds what the wal-index says: the frames up to the header chain up
\* from its salt, the next commit or one that was cut off is all that may follow, the last
\* connection to close deletes a log only when all of it is in the database, and a salt or
\* a checksum of an earlier log never fits the present one.
THEOREM LogIsWhole == Spec /\ Steady => []CrashInv
<1>1. Init /\ Steady => CrashInv
  BY CtlInit, HeadsInit, DataInit, AloneInit, CrashInit DEF CrashInv, WalInv
<1>2. CrashInv /\ [Next]_vars => CrashInv'
  BY CtlNext, HeadsNext, DataNext, AloneNext, CrashNext DEF CrashInv, WalInv
<1>3. QED BY <1>1, <1>2, PTL DEF Spec

\* walIndexRecover(): what a recovery of the two files would find at any moment, unless power
\* was lost and nothing recovered since, is the last commit, the one that a writer is about
\* to publish, or one whose last frame was written before its call failed.
THEOREM CrashIsAlwaysSafe == Spec /\ Steady => []CrashSafe
<1>1. CrashInv => CrashSafe
  BY CrashIsSafe DEF CrashInv, WalInv
<1>2. QED BY <1>1, LogIsWhole, PTL

=============================================================================
