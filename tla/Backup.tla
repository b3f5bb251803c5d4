------------------------------- MODULE Backup -------------------------------
(***************************************************************************)
(* sqlite3_backup: a database is copied page by page while its pager, and  *)
(* other processes, go on writing it.  Pages that the source pager writes  *)
(* behind the copy are written to the copy too (sqlite3BackupUpdate()); a  *)
(* change from elsewhere restarts it (sqlite3BackupRestart()).             *)
(*                                                                         *)
(* The source is in rollback or WAL mode, or in memory.  An image is a     *)
(* sequence of page contents, which are numbers; the destination is locked *)
(* by the backup, and committed by its pager in one step.                  *)
(***************************************************************************)
EXTENDS Integers, Sequences, FiniteSets

CONSTANT BkSetups       \* configurations: [mode, txs, writes, steps, spills, others, faults]

VARIABLES
  src,                  \* the source pager: its view, the view at the start of the transaction,
                        \* the pages written to the file or log since, and the dirty ones
  latest,               \* the last committed image, with its change counter
  bk,                   \* the sqlite3_backup object: iNext, isAttached, rc, the destination
  bkEnv

bkVars == <<src, latest, bk, bkEnv>>

BkInit ==
  /\ bkEnv \in BkSetups
  /\ latest = [image |-> <<0, 0>>, ver |-> 0]
  /\ src = [view |-> <<0, 0>>, base |-> <<0, 0>>, ver |-> 0, tx |-> "none",
            dirty |-> {}, written |-> {}]
  /\ bk = [iNext |-> 1, attached |-> FALSE, rc |-> "ok", dst |-> <<>>]

BkSpend(k) == bkEnv[k] > 0 /\ bkEnv' = [bkEnv EXCEPT ![k] = @ - 1]
Least(a, b) == IF a < b THEN a ELSE b

\* backupOnePage() for the pages in P
Copied(dst, image, P) ==
  LET n == IF P = {} THEN Len(dst)
           ELSE LET m == CHOOSE p \in P : \A q \in P : q <= p IN IF m > Len(dst) THEN m ELSE Len(dst)
  IN [p \in 1..n |-> IF p \in P THEN image[p] ELSE IF p <= Len(dst) THEN dst[p] ELSE 0]

\* Mutant: a page at the position of the copy counts as copied.
BackupUpdateLate(b, image, P) ==
  IF b.attached /\ b.rc \in {"ok", "busy"}
  THEN [b EXCEPT !.dst = Copied(@, image, {p \in P : p < b.iNext - 1})] ELSE b

\* sqlite3BackupUpdate(): the source pager has written the pages in P.
BackupUpdate(b, image, P) ==
  IF b.attached /\ b.rc \in {"ok", "busy"}
  THEN [b EXCEPT !.dst = Copied(@, image, {p \in P : p < b.iNext})] ELSE b

BackupRestart(b) == IF b.attached THEN [b EXCEPT !.iNext = 1] ELSE b

-----------------------------------------------------------------------------
(* The source *)

\* sqlite3PagerSharedLock(), pagerBeginReadTransaction(): another connection has
\* committed, so the cache is reset.
Refreshed == [src EXCEPT !.view = latest.image, !.ver = latest.ver]
Noticed(b) == IF src.ver # latest.ver THEN BackupRestart(b) ELSE b

BeginRead ==
  /\ src.tx = "none" /\ bkEnv.mode # "mem"
  /\ src' = [Refreshed EXCEPT !.tx = "read"]
  /\ bk' = Noticed(bk)
  /\ UNCHANGED <<latest, bkEnv>>

EndRead ==
  /\ src.tx = "read"
  /\ src' = [src EXCEPT !.tx = "none"]
  /\ UNCHANGED <<latest, bk, bkEnv>>

BeginWrite ==
  /\ src.tx = "none"
  /\ BkSpend("txs")
  /\ src' = [Refreshed EXCEPT !.tx = "write", !.base = latest.image]
  /\ bk' = Noticed(bk)
  /\ UNCHANGED latest

\* A page is changed or appended in the cache, or the last page truncated.
SrcWrite(p) ==
  /\ src.tx = "write" /\ p <= Len(src.view) + 1
  /\ BkSpend("writes")
  /\ src' = [src EXCEPT !.view = IF p > Len(@) THEN Append(@, bkEnv.writes)
                                 ELSE [@ EXCEPT ![p] = bkEnv.writes],
                        !.dirty = @ \cup {p}]
  /\ UNCHANGED <<latest, bk>>

SrcTruncate ==
  /\ src.tx = "write" /\ Len(src.view) > 1
  /\ BkSpend("writes")
  /\ src' = [src EXCEPT !.view = SubSeq(@, 1, Len(@) - 1), !.dirty = @ \ {Len(src.view)}]
  /\ UNCHANGED <<latest, bk>>

\* pager_write_pagelist() or pagerWalFrames() before the commit
SrcSpill(p) ==
  /\ p \in src.dirty /\ bkEnv.mode # "mem"
  /\ BkSpend("spills")
  /\ src' = [src EXCEPT !.dirty = @ \ {p}, !.written = @ \cup {p}]
  /\ bk' = BackupUpdate(bk, src.view, {p})
  /\ UNCHANGED latest

\* sqlite3PagerCommitPhaseOne()
SrcCommit ==
  /\ src.tx = "write"
  /\ latest' = [image |-> src.view, ver |-> latest.ver + 1]
  /\ src' = [src EXCEPT !.tx = "none", !.ver = latest.ver + 1, !.dirty = {}, !.written = {}]
  /\ bk' = IF bkEnv.mode = "mem" THEN BackupRestart(bk) ELSE BackupUpdate(bk, src.view, src.dirty)
  /\ UNCHANGED bkEnv

\* The journal is played back into the file, or the pages of the log are forgotten.
SrcRollback ==
  /\ src.tx = "write"
  /\ src' = [src EXCEPT !.tx = "none", !.view = src.base, !.dirty = {}, !.written = {}]
  /\ bk' = CASE bkEnv.mode = "mem" -> bk
             [] bkEnv.mode = "rollback" ->
                  BackupUpdate(bk, src.base, src.written \cap DOMAIN src.base)
             [] bkEnv.mode = "wal" ->
                  IF src.written \cup src.dirty # {} THEN BackupRestart(bk) ELSE bk
  /\ UNCHANGED <<latest, bkEnv>>

\* Another process commits; in rollback mode no transaction of the source may be open.
OtherCommit(p) ==
  /\ bkEnv.mode = "wal" \/ src.tx = "none"
  /\ bkEnv.mode # "mem" /\ src.tx # "write"
  /\ p \in DOMAIN latest.image
  /\ BkSpend("others")
  /\ latest' = [image |-> [latest.image EXCEPT ![p] = 100 + bkEnv.others], ver |-> latest.ver + 1]
  /\ UNCHANGED <<src, bk>>

-----------------------------------------------------------------------------
(* The backup *)

\* sqlite3_backup_step(): n pages, on a read transaction of its own if there is none.
BackupStep(n) ==
  LET s    == IF src.tx = "none" THEN Refreshed ELSE src
      b    == IF src.tx = "none" THEN Noticed(bk) ELSE bk
      last == Least(b.iNext + n - 1, Len(s.view))
      dst  == Copied(b.dst, s.view, b.iNext..last)
      next == IF last + 1 > b.iNext THEN last + 1 ELSE b.iNext
  IN /\ bk.rc \in {"ok", "busy"}
     /\ BkSpend("steps")
     /\ IF src.tx = "write"
        THEN bk' = [bk EXCEPT !.rc = "busy"] /\ UNCHANGED src
        ELSE /\ src' = s
             /\ bk' = IF next > Len(s.view)
                      THEN [b EXCEPT !.iNext = next, !.rc = "done",
                                     !.dst = SubSeq(dst, 1, Len(s.view))]
                      ELSE [b EXCEPT !.iNext = next, !.rc = "ok", !.attached = TRUE, !.dst = dst]
     /\ UNCHANGED latest

\* A page cannot be read, or not be written to the destination, in a step or an update:
\* the destination is rolled back.
BackupFails ==
  /\ bk.rc \in {"ok", "busy"} /\ bk.attached
  /\ BkSpend("faults")
  /\ bk' = [bk EXCEPT !.rc = "error", !.dst = <<>>]
  /\ UNCHANGED <<src, latest>>

BkNext ==
  \/ BeginRead \/ EndRead \/ BeginWrite \/ SrcTruncate \/ SrcCommit \/ SrcRollback
  \/ \E p \in 1..3 : SrcWrite(p) \/ SrcSpill(p) \/ OtherCommit(p)
  \/ \E n \in 1..2 : BackupStep(n)
  \/ BackupFails

BkSpec == BkInit /\ [][BkNext]_bkVars

-----------------------------------------------------------------------------
\* Whatever was written, rolled back, truncated or committed elsewhere between the steps,
\* a backup that completes is the database of one transaction: what the last step read.
BackupIsSnapshot ==
  [][bk'.rc = "done" /\ bk.rc # "done" => bk'.dst = src'.view]_bkVars

=============================================================================
