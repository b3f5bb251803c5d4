----------------------------- MODULE Savepoint -----------------------------
(***************************************************************************)
(* Savepoints and statement transactions of a pager: the main journal from *)
(* an offset on, then the sub-journal, restore the database image that was *)
(* current when the savepoint was opened.                                  *)
(*                                                                         *)
(* One write transaction of one pager is modelled, in rollback ("file"     *)
(* with a header per sync; "append": a MEMORY journal or a safe-append     *)
(* device, with one header) and in WAL mode.  The content of a page is a   *)
(* number: -p at first, 0 for zeros, then the count of writes left.        *)
(* Page 1, pinned in the cache by the b-tree, is not among the pages.      *)
(***************************************************************************)
EXTENDS Integers, Sequences, FiniteSets

CONSTANTS Pages,        \* the largest page number
          OrigSize,     \* pages at the start of the transaction
          HeaderSz,     \* journal header and sector, in journal records
          SpSetups      \* configurations: [mode, writes, shrinks, spills, opens, undos]

ASSUME SavepointAssumption ==
  Pages \in Nat /\ OrigSize \in 1..Pages /\ HeaderSz \in Nat \ {0}

VARIABLES pg,           \* the pager
          spEnv         \* what is left of the bounds

spVars == <<pg, spEnv>>

Absent == [in |-> FALSE, val |-> 0, dirty |-> FALSE, sync |-> FALSE]

SpInit ==
  /\ spEnv \in SpSetups
  /\ pg = [mode   |-> spEnv.mode,
           cache  |-> [p \in 1..Pages |-> Absent],
           file   |-> [p \in 1..OrigSize |-> -p],
           dbSize |-> OrigSize,
           dbmod  |-> FALSE,            \* PAGER_WRITER_DBMOD
           jrnl   |-> <<>>,             \* the main journal; its length is journalOff
           jHdr   |-> 0,                \* journalHdr
           inJ    |-> {},               \* pInJournal
           sub    |-> <<>>,             \* the sub-journal; its length is nSubRec
           sv     |-> <<>>,             \* aSavepoint
           log    |-> <<[pg |-> 1, val |-> -1]>>,  \* the WAL: a committed frame, checkpointed
           nCkpt  |-> 0]

SpSpend(k) == spEnv[k] > 0 /\ spEnv' = [spEnv EXCEPT ![k] = @ - 1]

-----------------------------------------------------------------------------
(* Reading *)

MaxOf(a, b) == IF a > b THEN a ELSE b
LastOf(S) == CHOOSE x \in S : \A y \in S : y <= x
FirstOf(S) == CHOOSE x \in S : \A y \in S : x <= y

\* readDbPage(): the last frame of the log, or the file; a short read is zeros.
Stored(s, p) ==
  LET frames == {i \in DOMAIN s.log : s.log[i].pg = p}
  IN IF s.mode = "wal" /\ frames # {} THEN s.log[LastOf(frames)].val
     ELSE IF p \in DOMAIN s.file THEN s.file[p] ELSE 0

\* sqlite3PagerAcquire()
Acquired(s, p) ==
  IF s.cache[p].in THEN s.cache[p]
  ELSE [Absent EXCEPT !.in = TRUE, !.val = IF p > s.dbSize THEN 0 ELSE Stored(s, p)]

\* The database image that a reader in this transaction sees.
Image(s) == [p \in 1..s.dbSize |-> Acquired(s, p).val]

-----------------------------------------------------------------------------
(* Writing *)

SubjRequiresPage(s, p) ==
  \E i \in DOMAIN s.sv : p <= s.sv[i].nOrig /\ p \notin s.sv[i].done

AddToSavepointBitvecs(s, p) ==
  [s EXCEPT !.sv = [i \in DOMAIN s.sv |->
     IF p <= s.sv[i].nOrig THEN [s.sv[i] EXCEPT !.done = @ \cup {p}] ELSE s.sv[i]]]

SubjournalPage(s, p) ==
  IF ~SubjRequiresPage(s, p) THEN s
  ELSE AddToSavepointBitvecs(
         [s EXCEPT !.sub = Append(@, [pg |-> p, val |-> s.cache[p].val])], p)

HeaderOffset(o) == ((o + HeaderSz - 1) \div HeaderSz) * HeaderSz
JrnlRec(p, v) == [t |-> "rec", pg |-> p, val |-> v, nRec |-> 0]
JrnlHdr == [t |-> "hdr", pg |-> 0, val |-> 0, nRec |-> 0]
JrnlPad == [t |-> "pad", pg |-> 0, val |-> 0, nRec |-> 0]

\* Mutant: the savepoints are not told where the journal's next header is.
WriteJournalHdrSilent(s) ==
  LET h == HeaderOffset(Len(s.jrnl)) IN
  [s EXCEPT !.jHdr = h,
            !.jrnl = [i \in 1..(h + HeaderSz) |->
                        IF i <= Len(s.jrnl) THEN s.jrnl[i]
                        ELSE IF i = h + 1 THEN JrnlHdr ELSE JrnlPad]]

\* Every savepoint learns where its first run of records ends.
WriteJournalHdr(s) ==
  LET h == HeaderOffset(Len(s.jrnl)) IN
  [s EXCEPT !.sv = [i \in DOMAIN s.sv |->
                      IF s.sv[i].iHdrOffset = 0 THEN [s.sv[i] EXCEPT !.iHdrOffset = Len(s.jrnl)]
                      ELSE s.sv[i]],
            !.jHdr = h,
            !.jrnl = [i \in 1..(h + HeaderSz) |->
                        IF i <= Len(s.jrnl) THEN s.jrnl[i]
                        ELSE IF i = h + 1 THEN JrnlHdr ELSE JrnlPad]]

\* The page goes to the main journal, if it is in the database and not there yet.
JournalPage(s, p) ==
  IF s.mode = "wal" \/ p \in s.inJ THEN s
  ELSE IF p <= OrigSize
  THEN AddToSavepointBitvecs(
         [s EXCEPT !.jrnl = Append(@, JrnlRec(p, s.cache[p].val)),
                   !.inJ = @ \cup {p},
                   !.cache[p].sync = TRUE], p)
  ELSE [s EXCEPT !.cache[p].sync = @ \/ ~s.dbmod]

\* pager_write()
PagerWrite(s, p) ==
  LET opened == IF s.mode # "wal" /\ s.jrnl = <<>> THEN WriteJournalHdr(s) ELSE s
      dirty  == [opened EXCEPT !.cache[p] = [Acquired(s, p) EXCEPT !.dirty = TRUE]]
  IN [SubjournalPage(JournalPage(dirty, p), p) EXCEPT !.dbSize = MaxOf(@, p)]

\* The b-tree changes a page, or appends one.
SpWrite(p) ==
  /\ p <= pg.dbSize + 1
  /\ SpSpend("writes")
  /\ pg' = [PagerWrite(pg, p) EXCEPT !.cache[p].val = spEnv.writes]

\* incrVacuumStep(): the last page is moved away, and the image truncated.
Shrink ==
  /\ pg.dbSize > 1
  /\ SpSpend("shrinks")
  /\ pg' = [PagerWrite(pg, pg.dbSize) EXCEPT !.dbSize = @ - 1]

\* syncJournal(): all records are safe; the next ones follow a header of their own.
SyncedJournal(s) ==
  LET synced == [s EXCEPT !.jHdr = Len(s.jrnl), !.dbmod = TRUE,
                          !.cache = [p \in 1..Pages |-> [s.cache[p] EXCEPT !.sync = FALSE]]]
  IN IF s.mode = "append" THEN synced
     ELSE WriteJournalHdr([synced EXCEPT !.jrnl[s.jHdr + 1].nRec = Len(s.jrnl) - s.jHdr - HeaderSz])

FileWith(s, p, v) ==
  [q \in 1..MaxOf(Len(s.file), p) |-> IF q = p THEN v ELSE IF q <= Len(s.file) THEN s.file[q] ELSE 0]

\* pagerStress().  The first frame of the transaction may restart the log.
Spilled(s, p, restart) ==
  IF s.mode = "wal"
  THEN LET r == SubjournalPage(s, p) IN
       [r EXCEPT !.log = Append(IF restart THEN <<>> ELSE @, [pg |-> p, val |-> s.cache[p].val]),
                 !.nCkpt = IF restart THEN @ + 1 ELSE @]
  ELSE LET r == IF s.cache[p].sync \/ ~s.dbmod THEN SyncedJournal(s) ELSE s
       IN IF p <= r.dbSize THEN [r EXCEPT !.file = FileWith(r, p, r.cache[p].val)]
          ELSE SubjournalPage(r, p)

SpSpill(p) ==
  /\ pg.cache[p].in /\ pg.cache[p].dirty
  /\ SpSpend("spills")
  /\ \E restart \in BOOLEAN :
       /\ restart => pg.mode = "wal" /\ pg.nCkpt = 0 /\ Len(pg.log) = 1
       /\ pg' = [Spilled(pg, p, restart) EXCEPT !.cache[p].dirty = FALSE]

\* A clean page is recycled.
Evict(p) ==
  /\ pg.cache[p].in /\ ~pg.cache[p].dirty
  /\ pg' = [pg EXCEPT !.cache[p] = Absent]
  /\ UNCHANGED spEnv

-----------------------------------------------------------------------------
(* Savepoints *)

\* sqlite3PagerOpenSavepoint(); the image is kept to compare with.
OpenSavepoint ==
  /\ SpSpend("opens")
  /\ pg' = [pg EXCEPT !.sv = Append(@,
       [nOrig |-> pg.dbSize,
        iOffset |-> IF Len(pg.jrnl) > 0 THEN Len(pg.jrnl) ELSE HeaderSz,
        iHdrOffset |-> 0,
        iSubRec |-> Len(pg.sub),
        done |-> {},
        mark |-> Len(pg.log), nCkpt |-> pg.nCkpt,
        image |-> Image(pg)])]

\* sqlite3PagerSavepoint(SAVEPOINT_RELEASE)
Release(i) ==
  /\ pg' = [pg EXCEPT !.sv = SubSeq(@, 1, i - 1),
                      !.sub = IF i = 1 THEN <<>> ELSE @]
  /\ UNCHANGED spEnv

\* The offsets of the records that readJournalHdr() leads to, from offset o on.
RecordsFrom(s, o) ==
  LET size == Len(s.jrnl)
      Run[x \in 0..(size + HeaderSz)] ==
        IF x >= size THEN {}
        ELSE LET h     == HeaderOffset(x)
                 first == h + HeaderSz
                 n     == IF s.mode = "append" \/ (s.jrnl[h + 1].nRec = 0 /\ h = s.jHdr)
                          THEN size - first ELSE s.jrnl[h + 1].nRec
             IN first..(first + n - 1) \cup Run[first + n]
  IN Run[o]

\* The run of records from savepoint v to the next header, or to the end.  Anything else
\* in it would end the rollback (SQLITE_DONE).
FirstRun(s, v) ==
  v.iOffset..((IF v.iHdrOffset # 0 THEN v.iHdrOffset ELSE Len(s.jrnl)) - 1)

IsRun(s, run) == \A o \in run : s.jrnl[o + 1].t = "rec"

\* Mutant: a page is clean once it is played back, and no longer waits for a sync.
PlayMainCleans(s, p, o) ==
  LET synced == o + 1 <= s.jHdr
      c == s.cache[p]
  IN [s EXCEPT !.file = IF s.dbmod /\ synced THEN FileWith(s, p, s.jrnl[o + 1].val) ELSE @,
               !.cache[p] = IF ~c.in THEN c
                            ELSE [c EXCEPT !.val = s.jrnl[o + 1].val, !.dirty = FALSE, !.sync = FALSE]]

\* pager_playback_one_page() for the record at offset o of the main journal
PlayMain(s, p, o) ==
  LET synced == o + 1 <= s.jHdr
      c == s.cache[p]
  IN [s EXCEPT !.file = IF s.dbmod /\ synced THEN FileWith(s, p, s.jrnl[o + 1].val) ELSE @,
               !.cache[p] = IF ~c.in THEN c
                            ELSE [c EXCEPT !.val = s.jrnl[o + 1].val,
                                           !.dirty = @ /\ ~synced, !.sync = @ /\ ~synced]]

\* and for a record of the sub-journal with content x; in WAL mode the page becomes dirty.
PlaySub(s, p, x) ==
  LET c == s.cache[p] IN
  IF s.mode = "wal" \/ (~s.dbmod /\ ~c.in)
  THEN AddToSavepointBitvecs([s EXCEPT !.cache[p] = [in |-> TRUE, val |-> x, dirty |-> TRUE, sync |-> c.sync]], p)
  ELSE [s EXCEPT !.file = IF s.dbmod /\ ~c.sync THEN FileWith(s, p, x) ELSE @,
                 !.cache[p] = IF c.in THEN [c EXCEPT !.val = x] ELSE c]

\* The records at the offsets in "main", then the sub-journal from record "sub" on; of
\* several records for a page the first counts (pDone).
PlayPages(s, main, sub, n) ==
  LET Page(r, p) ==
        LET M == {o \in main : s.jrnl[o + 1].pg = p}
            S == {i \in (sub + 1)..Len(s.sub) : s.sub[i].pg = p}
        IN IF M # {} THEN PlayMain(r, p, FirstOf(M))
           ELSE IF S # {} THEN PlaySub(r, p, s.sub[FirstOf(S)].val) ELSE r
      Play[p \in 0..n] == IF p = 0 THEN s ELSE Page(Play[p - 1], p)
  IN Play[n]

\* sqlite3WalSavepointUndo()
WalUndone(s, v) ==
  [s EXCEPT !.log = SubSeq(@, 1, IF v.nCkpt # s.nCkpt THEN 0 ELSE v.mark)]

\* pagerRollbackWal(): what the transaction wrote is dropped from the log and the cache.
WalRolledBack(s) ==
  LET n == IF s.nCkpt = 0 THEN 1 ELSE 0
      frames == {s.log[i].pg : i \in (n + 1)..Len(s.log)}
  IN [s EXCEPT !.log = SubSeq(@, 1, n),
               !.cache = [p \in 1..Pages |-> IF s.cache[p].dirty \/ p \in frames THEN Absent
                                             ELSE s.cache[p]]]

\* pagerPlaybackSavepoint(), to savepoint i, or to the start of the transaction.
PlaybackSavepoint(s, i) ==
  LET v == s.sv[i] IN
  CASE s.mode = "wal" /\ i = 0 -> WalRolledBack([s EXCEPT !.dbSize = OrigSize])
    [] s.mode = "wal" /\ i > 0 ->
         PlayPages([WalUndone(s, v) EXCEPT !.dbSize = v.nOrig], {}, v.iSubRec, v.nOrig)
    [] s.mode # "wal" /\ s.jrnl = <<>> -> s
    [] s.mode # "wal" /\ s.jrnl # <<>> /\ i = 0 ->
         PlayPages([s EXCEPT !.dbSize = OrigSize], RecordsFrom(s, 0), Len(s.sub), OrigSize)
    [] s.mode # "wal" /\ s.jrnl # <<>> /\ i > 0 ->
         LET run  == FirstRun(s, v)
             r    == [s EXCEPT !.dbSize = v.nOrig]
         IN IF IsRun(s, run)
            THEN PlayPages(r, run \cup RecordsFrom(s, v.iOffset + Cardinality(run)), v.iSubRec, v.nOrig)
            ELSE PlayPages(r, {o \in run : IsRun(s, v.iOffset..o)}, Len(s.sub), v.nOrig)

\* sqlite3PagerSavepoint(SAVEPOINT_ROLLBACK): the savepoint stays open.
RollbackTo(i) ==
  /\ SpSpend("undos")
  /\ pg' = PlaybackSavepoint([pg EXCEPT !.sv = SubSeq(@, 1, i)], i)

SpNext ==
  \/ \E p \in 1..Pages : SpWrite(p) \/ SpSpill(p) \/ Evict(p)
  \/ Shrink
  \/ OpenSavepoint
  \/ \E i \in DOMAIN pg.sv : Release(i)
  \/ \E i \in 0..Len(pg.sv) : RollbackTo(i)

SpSpec == SpInit /\ [][SpNext]_spVars

-----------------------------------------------------------------------------
(* Properties *)

\* Whatever was written, spilled, truncated, recycled and rolled back since, each open
\* savepoint can be rolled back to the image it was opened on, and the transaction to
\* the database it started from: no page was changed before a copy of it was taken, and
\* the copies are played in the right order.
Restorable ==
  /\ Image(PlaybackSavepoint(pg, 0)) = [p \in 1..OrigSize |-> -p]
  /\ \A i \in DOMAIN pg.sv :
       Image(PlaybackSavepoint([pg EXCEPT !.sv = SubSeq(@, 1, i)], i)) = pg.sv[i].image

\* The synced part of the journal undoes what the file has been given, by spills and by
\* rollbacks to savepoints, if the process dies now.
SyncedJournalRestores ==
  pg.mode # "wal" =>
    \A p \in 1..OrigSize :
      LET safe == {o \in RecordsFrom(pg, 0) : o < pg.jHdr /\ pg.jrnl[o + 1].pg = p}
      IN IF safe = {} THEN pg.file[p] = -p ELSE pg.jrnl[FirstOf(safe) + 1].val = -p
=============================================================================
