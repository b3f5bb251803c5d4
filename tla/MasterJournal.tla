--------------------------- MODULE MasterJournal ---------------------------
(***************************************************************************)
(* vdbeCommit() and the master journal: a transaction over several         *)
(* databases, each with a rollback journal of its own.                     *)
(*                                                                         *)
(* A database is the number of the transaction that wrote it last, Half if *)
(* part of it is written.  A rollback journal is the number that it        *)
(* restores (None without a valid header) and the master journal named in  *)
(* the last bytes of the file.  A master journal has the number of its     *)
(* transaction for a name, 0 is none.  Locks are not modelled: a process   *)
(* has EXCLUSIVE on a database it commits or rolls back.                   *)
(***************************************************************************)
EXTENDS Integers, FiniteSets, FiniteSetsExt

CONSTANTS NDb,          \* attached databases
          MjSetups      \* configurations: [mode, tx, faults, kills, power]

ASSUME MasterJournalAssumption ==
  /\ NDb \in Nat \ {0}
  /\ MjSetups \subseteq [mode : {"delete", "truncate", "persist"}, tx : Nat, faults : Nat,
                         kills : Nat, power : Nat]

VARIABLES
  file, fileDisk,       \* the database files: as written, and as synced
  jrnl, jrnlDisk,       \* their journals
  mOn, mDisk,           \* the master journals that exist
  kids,                 \* the journals that a master journal lists
  wr,                   \* the process that commits: step, transaction, databases
  rb,                   \* the rollback of each database, by the same or another process
  base, scope, acked,   \* the databases before the transaction; those it writes; it
                        \* cannot be undone
  mjEnv                 \* journal mode, and what is left of the bounds

mjVars == <<file, fileDisk, jrnl, jrnlDisk, mOn, mDisk, kids, wr, rb, base, scope, acked, mjEnv>>
disk   == <<fileDisk, jrnlDisk, mDisk>>
ghost  == <<base, scope, acked>>

Db   == 1..NDb
Half == -1
Free == -2               \* no valid header in the journal
NoJrnl == [on |-> FALSE, back |-> Free, mj |-> 0, fresh |-> FALSE]
NoRb   == [pc |-> "none", mj |-> 0, res |-> TRUE, live |-> FALSE, todo |-> {}]

MjInit ==
  /\ file = [d \in Db |-> 0] /\ fileDisk = file
  /\ jrnl = [d \in Db |-> NoJrnl] /\ jrnlDisk = jrnl
  /\ mOn = {} /\ mDisk = {}
  /\ wr = [pc |-> "idle", t |-> 0, T |-> {}, todo |-> {}]
  /\ rb = [d \in Db |-> NoRb]
  /\ base = file /\ scope = {} /\ acked = FALSE
  /\ mjEnv \in MjSetups
  /\ kids = [t \in 1..mjEnv.tx |-> {}]

Spend(k) == mjEnv[k] > 0 /\ mjEnv' = [mjEnv EXCEPT ![k] = @ - 1]

\* hasHotJournal()
Hot(j) == j.on /\ j.back # Free

\* What a rollback makes of a database: a journal whose master journal is gone is stale.
Resolve(d) ==
  IF Hot(jrnl[d]) /\ (jrnl[d].mj = 0 \/ jrnl[d].mj \in mOn) THEN jrnl[d].back ELSE file[d]

\* pager_end_transaction() finalizes the journal.  A journal that was not written nor
\* played back (journalOff is 0) is left alone, unless it is deleted.
Finalized(j, mode, hasMaster, used) ==
  IF mode = "delete" THEN NoJrnl
  ELSE IF ~used THEN j
  ELSE [j EXCEPT !.back = Free, !.mj = IF mode = "truncate" \/ hasMaster THEN 0 ELSE @]

\* Only the zeroed header of a persistent journal is synced.
Finalize(d, hasMaster, used) ==
  LET j == Finalized(jrnl[d], mjEnv.mode, hasMaster, used) IN
  /\ jrnl' = [jrnl EXCEPT ![d] = j]
  /\ jrnlDisk' = IF mjEnv.mode = "persist" /\ used
                 THEN [jrnlDisk EXCEPT ![d] = j] ELSE jrnlDisk

-----------------------------------------------------------------------------
(* The transaction *)

To(step) == wr' = [wr EXCEPT !.pc = step]
First == Min(wr.todo)

\* A journal that a rollback would leave alone does not keep a writer away.
LeftInPlace(d) ==
  Hot(jrnl[d]) /\ jrnl[d].mj # 0 /\ jrnl[d].mj \notin mOn /\ mjEnv.mode # "delete"

\* The pages are journalled: header and records are overwritten, but the end of an old,
\* longer journal stays.
MjBegin(T) ==
  /\ wr.pc = "idle"
  /\ Spend("tx")
  /\ \A d \in T : rb[d].pc = "none" /\ (Hot(jrnl[d]) => LeftInPlace(d))
  /\ wr' = [pc |-> "open", t |-> wr.t + 1, T |-> T, todo |-> T]
  /\ \E longer \in BOOLEAN :
       jrnl' = [d \in Db |-> IF d \notin T THEN jrnl[d]
                             ELSE [on |-> TRUE, back |-> file[d], fresh |-> ~jrnl[d].on,
                                   mj |-> IF longer THEN 0 ELSE jrnl[d].mj]]
  /\ base' = [d \in Db |-> Resolve(d)]
  /\ scope' = T
  /\ acked' = FALSE
  /\ UNCHANGED <<file, disk, mOn, kids, rb>>

\* pagerStress(): a page is written in the middle of the transaction.
MjSpill(d) ==
  /\ wr.pc = "open" /\ d \in wr.T
  /\ file[d] # Half
  /\ file' = [file EXCEPT ![d] = Half]
  /\ jrnl' = [jrnl EXCEPT ![d].fresh = FALSE]
  /\ jrnlDisk' = [jrnlDisk EXCEPT ![d] = jrnl'[d]]
  /\ UNCHANGED <<fileDisk, mOn, mDisk, kids, wr, rb, ghost, mjEnv>>

\* More than one database: the master journal is created, and lists the journals.
CreateMaster ==
  /\ wr.pc = "open"
  /\ IF Cardinality(wr.T) = 1
     THEN To("phaseone") /\ UNCHANGED <<mOn, kids>>
     ELSE /\ To("syncmaster")
          /\ mOn' = mOn \cup {wr.t}
          /\ kids' = [kids EXCEPT ![wr.t] = wr.T]
  /\ UNCHANGED <<file, disk, jrnl, rb, ghost, mjEnv>>

SyncMaster ==
  /\ wr.pc = "syncmaster"
  /\ mDisk' = mDisk \cup {wr.t}
  /\ To("phaseone")
  /\ UNCHANGED <<file, fileDisk, jrnl, jrnlDisk, mOn, kids, rb, ghost, mjEnv>>

\* sqlite3PagerCommitPhaseOne() for each database: writeMasterJournal(), syncJournal(),
\* the pages, sqlite3PagerSync().
WriteMasterRecord ==
  /\ wr.pc = "phaseone"
  /\ jrnl' = IF wr.t \in mOn THEN [jrnl EXCEPT ![First].mj = wr.t] ELSE jrnl
  /\ To("jsync")
  /\ UNCHANGED <<file, disk, mOn, kids, rb, ghost, mjEnv>>

SyncJournal ==
  /\ wr.pc = "jsync"
  /\ jrnl' = [jrnl EXCEPT ![First].fresh = FALSE]
  /\ jrnlDisk' = [jrnlDisk EXCEPT ![First] = jrnl'[First]]
  /\ To("dbwrite")
  /\ UNCHANGED <<file, fileDisk, mOn, mDisk, kids, rb, ghost, mjEnv>>

WriteDb ==
  /\ wr.pc = "dbwrite"
  /\ IF file[First] # Half
     THEN file' = [file EXCEPT ![First] = Half] /\ UNCHANGED wr
     ELSE file' = [file EXCEPT ![First] = wr.t] /\ To("dbsync")
  /\ UNCHANGED <<disk, jrnl, mOn, kids, rb, ghost, mjEnv>>

SyncDb ==
  /\ wr.pc = "dbsync"
  /\ fileDisk' = [fileDisk EXCEPT ![First] = file[First]]
  /\ wr' = IF wr.todo # {First} THEN [wr EXCEPT !.todo = @ \ {First}, !.pc = "phaseone"]
           ELSE [wr EXCEPT !.todo = wr.T,
                           !.pc = IF wr.t \in mOn THEN "delmaster" ELSE "phasetwo"]
  /\ UNCHANGED <<file, jrnl, jrnlDisk, mOn, mDisk, kids, rb, ghost, mjEnv>>

\* The commit point: the master journal is unlinked, and the directory synced.
DeleteMaster ==
  /\ wr.pc = "delmaster"
  /\ mOn' = mOn \ {wr.t}
  /\ To("dirsync")
  /\ UNCHANGED <<file, disk, jrnl, kids, rb, ghost, mjEnv>>

SyncDirectory ==
  /\ wr.pc = "dirsync"
  /\ mDisk' = mDisk \ {wr.t}
  /\ acked' = TRUE
  /\ To("phasetwo")
  /\ UNCHANGED <<file, fileDisk, jrnl, jrnlDisk, mOn, kids, rb, base, scope, mjEnv>>

\* sqlite3PagerCommitPhaseTwo() for each database.
PhaseTwo ==
  /\ wr.pc = "phasetwo"
  /\ Finalize(First, Cardinality(wr.T) > 1, TRUE)
  /\ wr' = IF wr.todo # {First} THEN [wr EXCEPT !.todo = @ \ {First}]
           ELSE [wr EXCEPT !.pc = "idle", !.todo = {}, !.T = {}]
  /\ UNCHANGED <<file, fileDisk, mOn, mDisk, kids, rb, ghost, mjEnv>>

\* A call fails: all databases are rolled back.  A master journal that no journal
\* names yet is deleted at once.
MjFails ==
  /\ wr.pc \in {"open", "syncmaster", "phaseone", "jsync", "dbwrite", "dbsync", "delmaster",
               "dirsync"}
  /\ Spend("faults")
  /\ To("rollback")
  /\ mOn' = IF wr.pc = "syncmaster" THEN mOn \ {wr.t} ELSE mOn
  /\ rb' = [d \in Db |-> IF d \in wr.T THEN [NoRb EXCEPT !.pc = "access", !.live = TRUE] ELSE rb[d]]
  /\ UNCHANGED <<file, disk, jrnl, kids, ghost>>

RolledBack ==
  /\ wr.pc = "rollback"
  /\ \A d \in wr.T : rb[d].pc = "none"
  /\ wr' = [wr EXCEPT !.pc = "idle", !.T = {}, !.todo = {}]
  /\ UNCHANGED <<file, disk, jrnl, mOn, kids, rb, ghost, mjEnv>>

-----------------------------------------------------------------------------
(* Rollback of one database: pager_playback() *)

\* Another process finds the journal hot, and syncs it (pagerSyncHotJournal()): not the
\* directory, where a new journal may still be lost.
OpenHot(d) ==
  /\ rb[d].pc = "none" /\ d \notin wr.T
  /\ Hot(jrnl[d])
  /\ rb' = [rb EXCEPT ![d].pc = "access"]
  /\ jrnlDisk' = IF jrnl[d].fresh THEN jrnlDisk ELSE [jrnlDisk EXCEPT ![d] = jrnl[d]]
  /\ UNCHANGED <<file, fileDisk, jrnl, mOn, mDisk, kids, wr, ghost, mjEnv>>

\* readMasterJournal(), and whether the master journal exists.
ReadMaster(d) ==
  LET m == jrnl[d].mj
      res == m = 0 \/ m \in mOn
  IN /\ rb[d].pc = "access"
     /\ rb' = [rb EXCEPT ![d].mj = m, ![d].res = res,
                         ![d].pc = IF res THEN "play" ELSE "end"]
     /\ UNCHANGED <<file, disk, jrnl, mOn, kids, wr, ghost, mjEnv>>

\* The pages one by one, which is no change where none has been written; then the file is
\* synced.
Play(d) ==
  /\ rb[d].pc = "play"
  /\ IF file[d] \notin {jrnl[d].back, Half}
     THEN file' = [file EXCEPT ![d] = Half] /\ UNCHANGED <<fileDisk, rb>>
     ELSE /\ file' = [file EXCEPT ![d] = jrnl[d].back]
          /\ fileDisk' = [fileDisk EXCEPT ![d] = jrnl[d].back]
          /\ rb' = [rb EXCEPT ![d].pc = "end"]
  /\ UNCHANGED <<jrnl, jrnlDisk, mOn, mDisk, kids, wr, ghost, mjEnv>>

EndPlayback(d) ==
  LET r == rb[d] IN
  /\ r.pc = "end"
  /\ Finalize(d, r.mj # 0, r.res \/ r.live)
  /\ rb' = [rb EXCEPT ![d] = IF r.mj # 0 /\ r.res THEN [r EXCEPT !.pc = "openmaster"] ELSE NoRb]
  /\ UNCHANGED <<file, fileDisk, mOn, mDisk, kids, wr, ghost, mjEnv>>

\* pager_delmaster(): it fails if another process has deleted the master journal.
OpenMaster(d) ==
  /\ rb[d].pc = "openmaster"
  /\ rb' = [rb EXCEPT ![d] = IF rb[d].mj \in mOn
                             THEN [@ EXCEPT !.pc = "child", !.todo = kids[rb[d].mj]]
                             ELSE NoRb]
  /\ UNCHANGED <<file, disk, jrnl, mOn, kids, wr, ghost, mjEnv>>

\* Mutant: the journals of the other databases are not asked.
NamesNever(e, m) == FALSE

Names(e, m) == jrnl[e].on /\ jrnl[e].mj = m

\* The journals that it lists are read in turn; one that names it keeps it alive.
CheckChild(d) ==
  LET r == rb[d]
      e == Min(r.todo)
  IN /\ r.pc = "child"
     /\ IF r.todo = {} THEN mOn' = mOn \ {r.mj} /\ rb' = [rb EXCEPT ![d] = NoRb]
        ELSE /\ rb' = [rb EXCEPT ![d] = IF Names(e, r.mj) THEN NoRb
                                        ELSE [r EXCEPT !.todo = @ \ {e}]]
             /\ UNCHANGED mOn
     /\ UNCHANGED <<file, disk, jrnl, kids, wr, ghost, mjEnv>>

-----------------------------------------------------------------------------
(* Failures *)

\* The committing process dies, and with it the rollbacks it runs.
KillWriter ==
  /\ wr.pc # "idle"
  /\ Spend("kills")
  /\ wr' = [wr EXCEPT !.pc = "idle", !.T = {}, !.todo = {}]
  /\ rb' = [d \in Db |-> IF rb[d].live THEN NoRb ELSE rb[d]]
  /\ UNCHANGED <<file, disk, jrnl, mOn, kids, ghost>>

KillRollback(d) ==
  /\ rb[d].pc # "none" /\ ~rb[d].live
  /\ Spend("kills")
  /\ rb' = [rb EXCEPT ![d] = NoRb]
  /\ UNCHANGED <<file, disk, jrnl, mOn, kids, wr, ghost>>

\* What a power loss leaves of a journal: the synced one, or the new one with parts of
\* it missing, or old, if it is the same file.  A deletion or a truncation is lost as a
\* whole.
JrnlRemains(old, new) ==
  LET Part(o, n, missing) == IF new.fresh THEN {n, missing}
                             ELSE IF o = n THEN {n} ELSE {o, n, missing}
  IN (IF new.on /\ ~new.fresh /\ new.back # Free THEN {} ELSE {old}) \cup
     (IF ~new.on \/ new.back = Free THEN {new}
      ELSE {[on |-> TRUE, back |-> b, mj |-> m, fresh |-> FALSE] :
              b \in Part(old.back, new.back, Free), m \in Part(old.mj, new.mj, 0)})

MjPowerLoss ==
  /\ wr.pc # "idle" \/ \E d \in Db : rb[d].pc # "none"
  /\ Spend("power")
  /\ file' \in {f \in [Db -> {Half} \cup 0..wr.t] :
       \A d \in Db : f[d] \in IF file[d] = fileDisk[d] THEN {file[d]}
                              ELSE {file[d], fileDisk[d], Half}}
  /\ fileDisk' = file'
  /\ \E J \in [Db -> UNION {JrnlRemains(jrnlDisk[d], jrnl[d]) : d \in Db}] :
       /\ \A d \in Db : J[d] \in JrnlRemains(jrnlDisk[d], jrnl[d])
       /\ jrnl' = J /\ jrnlDisk' = J
  /\ \E M \in {X \in SUBSET (mOn \cup mDisk) : mOn \cap mDisk \subseteq X} :
       mOn' = M /\ mDisk' = M
  /\ wr' = [wr EXCEPT !.pc = "idle", !.T = {}, !.todo = {}]
  /\ rb' = [d \in Db |-> NoRb]
  /\ UNCHANGED <<kids, ghost>>

MjNext ==
  \/ \E T \in (SUBSET Db) \ {{}} : MjBegin(T)
  \/ CreateMaster \/ SyncMaster \/ WriteMasterRecord \/ SyncJournal \/ WriteDb \/ SyncDb
  \/ DeleteMaster \/ SyncDirectory \/ PhaseTwo \/ MjFails \/ RolledBack
  \/ \E d \in Db : \/ MjSpill(d) \/ OpenHot(d) \/ ReadMaster(d) \/ Play(d) \/ EndPlayback(d)
                   \/ OpenMaster(d) \/ CheckChild(d) \/ KillRollback(d)
  \/ KillWriter \/ MjPowerLoss

MjSpec == MjInit /\ [][MjNext]_mjVars

-----------------------------------------------------------------------------
\* Whatever fails or dies, all databases of a transaction have it or none has it, once
\* their journals are rolled back; and all have it when the deletion of the master
\* journal is on disk.
AllOrNothing ==
  \/ ~acked /\ \A d \in Db : Resolve(d) = base[d]
  \/ \A d \in Db : Resolve(d) = IF d \in scope THEN wr.t ELSE base[d]
=============================================================================
