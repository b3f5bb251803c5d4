----------------------------- MODULE MCSharing -----------------------------
(***************************************************************************)
(* What connections of one process, and processes, share beside the file:  *)
(* a b-tree and its table locks (SharedCache), the pages of the page cache *)
(* (PCache1), the memory of the wal-index (UnixShm), a database being      *)
(* copied (Backup), and the write queue of the asynchronous VFS (AsyncIO). *)
(* The five are instantiated side by side; a behaviour follows one of      *)
(* them, its subject, and leaves the others in one of their initial        *)
(* states.                                                                 *)
(***************************************************************************)
EXTENDS SharedCache, UnixShm, PCache1, Backup, AsyncIO, TLC

CONSTANTS u, v, w,      \* connections of the shared cache
          xa, xb, xc,   \* connections of the wal-index
          pa, pb,       \* and their processes
          ca, cb,       \* page caches
          ShSubjects    \* the subjects a run looks at

VARIABLE subject

ShareInit ==
  /\ subject \in ShSubjects
  /\ ShInit  /\ (subject # "table locks" => shEnv = CHOOSE e \in ShSetups : TRUE)
  /\ PcInit  /\ (subject # "page cache"  => pcEnv = CHOOSE e \in PcSetups : TRUE)
  /\ ShmInit /\ (subject # "wal-index"   => xEnv = CHOOSE e \in ShmSetups : TRUE)
  /\ BkInit  /\ (subject # "backup"      => bkEnv = CHOOSE e \in BkSetups : TRUE)
  /\ AsInit  /\ (subject # "async"       => asEnv = CHOOSE e \in AsSetups : TRUE)

ShareNext ==
  /\ UNCHANGED subject
  /\ \/ subject = "table locks" /\ ShNext  /\ UNCHANGED <<pcVars, shmVars, bkVars, asVars>>
     \/ subject = "page cache"  /\ PcNext  /\ UNCHANGED <<shVars, shmVars, bkVars, asVars>>
     \/ subject = "wal-index"   /\ ShmNext /\ UNCHANGED <<shVars, pcVars, bkVars, asVars>>
     \/ subject = "backup"      /\ BkNext  /\ UNCHANGED <<shVars, pcVars, shmVars, asVars>>
     \/ subject = "async"       /\ AsNext  /\ UNCHANGED <<shVars, pcVars, shmVars, bkVars>>

ShareSpec ==
  ShareInit /\ [][ShareNext]_<<subject, shVars, pcVars, shmVars, bkVars, asVars>>
-----------------------------------------------------------------------------
AllShared == {"table locks", "page cache", "wal-index", "backup", "async"}

\* Two connections with two statements at a time; two beside a close; and three with one
\* statement, of which one reads uncommitted data.
ShSetup(cs, sl, st, cl, un) ==
  [conns |-> cs, slots |-> sl, starts |-> st, closes |-> cl, uncommitted |-> un]

ShareShSetups ==
  {ShSetup({u, v}, 2, 4, 0, {}), ShSetup({u, v}, 1, 2, 1, {}), ShSetup(ShConn, 1, 3, 0, {w})}

\* Two purgeable caches of one page size, then of two; a purgeable and a private one,
\* with an allocation that may fail.
PcSetup(P, sz, f, s, cl, flt) ==
  [purgeable |-> P, sz |-> sz, fetches |-> f, sizes |-> s, closes |-> cl, faults |-> flt]

OneSize == [k \in PcCache |-> 1]

SharePcSetups ==
  {PcSetup({ca, cb}, OneSize, 3, 1, 0, 0), PcSetup({ca, cb}, ca :> 1 @@ cb :> 2, 3, 0, 1, 0),
   PcSetup({ca}, OneSize, 3, 0, 0, 1)}

\* Two connections of one process and one of another.
ShareProcOf == xa :> pa @@ xb :> pa @@ xc :> pb

ShmSetup(o, l, f, k) == [opens |-> o, locks |-> l, faults |-> f, kills |-> k]

ShareShmSetups == {ShmSetup(3, 3, 0, 0), ShmSetup(3, 2, 1, 0), ShmSetup(3, 2, 0, 1)}

\* A file in either journal mode, which another process may write, and a database in memory.
BkSetup(m) ==
  [mode |-> m, txs |-> 2, writes |-> IF m = "rollback" THEN 2 ELSE 1, steps |-> 3, spills |-> 1,
   others |-> IF m = "mem" THEN 0 ELSE 1, faults |-> IF m = "mem" THEN 1 ELSE 0]

ShareBkSetups == {BkSetup(m) : m \in {"rollback", "wal", "mem"}}

\* A writing handle beside another process; with an error; with a journal that is used
\* twice; and two handles of one process.  The busy handler does not try again.
AsSetup(o, w_, l, j, c, ot, f, r) ==
  [opens |-> o, writes |-> w_, locks |-> l, journals |-> j, closes |-> c, others |-> ot,
   faults |-> f, retries |-> r]

ShareAsSetups ==
  {AsSetup(1, 2, 4, 0, 0, 2, 0, 0), AsSetup(1, 2, 3, 1, 0, 0, 1, 0),
   AsSetup(1, 1, 3, 2, 0, 0, 0, 0), AsSetup(2, 1, 4, 0, 1, 0, 0, 0)}

\* It does, beside another process.
RetryAs == {AsSetup(1, 1, 3, 0, 0, 1, 0, 1)}
AsyncOnly == {"async"}

\* Every configuration treats u and v, and xa and xb, alike.
Symmetry == Permutations({u, v}) \cup Permutations({xa, xb})
=============================================================================
