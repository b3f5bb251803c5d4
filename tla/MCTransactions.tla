--------------------------- MODULE MCTransactions ---------------------------
(***************************************************************************)
(* What a transaction does to the files it changes: the commit of several  *)
(* databases (MasterJournal), statements and savepoints inside one of them *)
(* (Savepoint), the vacuum a commit may begin with (AutoVacuum), and the   *)
(* bit-vector that knows which pages are in the journal (Bitvec).  The     *)
(* four are instantiated side by side; a behaviour follows one of them,    *)
(* its subject, and leaves the others in one of their initial states.      *)
(***************************************************************************)
EXTENDS MasterJournal, Savepoint, AutoVacuum, Bitvec

CONSTANT TxSubjects        \* the subjects a run looks at

VARIABLE subject

TxInit ==
  /\ subject \in TxSubjects
  /\ MjInit /\ (subject # "master"    => mjEnv = CHOOSE e \in MjSetups : TRUE)
  /\ SpInit /\ (subject # "savepoint" => spEnv = CHOOSE e \in SpSetups : TRUE)
  /\ AvInit /\ (subject # "vacuum"    => avEnv = CHOOSE e \in AvSetups : TRUE)
  /\ BvInit /\ (subject # "bitvec"    => bvEnv = CHOOSE e \in BvSetups : TRUE)

TxNext ==
  /\ UNCHANGED subject
  /\ \/ subject = "master"    /\ MjNext /\ UNCHANGED <<spVars, avVars, bvVars>>
     \/ subject = "savepoint" /\ SpNext /\ UNCHANGED <<mjVars, avVars, bvVars>>
     \/ subject = "vacuum"    /\ AvNext /\ UNCHANGED <<mjVars, spVars, bvVars>>
     \/ subject = "bitvec"    /\ BvNext /\ UNCHANGED <<mjVars, spVars, avVars>>

TxSpec == TxInit /\ [][TxNext]_<<subject, mjVars, spVars, avVars, bvVars>>
-----------------------------------------------------------------------------
AllSubjects == {"master", "savepoint", "vacuum", "bitvec"}

\* Failing calls and kills in each journal mode; two transactions that reuse their
\* journals; a power loss.
MjSetup(mode, tx, faults, kills, power) ==
  [mode |-> mode, tx |-> tx, faults |-> faults, kills |-> kills, power |-> power]

TxMjSetups ==
  {MjSetup("delete", 1, 1, 2, 0), MjSetup("persist", 1, 1, 2, 0), MjSetup("truncate", 1, 1, 2, 0),
   MjSetup("delete", 2, 1, 1, 0), MjSetup("persist", 2, 1, 0, 0),
   MjSetup("delete", 1, 0, 0, 1), MjSetup("truncate", 1, 0, 0, 1)}

\* Two kills around a second transaction that reuses the journals.
StaleMj == {MjSetup("persist", 2, 0, 2, 0)}

\* Two nested savepoints with a shrinking image and spills, by journal mode; a shrinking
\* image is not followed by a ROLLBACK in WAL mode.
SpSetup(mode, w, sh, sp, o, un) ==
  [mode |-> mode, writes |-> w, shrinks |-> sh, spills |-> sp, opens |-> o, undos |-> un]

TxSpSetups ==
  {SpSetup("file", 2, 1, 2, 2, 1), SpSetup("file", 3, 0, 2, 1, 2), SpSetup("append", 2, 1, 1, 2, 1),
   SpSetup("wal", 3, 0, 2, 2, 1), SpSetup("wal", 2, 1, 2, 2, 0)}

\* A shrinking image and a ROLLBACK in WAL mode.
ShrinkSp == {SpSetup("wal", 1, 1, 1, 1, 1)}

\* Operations on two tables with the pending-byte page among the pages in use, each
\* vacuum mode; and the final size of every small file.
AvSetup(auto, n, p, al, f, c, d, v) ==
  [auto |-> auto, nEntry |-> n, pending |-> p, allocs |-> al, frees |-> f,
   creates |-> c, drops |-> d, vacuums |-> v]

TxAvSetups ==
  {AvSetup("full", 1, p, 3, 1, 1, 1, 1) : p \in 4..6}
  \cup {AvSetup("full", 2, 6, 3, 0, 2, 1, 1), AvSetup("incr", 2, 6, 3, 1, 1, 1, 2),
        AvSetup("none", 2, 3, 3, 1, 1, 1, 0)}
  \cup {AvSetup("full", n, p, 0, 0, 0, 0, 0) : n \in 1..4, p \in 3..16}

\* Pages of a transaction that runs out of memory, also where a leaf of the free list is
\* among them; two leaves; and bits alone, in a vector of three layers and of two.
BvSetup(n, lv, w, a, f, s, c) ==
  [iSize |-> n, leaves |-> lv, writes |-> w, allocs |-> a, faults |-> f, sets |-> s, clears |-> c]

LeafBv == {BvSetup(10, {5}, 3, 1, TRUE, 0, 0)}

TxBvSetups ==
  {BvSetup(10, {}, 4, 0, TRUE, 0, 0), BvSetup(10, {5, 6}, 4, 2, FALSE, 0, 0),
   BvSetup(10, {}, 0, 0, FALSE, 5, 2), BvSetup(7, {}, 0, 0, FALSE, 7, 2)} \cup LeafBv
=============================================================================
