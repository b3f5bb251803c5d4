---------------------------- MODULE SharingProofs ----------------------------
(***************************************************************************)
(* Theorems about what connections share beside the file, one part for     *)
(* each of three modules that MCSharing composes:                          *)
(*  - SharedCache: table locks isolate the statements of connections that  *)
(*    share a b-tree, and a connection that waits for another waits for    *)
(*    one that will call it back;                                          *)
(*  - UnixShm: it implements ShmLock, keeps every mapped region inside the *)
(*    file and has all processes share one file;                           *)
(*  - PCache1: the LRU list of a PGroup holds each page that is not        *)
(*    pinned, once, and the group is over its budget by no more than the   *)
(*    pages other threads were allocating.                                 *)
(* They hold for any number of connections, processes, tables, slots,      *)
(* regions, caches and page numbers, every setup and any failing calls.    *)
(***************************************************************************)
EXTENDS SharedCache, UnixShm, PCache1,
        FiniteSetTheorems, SequenceTheorems, WellFoundedInduction, TLAPS

-----------------------------------------------------------------------------
(* Part 1, SharedCache: types                                              *)

Setup == [conns : SUBSET ShConn, slots : Nat, starts : Nat, closes : Nat,
          uncommitted : SUBSET ShConn]

StmtType == [pc : {"none", "trans", "lock", "run", "auto", "halt", "unlock"},
             kind : {"none", "sql", "begin", "end"}, wr : 0..2, tab : 0..NTab, ok : BOOLEAN]

BtShared == [inTransaction : 0..2, nTransaction : Int, pWriter : ShConn \cup {NoConn},
             exclusive : BOOLEAN, pending : BOOLEAN]

Account == [blocking : ShConn \cup {NoConn}, unlock : ShConn \cup {NoConn}]

ShTypeOK ==
  /\ shEnv \in Setup
  /\ lock \in [ShConn -> [1..NTab -> 0..2]]
  /\ inTrans \in [ShConn -> 0..2]
  /\ shared \in BtShared
  /\ auto \in [ShConn -> BOOLEAN]
  /\ stmt \in [ShConn -> [Slots -> StmtType]]
  /\ notify \in [ShConn -> Account]
  /\ blockedList \subseteq ShConn
  /\ failed \in [ShConn -> BOOLEAN]
  /\ closed \in [ShConn -> {"no", "locks", "yes"}]

\* nTransaction counts the connections with a transaction, pWriter names the writer.
InTransaction == {c \in ShConn : inTrans[c] # None}

SharedInv ==
  /\ shared.nTransaction = Cardinality(InTransaction)
  /\ \A c \in ShConn : inTrans[c] = Write <=> shared.pWriter = c
  /\ shared.inTransaction = Write <=> shared.pWriter # NoConn
  /\ shared.exclusive \/ shared.pending => shared.pWriter # NoConn

\* Locks are held in a transaction, those for writing by the writer, alone on the table.
LockInv ==
  \A c \in ShConn, t \in 1..NTab :
    /\ lock[c][t] # 0 => inTrans[c] # None
    /\ lock[c][t] = Write => inTrans[c] = Write
    /\ lock[c][t] = Write => \A d \in ShConn \ {c} : lock[d][t] = 0

\* One statement of a connection is in the middle of a step; a statement that runs has the
\* lock it asked for, unless the transaction was rolled back under it.
StmtAt(c, s) ==
  LET x == stmt[c][s] IN
  /\ x.pc \notin {"none", "run"} => \A z \in Slots \ {s} : stmt[c][z].pc \in {"none", "run"}
  /\ x.pc \in {"trans", "lock", "run"} /\ x.kind = "sql" => x.tab \in 1..NTab
  /\ x.pc \in {"lock", "run"} => x.kind = "sql"
  /\ x.pc = "trans" => x.kind \in {"sql", "begin"}
  /\ x.pc = "lock" => inTrans[c] # None /\ (x.wr > 0 => inTrans[c] = Write)
  /\ x.pc = "run" /\ x.ok =>
       /\ x.wr > 0 => lock[c][x.tab] = Write
       /\ c \notin shEnv.uncommitted => lock[c][x.tab] # 0

\* A transaction has a statement left to end it or waits for a COMMIT; a connection that is
\* closed has neither.
LiveInv ==
  \A c \in ShConn :
    /\ inTrans[c] # None => ~auto[c] \/ \E s \in Slots : stmt[c][s].pc \notin {"none", "unlock"}
    /\ closed[c] # "no" => inTrans[c] = None /\ \A s \in Slots : stmt[c][s].pc = "none"

\* Who will call back
Live(d) ==
  /\ closed[d] # "yes"
  /\ ~auto[d] \/ closed[d] = "locks" \/ \E s \in Slots : stmt[d][s].pc # "none"

\* Who refers to a connection is on the list, and will be called back by it.
NotifyInv ==
  \A c \in ShConn : \A d \in {notify[c].blocking, notify[c].unlock} \ {NoConn} :
    c \in blockedList /\ Live(d)

ShInv ==
  /\ ShTypeOK /\ SharedInv /\ LockInv /\ LiveInv /\ NotifyInv /\ WaitsAcyclic
  /\ \A c \in ShConn, s \in Slots : StmtAt(c, s)

-----------------------------------------------------------------------------
(* What the invariant says *)

\* The types of the functions and of their values.
LEMMA ShTypes ==
  ASSUME ShInv
  PROVE  /\ shEnv \in Setup /\ shEnv.uncommitted \subseteq ShConn
         /\ lock \in [ShConn -> [1..NTab -> 0..2]] /\ inTrans \in [ShConn -> 0..2]
         /\ shared \in BtShared /\ auto \in [ShConn -> BOOLEAN]
         /\ stmt \in [ShConn -> [Slots -> StmtType]]
         /\ notify \in [ShConn -> Account] /\ blockedList \subseteq ShConn
         /\ failed \in [ShConn -> BOOLEAN] /\ closed \in [ShConn -> {"no", "locks", "yes"}]
         /\ NTab \in Nat \ {0} /\ NoConn \notin ShConn /\ IsFiniteSet(ShConn)
         /\ 1 \in 1..NTab
         /\ shared.nTransaction \in Int /\ shared.inTransaction \in 0..2
         /\ shared.exclusive \in BOOLEAN /\ shared.pending \in BOOLEAN
         /\ shared.pWriter \in ShConn \cup {NoConn}
         /\ \A c \in ShConn :
              /\ inTrans[c] \in 0..2 /\ auto[c] \in BOOLEAN
              /\ notify[c] \in Account
              /\ notify[c].blocking \in ShConn \cup {NoConn}
              /\ notify[c].unlock \in ShConn \cup {NoConn}
              /\ \A t \in 1..NTab : lock[c][t] \in 0..2
              /\ stmt[c] \in [Slots -> StmtType]
              /\ \A s \in Slots : stmt[c][s] \in StmtType
BY SharedCacheAssumption DEF ShInv, ShTypeOK, Setup, BtShared, Account

LEMMA InitInv == ShInit => ShInv
<1> SUFFICES ASSUME ShInit PROVE ShInv
  OBVIOUS
<1> USE DEF ShInit
<1>1. ShTypeOK
  <2>1. NoStmt \in StmtType
    BY SharedCacheAssumption DEF NoStmt, StmtType
  <2> QED BY <2>1, SharedCacheAssumption DEF ShTypeOK, Setup, BtShared, Account, None
<1>2. SharedInv
  <2>1. InTransaction = {}
    BY DEF InTransaction
  <2> QED BY <2>1, FS_EmptySet, SharedCacheAssumption DEF SharedInv, None, Write
<1>3. LockInv /\ LiveInv /\ NotifyInv
  BY DEF LockInv, LiveInv, NotifyInv, NoStmt, None, Write
<1>4. WaitsAcyclic
  BY DEF WaitsAcyclic
<1>5. \A c \in ShConn, s \in Slots : StmtAt(c, s)
  BY DEF StmtAt, NoStmt
<1> QED BY <1>1, <1>2, <1>3, <1>4, <1>5 DEF ShInv

-----------------------------------------------------------------------------
(* Waiting *)

\* A set that contains d and is left by nobody who waits.
Around(d, S) == d \in S /\ \A y \in S : notify[y].unlock \in S \cup {NoConn}

LEMMA WaitsBy ==
  ASSUME NEW c \in ShConn, NEW d
  PROVE  c \notin Waits(d) <=> \E S \in SUBSET ShConn : Around(d, S) /\ c \notin S
BY DEF Waits, Around

\* Who stops waiting closes no cycle.
LEMMA FewerWaits ==
  ASSUME WaitsAcyclic,
         \A x \in ShConn : notify'[x].unlock \in {notify[x].unlock, NoConn}
  PROVE  WaitsAcyclic'
<1> SUFFICES ASSUME NEW c \in ShConn, notify'[c].unlock # NoConn
             PROVE  c \notin Waits(notify[c].unlock)'
  BY DEF WaitsAcyclic
<1>1. notify'[c].unlock = notify[c].unlock
  OBVIOUS
<1>2. PICK S \in SUBSET ShConn : Around(notify[c].unlock, S) /\ c \notin S
  BY <1>1, WaitsBy DEF WaitsAcyclic
<1>3. Around(notify[c].unlock, S)'
  BY <1>1, <1>2 DEF Around
<1> QED BY <1>2, <1>3 DEF Waits, Around

\* Nor does who begins to wait for a connection that does not wait for it.
LEMMA OneMoreWaits ==
  ASSUME WaitsAcyclic, NEW c \in ShConn, NEW b, b # NoConn, c \notin Waits(b),
         notify'[c].unlock = b,
         \A x \in ShConn \ {c} : notify'[x].unlock = notify[x].unlock
  PROVE  WaitsAcyclic'
<1>1. PICK B \in SUBSET ShConn : Around(b, B) /\ c \notin B
  BY WaitsBy
<1>2. Around(b, B)'
  BY <1>1 DEF Around
<1> SUFFICES ASSUME NEW e \in ShConn, notify'[e].unlock # NoConn
             PROVE  \E S \in SUBSET ShConn : Around(notify[e].unlock, S)' /\ e \notin S
  BY DEF WaitsAcyclic, Waits, Around
<1>3. CASE e = c
  BY <1>1, <1>2, <1>3
<1>4. CASE e # c
  <2>1. PICK S \in SUBSET ShConn : Around(notify[e].unlock, S) /\ e \notin S
    BY <1>4, WaitsBy DEF WaitsAcyclic
  <2>2. CASE c \notin S
    BY <1>4, <2>1, <2>2 DEF Around
  <2>3. CASE c \in S /\ e \in B
    <3>1. Around(notify[e].unlock, S \cap B)'
      BY <1>1, <1>4, <2>1, <2>3 DEF Around
    <3> QED BY <3>1, <2>1
  <2>4. CASE c \in S /\ e \notin B
    <3>1. Around(notify[e].unlock, S \cup B)'
      BY <1>1, <1>4, <2>1, <2>4 DEF Around
    <3> QED BY <3>1, <2>1, <2>4
  <2> QED BY <2>2, <2>3, <2>4
<1> QED BY <1>3, <1>4
-----------------------------------------------------------------------------
(* Transactions *)

\* How the number of transactions changes with one connection.
LEMMA CountStep ==
  ASSUME ShInv, NEW c \in ShConn, \A d \in ShConn \ {c} : inTrans'[d] = inTrans[d]
  PROVE  /\ Cardinality(InTransaction)' =
              IF inTrans[c] = None /\ inTrans'[c] # None THEN shared.nTransaction + 1
              ELSE IF inTrans[c] # None /\ inTrans'[c] = None THEN shared.nTransaction - 1
              ELSE shared.nTransaction
         /\ inTrans[c] # None /\ shared.nTransaction = 1 => \A d \in ShConn \ {c} : inTrans[d] = None
<1>1. IsFiniteSet(InTransaction) /\ shared.nTransaction = Cardinality(InTransaction)
  <2>1. InTransaction \subseteq ShConn
    BY DEF InTransaction
  <2> QED BY <2>1, ShTypes, FS_Subset DEF ShInv, SharedInv
<1>2. CASE inTrans[c] = None /\ inTrans'[c] # None
  <2>1. InTransaction' = InTransaction \cup {c} /\ c \notin InTransaction
    BY <1>2 DEF InTransaction
  <2> QED BY <1>1, <1>2, <2>1, FS_AddElement
<1>3. CASE inTrans[c] # None /\ inTrans'[c] = None
  <2>1. InTransaction' = InTransaction \ {c} /\ c \in InTransaction
    BY <1>3 DEF InTransaction
  <2>2. Cardinality(InTransaction \ {c}) = Cardinality(InTransaction) - 1
    BY <1>1, <2>1, FS_RemoveElement
  <2>3. shared.nTransaction = 1 => InTransaction = {c}
    <3>1. shared.nTransaction = 1 => \E x : InTransaction = {x}
      BY <1>1, FS_Singleton
    <3> QED BY <2>1, <3>1
  <2>4. InTransaction = {c} => \A d \in ShConn \ {c} : inTrans[d] = None
    BY DEF InTransaction
  <2> QED BY <1>1, <1>3, <2>1, <2>2, <2>3, <2>4
<1>4. CASE (inTrans[c] = None) = (inTrans'[c] = None)
  <2>1. InTransaction' = InTransaction
    BY <1>4 DEF InTransaction
  <2>2. inTrans[c] # None /\ shared.nTransaction = 1 => InTransaction = {c}
    BY <1>1, FS_Singleton DEF InTransaction
  <2>3. InTransaction = {c} => \A d \in ShConn \ {c} : inTrans[d] = None
    BY DEF InTransaction
  <2> QED BY <1>1, <1>4, <2>1, <2>2, <2>3
<1> QED BY <1>2, <1>3, <1>4

\* What the end of a transaction leaves: no lock, or those for reading if another statement
\* is active.
LEMMA EndTransactionEffect ==
  ASSUME ShInv, NEW c \in ShConn, inTrans[c] # None, NEW active \in Nat,
         EndTransaction(c, active)
  PROVE  /\ inTrans' \in [ShConn -> 0..2] /\ lock' \in [ShConn -> [1..NTab -> 0..2]]
         /\ shared' \in BtShared
         /\ inTrans'[c] = IF active > 1 THEN Read ELSE None
         /\ \A t \in 1..NTab :
              lock'[c][t] = IF active > 1 /\ lock[c][t] # 0 THEN Read ELSE 0
         /\ \A d \in ShConn \ {c} : inTrans'[d] = inTrans[d] /\ lock'[d] = lock[d]
         /\ SharedInv' /\ LockInv'
<1> USE DEF None, Read, Write
<1>1. inTrans' = [inTrans EXCEPT ![c] = IF active > 1 THEN Read ELSE None]
  BY DEF EndTransaction
<1>2. /\ inTrans' \in [ShConn -> 0..2] /\ inTrans'[c] = IF active > 1 THEN Read ELSE None
      /\ \A d \in ShConn \ {c} : inTrans'[d] = inTrans[d]
  BY <1>1, ShTypes
<1>3. /\ inTrans[c] = Write <=> shared.pWriter = c
      /\ \A t \in 1..NTab : lock[c][t] = Write => shared.pWriter = c
  BY DEF ShInv, SharedInv, LockInv
<1>4. /\ \A t \in 1..NTab : lock'[c][t] = IF active > 1 /\ lock[c][t] # 0 THEN Read ELSE 0
      /\ lock' \in [ShConn -> [1..NTab -> 0..2]]
      /\ \A d \in ShConn \ {c} : lock'[d] = lock[d]
  <2>1. lock' = [lock EXCEPT ![c] = [t \in 1..NTab |->
                   IF ~(active > 1) THEN 0
                   ELSE IF shared.pWriter = c /\ lock[c][t] = Write THEN Read ELSE lock[c][t]]]
    BY DEF EndTransaction
  <2>2. \A t \in 1..NTab : lock[c][t] \in 0..2
    BY ShTypes
  <2> QED BY <1>3, <2>1, <2>2, ShTypes
<1>5. /\ shared' \in BtShared
      /\ shared'.nTransaction = IF active > 1 THEN shared.nTransaction ELSE shared.nTransaction - 1
      /\ shared'.inTransaction = IF ~(active > 1) /\ shared.nTransaction = 1 THEN None
                                 ELSE IF inTrans[c] = Write THEN Read ELSE shared.inTransaction
      /\ shared'.pWriter = IF shared.pWriter = c THEN NoConn ELSE shared.pWriter
      /\ shared'.exclusive => shared.exclusive /\ shared.pWriter # c
      /\ shared'.pending => shared.pending /\ shared.pWriter # c
  <2> DEFINE mine == shared.pWriter = c
             nT   == IF active > 1 THEN shared.nTransaction ELSE shared.nTransaction - 1
             inT  == IF ~(active > 1) /\ shared.nTransaction = 1 THEN None
                     ELSE IF inTrans[c] = Write THEN Read ELSE shared.inTransaction
             w    == IF mine THEN NoConn ELSE shared.pWriter
             ex   == shared.exclusive /\ ~mine
             pe   == shared.pending /\ ~mine /\ (active > 1 \/ shared.nTransaction # 2)
  <2>1. shared' = [shared EXCEPT !.nTransaction = nT, !.inTransaction = inT, !.pWriter = w,
                                 !.exclusive = ex, !.pending = pe]
    BY DEF EndTransaction
  <2>2. nT \in Int /\ inT \in 0..2 /\ w \in ShConn \cup {NoConn}
    BY ShTypes
  <2>3. ex \in BOOLEAN /\ pe \in BOOLEAN
    OBVIOUS
  <2>4. shared \in BtShared
    BY ShTypes
  <2>5. /\ shared'.nTransaction = nT /\ shared'.inTransaction = inT /\ shared'.pWriter = w
        /\ shared'.exclusive = ex /\ shared'.pending = pe /\ shared' \in BtShared
    <3> HIDE DEF mine, nT, inT, w, ex, pe
    <3> QED BY <2>1, <2>2, <2>3, <2>4 DEF BtShared
  <2> QED BY <2>5
<1>6. SharedInv'
  <2>1. shared'.nTransaction = Cardinality(InTransaction)'
    <3>1. Cardinality(InTransaction)' = IF active > 1 THEN shared.nTransaction
                                        ELSE shared.nTransaction - 1
      <4> HIDE DEF None, Read
      <4>1. Read # None
        BY DEF Read, None
      <4> QED BY <1>2, <4>1, CountStep
    <3> QED BY <1>5, <3>1
  <2>2. ASSUME NEW d \in ShConn PROVE inTrans'[d] = Write <=> shared'.pWriter = d
    BY <1>2, <1>3, <1>5, ShTypes DEF ShInv, SharedInv
  <2>3. shared'.inTransaction = Write <=> shared'.pWriter # NoConn
    <3>1. CASE ~(active > 1) /\ shared.nTransaction = 1
      <4>1. \A d \in ShConn \ {c} : inTrans[d] = None
        <5> HIDE DEF None, Read
        <5> QED BY <1>2, <3>1, CountStep
      <4>2. shared.pWriter \in {c, NoConn}
        BY <4>1, ShTypes DEF ShInv, SharedInv
      <4> QED BY <1>5, <3>1, <4>2
    <3>2. CASE ~(~(active > 1) /\ shared.nTransaction = 1)
      BY <1>3, <1>5, <3>2, ShTypes DEF ShInv, SharedInv
    <3> QED BY <3>1, <3>2
  <2>4. shared'.exclusive \/ shared'.pending => shared'.pWriter # NoConn
    BY <1>5 DEF ShInv, SharedInv
  <2> QED BY <2>1, <2>2, <2>3, <2>4 DEF SharedInv
<1>7. LockInv'
  <2> SUFFICES ASSUME NEW d \in ShConn, NEW t \in 1..NTab
               PROVE  /\ lock'[d][t] # 0 => inTrans'[d] # None
                      /\ lock'[d][t] = Write => inTrans'[d] = Write
                      /\ lock'[d][t] = Write => \A e \in ShConn \ {d} : lock'[e][t] = 0
    BY DEF LockInv
  <2>1. CASE d = c
    BY <1>2, <1>4, <2>1
  <2>2. CASE d # c
    BY <1>2, <1>4, <2>2 DEF ShInv, LockInv
  <2> QED BY <2>1, <2>2
<1> QED BY <1>2, <1>4, <1>5, <1>6, <1>7

\* A step of one connection leaves what is known of the statements of the others.
LEMMA OthersAt ==
  ASSUME ShInv, NEW c \in ShConn,
         \A d \in ShConn \ {c} : stmt'[d] = stmt[d] /\ lock'[d] = lock[d] /\ inTrans'[d] = inTrans[d],
         shEnv'.uncommitted = shEnv.uncommitted
  PROVE  \A d \in ShConn \ {c}, s \in Slots : StmtAt(d, s)'
BY DEF ShInv, StmtAt

\* Nor does one that changes neither statements nor locks.
LEMMA SameAt ==
  ASSUME ShInv, UNCHANGED <<stmt, lock, inTrans>>, shEnv'.uncommitted = shEnv.uncommitted
  PROVE  \A d \in ShConn, s \in Slots : StmtAt(d, s)'
BY DEF ShInv, StmtAt
-----------------------------------------------------------------------------
(* What a step of a statement changes *)

LEMMA GoesEffect ==
  ASSUME ShInv, NEW c \in ShConn, NEW s \in Slots,
         NEW pc \in {"none", "trans", "lock", "run", "auto", "halt", "unlock"}, Goes(c, s, pc)
  PROVE  /\ stmt' \in [ShConn -> [Slots -> StmtType]]
         /\ stmt'[c][s] = [stmt[c][s] EXCEPT !.pc = pc]
         /\ stmt'[c][s].pc = pc /\ stmt'[c][s].kind = stmt[c][s].kind
         /\ stmt'[c][s].wr = stmt[c][s].wr /\ stmt'[c][s].tab = stmt[c][s].tab
         /\ stmt'[c][s].ok = stmt[c][s].ok
         /\ \A z \in Slots \ {s} : stmt'[c][z] = stmt[c][z]
         /\ \A d \in ShConn \ {c} : stmt'[d] = stmt[d]
<1> DEFINE x == [stmt[c][s] EXCEPT !.pc = pc]
<1>1. stmt[c][s] \in StmtType
  BY ShTypes
<1>2. /\ x \in StmtType /\ x.pc = pc /\ x.kind = stmt[c][s].kind /\ x.wr = stmt[c][s].wr
      /\ x.tab = stmt[c][s].tab /\ x.ok = stmt[c][s].ok
  BY <1>1 DEF StmtType
<1>3. stmt' = [stmt EXCEPT ![c][s] = x]
  BY DEF Goes
<1> HIDE DEF x
<1>4. stmt' = [stmt EXCEPT ![c] = [stmt[c] EXCEPT ![s] = x]]
  BY <1>3
<1>5. [stmt[c] EXCEPT ![s] = x] \in [Slots -> StmtType]
  BY <1>2, ShTypes
<1>6. stmt' \in [ShConn -> [Slots -> StmtType]]
  BY <1>4, <1>5, ShTypes
<1>7. /\ stmt'[c][s] = x /\ \A z \in Slots \ {s} : stmt'[c][z] = stmt[c][z]
      /\ \A d \in ShConn \ {c} : stmt'[d] = stmt[d]
  BY <1>4, ShTypes
<1>8. x = [stmt[c][s] EXCEPT !.pc = pc]
  BY DEF x
<1> QED BY <1>2, <1>6, <1>7, <1>8

\* What is known as long as the transactions are the same.
LEMMA SameTransactions ==
  ASSUME ShInv, UNCHANGED inTrans
  PROVE  /\ UNCHANGED shared => SharedInv'
         /\ UNCHANGED lock => LockInv'
<1>1. InTransaction' = InTransaction
  BY DEF InTransaction
<1>2. UNCHANGED shared => SharedInv'
  BY <1>1 DEF ShInv, SharedInv
<1>3. UNCHANGED lock => LockInv'
  BY DEF ShInv, LockInv
<1> QED BY <1>2, <1>3

\* Who waits is called back as long as nobody stops to be alive.
LEMMA SameNotify ==
  ASSUME ShInv, UNCHANGED waits, \A d \in ShConn : Live(d) => Live(d)'
  PROVE  NotifyInv' /\ WaitsAcyclic'
<1>1. NotifyInv'
  <2>1. notify' = notify /\ blockedList' = blockedList
    BY DEF waits
  <2> SUFFICES ASSUME NEW e \in ShConn,
                      NEW d \in {notify[e].blocking, notify[e].unlock} \ {NoConn}
               PROVE  e \in blockedList /\ Live(d)'
    BY <2>1 DEF NotifyInv
  <2>2. e \in blockedList /\ Live(d) /\ d \in ShConn
    BY ShTypes DEF ShInv, NotifyInv
  <2> QED BY <2>2
<1>2. WaitsAcyclic'
  BY FewerWaits DEF ShInv, waits
<1> QED BY <1>1, <1>2

\* A connection with a transaction will end it.
LEMMA TransactionLive ==
  ASSUME ShInv, NEW d \in ShConn, inTrans[d] # None
  PROVE  Live(d)
BY ShTypes DEF ShInv, LiveInv, Live

\* Whoever blocks a statement has a transaction.
LEMMA LockBlockersLive ==
  ASSUME ShInv, NEW c \in ShConn, NEW t \in 1..NTab, NEW mode, NEW d \in LockBlockers(c, t, mode)
  PROVE  d \in ShConn /\ inTrans[d] # None
<1>1. shared.exclusive => shared.pWriter \in ShConn /\ inTrans[shared.pWriter] = Write
  BY ShTypes DEF ShInv, SharedInv
<1>2. \A e \in ShConn : lock[e][t] # 0 => inTrans[e] # None
  BY DEF ShInv, LockInv
<1> QED BY <1>1, <1>2 DEF LockBlockers, None, Write

LEMMA BeginBlockersLive ==
  ASSUME ShInv, NEW c \in ShConn, NEW wr, NEW d \in BeginBlockers(c, wr)
  PROVE  d \in ShConn /\ inTrans[d] # None
<1>1. shared.inTransaction = Write \/ shared.pending =>
        shared.pWriter \in ShConn /\ inTrans[shared.pWriter] = Write
  BY ShTypes DEF ShInv, SharedInv
<1>2. \A e \in ShConn, t \in 1..NTab : lock[e][t] # 0 => inTrans[e] # None
  BY DEF ShInv, LockInv
<1>3. CASE d \in LockBlockers(c, 1, Read)
  BY <1>3, LockBlockersLive, ShTypes
<1>4. CASE d \notin LockBlockers(c, 1, Read)
  BY <1>1, <1>2, <1>4 DEF BeginBlockers, None, Write
<1> QED BY <1>3, <1>4

\* SQLITE_LOCKED
LEMMA FailsStep ==
  ASSUME ShInv, NEW c \in ShConn, NEW s \in Slots, stmt[c][s].pc \in {"trans", "lock"},
         NEW d \in ShConn, inTrans[d] # None, Fails(c, s, d),
         UNCHANGED <<lock, inTrans, auto, failed, shEnv, closed>>, shared' \in BtShared, SharedInv'
  PROVE  ShInv'
<1>1. /\ stmt' \in [ShConn -> [Slots -> StmtType]]
      /\ stmt'[c][s].pc = "halt" /\ \A z \in Slots \ {s} : stmt'[c][z] = stmt[c][z]
      /\ \A e \in ShConn \ {c} : stmt'[e] = stmt[e]
  <2> DEFINE x == [stmt[c][s] EXCEPT !.pc = "halt", !.ok = FALSE]
  <2>1. stmt[c][s] \in StmtType
    BY ShTypes
  <2>2. x \in StmtType /\ x.pc = "halt"
    BY <2>1 DEF StmtType
  <2>3. stmt' = [stmt EXCEPT ![c] = [stmt[c] EXCEPT ![s] = x]]
    BY ShTypes DEF Fails
  <2> HIDE DEF x
  <2>4. [stmt[c] EXCEPT ![s] = x] \in [Slots -> StmtType]
    BY <2>2, ShTypes
  <2> QED BY <2>2, <2>3, <2>4, ShTypes
<1>2. /\ notify' \in [ShConn -> Account] /\ blockedList' = blockedList \cup {c}
      /\ notify'[c].blocking = d /\ notify'[c].unlock = notify[c].unlock
      /\ \A e \in ShConn \ {c} : notify'[e] = notify[e]
  BY ShTypes DEF Fails, ConnectionBlocked, Account
<1>3. \A e \in ShConn : Live(e) => Live(e)'
  BY <1>1 DEF Live
<1>4. NotifyInv'
  <2> SUFFICES ASSUME NEW e \in ShConn, NEW x \in {notify[e].blocking, notify[e].unlock}' \ {NoConn}
               PROVE  e \in blockedList' /\ Live(x)'
    BY DEF NotifyInv
  <2>1. CASE x \in {notify[e].blocking, notify[e].unlock}
    BY <1>2, <1>3, <2>1, ShTypes DEF ShInv, NotifyInv
  <2>2. CASE e = c /\ x = d
    BY <1>2, <1>3, <2>2, TransactionLive
  <2> QED BY <1>2, <2>1, <2>2
<1>5. WaitsAcyclic'
  <2>1. \A x \in ShConn : notify'[x].unlock \in {notify[x].unlock, NoConn}
    BY <1>2
  <2> QED BY <2>1, FewerWaits DEF ShInv
<1>6. ShTypeOK'
  BY <1>1, <1>2, ShTypes DEF ShTypeOK
<1>7. LiveInv'
  <2>1. closed[c] = "no"
    BY ShTypes DEF ShInv, LiveInv
  <2>2. \A e \in ShConn \ {c} : stmt'[e] = stmt[e]
    BY <1>1
  <2>3. \E z \in Slots : stmt'[c][z].pc \notin {"none", "unlock"}
    BY <1>1
  <2> QED BY <2>1, <2>2, <2>3 DEF ShInv, LiveInv
<1>8. LockInv'
  BY SameTransactions
<1>9. \A e \in ShConn, z \in Slots : StmtAt(e, z)'
  <2>1. \A e \in ShConn \ {c}, z \in Slots : StmtAt(e, z)'
    BY <1>1, OthersAt
  <2>2. \A z \in Slots \ {s} : stmt[c][z].pc \in {"none", "run"}
    BY DEF ShInv, StmtAt
  <2>3. StmtAt(c, s)'
    BY <1>1, <2>2 DEF StmtAt
  <2>4. ASSUME NEW z \in Slots \ {s} PROVE StmtAt(c, z)'
    BY <1>1, <2>2, <2>4 DEF ShInv, StmtAt
  <2> QED BY <2>1, <2>3, <2>4
<1> QED BY <1>4, <1>5, <1>6, <1>7, <1>8, <1>9 DEF ShInv

-----------------------------------------------------------------------------
(* The actions *)

LEMMA UnlockNotifyStep ==
  ASSUME ShInv, NEW c \in ShConn, UnlockNotify(c)
  PROVE  ShInv'
<1> DEFINE b == notify[c].blocking
<1>1. /\ UNCHANGED <<lock, inTrans, shared, auto, stmt, shEnv, closed>>
      /\ failed' \in [ShConn -> BOOLEAN]
  BY ShTypes DEF UnlockNotify, btree
<1>2. \A e \in ShConn : Live(e)' = Live(e)
  BY <1>1 DEF Live
<1>3. /\ notify' \in [ShConn -> Account] /\ blockedList' \subseteq ShConn
      /\ NotifyInv' /\ WaitsAcyclic'
  <2>1. CASE UNCHANGED waits
    BY <1>2, <2>1, SameNotify, ShTypes DEF waits
  <2>2. CASE ~(UNCHANGED waits)
    <3>1. /\ b # NoConn /\ c \notin Waits(b)
          /\ notify' = [notify EXCEPT ![c].unlock = b] /\ blockedList' = blockedList \cup {c}
      BY <2>2 DEF UnlockNotify
    <3>2. b \in ShConn
      BY <3>1, ShTypes
    <3>3. /\ notify' \in [ShConn -> Account]
          /\ notify'[c].unlock = b /\ notify'[c].blocking = b
          /\ \A e \in ShConn \ {c} : notify'[e] = notify[e]
      BY <3>1, <3>2, ShTypes DEF Account
    <3>4. NotifyInv'
      BY <1>2, <3>1, <3>2, <3>3, ShTypes DEF ShInv, NotifyInv
    <3>5. WaitsAcyclic'
      BY <3>1, <3>3, OneMoreWaits DEF ShInv
    <3> QED BY <3>1, <3>3, <3>4, <3>5, ShTypes
  <2> QED BY <2>1, <2>2
<1>4. ShTypeOK'
  BY <1>1, <1>3, ShTypes DEF ShTypeOK
<1>5. SharedInv' /\ LockInv'
  BY <1>1, SameTransactions
<1>6. LiveInv'
  BY <1>1 DEF ShInv, LiveInv
<1>7. \A e \in ShConn, z \in Slots : StmtAt(e, z)'
  BY <1>1, SameAt
<1> QED BY <1>3, <1>4, <1>5, <1>6, <1>7 DEF ShInv

LEMMA CancelNotifyStep ==
  ASSUME ShInv, NEW c \in ShConn, CancelNotify(c)
  PROVE  ShInv'
<1>1. /\ UNCHANGED <<lock, inTrans, shared, auto, stmt, failed, shEnv, closed>>
      /\ notify' = [notify EXCEPT ![c] = [blocking |-> NoConn, unlock |-> NoConn]]
      /\ blockedList' = blockedList \ {c}
  BY DEF CancelNotify, btree
<1>2. \A e \in ShConn : Live(e)' = Live(e)
  BY <1>1 DEF Live
<1>3. /\ notify' \in [ShConn -> Account] /\ notify'[c].blocking = NoConn
      /\ notify'[c].unlock = NoConn /\ \A e \in ShConn \ {c} : notify'[e] = notify[e]
  BY <1>1, ShTypes DEF Account
<1>4. NotifyInv'
  BY <1>1, <1>2, <1>3, ShTypes DEF ShInv, NotifyInv
<1>5. WaitsAcyclic'
  <2>1. \A x \in ShConn : notify'[x].unlock \in {notify[x].unlock, NoConn}
    BY <1>3
  <2> QED BY <2>1, FewerWaits DEF ShInv
<1>6. ShTypeOK'
  BY <1>1, <1>3, ShTypes DEF ShTypeOK
<1>7. SharedInv' /\ LockInv'
  BY <1>1, SameTransactions
<1>8. LiveInv'
  BY <1>1 DEF ShInv, LiveInv
<1>9. \A e \in ShConn, z \in Slots : StmtAt(e, z)'
  BY <1>1, SameAt
<1> QED BY <1>4, <1>5, <1>6, <1>7, <1>8, <1>9 DEF ShInv
LEMMA PutEffect ==
  ASSUME ShInv, NEW c \in ShConn, NEW s \in Slots, NEW x \in StmtType,
         stmt' = [stmt EXCEPT ![c][s] = x]
  PROVE  /\ stmt' \in [ShConn -> [Slots -> StmtType]]
         /\ stmt'[c][s] = x /\ \A z \in Slots \ {s} : stmt'[c][z] = stmt[c][z]
         /\ \A d \in ShConn \ {c} : stmt'[d] = stmt[d]
<1>1. stmt' = [stmt EXCEPT ![c] = [stmt[c] EXCEPT ![s] = x]]
  OBVIOUS
<1>2. [stmt[c] EXCEPT ![s] = x] \in [Slots -> StmtType]
  BY ShTypes
<1>3. stmt' \in [ShConn -> [Slots -> StmtType]]
  BY <1>1, <1>2, ShTypes
<1> QED BY <1>1, <1>3, ShTypes

LEMMA StartStep ==
  ASSUME ShInv, NEW c \in ShConn, NEW s \in Slots, NEW wr \in 0..2, NEW tab \in 0..NTab,
         NEW kind \in {"sql", "begin"}, kind = "sql" => tab \in 1..NTab, Start(c, s, kind, wr, tab)
  PROVE  ShInv'
<1> DEFINE x == [pc |-> IF kind = "begin" /\ wr = 0 THEN "auto" ELSE "trans",
                 kind |-> kind, wr |-> wr, tab |-> tab, ok |-> TRUE]
<1>1. x \in StmtType /\ x.pc \in {"auto", "trans"} /\ x.kind = kind /\ x.tab = tab
  BY DEF StmtType
<1>2. stmt' = [stmt EXCEPT ![c][s] = x]
  BY DEF Start
<1> HIDE DEF x
<1>3. /\ stmt' \in [ShConn -> [Slots -> StmtType]]
      /\ stmt'[c][s] = x /\ \A z \in Slots \ {s} : stmt'[c][z] = stmt[c][z]
      /\ \A d \in ShConn \ {c} : stmt'[d] = stmt[d]
  BY <1>1, <1>2, PutEffect
<1>4. /\ UNCHANGED <<lock, inTrans, shared, auto, notify, blockedList, closed>>
      /\ shEnv' \in Setup /\ shEnv'.uncommitted = shEnv.uncommitted
      /\ failed' \in [ShConn -> BOOLEAN]
  <2>1. shEnv \in Setup /\ shEnv.starts > 0 /\ shEnv' = [shEnv EXCEPT !.starts = @ - 1]
    BY ShTypes DEF Start
  <2>2. shEnv' \in Setup /\ shEnv'.uncommitted = shEnv.uncommitted
    BY <2>1 DEF Setup
  <2>3. failed' \in [ShConn -> BOOLEAN]
    BY ShTypes DEF Start
  <2> QED BY <2>2, <2>3 DEF Start, btree, waits
<1>5. closed[c] = "no" /\ s \notin Active(c) /\ \A z \in Slots : stmt[c][z].pc \in {"none", "run"}
  BY DEF Start, Quiet, FirstFree
<1>6. \A d \in ShConn : Live(d) => Live(d)'
  BY <1>1, <1>3, <1>4 DEF Live
<1>7. NotifyInv' /\ WaitsAcyclic'
  BY <1>4, <1>6, SameNotify DEF waits
<1>8. SharedInv' /\ LockInv'
  BY <1>4, SameTransactions
<1>9. LiveInv'
  BY <1>1, <1>3, <1>4, <1>5 DEF ShInv, LiveInv
<1>10. \A e \in ShConn, z \in Slots : StmtAt(e, z)'
  <2>1. \A e \in ShConn \ {c}, z \in Slots : StmtAt(e, z)'
    BY <1>3, <1>4, OthersAt
  <2>2. StmtAt(c, s)'
    BY <1>1, <1>3, <1>4, <1>5 DEF StmtAt
  <2>3. ASSUME NEW z \in Slots \ {s} PROVE StmtAt(c, z)'
    BY <1>3, <1>4, <1>5, <2>3 DEF ShInv, StmtAt
  <2> QED BY <2>1, <2>2, <2>3
<1>11. ShTypeOK'
  BY <1>3, <1>4, ShTypes DEF ShTypeOK
<1> QED BY <1>7, <1>8, <1>9, <1>10, <1>11 DEF ShInv

LEMMA FinishStep ==
  ASSUME ShInv, NEW c \in ShConn, NEW s \in Slots, Finish(c, s)
  PROVE  ShInv'
<1>1. /\ stmt' \in [ShConn -> [Slots -> StmtType]]
      /\ stmt'[c][s].pc = "halt" /\ \A z \in Slots \ {s} : stmt'[c][z] = stmt[c][z]
      /\ \A d \in ShConn \ {c} : stmt'[d] = stmt[d]
  BY GoesEffect DEF Finish
<1>2. UNCHANGED <<lock, inTrans, shared, notify, blockedList, failed, shEnv, closed>>
  BY DEF Finish, btree, waits
<1>3. /\ auto' \in [ShConn -> BOOLEAN]
      /\ auto'[c] => auto[c]
      /\ \A d \in ShConn \ {c} : auto'[d] = auto[d]
  <2>1. auto' = [auto EXCEPT ![c] = auto[c] /\ stmt[c][s].kind # "begin"]
    BY DEF Finish
  <2>2. (auto[c] /\ stmt[c][s].kind # "begin") \in BOOLEAN
    OBVIOUS
  <2> QED BY <2>1, <2>2, ShTypes
<1>4. stmt[c][s].pc # "none" /\ \A z \in Slots \ {s} : stmt[c][z].pc \in {"none", "run"}
  BY DEF Finish, Quiet, ShInv, StmtAt
<1>5. \A d \in ShConn : Live(d) => Live(d)'
  BY <1>1, <1>2, <1>3 DEF Live
<1>6. NotifyInv' /\ WaitsAcyclic'
  BY <1>2, <1>5, SameNotify DEF waits
<1>7. SharedInv' /\ LockInv'
  BY <1>2, SameTransactions
<1>8. LiveInv'
  <2>1. closed[c] = "no"
    BY <1>4, ShTypes DEF ShInv, LiveInv
  <2>2. \E z \in Slots : stmt'[c][z].pc \notin {"none", "unlock"}
    BY <1>1
  <2> QED BY <1>1, <1>2, <1>3, <2>1, <2>2 DEF ShInv, LiveInv
<1>9. \A e \in ShConn, z \in Slots : StmtAt(e, z)'
  <2>1. \A e \in ShConn \ {c}, z \in Slots : StmtAt(e, z)'
    BY <1>1, <1>2, OthersAt
  <2>2. StmtAt(c, s)'
    BY <1>1, <1>2, <1>4 DEF StmtAt
  <2>3. ASSUME NEW z \in Slots \ {s} PROVE StmtAt(c, z)'
    BY <1>1, <1>2, <1>4, <2>3 DEF ShInv, StmtAt
  <2> QED BY <2>1, <2>2, <2>3
<1>10. ShTypeOK'
  <2>1. auto' \in [ShConn -> BOOLEAN]
    BY <1>3
  <2> QED BY <1>1, <1>2, <2>1 DEF ShInv, ShTypeOK
<1> QED BY <1>6, <1>7, <1>8, <1>9, <1>10 DEF ShInv

LEMMA BeginTransStep ==
  ASSUME ShInv, NEW c \in ShConn, NEW s \in Slots, BeginTrans(c, s)
  PROVE  ShInv'
<1> DEFINE wr   == stmt[c][s].wr
           has  == inTrans[c] = Write \/ (inTrans[c] = Read /\ wr = 0)
           next == IF stmt[c][s].kind = "begin" THEN "auto" ELSE "lock"
<1>1. /\ stmt[c][s].pc = "trans" /\ UNCHANGED <<auto, failed, shEnv, closed>>
      /\ wr \in 0..2
  BY ShTypes DEF BeginTrans, StmtType
<1>2. /\ closed[c] = "no" /\ \A z \in Slots \ {s} : stmt[c][z].pc \in {"none", "run"}
      /\ stmt[c][s].kind \in {"sql", "begin"}
      /\ stmt[c][s].kind = "sql" => stmt[c][s].tab \in 1..NTab
  BY <1>1, ShTypes DEF ShInv, StmtAt, LiveInv
<1>3. CASE ~has /\ \E d \in BeginBlockers(c, wr) : Fails(c, s, d) /\ UNCHANGED btree
  <2>1. PICK d \in BeginBlockers(c, wr) : Fails(c, s, d) /\ UNCHANGED btree
    BY <1>3
  <2>2. d \in ShConn /\ inTrans[d] # None
    BY BeginBlockersLive
  <2>3. SharedInv' /\ shared' \in BtShared
    BY <2>1, SameTransactions, ShTypes DEF btree
  <2> QED BY <1>1, <2>1, <2>2, <2>3, FailsStep DEF btree
<1>4. ASSUME /\ Goes(c, s, next) /\ UNCHANGED waits
             /\ inTrans' \in [ShConn -> 0..2] /\ lock' \in [ShConn -> [1..NTab -> 0..2]]
             /\ shared' \in BtShared
             /\ SharedInv' /\ LockInv'
             /\ inTrans'[c] # None /\ (wr > 0 => inTrans'[c] = Write)
             /\ \A t \in 1..NTab : lock[c][t] # 0 => lock'[c][t] = lock[c][t]
             /\ \A d \in ShConn \ {c} : inTrans'[d] = inTrans[d] /\ lock'[d] = lock[d]
      PROVE  ShInv'
  <2>1. next \in {"auto", "lock"} /\ (next = "lock" => stmt[c][s].kind = "sql")
    BY <1>2
  <2>2. /\ stmt' \in [ShConn -> [Slots -> StmtType]]
        /\ stmt'[c][s].pc = next /\ stmt'[c][s].kind = stmt[c][s].kind
        /\ stmt'[c][s].wr = wr /\ stmt'[c][s].tab = stmt[c][s].tab
        /\ \A z \in Slots \ {s} : stmt'[c][z] = stmt[c][z]
        /\ \A d \in ShConn \ {c} : stmt'[d] = stmt[d]
    BY <1>4, <2>1, GoesEffect
  <2> HIDE DEF next
  <2>3. \A d \in ShConn : Live(d) => Live(d)'
    BY <1>1, <2>1, <2>2 DEF Live
  <2>4. NotifyInv' /\ WaitsAcyclic'
    BY <1>4, <2>3, SameNotify
  <2>5. LiveInv'
    <3>1. \E z \in Slots : stmt'[c][z].pc \notin {"none", "unlock"}
      BY <2>1, <2>2
    <3> QED BY <1>1, <1>2, <1>4, <2>2, <3>1 DEF ShInv, LiveInv
  <2>6. \A e \in ShConn, z \in Slots : StmtAt(e, z)'
    <3>1. \A e \in ShConn \ {c}, z \in Slots : StmtAt(e, z)'
      BY <1>1, <1>4, <2>2, OthersAt
    <3>2. StmtAt(c, s)'
      BY <1>2, <1>4, <2>1, <2>2 DEF StmtAt
    <3>3. ASSUME NEW z \in Slots \ {s} PROVE StmtAt(c, z)'
      <4>1. StmtAt(c, z) /\ stmt'[c][z] = stmt[c][z] /\ stmt[c][z].pc \in {"none", "run"}
        BY <1>2, <2>2, <3>3 DEF ShInv
      <4>2. stmt[c][z].pc = "run" => stmt[c][z].tab \in 1..NTab
        BY <4>1 DEF StmtAt
      <4> QED BY <1>1, <1>4, <4>1, <4>2 DEF StmtAt, Write
    <3> QED BY <3>1, <3>2, <3>3
  <2>7. ShTypeOK'
    BY <1>1, <1>4, <2>2, ShTypes DEF ShTypeOK, waits
  <2> QED BY <1>4, <2>4, <2>5, <2>6, <2>7 DEF ShInv
<1>5. CASE has /\ Goes(c, s, next) /\ UNCHANGED <<btree, waits>>
  <2>1. SharedInv' /\ LockInv'
    BY <1>5, SameTransactions DEF btree
  <2>2. inTrans[c] # None /\ (wr > 0 => inTrans[c] = Write)
    BY <1>5 DEF None, Read, Write
  <2> QED BY <1>4, <1>5, <2>1, <2>2, ShTypes DEF btree
<1>6. CASE /\ ~has /\ BeginBlockers(c, wr) = {}
           /\ inTrans' = [inTrans EXCEPT ![c] = IF wr > 0 THEN Write ELSE Read]
           /\ lock' = IF inTrans[c] = None THEN [lock EXCEPT ![c][1] = Read] ELSE lock
           /\ shared' = [shared EXCEPT
                !.nTransaction = IF inTrans[c] = None THEN @ + 1 ELSE @,
                !.inTransaction = IF inTrans'[c] > @ THEN inTrans'[c] ELSE @,
                !.pWriter = IF wr > 0 THEN c ELSE @,
                !.exclusive = IF wr > 0 THEN wr > 1 ELSE @]
           /\ Goes(c, s, next) /\ UNCHANGED waits
  <2>1. /\ inTrans' \in [ShConn -> 0..2] /\ inTrans'[c] = IF wr > 0 THEN Write ELSE Read
        /\ \A d \in ShConn \ {c} : inTrans'[d] = inTrans[d]
    BY <1>6, ShTypes DEF Read, Write
  <2>2. /\ inTrans[c] # Write /\ (wr = 0 => inTrans[c] = None)
        /\ ~shared.pending /\ (wr > 0 => shared.inTransaction # Write)
        /\ \A d \in ShConn \ {c} : lock[d][1] # Write
    <3>1. inTrans[c] # Write /\ (wr = 0 => inTrans[c] = None)
      BY <1>6, ShTypes DEF None, Read, Write
    <3>2. ~shared.pending /\ (wr > 0 => shared.inTransaction # Write)
      BY <1>6 DEF BeginBlockers
    <3>3. LockBlockers(c, 1, Read) = {}
      BY <1>6 DEF BeginBlockers
    <3>4. \A d \in ShConn \ {c} : lock[d][1] # Write
      BY <3>3 DEF LockBlockers, Read, Write
    <3> QED BY <3>1, <3>2, <3>4
  <2>3. /\ lock' \in [ShConn -> [1..NTab -> 0..2]]
        /\ \A d \in ShConn \ {c} : lock'[d] = lock[d]
        /\ \A t \in 1..NTab : lock'[c][t] = lock[c][t] \/ (t = 1 /\ lock'[c][t] = Read)
        /\ inTrans[c] # None => lock' = lock
    <3>1. CASE inTrans[c] # None
      BY <1>6, <3>1, ShTypes
    <3>2. CASE inTrans[c] = None
      <4>1. lock' = [lock EXCEPT ![c] = [lock[c] EXCEPT ![1] = Read]]
        BY <1>6, <3>2
      <4>2. [lock[c] EXCEPT ![1] = Read] \in [1..NTab -> 0..2]
        BY ShTypes DEF Read
      <4> QED BY <3>2, <4>1, <4>2, ShTypes
    <3> QED BY <3>1, <3>2
  <2>4. \A t \in 1..NTab : inTrans[c] = None => lock[c][t] = 0
    BY DEF ShInv, LockInv
  <2>5. LockInv'
    <3> SUFFICES ASSUME NEW d \in ShConn, NEW t \in 1..NTab
                 PROVE  /\ lock'[d][t] # 0 => inTrans'[d] # None
                        /\ lock'[d][t] = Write => inTrans'[d] = Write
                        /\ lock'[d][t] = Write => \A e \in ShConn \ {d} : lock'[e][t] = 0
      BY DEF LockInv
    <3>1. CASE d = c
      BY <2>1, <2>2, <2>3, <3>1 DEF ShInv, LockInv, None, Read, Write
    <3>2. CASE d # c
      BY <2>1, <2>2, <2>3, <3>2 DEF ShInv, LockInv, None, Read, Write
    <3> QED BY <3>1, <3>2
  <2>6. /\ shared' \in BtShared
        /\ shared'.nTransaction = IF inTrans[c] = None THEN shared.nTransaction + 1
                                  ELSE shared.nTransaction
        /\ shared'.inTransaction = IF inTrans'[c] > shared.inTransaction THEN inTrans'[c]
                                   ELSE shared.inTransaction
        /\ shared'.pWriter = IF wr > 0 THEN c ELSE shared.pWriter
        /\ shared'.exclusive => wr > 0 \/ shared.exclusive
        /\ shared'.pending = shared.pending
    <3> DEFINE nT  == IF inTrans[c] = None THEN shared.nTransaction + 1 ELSE shared.nTransaction
               inT == IF inTrans'[c] > shared.inTransaction THEN inTrans'[c]
                      ELSE shared.inTransaction
               w   == IF wr > 0 THEN c ELSE shared.pWriter
               ex  == IF wr > 0 THEN wr > 1 ELSE shared.exclusive
    <3>1. shared' = [shared EXCEPT !.nTransaction = nT, !.inTransaction = inT, !.pWriter = w,
                                   !.exclusive = ex]
      BY <1>6
    <3>2. nT \in Int /\ inT \in 0..2 /\ w \in ShConn \cup {NoConn}
      BY <2>1, ShTypes DEF Read, Write
    <3>3. ex \in BOOLEAN
      <4>1. (wr > 1) \in BOOLEAN
        OBVIOUS
      <4> QED BY <4>1, ShTypes
    <3>4. shared \in BtShared
      BY ShTypes
    <3>5. /\ shared'.nTransaction = nT /\ shared'.inTransaction = inT /\ shared'.pWriter = w
          /\ shared'.exclusive = ex /\ shared'.pending = shared.pending /\ shared' \in BtShared
      <4> HIDE DEF nT, inT, w, ex
      <4> QED BY <3>1, <3>2, <3>3, <3>4 DEF BtShared
    <3> QED BY <3>5
  <2>7. SharedInv'
    <3>1. shared'.nTransaction = Cardinality(InTransaction)'
      <4>1. inTrans'[c] # None
        BY <2>1 DEF None, Read, Write
      <4> QED BY <2>1, <2>6, <4>1, CountStep
    <3>2. ASSUME NEW d \in ShConn PROVE inTrans'[d] = Write <=> shared'.pWriter = d
      BY <1>1, <2>1, <2>2, <2>6, ShTypes DEF ShInv, SharedInv, Read, Write
    <3>3. shared'.inTransaction = Write <=> shared'.pWriter # NoConn
      BY <1>1, <2>1, <2>2, <2>6, ShTypes DEF ShInv, SharedInv, Read, Write
    <3>4. shared'.exclusive \/ shared'.pending => shared'.pWriter # NoConn
      BY <2>2, <2>6, ShTypes DEF ShInv, SharedInv
    <3> QED BY <3>1, <3>2, <3>3, <3>4 DEF SharedInv
  <2>8. /\ inTrans'[c] # None /\ (wr > 0 => inTrans'[c] = Write)
        /\ \A t \in 1..NTab : lock[c][t] # 0 => lock'[c][t] = lock[c][t]
    BY <2>1, <2>3, <2>4 DEF None, Read, Write
  <2> QED BY <1>4, <1>6, <2>1, <2>3, <2>5, <2>6, <2>7, <2>8
<1> QED BY <1>3, <1>5, <1>6 DEF BeginTrans
LEMMA LockTableStep ==
  ASSUME ShInv, NEW c \in ShConn, NEW s \in Slots, LockTable(c, s)
  PROVE  ShInv'
<1> DEFINE t    == stmt[c][s].tab
           mode == IF stmt[c][s].wr > 0 THEN Write ELSE Read
<1>1. stmt[c][s].pc = "lock" /\ UNCHANGED <<inTrans, auto, failed, shEnv, closed>>
  BY DEF LockTable
<1>2. /\ closed[c] = "no" /\ \A z \in Slots \ {s} : stmt[c][z].pc \in {"none", "run"}
      /\ stmt[c][s].kind = "sql" /\ t \in 1..NTab
      /\ inTrans[c] # None /\ (mode = Write => inTrans[c] = Write)
  <2>1. StmtAt(c, s)
    BY DEF ShInv
  <2>2. mode = Write => stmt[c][s].wr > 0
    BY DEF Read, Write
  <2>3. closed[c] = "no"
    BY <1>1, ShTypes DEF ShInv, LiveInv
  <2> QED BY <1>1, <2>1, <2>2, <2>3 DEF StmtAt
<1>3. ASSUME NEW d \in LockBlockers(c, t, mode), Fails(c, s, d), UNCHANGED lock,
             shared' = [shared EXCEPT !.pending = @ \/ mode = Write]
      PROVE  ShInv'
  <2>1. d \in ShConn /\ inTrans[d] # None
    BY <1>2, LockBlockersLive
  <2>2. /\ shared' \in BtShared
        /\ shared'.pending => shared.pending \/ mode = Write
        /\ shared'.nTransaction = shared.nTransaction /\ shared'.pWriter = shared.pWriter
        /\ shared'.inTransaction = shared.inTransaction /\ shared'.exclusive = shared.exclusive
    <3> DEFINE pe == shared.pending \/ mode = Write
    <3>1. pe \in BOOLEAN /\ shared \in BtShared
      BY ShTypes
    <3>2. /\ shared' \in BtShared /\ shared'.pending = pe
          /\ shared'.nTransaction = shared.nTransaction /\ shared'.pWriter = shared.pWriter
          /\ shared'.inTransaction = shared.inTransaction /\ shared'.exclusive = shared.exclusive
      <4> HIDE DEF pe
      <4>1. shared' = [shared EXCEPT !.pending = pe]
        BY <1>3 DEF pe
      <4> QED BY <3>1, <4>1 DEF BtShared
    <3> QED BY <3>2
  <2>3. SharedInv'
    <3>1. InTransaction' = InTransaction
      BY <1>1 DEF InTransaction
    <3>2. mode = Write => shared.pWriter = c
      BY <1>2 DEF ShInv, SharedInv
    <3>3. shared'.pending => shared'.pWriter # NoConn
      BY <2>2, <3>2, ShTypes DEF ShInv, SharedInv
    <3> QED BY <1>1, <2>2, <3>1, <3>3 DEF ShInv, SharedInv
  <2> QED BY <1>1, <1>3, <2>1, <2>2, <2>3, FailsStep
<1>4. ASSUME Goes(c, s, "run"), UNCHANGED <<shared, waits>>, LockInv',
             lock' \in [ShConn -> [1..NTab -> 0..2]],
             \A d \in ShConn \ {c} : lock'[d] = lock[d],
             \A u \in 1..NTab : lock[c][u] # 0 => lock'[c][u] # 0,
             \A u \in 1..NTab : lock[c][u] = Write => lock'[c][u] = Write,
             mode = Write => lock'[c][t] = Write,
             c \notin shEnv.uncommitted => lock'[c][t] # 0
      PROVE  ShInv'
  <2>1. /\ stmt' \in [ShConn -> [Slots -> StmtType]]
        /\ stmt'[c][s].pc = "run" /\ stmt'[c][s].kind = stmt[c][s].kind
        /\ stmt'[c][s].wr = stmt[c][s].wr /\ stmt'[c][s].tab = t
        /\ \A z \in Slots \ {s} : stmt'[c][z] = stmt[c][z]
        /\ \A d \in ShConn \ {c} : stmt'[d] = stmt[d]
    BY <1>4, GoesEffect
  <2>2. \A d \in ShConn : Live(d) => Live(d)'
    BY <1>1, <2>1 DEF Live
  <2>3. NotifyInv' /\ WaitsAcyclic'
    BY <1>4, <2>2, SameNotify
  <2>4. LiveInv'
    <3>1. \E z \in Slots : stmt'[c][z].pc \notin {"none", "unlock"}
      BY <2>1
    <3> QED BY <1>1, <1>2, <2>1, <3>1 DEF ShInv, LiveInv
  <2>5. \A e \in ShConn, z \in Slots : StmtAt(e, z)'
    <3>1. \A e \in ShConn \ {c}, z \in Slots : StmtAt(e, z)'
      BY <1>1, <1>4, <2>1, OthersAt
    <3>2. StmtAt(c, s)'
      BY <1>1, <1>2, <1>4, <2>1 DEF StmtAt
    <3>3. ASSUME NEW z \in Slots \ {s} PROVE StmtAt(c, z)'
      <4>1. StmtAt(c, z) /\ stmt'[c][z] = stmt[c][z] /\ stmt[c][z].pc \in {"none", "run"}
        BY <1>2, <2>1, <3>3 DEF ShInv
      <4>2. stmt[c][z].pc = "run" => stmt[c][z].tab \in 1..NTab
        BY <4>1 DEF StmtAt
      <4> QED BY <1>1, <1>4, <4>1, <4>2 DEF StmtAt
    <3> QED BY <3>1, <3>2, <3>3
  <2>6. ShTypeOK'
    BY <1>1, <1>4, <2>1, ShTypes DEF ShTypeOK, waits
  <2>7. SharedInv'
    BY <1>1, <1>4, SameTransactions
  <2> QED BY <1>4, <2>3, <2>4, <2>5, <2>6, <2>7 DEF ShInv
<1>5. CASE /\ mode = Read /\ c \in shEnv.uncommitted
           /\ Goes(c, s, "run") /\ UNCHANGED <<lock, shared, waits>>
  <2>1. LockInv' /\ mode # Write
    BY <1>1, <1>5, SameTransactions DEF Read, Write
  <2> QED BY <1>4, <1>5, <2>1, ShTypes
<1>6. CASE /\ mode = Write \/ c \notin shEnv.uncommitted
           /\ LockBlockers(c, t, mode) = {}
           /\ lock' = [lock EXCEPT ![c][t] = IF mode > @ THEN mode ELSE @]
           /\ Goes(c, s, "run") /\ UNCHANGED <<shared, waits>>
  <2> DEFINE l == IF mode > lock[c][t] THEN mode ELSE lock[c][t]
  <2>1. l \in {Read, Write} /\ (mode = Write => l = Write) /\ (lock[c][t] = Write => l = Write)
        /\ (l = Write => mode = Write \/ lock[c][t] = Write)
    BY <1>2, ShTypes DEF Read, Write
  <2>2. /\ lock' \in [ShConn -> [1..NTab -> 0..2]] /\ lock'[c][t] = l
        /\ \A d \in ShConn \ {c} : lock'[d] = lock[d]
        /\ \A u \in 1..NTab \ {t} : lock'[c][u] = lock[c][u]
    <3>1. lock' = [lock EXCEPT ![c] = [lock[c] EXCEPT ![t] = l]]
      BY <1>6
    <3>2. l \in 0..2
      BY <2>1 DEF Read, Write
    <3> HIDE DEF l, t
    <3>3. [lock[c] EXCEPT ![t] = l] \in [1..NTab -> 0..2]
      BY <1>2, <3>2, ShTypes
    <3> QED BY <1>2, <3>1, <3>3, ShTypes
  <2>3. \A d \in ShConn \ {c} : lock[d][t] = 0 \/ (lock[d][t] = Read /\ mode = Read)
    <3> SUFFICES ASSUME NEW d \in ShConn \ {c}
                 PROVE  lock[d][t] = 0 \/ (lock[d][t] = Read /\ mode = Read)
      OBVIOUS
    <3>1. lock[d][t] = 0 \/ lock[d][t] = mode
      BY <1>6 DEF LockBlockers
    <3>2. mode = Write => lock[d][t] # Write
      BY <1>2 DEF ShInv, SharedInv, LockInv
    <3> QED BY <3>1, <3>2 DEF Read, Write
  <2>4. LockInv'
    <3> SUFFICES ASSUME NEW d \in ShConn, NEW u \in 1..NTab
                 PROVE  /\ lock'[d][u] # 0 => inTrans'[d] # None
                        /\ lock'[d][u] = Write => inTrans'[d] = Write
                        /\ lock'[d][u] = Write => \A e \in ShConn \ {d} : lock'[e][u] = 0
      BY DEF LockInv
    <3>1. CASE u # t
      BY <1>1, <2>2, <3>1 DEF ShInv, LockInv
    <3>2. CASE u = t /\ d = c
      <4>1. lock'[c][t] = Write => \A e \in ShConn \ {c} : lock[e][t] = 0
        <5>1. lock[c][t] = Write => \A e \in ShConn \ {c} : lock[e][t] = 0
          BY <1>2 DEF ShInv, LockInv
        <5>2. Read # Write
          BY DEF Read, Write
        <5> HIDE DEF l, mode
        <5> QED BY <2>1, <2>2, <2>3, <5>1, <5>2
      <4>2. lock'[c][t] = Write => inTrans[c] = Write
        BY <1>2, <2>1, <2>2 DEF ShInv, LockInv
      <4> QED BY <1>1, <1>2, <2>2, <3>2, <4>1, <4>2
    <3>3. CASE u = t /\ d # c
      <4>1. lock'[d][t] # Write
        BY <2>2, <2>3, <3>3 DEF Read, Write
      <4> QED BY <1>1, <2>2, <3>3, <4>1 DEF ShInv, LockInv
    <3> QED BY <3>1, <3>2, <3>3
  <2>5. /\ \A u \in 1..NTab : lock[c][u] # 0 => lock'[c][u] # 0
        /\ \A u \in 1..NTab : lock[c][u] = Write => lock'[c][u] = Write
        /\ mode = Write => lock'[c][t] = Write
        /\ lock'[c][t] # 0
    BY <2>1, <2>2 DEF Read, Write
  <2> QED BY <1>4, <1>6, <2>2, <2>4, <2>5
<1> QED BY <1>3, <1>5, <1>6 DEF LockTable

\* The active statements of a connection, counted.
LEMMA ActiveCount ==
  ASSUME NEW c \in ShConn
  PROVE  /\ Cardinality(Active(c)) \in Nat
         /\ \A s, z \in Active(c) : s # z => Cardinality(Active(c)) > 1
         /\ \A s \in Active(c) :
              Cardinality(Active(c)) > 1 => \E z \in Slots \ {s} : stmt[c][z].pc # "none"
<1>1. Active(c) \subseteq Slots
  BY DEF Active
<1>2. IsFiniteSet(Slots)
  <2>1. Slots = {1} \cup {2}
    BY DEF Slots
  <2> QED BY <2>1, FS_Singleton, FS_AddElement
<1>3. IsFiniteSet(Active(c)) /\ Cardinality(Active(c)) \in Nat
  BY <1>1, <1>2, FS_Subset, FS_CardinalityType
<1>4. ASSUME NEW s \in Active(c), NEW z \in Active(c), s # z
      PROVE  Cardinality(Active(c)) > 1
  <2>1. Cardinality({s}) = 1 /\ IsFiniteSet({s})
    BY FS_Singleton
  <2>2. Cardinality({s} \cup {z}) = 2
    <3>1. z \notin {s}
      BY <1>4
    <3>2. Cardinality({s} \cup {z}) = Cardinality({s}) + 1
      BY <2>1, <3>1, FS_AddElement, Zenon
    <3> QED BY <2>1, <3>2
  <2>3. {s} \cup {z} \in SUBSET Active(c)
    OBVIOUS
  <2>4. Cardinality({s} \cup {z}) <= Cardinality(Active(c))
    BY <1>3, <2>3, FS_Subset
  <2> QED BY <1>3, <2>2, <2>4
<1>5. ASSUME NEW s \in Active(c), Cardinality(Active(c)) > 1
      PROVE  \E z \in Slots \ {s} : stmt[c][z].pc # "none"
  <2>1. Active(c) # {s}
    <3>1. Cardinality({s}) = 1
      BY FS_Singleton
    <3> QED BY <1>5, <3>1
  <2> QED BY <1>1, <2>1 DEF Active
<1> QED BY <1>3, <1>4, <1>5

LEMMA HaltStep ==
  ASSUME ShInv, NEW c \in ShConn, NEW s \in Slots, Halt(c, s)
  PROVE  ShInv'
<1> DEFINE n    == Cardinality(Active(c))
           ends == auto[c] /\ Writers(c) \subseteq {s} /\ inTrans[c] # None
<1>1. /\ stmt[c][s].pc = "halt" /\ UNCHANGED <<auto, waits, failed, shEnv, closed>>
      /\ IF ends THEN EndTransaction(c, n) ELSE UNCHANGED btree
  BY DEF Halt
<1>2. /\ stmt' \in [ShConn -> [Slots -> StmtType]]
      /\ stmt'[c][s].pc = "unlock" /\ \A z \in Slots \ {s} : stmt'[c][z] = stmt[c][z]
      /\ \A d \in ShConn \ {c} : stmt'[d] = stmt[d]
  BY GoesEffect DEF Halt
<1>3. /\ closed[c] = "no" /\ \A z \in Slots \ {s} : stmt[c][z].pc \in {"none", "run"}
  BY <1>1, ShTypes DEF ShInv, StmtAt, LiveInv
<1>4. /\ n \in Nat
      /\ n > 1 <=> \E z \in Slots \ {s} : stmt[c][z].pc # "none"
  BY <1>1, ActiveCount DEF Active
<1>5. /\ inTrans' \in [ShConn -> 0..2] /\ lock' \in [ShConn -> [1..NTab -> 0..2]]
      /\ shared' \in BtShared /\ SharedInv' /\ LockInv'
      /\ \A d \in ShConn \ {c} : inTrans'[d] = inTrans[d] /\ lock'[d] = lock[d]
  <2>1. CASE ends
    BY <1>1, <1>4, <2>1, EndTransactionEffect
  <2>2. CASE ~ends
    BY <1>1, <2>2, SameTransactions, ShTypes DEF btree
  <2> QED BY <2>1, <2>2
<1>6. \A d \in ShConn : Live(d) => Live(d)'
  BY <1>1, <1>2 DEF Live
<1>7. NotifyInv' /\ WaitsAcyclic'
  BY <1>1, <1>6, SameNotify
<1>8. LiveInv'
  <2>1. ASSUME auto[c], inTrans'[c] # None
        PROVE  \E z \in Slots \ {s} : stmt[c][z].pc # "none"
    <3>1. CASE ends
      BY <1>1, <1>4, <2>1, <3>1, EndTransactionEffect
    <3>2. CASE ~ends
      <4>1. PICK z \in Writers(c) : z # s
        BY <1>1, <2>1, <3>2 DEF btree
      <4> QED BY <4>1 DEF Writers, Active
    <3> QED BY <3>1, <3>2
  <2>2. inTrans'[c] # None =>
          ~auto'[c] \/ \E z \in Slots : stmt'[c][z].pc \notin {"none", "unlock"}
    BY <1>1, <1>2, <1>3, <2>1
  <2>3. ASSUME NEW d \in ShConn \ {c}
        PROVE  /\ inTrans'[d] = inTrans[d] /\ auto'[d] = auto[d] /\ closed'[d] = closed[d]
               /\ stmt'[d] = stmt[d]
    BY <1>1, <1>2, <1>5
  <2>4. closed'[c] = "no"
    BY <1>1, <1>3
  <2> QED BY <2>2, <2>3, <2>4 DEF ShInv, LiveInv
<1>9. \A e \in ShConn, z \in Slots : StmtAt(e, z)'
  <2>1. \A e \in ShConn \ {c}, z \in Slots : StmtAt(e, z)'
    BY <1>1, <1>2, <1>5, OthersAt
  <2>2. StmtAt(c, s)'
    BY <1>2, <1>3 DEF StmtAt
  <2>3. ASSUME NEW z \in Slots \ {s} PROVE StmtAt(c, z)'
    <3>1. StmtAt(c, z) /\ stmt'[c][z] = stmt[c][z] /\ stmt[c][z].pc \in {"none", "run"}
      BY <1>2, <1>3, <2>3 DEF ShInv
    <3>2. stmt[c][z].pc = "run" => stmt[c][z].tab \in 1..NTab
      BY <3>1 DEF StmtAt
    <3>3. CASE ends /\ stmt[c][z].pc = "run"
      <4>1. ~(stmt[c][z].wr > 0)
        BY <1>1, <2>3, <3>3 DEF Writers, Active
      <4>2. lock[c][stmt[c][z].tab] # 0 => lock'[c][stmt[c][z].tab] # 0
        BY <1>1, <1>4, <2>3, <3>2, <3>3, EndTransactionEffect DEF Read
      <4> QED BY <1>1, <3>1, <3>3, <4>1, <4>2 DEF StmtAt
    <3>4. CASE ~(ends /\ stmt[c][z].pc = "run")
      BY <1>1, <3>1, <3>4 DEF StmtAt, btree
    <3> QED BY <3>3, <3>4
  <2> QED BY <2>1, <2>2, <2>3
<1>10. ShTypeOK'
  BY <1>1, <1>2, <1>5, ShTypes DEF ShTypeOK, waits
<1> QED BY <1>5, <1>7, <1>8, <1>9, <1>10 DEF ShInv
LEMMA EndExplicitStep ==
  ASSUME ShInv, NEW c \in ShConn, NEW s \in Slots, NEW rollback \in BOOLEAN,
         EndExplicit(c, s, rollback)
  PROVE  ShInv'
<1> DEFINE n    == Cardinality(Active(c)) + 1
           ends == rollback /\ inTrans[c] # None
           Ended(x) == IF x = s THEN [NoStmt EXCEPT !.pc = "halt", !.kind = "end"]
                       ELSE [stmt[c][x] EXCEPT !.ok = @ /\ ~rollback]
<1>1. /\ UNCHANGED <<waits, shEnv, closed>>
      /\ IF ends THEN EndTransaction(c, n) ELSE UNCHANGED btree
      /\ auto' = [auto EXCEPT ![c] = TRUE] /\ failed' = [failed EXCEPT ![c] = FALSE]
      /\ stmt' = [stmt EXCEPT ![c] = [x \in Slots |-> Ended(x)]]
  BY DEF EndExplicit
<1>2. /\ closed[c] = "no" /\ s \notin Active(c)
      /\ \A z \in Slots : stmt[c][z].pc \in {"none", "run"}
  BY DEF EndExplicit, Quiet, FirstFree
<1>3. ASSUME NEW x \in Slots
      PROVE  /\ Ended(x) \in StmtType
             /\ x = s => Ended(x).pc = "halt"
             /\ x # s => /\ Ended(x).pc = stmt[c][x].pc /\ Ended(x).kind = stmt[c][x].kind
                         /\ Ended(x).wr = stmt[c][x].wr /\ Ended(x).tab = stmt[c][x].tab
                         /\ Ended(x).ok => stmt[c][x].ok /\ ~rollback
  <2>1. CASE x = s
    <3>1. NoStmt \in StmtType
      BY SharedCacheAssumption DEF NoStmt, StmtType
    <3>2. Ended(x) \in StmtType /\ Ended(x).pc = "halt"
      <4> HIDE DEF NoStmt
      <4> QED BY <2>1, <3>1 DEF StmtType
    <3> QED BY <2>1, <3>2
  <2>2. CASE x # s
    <3> DEFINE ok == stmt[c][x].ok /\ ~rollback
    <3>1. ok \in BOOLEAN /\ stmt[c][x] \in StmtType /\ Ended(x) = [stmt[c][x] EXCEPT !.ok = ok]
      BY <2>2, ShTypes
    <3>2. /\ Ended(x) \in StmtType /\ Ended(x).ok = ok
          /\ Ended(x).pc = stmt[c][x].pc /\ Ended(x).kind = stmt[c][x].kind
          /\ Ended(x).wr = stmt[c][x].wr /\ Ended(x).tab = stmt[c][x].tab
      <4> HIDE DEF ok, Ended
      <4> QED BY <3>1 DEF StmtType
    <3> QED BY <2>2, <3>2
  <2> QED BY <2>1, <2>2
<1> HIDE DEF Ended
<1>4. /\ stmt' \in [ShConn -> [Slots -> StmtType]]
      /\ \A x \in Slots : stmt'[c][x] = Ended(x)
      /\ \A d \in ShConn \ {c} : stmt'[d] = stmt[d]
  <2>1. [x \in Slots |-> Ended(x)] \in [Slots -> StmtType]
    BY <1>3
  <2> QED BY <1>1, <2>1, ShTypes
<1>5. /\ auto' \in [ShConn -> BOOLEAN] /\ failed' \in [ShConn -> BOOLEAN] /\ auto'[c] = TRUE
      /\ \A d \in ShConn \ {c} : auto'[d] = auto[d]
  BY <1>1, ShTypes
<1>6. n \in Nat
  BY ActiveCount
<1>7. /\ inTrans' \in [ShConn -> 0..2] /\ lock' \in [ShConn -> [1..NTab -> 0..2]]
      /\ shared' \in BtShared /\ SharedInv' /\ LockInv'
      /\ \A d \in ShConn \ {c} : inTrans'[d] = inTrans[d] /\ lock'[d] = lock[d]
  <2>1. CASE ends
    BY <1>1, <1>6, <2>1, EndTransactionEffect
  <2>2. CASE ~ends
    BY <1>1, <2>2, SameTransactions, ShTypes DEF btree
  <2> QED BY <2>1, <2>2
<1>8. \A d \in ShConn : Live(d) => Live(d)'
  <2>1. Live(c)'
    BY <1>1, <1>2, <1>3, <1>4 DEF Live
  <2>2. ASSUME NEW d \in ShConn \ {c}, Live(d) PROVE Live(d)'
    BY <1>1, <1>4, <1>5, <2>2 DEF Live
  <2> QED BY <2>1, <2>2
<1>9. NotifyInv' /\ WaitsAcyclic'
  BY <1>1, <1>8, SameNotify
<1>10. LiveInv'
  <2>1. \E z \in Slots : stmt'[c][z].pc \notin {"none", "unlock"}
    BY <1>3, <1>4
  <2> QED BY <1>1, <1>2, <1>4, <1>5, <1>7, <2>1 DEF ShInv, LiveInv
<1>11. \A e \in ShConn, z \in Slots : StmtAt(e, z)'
  <2>1. \A e \in ShConn \ {c}, z \in Slots : StmtAt(e, z)'
    BY <1>1, <1>4, <1>7, OthersAt
  <2>2. StmtAt(c, s)'
    BY <1>2, <1>3, <1>4 DEF StmtAt
  <2>3. ASSUME NEW z \in Slots \ {s} PROVE StmtAt(c, z)'
    <3>1. /\ StmtAt(c, z) /\ stmt'[c][z] = Ended(z) /\ stmt[c][z].pc \in {"none", "run"}
          /\ stmt'[c][z].pc = stmt[c][z].pc /\ stmt'[c][z].kind = stmt[c][z].kind
          /\ stmt'[c][z].wr = stmt[c][z].wr /\ stmt'[c][z].tab = stmt[c][z].tab
          /\ stmt'[c][z].ok => stmt[c][z].ok /\ ~rollback
      BY <1>2, <1>3, <1>4, <2>3 DEF ShInv
    <3>2. CASE rollback
      BY <3>1, <3>2 DEF StmtAt
    <3>3. CASE ~rollback
      BY <1>1, <3>1, <3>3 DEF StmtAt, btree
    <3> QED BY <3>2, <3>3
  <2> QED BY <2>1, <2>2, <2>3
<1>12. ShTypeOK'
  BY <1>1, <1>4, <1>5, <1>7, ShTypes DEF ShTypeOK, waits
<1> QED BY <1>7, <1>9, <1>10, <1>11, <1>12 DEF ShInv

\* Who refers to a connection that is notified, or closed, refers to it no longer.
LEMMA Unlocked ==
  ASSUME ShInv, NEW c \in ShConn, NEW gone \in SUBSET {c},
         notify' \in [ShConn -> Account],
         \A e \in ShConn \ gone : e \notin blockedList => notify'[e] = notify[e],
         \A e \in ShConn \ gone : e \in blockedList =>
           /\ notify'[e].blocking = IF notify[e].blocking = c THEN NoConn ELSE notify[e].blocking
           /\ notify'[e].unlock = IF notify[e].unlock = c THEN NoConn ELSE notify[e].unlock,
         \A e \in gone : notify'[e].blocking = NoConn /\ notify'[e].unlock = NoConn,
         blockedList' = {e \in blockedList \ gone :
                           notify'[e].blocking # NoConn \/ notify'[e].unlock # NoConn},
         \A d \in ShConn \ {c} : Live(d) => Live(d)'
  PROVE  NotifyInv' /\ WaitsAcyclic' /\ blockedList' \subseteq ShConn
<1>1. blockedList' \subseteq ShConn
  BY ShTypes
<1>2. \A e \in ShConn : e \notin blockedList =>
        notify[e].blocking = NoConn /\ notify[e].unlock = NoConn
  <2>1. ASSUME NEW e \in ShConn, NEW d \in {notify[e].blocking, notify[e].unlock} \ {NoConn}
        PROVE  e \in blockedList
    BY DEF ShInv, NotifyInv
  <2>2. ASSUME NEW e \in ShConn, notify[e].blocking # NoConn PROVE e \in blockedList
    BY <2>1, <2>2
  <2>3. ASSUME NEW e \in ShConn, notify[e].unlock # NoConn PROVE e \in blockedList
    BY <2>1, <2>3
  <2> QED BY <2>2, <2>3
<1>3. ASSUME NEW e \in ShConn
      PROVE  /\ notify'[e].blocking \in {notify[e].blocking, NoConn} \ {c}
             /\ notify'[e].unlock \in {notify[e].unlock, NoConn} \ {c}
  <2>1. NoConn # c
    BY ShTypes
  <2>2. CASE e \notin blockedList
    BY <1>2, <2>1, <2>2
  <2>3. CASE e \in blockedList
    BY <2>1, <2>3, ShTypes
  <2> QED BY <2>2, <2>3
<1>4. NotifyInv'
  <2> SUFFICES ASSUME NEW e \in ShConn,
                      NEW d \in {notify[e].blocking, notify[e].unlock}' \ {NoConn}
               PROVE  e \in blockedList' /\ Live(d)'
    BY DEF NotifyInv
  <2>1. d \in {notify[e].blocking, notify[e].unlock} \ {NoConn} /\ d # c
    BY <1>3
  <2>2. e \in blockedList /\ Live(d) /\ d \in ShConn
    BY <2>1, ShTypes DEF ShInv, NotifyInv
  <2>3. e \notin gone
    OBVIOUS
  <2> QED BY <2>1, <2>2, <2>3
<1>5. WaitsAcyclic'
  BY <1>3, FewerWaits DEF ShInv
<1> QED BY <1>1, <1>4, <1>5

LEMMA HaltedStep ==
  ASSUME ShInv, NEW c \in ShConn, NEW s \in Slots, Halted(c, s)
  PROVE  ShInv'
<1>1. /\ stmt[c][s].pc = "unlock" /\ UNCHANGED <<lock, inTrans, shared, auto, shEnv, closed>>
      /\ failed' = [failed EXCEPT ![c] = ~stmt[c][s].ok]
      /\ stmt' = [stmt EXCEPT ![c][s] = NoStmt]
      /\ IF auto[c] THEN ConnectionUnlocked(c) ELSE UNCHANGED waits
  BY DEF Halted, btree
<1>2. failed' \in [ShConn -> BOOLEAN]
  <2>1. (~stmt[c][s].ok) \in BOOLEAN
    OBVIOUS
  <2> QED BY <1>1, <2>1, ShTypes
<1>3. /\ stmt' \in [ShConn -> [Slots -> StmtType]]
      /\ stmt'[c][s].pc = "none" /\ \A z \in Slots \ {s} : stmt'[c][z] = stmt[c][z]
      /\ \A d \in ShConn \ {c} : stmt'[d] = stmt[d]
  <2>1. NoStmt \in StmtType /\ NoStmt.pc = "none"
    BY SharedCacheAssumption DEF NoStmt, StmtType
  <2>2. stmt' = [stmt EXCEPT ![c][s] = NoStmt]
    BY <1>1
  <2> HIDE DEF NoStmt
  <2>3. /\ stmt' \in [ShConn -> [Slots -> StmtType]]
        /\ stmt'[c][s] = NoStmt /\ \A z \in Slots \ {s} : stmt'[c][z] = stmt[c][z]
        /\ \A d \in ShConn \ {c} : stmt'[d] = stmt[d]
    BY <2>1, <2>2, PutEffect
  <2> QED BY <2>1, <2>3
<1>4. /\ closed[c] = "no" /\ \A z \in Slots \ {s} : stmt[c][z].pc \in {"none", "run"}
      /\ inTrans[c] # None => ~auto[c] \/ \E z \in Slots : stmt[c][z].pc \notin {"none", "unlock"}
  BY <1>1, ShTypes DEF ShInv, StmtAt, LiveInv
<1>5. \A d \in ShConn \ {c} : Live(d) => Live(d)'
  BY <1>1, <1>3 DEF Live
<1>6. /\ notify' \in [ShConn -> Account] /\ blockedList' \subseteq ShConn
      /\ NotifyInv' /\ WaitsAcyclic'
  <2>1. CASE auto[c]
    <3>1. /\ notify' = [e \in ShConn |-> IF e \notin blockedList THEN notify[e]
                 ELSE [blocking |-> IF notify[e].blocking = c THEN NoConn ELSE notify[e].blocking,
                       unlock |-> IF notify[e].unlock = c THEN NoConn ELSE notify[e].unlock]]
          /\ blockedList' = {e \in blockedList :
               notify'[e].blocking # NoConn \/ notify'[e].unlock # NoConn}
      BY <1>1, <2>1 DEF ConnectionUnlocked
    <3>2. notify' \in [ShConn -> Account]
      BY <3>1, ShTypes DEF Account
    <3>3. /\ \A e \in ShConn : e \notin blockedList => notify'[e] = notify[e]
          /\ \A e \in ShConn : e \in blockedList =>
               /\ notify'[e].blocking = IF notify[e].blocking = c THEN NoConn
                                        ELSE notify[e].blocking
               /\ notify'[e].unlock = IF notify[e].unlock = c THEN NoConn ELSE notify[e].unlock
      BY <3>1
    <3>4. blockedList' = {e \in blockedList \ {} :
                            notify'[e].blocking # NoConn \/ notify'[e].unlock # NoConn}
      BY <3>1
    <3> DEFINE gone == {}
    <3>5. gone \in SUBSET {c} /\ blockedList' = {e \in blockedList \ gone :
                            notify'[e].blocking # NoConn \/ notify'[e].unlock # NoConn}
      BY <3>4
    <3>6. /\ \A e \in gone : notify'[e].blocking = NoConn /\ notify'[e].unlock = NoConn
          /\ ShConn \ gone = ShConn
      OBVIOUS
    <3> HIDE DEF gone
    <3> QED BY <1>5, <3>2, <3>3, <3>5, <3>6, Unlocked
  <2>2. CASE ~auto[c]
    <3>1. UNCHANGED waits /\ (Live(c) => Live(c)')
      BY <1>1, <2>2 DEF Live
    <3> QED BY <1>5, <3>1, SameNotify, ShTypes DEF waits
  <2> QED BY <2>1, <2>2
<1>7. SharedInv' /\ LockInv'
  BY <1>1, SameTransactions
<1>8. LiveInv'
  <2>1. inTrans'[c] # None =>
          ~auto'[c] \/ \E z \in Slots : stmt'[c][z].pc \notin {"none", "unlock"}
    BY <1>1, <1>3, <1>4
  <2> QED BY <1>1, <1>3, <1>4, <2>1 DEF ShInv, LiveInv
<1>9. \A e \in ShConn, z \in Slots : StmtAt(e, z)'
  <2>1. \A e \in ShConn \ {c}, z \in Slots : StmtAt(e, z)'
    BY <1>1, <1>3, OthersAt
  <2>2. StmtAt(c, s)'
    BY <1>3 DEF StmtAt
  <2>3. ASSUME NEW z \in Slots \ {s} PROVE StmtAt(c, z)'
    BY <1>1, <1>3, <1>4, <2>3 DEF ShInv, StmtAt
  <2> QED BY <2>1, <2>2, <2>3
<1>10. ShTypeOK'
  BY <1>1, <1>2, <1>3, <1>6, ShTypes DEF ShTypeOK
<1> QED BY <1>6, <1>7, <1>8, <1>9, <1>10 DEF ShInv

LEMMA CloseBtreeStep ==
  ASSUME ShInv, NEW c \in ShConn, CloseBtree(c)
  PROVE  ShInv'
<1>1. /\ UNCHANGED <<auto, stmt, waits, failed>> /\ \A s \in Slots : stmt[c][s].pc = "none"
      /\ closed' = [closed EXCEPT ![c] = "locks"]
      /\ IF inTrans[c] # None THEN EndTransaction(c, 0) ELSE UNCHANGED btree
  BY DEF CloseBtree, Active
<1>2. /\ shEnv' \in Setup /\ shEnv'.uncommitted = shEnv.uncommitted
      /\ closed' \in [ShConn -> {"no", "locks", "yes"}] /\ closed'[c] = "locks"
      /\ \A d \in ShConn \ {c} : closed'[d] = closed[d]
  <2>1. shEnv \in Setup /\ shEnv.closes > 0 /\ shEnv' = [shEnv EXCEPT !.closes = @ - 1]
    BY ShTypes DEF CloseBtree
  <2>2. shEnv' \in Setup /\ shEnv'.uncommitted = shEnv.uncommitted
    BY <2>1 DEF Setup
  <2> QED BY <1>1, <2>2, ShTypes
<1>3. /\ inTrans' \in [ShConn -> 0..2] /\ lock' \in [ShConn -> [1..NTab -> 0..2]]
      /\ shared' \in BtShared /\ SharedInv' /\ LockInv' /\ inTrans'[c] = None
      /\ \A d \in ShConn \ {c} : inTrans'[d] = inTrans[d] /\ lock'[d] = lock[d]
  <2>1. CASE inTrans[c] # None
    BY <1>1, <2>1, EndTransactionEffect
  <2>2. CASE inTrans[c] = None
    BY <1>1, <2>2, SameTransactions, ShTypes DEF btree
  <2> QED BY <2>1, <2>2
<1>4. \A d \in ShConn : Live(d) => Live(d)'
  BY <1>1, <1>2 DEF Live
<1>5. NotifyInv' /\ WaitsAcyclic'
  BY <1>1, <1>4, SameNotify
<1>6. LiveInv'
  BY <1>1, <1>2, <1>3 DEF ShInv, LiveInv
<1>7. \A e \in ShConn, z \in Slots : StmtAt(e, z)'
  <2>1. \A e \in ShConn \ {c}, z \in Slots : StmtAt(e, z)'
    BY <1>1, <1>2, <1>3, OthersAt
  <2>2. \A z \in Slots : StmtAt(c, z)'
    BY <1>1 DEF StmtAt
  <2> QED BY <2>1, <2>2
<1>8. ShTypeOK'
  BY <1>1, <1>2, <1>3, ShTypes DEF ShTypeOK, waits
<1> QED BY <1>3, <1>5, <1>6, <1>7, <1>8 DEF ShInv

LEMMA ConnectionClosedStep ==
  ASSUME ShInv, NEW c \in ShConn, ConnectionClosed(c)
  PROVE  ShInv'
<1> DEFINE after == [d \in ShConn |->
             IF d = c THEN [blocking |-> NoConn, unlock |-> NoConn]
             ELSE IF d \notin blockedList THEN notify[d]
             ELSE [blocking |-> IF notify[d].blocking = c THEN NoConn ELSE notify[d].blocking,
                   unlock |-> IF notify[d].unlock = c THEN NoConn ELSE notify[d].unlock]]
<1>1. /\ closed[c] = "locks" /\ UNCHANGED <<lock, inTrans, shared, auto, stmt, failed, shEnv>>
      /\ closed' = [closed EXCEPT ![c] = "yes"] /\ notify' = after
      /\ blockedList' = {e \in blockedList \ {c} :
           notify'[e].blocking # NoConn \/ notify'[e].unlock # NoConn}
  BY DEF ConnectionClosed, btree
<1>2. /\ closed' \in [ShConn -> {"no", "locks", "yes"}] /\ closed'[c] = "yes"
      /\ \A d \in ShConn \ {c} : closed'[d] = closed[d]
  BY <1>1, ShTypes
<1>3. notify' \in [ShConn -> Account]
  BY <1>1, ShTypes DEF Account
<1>4. /\ \A e \in ShConn \ {c} : e \notin blockedList => notify'[e] = notify[e]
      /\ \A e \in ShConn \ {c} : e \in blockedList =>
           /\ notify'[e].blocking = IF notify[e].blocking = c THEN NoConn ELSE notify[e].blocking
           /\ notify'[e].unlock = IF notify[e].unlock = c THEN NoConn ELSE notify[e].unlock
      /\ \A e \in {c} : notify'[e].blocking = NoConn /\ notify'[e].unlock = NoConn
  BY <1>1
<1>5. \A d \in ShConn \ {c} : Live(d) => Live(d)'
  BY <1>1, <1>2 DEF Live
<1>6. NotifyInv' /\ WaitsAcyclic' /\ blockedList' \subseteq ShConn
  BY <1>1, <1>3, <1>4, <1>5, Unlocked
<1>7. SharedInv' /\ LockInv'
  BY <1>1, SameTransactions
<1>8. LiveInv'
  BY <1>1, <1>2 DEF ShInv, LiveInv
<1>9. \A e \in ShConn, z \in Slots : StmtAt(e, z)'
  BY <1>1, SameAt
<1>10. ShTypeOK'
  BY <1>1, <1>2, <1>3, <1>6, ShTypes DEF ShTypeOK
<1> QED BY <1>6, <1>7, <1>8, <1>9, <1>10 DEF ShInv

-----------------------------------------------------------------------------
(* The theorems *)

\* Every step of every connection keeps the invariant.
THEOREM ShInvInductive == ShInv /\ [ShNext]_shVars => ShInv'
<1> SUFFICES ASSUME ShInv, [ShNext]_shVars PROVE ShInv'
  OBVIOUS
<1>1. CASE UNCHANGED shVars
  <2>1. \A d \in ShConn : Live(d) => Live(d)'
    BY <1>1 DEF Live, shVars
  <2>2. NotifyInv' /\ WaitsAcyclic'
    BY <1>1, <2>1, SameNotify DEF waits, shVars
  <2>3. SharedInv' /\ LockInv'
    BY <1>1, SameTransactions DEF shVars
  <2>4. ShTypeOK' /\ LiveInv'
    BY <1>1 DEF ShInv, ShTypeOK, LiveInv, shVars
  <2>5. \A e \in ShConn, z \in Slots : StmtAt(e, z)'
    BY <1>1, SameAt DEF shVars
  <2> QED BY <2>2, <2>3, <2>4, <2>5 DEF ShInv
<1>2. ASSUME NEW c \in ShConn,
             UnlockNotify(c) \/ CancelNotify(c) \/ CloseBtree(c) \/ ConnectionClosed(c)
      PROVE  ShInv'
  BY <1>2, UnlockNotifyStep, CancelNotifyStep, CloseBtreeStep, ConnectionClosedStep
<1>3. ASSUME NEW c \in ShConn, NEW s \in Slots,
             BeginTrans(c, s) \/ LockTable(c, s) \/ Finish(c, s) \/ Halt(c, s) \/ Halted(c, s)
      PROVE  ShInv'
  BY <1>3, BeginTransStep, LockTableStep, FinishStep, HaltStep, HaltedStep
<1>4. ASSUME NEW c \in ShConn, NEW s \in Slots, NEW wr \in {0, 1}, NEW t \in 1..NTab,
             Start(c, s, "sql", wr, t)
      PROVE  ShInv'
  <2>1. wr \in 0..2 /\ t \in 0..NTab
    BY SharedCacheAssumption
  <2> QED BY <1>4, <2>1, StartStep
<1>5. ASSUME NEW c \in ShConn, NEW s \in Slots, NEW wr \in 0..2, Start(c, s, "begin", wr, 0)
      PROVE  ShInv'
  <2>1. 0 \in 0..NTab
    BY SharedCacheAssumption
  <2> QED BY <1>5, <2>1, StartStep
<1>6. ASSUME NEW c \in ShConn, NEW s \in Slots, NEW rollback \in BOOLEAN,
             EndExplicit(c, s, rollback)
      PROVE  ShInv'
  BY <1>6, EndExplicitStep
<1> QED BY <1>1, <1>2, <1>3, <1>4, <1>5, <1>6 DEF ShNext

\* The invariant of the shared cache holds in every reachable state.
THEOREM ShInvHolds == ShSpec => []ShInv
BY InitInv, ShInvInductive, PTL DEF ShSpec

\* A statement that returns rows of a table has it locked against writers, whatever the other
\* statements of its connection have committed or failed meanwhile (btreeEndTransaction() keeps
\* the locks, downgraded, while another statement is active).
THEOREM IsolatedHolds == ShSpec => []Isolated
<1>1. ShInv => Isolated
  <2> SUFFICES ASSUME ShInv, NEW d \in ShConn, NEW s \in Slots,
                      stmt[d][s].pc = "run", stmt[d][s].ok,
                      stmt[d][s].wr > 0 \/ d \notin shEnv.uncommitted
               PROVE  /\ lock[d][stmt[d][s].tab] # 0
                      /\ \A c \in ShConn \ {d} : lock[c][stmt[d][s].tab] \in
                           (IF stmt[d][s].wr > 0 THEN {0} ELSE {0, Read})
    BY DEF Isolated
  <2> DEFINE t == stmt[d][s].tab
  <2>1. /\ t \in 1..NTab /\ lock[d][t] # 0
        /\ stmt[d][s].wr > 0 => lock[d][t] = Write
    BY DEF ShInv, StmtAt, Write
  <2>2. ASSUME NEW c \in ShConn \ {d}
        PROVE  lock[c][t] \in (IF stmt[d][s].wr > 0 THEN {0} ELSE {0, Read})
    <3>1. lock[c][t] \in 0..2
      BY <2>1, ShTypes
    <3>2. stmt[d][s].wr > 0 => lock[c][t] = 0
      BY <2>1 DEF ShInv, LockInv
    <3>3. lock[c][t] # Write
      BY <2>1 DEF ShInv, LockInv
    <3> QED BY <3>1, <3>2, <3>3 DEF Read, Write
  <2> QED BY <2>1, <2>2
<1> QED BY <1>1, ShInvHolds, PTL

\* sqlite3_unlock_notify() refuses whatever would close a circle, of however many connections,
\* so that the loop over pUnlockConnection ends.
THEOREM WaitsAcyclicHolds == ShSpec => []WaitsAcyclic
<1>1. ShInv => WaitsAcyclic
  BY DEF ShInv
<1> QED BY <1>1, ShInvHolds, PTL

\* The connection that another waits for has something left to end, at which it calls
\* sqlite3ConnectionUnlocked(), and nobody's blocker is a connection that was freed.
THEOREM WaiterWillBeNotifiedHolds == ShSpec => []WaiterWillBeNotified
<1>1. ShInv => WaiterWillBeNotified
  <2> SUFFICES ASSUME ShInv, NEW c \in ShConn
               PROVE  LET d == notify[c].unlock IN
                      /\ d # NoConn => ~auto[d] \/ Active(d) # {} \/ closed[d] = "locks"
                      /\ notify[c].blocking # NoConn => closed[notify[c].blocking] # "yes"
    BY DEF WaiterWillBeNotified
  <2>1. \A d \in {notify[c].blocking, notify[c].unlock} \ {NoConn} : Live(d)
    BY DEF ShInv, NotifyInv
  <2> QED BY <2>1 DEF Live, Active
<1> QED BY <1>1, ShInvHolds, PTL

-----------------------------------------------------------------------------
(* Part 2, UnixShm: types                                                  *)

ConnType == [st : {"closed", "open", "linking", "mapped", "leaving", "done"},
             shared : SUBSET Slot, excl : SUBSET Slot]

NodeType == [st : {"none", "opened", "first", "later", "ready"}, by : XConn \cup {NoX},
             file : 0..MaxFile, nRef : Nat, nRegion : Nat, region : Nat]

ByteLocks == [0..NSlot -> {"none", "rd", "wr"}]

XTypeOK ==
  /\ cn \in [XConn -> ConnType]
  /\ node \in [XProc -> NodeType]
  /\ linked \in 0..MaxFile
  /\ size \in Seq(Nat) /\ linked <= Len(size) /\ Len(size) <= MaxFile
  /\ oslock \in [Files -> [XProc -> ByteLocks]]
  /\ dbExcl \in XConn \cup {NoX}

\* The connections that count in unixShmNode.nRef
Attached(p) == {c \in XConn : ProcOf[c] = p /\ cn[c].st \in {"linking", "mapped", "leaving"}}

\* A node refers to the file that has the name, and lives as long as it is referred to.
NodeAt(p) ==
  LET n == node[p] IN
  /\ n.st = "none" => n.file = 0
  /\ n.st # "none" => n.file = linked /\ linked # 0
  /\ n.nRef = Cardinality(Attached(p))
  /\ n.st = "ready" <=> n.nRef > 0
  /\ n.st \in {"opened", "first", "later"} =>
       n.by \in XConn /\ ProcOf[n.by] = p /\ cn[n.by].st = "open"

\* The dead-man switch: exclusive for the first process, shared while the node is in use.
SwitchAt(p) ==
  /\ node[p].st = "first" => oslock[linked][p][DMS] = "wr"
  /\ node[p].st = "ready" => oslock[linked][p][DMS] # "none"

\* Only the holder of WAL_WRITE_LOCK extends the file, and from what it found too short.
RegionAt(p) ==
  LET n == node[p] IN
  /\ n.st # "ready" => n.nRegion = 0 /\ n.region = 0
  /\ n.st = "ready" => n.nRegion <= size[linked]
  /\ n.region > 0 => /\ n.region > size[linked]
                     /\ \E c \in XConn : ProcOf[c] = p /\ 0 \in cn[c].excl

\* A connection holds locks while it is on the list of its node, and its process has them.
ConnAt(c) ==
  /\ cn[c].st # "mapped" => cn[c].shared = {} /\ cn[c].excl = {}
  /\ \A s \in cn[c].excl : oslock[linked][ProcOf[c]][s] = "wr"
  /\ \A s \in cn[c].shared : oslock[linked][ProcOf[c]][s] # "none"

SystemExclusion ==
  \A f \in Files, p, q \in XProc, b \in 0..NSlot :
    p # q /\ oslock[f][p][b] = "wr" => oslock[f][q][b] = "none"

SlotExclusion ==
  \A c, d \in XConn : cn[c].excl \cap cn[d].shared = {}
                      /\ (c # d => cn[c].excl \cap cn[d].excl = {})

\* Who has the database to itself is the only one to have it open.
DbInv == dbExcl # NoX => \A d \in XConn \ {dbExcl} : cn[d].st = "closed"

XInv == /\ XTypeOK /\ DbInv /\ SystemExclusion /\ SlotExclusion
        /\ \A p \in XProc : NodeAt(p) /\ SwitchAt(p) /\ RegionAt(p)
        /\ \A c \in XConn : ConnAt(c)

-----------------------------------------------------------------------------
(* What the invariant says, and what system calls do *)

\* The types of the functions and of their values.
LEMMA Types ==
  ASSUME XInv
  PROVE  /\ cn \in [XConn -> ConnType] /\ node \in [XProc -> NodeType] /\ linked \in 0..MaxFile
         /\ linked # 0 => linked \in Files
         /\ size \in Seq(Nat) /\ Len(size) \in Nat /\ linked <= Len(size) /\ Len(size) <= MaxFile
         /\ oslock \in [Files -> [XProc -> ByteLocks]] /\ dbExcl \in XConn \cup {NoX}
         /\ MaxFile \in Nat /\ NSlot \in Nat
         /\ \A c \in XConn :
              /\ ProcOf[c] \in XProc /\ cn[c] \in ConnType
              /\ cn[c].st \in {"closed", "open", "linking", "mapped", "leaving", "done"}
              /\ cn[c].shared \subseteq Slot /\ cn[c].excl \subseteq Slot
         /\ \A p \in XProc :
              /\ node[p] \in NodeType /\ node[p].nRef \in Nat /\ node[p].nRegion \in Nat
              /\ node[p].region \in Nat
              /\ node[p].st \in {"none", "opened", "first", "later", "ready"}
<1>1. MaxFile \in Nat /\ NSlot \in Nat /\ ProcOf \in [XConn -> XProc]
  BY ShmAssumption
<1>2. XTypeOK
  BY DEF XInv
<1>3. linked # 0 => linked \in Files
  BY <1>1, <1>2 DEF XTypeOK, Files
<1>4. Len(size) \in Nat
  BY <1>2 DEF XTypeOK
<1>5. ASSUME NEW c \in XConn
      PROVE  /\ ProcOf[c] \in XProc /\ cn[c] \in ConnType
             /\ cn[c].st \in {"closed", "open", "linking", "mapped", "leaving", "done"}
             /\ cn[c].shared \subseteq Slot /\ cn[c].excl \subseteq Slot
  BY <1>1, <1>2 DEF XTypeOK, ConnType
<1>6. ASSUME NEW p \in XProc
      PROVE  /\ node[p] \in NodeType /\ node[p].nRef \in Nat /\ node[p].nRegion \in Nat
             /\ node[p].region \in Nat
             /\ node[p].st \in {"none", "opened", "first", "later", "ready"}
  BY <1>2 DEF XTypeOK, NodeType
<1> QED BY <1>1, <1>2, <1>3, <1>4, <1>5, <1>6 DEF XTypeOK

\* A node is ready exactly while a connection refers to it.
LEMMA NodeFacts ==
  ASSUME XInv, NEW p \in XProc
  PROVE  /\ NodeAt(p) /\ SwitchAt(p) /\ RegionAt(p)
         /\ node[p].st # "none" => linked \in Files /\ node[p].file = linked
         /\ IsFiniteSet(Attached(p)) /\ node[p].nRef = Cardinality(Attached(p))
         /\ node[p].st = "ready" <=> Attached(p) # {}
<1>1. IsFiniteSet(Attached(p))
  <2>1. Attached(p) \subseteq XConn
    BY DEF Attached
  <2> QED BY <2>1, ShmAssumption, FS_Subset
<1>2. NodeAt(p) /\ SwitchAt(p) /\ RegionAt(p)
  BY DEF XInv
<1>3. Cardinality(Attached(p)) > 0 <=> Attached(p) # {}
  BY <1>1, FS_EmptySet, FS_CardinalityType
<1> QED BY <1>1, <1>2, <1>3, Types DEF NodeAt

\* How the references to the nodes change with the state of one connection.
LEMMA AttachedStep ==
  ASSUME XInv, NEW c \in XConn, \A d \in XConn \ {c} : cn'[d].st = cn[d].st
  PROVE  \A p \in XProc :
           LET on == cn[c].st \in {"linking", "mapped", "leaving"} IN
           Cardinality(Attached(p))' =
             IF p # ProcOf[c] \/ on' = on THEN Cardinality(Attached(p))
             ELSE IF on THEN Cardinality(Attached(p)) - 1
             ELSE Cardinality(Attached(p)) + 1
<1> SUFFICES ASSUME NEW p \in XProc
             PROVE  LET on == cn[c].st \in {"linking", "mapped", "leaving"} IN
                    Cardinality(Attached(p))' =
                      IF p # ProcOf[c] \/ on' = on THEN Cardinality(Attached(p))
                      ELSE IF on THEN Cardinality(Attached(p)) - 1
                      ELSE Cardinality(Attached(p)) + 1
  OBVIOUS
<1> DEFINE on == cn[c].st \in {"linking", "mapped", "leaving"}
           A == Attached(p)
<1>1. IsFiniteSet(A)
  BY NodeFacts
<1>2. p # ProcOf[c] => A' = A
  BY DEF Attached
<1>3. p = ProcOf[c] => /\ c \in A <=> on
                       /\ on' => A' = A \cup {c}
                       /\ ~on' => A' = A \ {c}
  BY DEF Attached
<1>4. /\ Cardinality(A \cup {c}) = IF c \in A THEN Cardinality(A) ELSE Cardinality(A) + 1
      /\ Cardinality(A \ {c}) = IF c \in A THEN Cardinality(A) - 1 ELSE Cardinality(A)
  BY <1>1, FS_AddElement, FS_RemoveElement
<1>5. on \in BOOLEAN /\ on' \in BOOLEAN /\ Cardinality(A)' = Cardinality(A')
  OBVIOUS
<1> HIDE DEF on, A
<1>6. Cardinality(A)' = IF p # ProcOf[c] \/ on' = on THEN Cardinality(A)
                        ELSE IF on THEN Cardinality(A) - 1 ELSE Cardinality(A) + 1
  BY <1>2, <1>3, <1>4, <1>5
<1> QED BY <1>6 DEF on, A

\* No reference changes.
LEMMA AttachedSame ==
  ASSUME \A d \in XConn : cn'[d].st = cn[d].st
  PROVE  \A p \in XProc : Cardinality(Attached(p))' = Cardinality(Attached(p))
<1>1. \A p \in XProc : Attached(p)' = Attached(p)
  BY DEF Attached
<1> QED BY <1>1

\* fcntl(): the locks of process p on the bytes B of the file change, and the system keeps
\* write-locks exclusive.
LEMMA SystemLockEffect ==
  ASSUME XInv, NEW p \in XProc, NEW type \in {"none", "rd", "wr"}, NEW B \in SUBSET (0..NSlot),
         node[p].st # "none", ShmSystemLock(p, type, B)
  PROVE  /\ oslock' \in [Files -> [XProc -> ByteLocks]] /\ SystemExclusion'
         /\ \A f \in Files, q \in XProc, b \in 0..NSlot :
              oslock'[f][q][b] = IF f = linked /\ q = p /\ b \in B THEN type ELSE oslock[f][q][b]
         /\ \A f \in Files, q \in XProc \ {p} : oslock'[f][q] = oslock[f][q]
         /\ \A q \in XProc \ {p}, b \in B :
              /\ type = "rd" => oslock[linked][q][b] # "wr"
              /\ type = "wr" => oslock[linked][q][b] = "none"
<1> DEFINE new == [b \in 0..NSlot |-> IF b \in B THEN type ELSE oslock[linked][p][b]]
<1>1. linked \in Files /\ node[p].file = linked
  BY NodeFacts
<1>2. oslock' = [oslock EXCEPT ![linked][p] = new]
  BY <1>1 DEF ShmSystemLock
<1>3. new \in ByteLocks /\ \A b \in 0..NSlot : new[b] = IF b \in B THEN type ELSE oslock[linked][p][b]
  BY <1>1, Types DEF ByteLocks
<1> HIDE DEF new
<1>4. /\ oslock' \in [Files -> [XProc -> ByteLocks]]
      /\ \A f \in Files, q \in XProc : oslock'[f][q] = IF f = linked /\ q = p THEN new ELSE oslock[f][q]
  BY <1>1, <1>2, <1>3, Types
<1>5. \A f \in Files, q \in XProc, b \in 0..NSlot :
        oslock'[f][q][b] = IF f = linked /\ q = p /\ b \in B THEN type ELSE oslock[f][q][b]
  BY <1>3, <1>4
<1>6. \A q \in XProc \ {p}, b \in B :
        /\ type = "rd" => oslock[linked][q][b] # "wr"
        /\ type = "wr" => oslock[linked][q][b] = "none"
  BY <1>1 DEF ShmSystemLock, SystemMay
<1>7. SystemExclusion'
  <2> SUFFICES ASSUME NEW f \in Files, NEW q \in XProc, NEW r \in XProc, NEW b \in 0..NSlot,
                      q # r, oslock'[f][q][b] = "wr"
               PROVE  oslock'[f][r][b] = "none"
    BY DEF SystemExclusion
  <2>1. oslock[f][q][b] \in {"none", "rd", "wr"} /\ oslock[f][r][b] \in {"none", "rd", "wr"}
    BY Types DEF ByteLocks
  <2>2. /\ oslock[f][q][b] = "wr" => oslock[f][r][b] = "none"
        /\ oslock[f][r][b] = "wr" => oslock[f][q][b] = "none"
    BY DEF XInv, SystemExclusion
  <2> QED BY <2>1, <2>2, <1>5, <1>6
<1> QED BY <1>4, <1>5, <1>6, <1>7

\* close() of a descriptor drops the locks of the process and nobody else's.
LEMMA ClosedEffect ==
  ASSUME XInv, NEW p \in XProc, node[p].st # "none", oslock' = ClosedFd(p)
  PROVE  /\ oslock' \in [Files -> [XProc -> ByteLocks]] /\ SystemExclusion'
         /\ \A f \in Files, q \in XProc \ {p} : oslock'[f][q] = oslock[f][q]
<1>1. linked \in Files /\ node[p].file = linked /\ Free \in ByteLocks
  BY NodeFacts DEF Free, ByteLocks
<1>2. /\ oslock' \in [Files -> [XProc -> ByteLocks]]
      /\ \A f \in Files, q \in XProc :
           oslock'[f][q] = IF f = linked /\ q = p THEN Free ELSE oslock[f][q]
  BY <1>1, Types DEF ClosedFd
<1>3. SystemExclusion'
  <2> SUFFICES ASSUME NEW f \in Files, NEW q \in XProc, NEW r \in XProc, NEW b \in 0..NSlot,
                      q # r, oslock'[f][q][b] = "wr"
               PROVE  oslock'[f][r][b] = "none"
    BY DEF SystemExclusion
  <2>1. oslock[f][q][b] = "wr" => oslock[f][r][b] = "none"
    BY DEF XInv, SystemExclusion
  <2>2. Free[b] = "none"
    BY DEF Free
  <2> QED BY <1>2, <2>1, <2>2
<1> QED BY <1>2, <1>3

-----------------------------------------------------------------------------
(* The frame of a step *)

\* A step of process p keeps the invariant if it does so for p and its connections; of the
\* others it may change the file only in ways that they cannot notice.
LEMMA LocalStep ==
  ASSUME XInv, XTypeOK', DbInv', SystemExclusion', SlotExclusion', NEW p \in XProc,
         \A q \in XProc \ {p} : node'[q] = node[q],
         \A d \in XConn : ProcOf[d] # p => cn'[d] = cn[d],
         \A f \in Files, q \in XProc \ {p} : oslock'[f][q] = oslock[f][q],
         \A q \in XProc \ {p} :
           \/ node[q].st = "none"
           \/ /\ linked' = linked
              /\ \/ size'[linked] = size[linked]
                 \/ node[q].nRegion <= size'[linked] /\ node[q].region = 0,
         NodeAt(p)', SwitchAt(p)', RegionAt(p)',
         \A d \in XConn : ProcOf[d] = p => ConnAt(d)'
  PROVE  XInv'
<1>1. ASSUME NEW q \in XProc PROVE NodeAt(q)' /\ SwitchAt(q)' /\ RegionAt(q)'
  <2> SUFFICES ASSUME q # p PROVE NodeAt(q)' /\ SwitchAt(q)' /\ RegionAt(q)'
    OBVIOUS
  <2>1. node'[q] = node[q] /\ NodeAt(q) /\ SwitchAt(q) /\ RegionAt(q)
    BY NodeFacts
  <2>2. Attached(q)' = Attached(q)
    BY DEF Attached
  <2>3. node[q].st # "none" => linked' = linked /\ linked \in Files
    BY NodeFacts
  <2>4. NodeAt(q)'
    BY <2>1, <2>2, <2>3, Types DEF NodeAt
  <2>5. SwitchAt(q)'
    BY <2>1, <2>3 DEF SwitchAt
  <2>6. RegionAt(q)'
    <3>1. (\E c \in XConn : ProcOf[c] = q /\ 0 \in cn[c].excl) =>
            \E c \in XConn : ProcOf[c] = q /\ 0 \in cn'[c].excl
      OBVIOUS
    <3>2. CASE node[q].st = "none"
      BY <2>1, <3>2 DEF RegionAt
    <3>3. CASE node[q].st # "none" /\ size'[linked] = size[linked]
      BY <2>1, <2>3, <3>1, <3>3 DEF RegionAt
    <3>4. CASE /\ node[q].st # "none" /\ node[q].nRegion <= size'[linked]
               /\ node[q].region = 0
      BY <2>1, <2>3, <3>4 DEF RegionAt
    <3> QED BY <3>2, <3>3, <3>4
  <2> QED BY <2>4, <2>5, <2>6
<1>2. ASSUME NEW d \in XConn PROVE ConnAt(d)'
  <2> SUFFICES ASSUME ProcOf[d] # p PROVE ConnAt(d)'
    OBVIOUS
  <2>1. cn'[d] = cn[d] /\ ConnAt(d) /\ ProcOf[d] \in XProc \ {p}
    BY Types DEF XInv
  <2>2. CASE cn[d].st # "mapped"
    BY <2>1, <2>2 DEF ConnAt
  <2>3. CASE cn[d].st = "mapped"
    <3>1. d \in Attached(ProcOf[d])
      BY <2>3 DEF Attached
    <3>2. node[ProcOf[d]].st = "ready"
      BY <2>1, <3>1, NodeFacts
    <3>3. linked' = linked /\ linked \in Files
      BY <2>1, <3>2, NodeFacts
    <3> QED BY <2>1, <3>3 DEF ConnAt
  <2> QED BY <2>2, <2>3
<1> QED BY <1>1, <1>2 DEF XInv

\* A connection that changes its state keeps its slots.
LEMMA SetState ==
  ASSUME XInv, NEW c \in XConn,
         NEW st \in {"closed", "open", "linking", "mapped", "leaving", "done"},
         cn' = [cn EXCEPT ![c].st = st]
  PROVE  /\ cn' \in [XConn -> ConnType] /\ SlotExclusion'
         /\ cn'[c].st = st /\ \A d \in XConn \ {c} : cn'[d] = cn[d]
         /\ \A d \in XConn : cn'[d].shared = cn[d].shared /\ cn'[d].excl = cn[d].excl
<1>1. /\ cn' \in [XConn -> ConnType]
      /\ cn'[c].st = st /\ \A d \in XConn \ {c} : cn'[d] = cn[d]
      /\ \A d \in XConn : cn'[d].shared = cn[d].shared /\ cn'[d].excl = cn[d].excl
  <2> DEFINE new == [cn[c] EXCEPT !.st = st]
  <2>1. /\ new \in ConnType /\ new.st = st
        /\ new.shared = cn[c].shared /\ new.excl = cn[c].excl
    BY Types DEF ConnType
  <2>2. cn' = [cn EXCEPT ![c] = new]
    OBVIOUS
  <2> HIDE DEF new
  <2> QED BY <2>1, <2>2, Types
<1>2. SlotExclusion'
  BY <1>1 DEF XInv, SlotExclusion
<1> QED BY <1>1, <1>2

\* Connections of the process whose slots and system locks do not change; c may change its
\* state if it has no slots, or arrive on the list.
LEMMA ConnSame ==
  ASSUME XInv, NEW c \in XConn, linked' = linked, oslock' = oslock,
         \A d \in XConn : cn'[d].shared = cn[d].shared /\ cn'[d].excl = cn[d].excl,
         \A d \in XConn \ {c} : cn'[d] = cn[d],
         \/ cn'[c].st = "mapped" \/ cn'[c].st = cn[c].st
         \/ cn[c].shared = {} /\ cn[c].excl = {}
  PROVE  \A d \in XConn : ConnAt(d)'
  BY DEF XInv, ConnAt

-----------------------------------------------------------------------------
(* The fields of a node *)

LEMMA NodeState ==
  ASSUME NEW n \in NodeType, NEW st \in {"none", "opened", "first", "later", "ready"},
         NEW m, m = [n EXCEPT !.st = st]
  PROVE  /\ m \in NodeType /\ m.st = st /\ m.by = n.by /\ m.file = n.file /\ m.nRef = n.nRef
         /\ m.nRegion = n.nRegion /\ m.region = n.region
  BY DEF NodeType

LEMMA NodeReferences ==
  ASSUME NEW n \in NodeType, NEW k \in Nat, NEW m, m = [n EXCEPT !.nRef = k]
  PROVE  /\ m \in NodeType /\ m.st = n.st /\ m.by = n.by /\ m.file = n.file /\ m.nRef = k
         /\ m.nRegion = n.nRegion /\ m.region = n.region
  BY DEF NodeType

MadeReady(n) == [n EXCEPT !.st = "ready", !.by = NoX, !.nRef = 1]

LEMMA NodeReady ==
  ASSUME NEW n \in NodeType
  PROVE  LET m == MadeReady(n) IN
         /\ m \in NodeType /\ m.st = "ready" /\ m.file = n.file /\ m.nRef = 1
         /\ m.nRegion = n.nRegion /\ m.region = n.region
  BY DEF NodeType, MadeReady

\* Only the node of p changes.
LEMMA NodeBecomes ==
  ASSUME XInv, NEW p \in XProc, NEW m \in NodeType, node' = [node EXCEPT ![p] = m]
  PROVE  /\ node' \in [XProc -> NodeType] /\ node'[p] = m
         /\ \A q \in XProc \ {p} : node'[q] = node[q]
  BY Types

\* A process whose node is not ready has no connection on the list, and no slot.
LEMMA NotReady ==
  ASSUME XInv, NEW p \in XProc, node[p].st # "ready"
  PROVE  /\ Cardinality(Attached(p)) = 0 /\ node[p].nRegion = 0 /\ node[p].region = 0
         /\ \A d \in XConn : ProcOf[d] = p =>
              cn[d].st # "mapped" /\ cn[d].shared = {} /\ cn[d].excl = {}
<1>1. Attached(p) = {} /\ RegionAt(p)
  BY NodeFacts
<1>2. \A d \in XConn : ProcOf[d] = p => cn[d].st # "mapped" /\ ConnAt(d)
  BY <1>1 DEF Attached, XInv
<1> QED BY <1>1, <1>2, FS_EmptySet DEF RegionAt, ConnAt

\* ftruncate(): the size of the file that has the name changes.
LEMMA SizeBecomes ==
  ASSUME XInv, linked \in Files, NEW k \in Nat, size' = [size EXCEPT ![linked] = k]
  PROVE  size' \in Seq(Nat) /\ Len(size') = Len(size) /\ size'[linked] = k
<1>1. linked \in 1..Len(size)
  BY Types DEF Files
<1> QED BY <1>1, ExceptSeq, Types

\* While only the node, the files and the locks of p change, nobody's slots do.
LEMMA ConnsKept ==
  ASSUME XInv, cn' = cn, dbExcl' = dbExcl
  PROVE  /\ DbInv' /\ SlotExclusion' /\ cn' \in [XConn -> ConnType] /\ dbExcl' \in XConn \cup {NoX}
         /\ \A p \in XProc : Cardinality(Attached(p))' = Cardinality(Attached(p))
  BY AttachedSame, Types DEF XInv, DbInv, SlotExclusion

-----------------------------------------------------------------------------
(* The actions *)

LEMMA InitStep == ShmInit => XInv
<1> SUFFICES ASSUME ShmInit PROVE XInv
  OBVIOUS
<1>1. XTypeOK
  BY ShmAssumption DEF ShmInit, XTypeOK, ConnType, NodeType, ByteLocks, Apart, NoNode, Free, Files
<1>2. DbInv /\ SystemExclusion /\ SlotExclusion
  BY DEF ShmInit, DbInv, SystemExclusion, SlotExclusion, Apart, Free
<1>3. ASSUME NEW p \in XProc PROVE NodeAt(p) /\ SwitchAt(p) /\ RegionAt(p)
  <2>1. Attached(p) = {}
    BY DEF ShmInit, Attached, Apart
  <2>2. Cardinality(Attached(p)) = 0
    BY <2>1, FS_EmptySet
  <2> QED BY <2>2 DEF ShmInit, NoNode, NodeAt, SwitchAt, RegionAt
<1>4. ASSUME NEW c \in XConn PROVE ConnAt(c)
  BY DEF ShmInit, ConnAt, Apart
<1> QED BY <1>1, <1>2, <1>3, <1>4 DEF XInv

\* A step in which one connection changes its state only.
LEMMA StateStep ==
  ASSUME XInv, NEW c \in XConn,
         NEW st \in {"closed", "open", "linking", "mapped", "leaving", "done"},
         cn' = [cn EXCEPT ![c].st = st], UNCHANGED <<node, linked, size, oslock>>,
         dbExcl' \in XConn \cup {NoX}, DbInv',
         cn[c].st \in {"linking", "mapped", "leaving"} <=> st \in {"linking", "mapped", "leaving"},
         st = "mapped" \/ (cn[c].shared = {} /\ cn[c].excl = {}),
         st = "open" \/ node[ProcOf[c]].by # c \/ node[ProcOf[c]].st = "ready"
  PROVE  XInv'
<1> DEFINE p == ProcOf[c]
<1>1. /\ cn' \in [XConn -> ConnType] /\ SlotExclusion'
      /\ cn'[c].st = st /\ \A d \in XConn \ {c} : cn'[d] = cn[d]
      /\ \A d \in XConn : cn'[d].shared = cn[d].shared /\ cn'[d].excl = cn[d].excl
  BY SetState
<1>2. XTypeOK' /\ SystemExclusion'
  BY <1>1, Types DEF XTypeOK, XInv, SystemExclusion
<1>3. \A d \in XConn : ConnAt(d)'
  BY <1>1, ConnSame
<1>4. p \in XProc /\ NodeAt(p) /\ SwitchAt(p) /\ RegionAt(p)
  BY NodeFacts, Types
<1>5. Cardinality(Attached(p))' = Cardinality(Attached(p))
  BY <1>1, <1>4, AttachedStep
<1>6. NodeAt(p)'
  BY <1>1, <1>4, <1>5 DEF NodeAt
<1>7. SwitchAt(p)' /\ RegionAt(p)'
  BY <1>1, <1>4 DEF SwitchAt, RegionAt
<1> QED BY <1>1, <1>2, <1>3, <1>4, <1>6, <1>7, LocalStep

\* Who holds the EXCLUSIVE lock is the connection that acts.
LEMMA DbKept ==
  ASSUME XInv, NEW c \in XConn, cn[c].st # "closed", dbExcl' = dbExcl,
         \A d \in XConn \ {c} : cn'[d] = cn[d]
  PROVE  DbInv'
  BY DEF XInv, DbInv

LEMMA OpenDbStep == ASSUME XInv, NEW c \in XConn, OpenDb(c) PROVE XInv'
<1>1. /\ cn[c].st = "closed" /\ cn' = [cn EXCEPT ![c].st = "open"] /\ dbExcl = NoX /\ dbExcl' = NoX
      /\ UNCHANGED <<node, linked, size, oslock>>
  BY DEF OpenDb
<1>2. cn[c].shared = {} /\ cn[c].excl = {}
  BY <1>1 DEF XInv, ConnAt
<1>3. DbInv'
  BY <1>1 DEF DbInv
<1> QED BY <1>1, <1>2, <1>3, StateStep

LEMMA ShmLinkStep == ASSUME XInv, NEW c \in XConn, ShmLink(c) PROVE XInv'
<1>1. /\ cn[c].st = "linking" /\ cn' = [cn EXCEPT ![c].st = "mapped"]
      /\ UNCHANGED <<node, linked, size, oslock, dbExcl>>
  BY DEF ShmLink
<1>2. node[ProcOf[c]].st = "ready"
  BY <1>1, NodeFacts, Types DEF Attached
<1>3. DbInv'
  BY <1>1, DbKept, Types
<1> QED BY <1>1, <1>2, <1>3, StateStep, Types

LEMMA WalCloseLocksStep == ASSUME XInv, NEW c \in XConn, WalCloseLocks(c) PROVE XInv'
<1>1. /\ Opened = {c} /\ dbExcl' = c /\ UNCHANGED <<cn, node, linked, size, oslock>>
  BY DEF WalCloseLocks
<1>2. DbInv'
  BY <1>1 DEF Opened, DbInv
<1>3. XTypeOK' /\ SystemExclusion' /\ SlotExclusion'
  BY <1>1 DEF XInv, XTypeOK, SystemExclusion, SlotExclusion
<1>4. \A p \in XProc : Attached(p)' = Attached(p)
  BY <1>1 DEF Attached
<1>5. \A p \in XProc : NodeAt(p)' /\ SwitchAt(p)' /\ RegionAt(p)'
  BY <1>1, <1>4 DEF XInv, NodeAt, SwitchAt, RegionAt
<1>6. \A d \in XConn : ConnAt(d)'
  BY <1>1 DEF XInv, ConnAt
<1> QED BY <1>2, <1>3, <1>5, <1>6 DEF XInv

LEMMA ShmUnlistStep == ASSUME XInv, NEW c \in XConn, ShmUnlist(c) PROVE XInv'
<1>1. /\ cn[c].st = "mapped" /\ cn[c].shared = {} /\ cn[c].excl = {}
      /\ cn' = [cn EXCEPT ![c].st = "leaving"]
      /\ UNCHANGED <<node, linked, size, oslock, dbExcl>>
  BY DEF ShmUnlist
<1>2. node[ProcOf[c]].st = "ready"
  BY <1>1, NodeFacts, Types DEF Attached
<1>3. DbInv'
  BY <1>1, DbKept, Types
<1> QED BY <1>1, <1>2, <1>3, StateStep, Types

LEMMA CloseDbStep == ASSUME XInv, NEW c \in XConn, CloseDb(c) PROVE XInv'
<1>1. /\ cn[c].st \in {"open", "done"} /\ node[ProcOf[c]].by # c
      /\ cn' = [cn EXCEPT ![c] = Apart]
      /\ dbExcl' = IF dbExcl = c THEN NoX ELSE dbExcl
      /\ UNCHANGED <<node, linked, size, oslock>>
  BY DEF CloseDb
<1>2. cn[c].shared = {} /\ cn[c].excl = {}
  BY <1>1 DEF XInv, ConnAt
<1>3. cn' = [cn EXCEPT ![c].st = "closed"]
  <2>1. cn[c] \in [st : {"closed", "open", "linking", "mapped", "leaving", "done"},
                   shared : SUBSET Slot, excl : SUBSET Slot]
    BY Types DEF ConnType
  <2>2. cn[c] = [st |-> cn[c].st, shared |-> {}, excl |-> {}]
    BY <1>2, <2>1
  <2>3. [cn[c] EXCEPT !.st = "closed"] = Apart
    BY <2>2 DEF Apart
  <2> QED BY <1>1, <2>3
<1>4. DbInv'
  BY <1>1, Types DEF XInv, DbInv
<1>5. dbExcl' \in XConn \cup {NoX}
  BY <1>1, Types
<1> QED BY <1>1, <1>2, <1>3, <1>4, <1>5, StateStep

LEMMA ShmShareNodeStep == ASSUME XInv, NEW c \in XConn, ShmShareNode(c) PROVE XInv'
<1> DEFINE p == ProcOf[c]
           new == [node[p] EXCEPT !.nRef = node[p].nRef + 1]
<1>1. /\ cn[c].st = "open" /\ node[p].st = "ready" /\ node' = [node EXCEPT ![p] = new]
      /\ cn' = [cn EXCEPT ![c].st = "linking"] /\ UNCHANGED <<linked, size, oslock, dbExcl>>
  BY DEF ShmShareNode
<1>2. p \in XProc /\ NodeAt(p) /\ SwitchAt(p) /\ RegionAt(p)
  BY NodeFacts, Types
<1>3. /\ new \in NodeType /\ new.nRef = node[p].nRef + 1 /\ new.st = "ready"
      /\ new.file = node[p].file /\ new.nRegion = node[p].nRegion /\ new.region = node[p].region
  <2>1. node[p] \in NodeType /\ node[p].nRef + 1 \in Nat
    BY <1>2, Types
  <2> QED BY <1>1, <2>1, NodeReferences
<1> HIDE DEF new
<1>4. /\ node' \in [XProc -> NodeType] /\ node'[p] = new
      /\ \A q \in XProc \ {p} : node'[q] = node[q]
  BY <1>1, <1>2, <1>3, NodeBecomes
<1>5. /\ cn' \in [XConn -> ConnType] /\ SlotExclusion'
      /\ cn'[c].st = "linking" /\ \A d \in XConn \ {c} : cn'[d] = cn[d]
      /\ \A d \in XConn : cn'[d].shared = cn[d].shared /\ cn'[d].excl = cn[d].excl
  BY <1>1, SetState
<1>6. XTypeOK' /\ SystemExclusion' /\ DbInv'
  BY <1>1, <1>4, <1>5, Types, DbKept DEF XTypeOK, XInv, SystemExclusion
<1>7. \A d \in XConn : ConnAt(d)'
  <2>1. cn[c].shared = {} /\ cn[c].excl = {}
    BY <1>1 DEF XInv, ConnAt
  <2> QED BY <1>1, <1>5, <2>1, ConnSame
<1>8. Cardinality(Attached(p))' = Cardinality(Attached(p)) + 1
  BY <1>1, <1>2, <1>5, AttachedStep
<1>9. NodeAt(p)'
  BY <1>1, <1>2, <1>3, <1>4, <1>8, Types DEF NodeAt
<1>10. SwitchAt(p)' /\ RegionAt(p)'
  BY <1>1, <1>2, <1>3, <1>4, <1>5 DEF SwitchAt, RegionAt
<1> QED BY <1>1, <1>2, <1>4, <1>5, <1>6, <1>7, <1>9, <1>10, LocalStep

LEMMA ShmOpenFileStep == ASSUME XInv, NEW c \in XConn, ShmOpenFile(c) PROVE XInv'
<1> DEFINE p == ProcOf[c]
           new == [NoNode EXCEPT !.st = "opened", !.by = c, !.file = linked']
<1>1. /\ cn[c].st = "open" /\ node[p].st = "none" /\ (linked # 0 \/ Len(size) < MaxFile)
      /\ linked' = IF linked # 0 THEN linked ELSE Len(size) + 1
      /\ size' = IF linked # 0 THEN size ELSE Append(size, 0)
      /\ node' = [node EXCEPT ![p] = new] /\ UNCHANGED <<cn, oslock, dbExcl>>
  BY DEF ShmOpenFile
<1>2. /\ p \in XProc /\ Cardinality(Attached(p)) = 0
      /\ \A d \in XConn : ProcOf[d] = p => cn[d].shared = {} /\ cn[d].excl = {}
  <2>1. p \in XProc
    BY Types
  <2> HIDE DEF p
  <2> QED BY <1>1, <2>1, NotReady
<1>3. /\ linked' \in 1..MaxFile /\ linked' <= Len(size')
      /\ size' \in Seq(Nat) /\ Len(size') <= MaxFile
  BY <1>1, Types
<1>4. /\ new \in NodeType /\ new.st = "opened" /\ new.by = c /\ new.file = linked'
      /\ new.nRef = 0 /\ new.nRegion = 0 /\ new.region = 0
  <2>1. linked' \in 0..MaxFile
    BY <1>3, Types
  <2> QED BY <2>1 DEF NodeType, NoNode
<1> HIDE DEF new
<1>5. /\ node' \in [XProc -> NodeType] /\ node'[p] = new
      /\ \A q \in XProc \ {p} : node'[q] = node[q]
  BY <1>1, <1>2, <1>4, NodeBecomes
<1>6. /\ DbInv' /\ SlotExclusion' /\ cn' \in [XConn -> ConnType] /\ dbExcl' \in XConn \cup {NoX}
      /\ Cardinality(Attached(p))' = Cardinality(Attached(p))
  BY <1>1, <1>2, ConnsKept
<1>7. XTypeOK' /\ SystemExclusion'
  BY <1>1, <1>3, <1>5, <1>6, Types DEF XTypeOK, XInv, SystemExclusion
<1>8. NodeAt(p)'
  <2>1. linked' # 0 /\ cn'[c].st = "open" /\ ProcOf[c] = p
    BY <1>1, <1>3
  <2> HIDE DEF p
  <2> QED BY <1>2, <1>4, <1>5, <1>6, <2>1 DEF NodeAt
<1>9. SwitchAt(p)' /\ RegionAt(p)' /\ \A d \in XConn : ProcOf[d] = p => ConnAt(d)'
  BY <1>1, <1>2, <1>4, <1>5 DEF SwitchAt, RegionAt, ConnAt
<1>10. \A q \in XProc \ {p} : node[q].st = "none" \/ (linked' = linked /\ size' = size)
  BY <1>1, NodeFacts DEF NodeAt
<1> QED BY <1>1, <1>2, <1>5, <1>6, <1>7, <1>8, <1>9, <1>10, LocalStep

\* The process goes on opening its node, with the dead-man switch at "type".
LEMMA SwitchStep ==
  ASSUME XInv, NEW p \in XProc, NEW st \in {"first", "later"},
         node[p].st \in {"opened", "first", "later"},
         node' = [node EXCEPT ![p].st = st], UNCHANGED <<cn, linked, dbExcl>>,
         \/ UNCHANGED oslock /\ st = "later"
         \/ ShmSystemLock(p, "wr", {DMS}),
         \/ UNCHANGED size
         \/ node[p].st = "first" /\ size' = [size EXCEPT ![linked] = 0]
  PROVE  XInv'
<1> DEFINE new == [node[p] EXCEPT !.st = st]
<1>1. /\ Cardinality(Attached(p)) = 0 /\ node[p].nRegion = 0 /\ node[p].region = 0
      /\ \A d \in XConn : ProcOf[d] = p => cn[d].shared = {} /\ cn[d].excl = {}
  BY NotReady
<1>2. linked \in Files /\ NodeAt(p) /\ SwitchAt(p)
  BY NodeFacts
<1>3. /\ new \in NodeType /\ new.st = st /\ new.by = node[p].by /\ new.file = node[p].file
      /\ new.nRef = node[p].nRef /\ new.nRegion = node[p].nRegion /\ new.region = node[p].region
  BY Types, NodeState
<1>4. node' = [node EXCEPT ![p] = new]
  OBVIOUS
<1> HIDE DEF new
<1>5. /\ node' \in [XProc -> NodeType] /\ node'[p] = new
      /\ \A q \in XProc \ {p} : node'[q] = node[q]
  BY <1>3, <1>4, NodeBecomes
<1>6. /\ DbInv' /\ SlotExclusion' /\ cn' \in [XConn -> ConnType] /\ dbExcl' \in XConn \cup {NoX}
      /\ Cardinality(Attached(p))' = Cardinality(Attached(p))
  BY ConnsKept
<1>7. /\ oslock' \in [Files -> [XProc -> ByteLocks]] /\ SystemExclusion'
      /\ \A f \in Files, q \in XProc \ {p} : oslock'[f][q] = oslock[f][q]
      /\ st = "first" => oslock'[linked][p][DMS] = "wr"
  <2>1. CASE UNCHANGED oslock /\ st = "later"
    BY <2>1, Types DEF XInv, SystemExclusion
  <2>2. CASE ShmSystemLock(p, "wr", {DMS})
    <3>1. DMS \in 0..NSlot
      BY Types DEF DMS
    <3> QED BY <1>2, <2>2, <3>1, SystemLockEffect
  <2> QED BY <2>1, <2>2
<1>8. size' \in Seq(Nat) /\ Len(size') = Len(size)
  BY <1>2, SizeBecomes, Types
<1>9. XTypeOK'
  BY <1>5, <1>6, <1>7, <1>8, Types DEF XTypeOK
<1>10. NodeAt(p)' /\ SwitchAt(p)' /\ RegionAt(p)'
  BY <1>1, <1>2, <1>3, <1>5, <1>6, <1>7 DEF NodeAt, SwitchAt, RegionAt
<1>11. \A d \in XConn : ProcOf[d] = p => ConnAt(d)'
  BY <1>1 DEF ConnAt
<1>12. ASSUME NEW q \in XProc \ {p}, node[q].st # "none"
       PROVE  size'[linked] = size[linked] \/ (node[q].nRegion <= size'[linked] /\ node[q].region = 0)
  <2> SUFFICES ASSUME node[p].st = "first", size' = [size EXCEPT ![linked] = 0]
               PROVE  node[q].nRegion <= size'[linked] /\ node[q].region = 0
    OBVIOUS
  <2>1. size'[linked] = 0
    BY <1>2, SizeBecomes
  <2>2. oslock[linked][q][DMS] = "none"
    <3>1. DMS \in 0..NSlot
      BY Types DEF DMS
    <3> QED BY <1>2, <3>1 DEF SwitchAt, XInv, SystemExclusion
  <2>3. node[q].st # "ready"
    BY <2>2, NodeFacts DEF SwitchAt
  <2> QED BY <2>1, <2>3, NotReady
<1> QED BY <1>5, <1>6, <1>7, <1>9, <1>10, <1>11, <1>12, LocalStep

LEMMA ShmFirstStep == ASSUME XInv, NEW p \in XProc, ShmFirst(p) PROVE XInv'
<1>1. /\ node[p].st = "opened" /\ UNCHANGED <<cn, linked, size, dbExcl>>
      /\ \/ ShmSystemLock(p, "wr", {DMS}) /\ node' = [node EXCEPT ![p].st = "first"]
         \/ node' = [node EXCEPT ![p].st = "later"] /\ UNCHANGED oslock
  BY DEF ShmFirst
<1> QED BY <1>1, SwitchStep

LEMMA ShmTruncateStep == ASSUME XInv, NEW p \in XProc, ShmTruncate(p) PROVE XInv'
<1>1. /\ node[p].st = "first" /\ size' = [size EXCEPT ![node[p].file] = 0]
      /\ node' = [node EXCEPT ![p].st = "later"] /\ UNCHANGED <<cn, linked, oslock, dbExcl>>
  BY DEF ShmTruncate
<1>2. node[p].file = linked
  BY <1>1, NodeFacts
<1> QED BY <1>1, <1>2, SwitchStep

LEMMA ShmDmsStep == ASSUME XInv, NEW p \in XProc, ShmDms(p) PROVE XInv'
<1> DEFINE c == node[p].by
           new == MadeReady(node[p])
<1>1. /\ node[p].st = "later" /\ ShmSystemLock(p, "rd", {DMS})
      /\ node' = [node EXCEPT ![p] = new]
      /\ cn' = [cn EXCEPT ![c].st = "linking"] /\ UNCHANGED <<linked, size, dbExcl>>
  BY DEF ShmDms, ShmReady, MadeReady
<1>2. /\ linked \in Files /\ node[p].file = linked /\ NodeAt(p)
      /\ c \in XConn /\ ProcOf[c] = p /\ cn[c].st = "open"
  BY <1>1, NodeFacts DEF NodeAt
<1>3. /\ Cardinality(Attached(p)) = 0 /\ node[p].nRegion = 0 /\ node[p].region = 0
      /\ \A d \in XConn : ProcOf[d] = p => cn[d].shared = {} /\ cn[d].excl = {}
  BY <1>1, NotReady
<1>4. /\ new \in NodeType /\ new.st = "ready" /\ new.file = linked /\ new.nRef = 1
      /\ new.nRegion = 0 /\ new.region = 0
  BY <1>2, <1>3, Types, NodeReady
<1> HIDE DEF new, c
<1>5. /\ node' \in [XProc -> NodeType] /\ node'[p] = new
      /\ \A q \in XProc \ {p} : node'[q] = node[q]
  BY <1>1, <1>4, NodeBecomes
<1>6. /\ cn' \in [XConn -> ConnType] /\ SlotExclusion'
      /\ cn'[c].st = "linking" /\ \A d \in XConn \ {c} : cn'[d] = cn[d]
      /\ \A d \in XConn : cn'[d].shared = cn[d].shared /\ cn'[d].excl = cn[d].excl
  BY <1>1, <1>2, SetState
<1>7. /\ oslock' \in [Files -> [XProc -> ByteLocks]] /\ SystemExclusion'
      /\ \A f \in Files, q \in XProc \ {p} : oslock'[f][q] = oslock[f][q]
      /\ oslock'[linked][p][DMS] = "rd"
  <2>1. DMS \in 0..NSlot
    BY Types DEF DMS
  <2> QED BY <1>1, <1>2, <2>1, SystemLockEffect
<1>8. Cardinality(Attached(p))' = 1
  BY <1>2, <1>3, <1>6, AttachedStep
<1>9. XTypeOK' /\ DbInv'
  BY <1>1, <1>2, <1>5, <1>6, <1>7, Types, DbKept DEF XTypeOK
<1>10. NodeAt(p)' /\ SwitchAt(p)'
  BY <1>1, <1>2, <1>4, <1>5, <1>7, <1>8 DEF NodeAt, SwitchAt
<1>11. RegionAt(p)'
  <2>1. size[linked] \in Nat
    BY <1>2, Types DEF Files
  <2> QED BY <1>1, <1>4, <1>5, <2>1 DEF RegionAt
<1>12. \A d \in XConn : ProcOf[d] = p => ConnAt(d)'
  BY <1>3, <1>6 DEF ConnAt
<1> QED BY <1>1, <1>2, <1>5, <1>6, <1>7, <1>9, <1>10, <1>11, <1>12, LocalStep

LEMMA NoNodeFields ==
  /\ NoNode \in NodeType /\ NoNode.st = "none" /\ NoNode.file = 0 /\ NoNode.nRef = 0
  /\ NoNode.nRegion = 0 /\ NoNode.region = 0
<1>1. MaxFile \in Nat
  BY ShmAssumption
<1> QED BY <1>1 DEF NoNode, NodeType

LEMMA ShmOpenFailsStep == ASSUME XInv, NEW p \in XProc, ShmOpenFails(p) PROVE XInv'
<1>1. /\ node[p].st \in {"first", "later"} /\ oslock' = ClosedFd(p)
      /\ node' = [node EXCEPT ![p] = NoNode] /\ UNCHANGED <<cn, linked, size, dbExcl>>
  BY DEF ShmOpenFails
<1>2. /\ Cardinality(Attached(p)) = 0
      /\ \A d \in XConn : ProcOf[d] = p => cn[d].shared = {} /\ cn[d].excl = {}
  BY <1>1, NotReady
<1>3. /\ node' \in [XProc -> NodeType] /\ node'[p] = NoNode
      /\ \A q \in XProc \ {p} : node'[q] = node[q]
  BY <1>1, NoNodeFields, NodeBecomes
<1>4. /\ oslock' \in [Files -> [XProc -> ByteLocks]] /\ SystemExclusion'
      /\ \A f \in Files, q \in XProc \ {p} : oslock'[f][q] = oslock[f][q]
  BY <1>1, ClosedEffect
<1>5. /\ DbInv' /\ SlotExclusion' /\ cn' \in [XConn -> ConnType] /\ dbExcl' \in XConn \cup {NoX}
      /\ Cardinality(Attached(p))' = 0
  BY <1>1, <1>2, ConnsKept
<1>6. XTypeOK'
  BY <1>1, <1>3, <1>4, <1>5, Types DEF XTypeOK
<1>7. NodeAt(p)' /\ SwitchAt(p)' /\ RegionAt(p)'
  BY <1>3, <1>5, NoNodeFields DEF NodeAt, SwitchAt, RegionAt
<1>8. \A d \in XConn : ProcOf[d] = p => ConnAt(d)'
  BY <1>1, <1>2 DEF ConnAt
<1> QED BY <1>1, <1>3, <1>4, <1>5, <1>6, <1>7, <1>8, LocalStep

-----------------------------------------------------------------------------
(* Mapping *)

\* The node of p changes to m, as far as its regions go; the file may be extended to the one
\* that was asked for by the holder of WAL_WRITE_LOCK, whom nobody else is.
LEMMA RegionStep ==
  ASSUME XInv, NEW p \in XProc, node[p].st = "ready", NEW m \in NodeType,
         m.st = node[p].st, m.file = node[p].file, m.nRef = node[p].nRef,
         node' = [node EXCEPT ![p] = m], UNCHANGED <<cn, linked, oslock, dbExcl>>,
         \/ UNCHANGED size
         \/ node[p].region > 0 /\ m.region = 0 /\ size' = [size EXCEPT ![linked] = node[p].region],
         m.nRegion <= size'[linked], m.region > 0 => m.region > size[linked] /\ UNCHANGED size,
         m.region > 0 => \E c \in XConn : ProcOf[c] = p /\ 0 \in cn[c].excl
  PROVE  XInv'
<1>1. linked \in Files /\ NodeAt(p) /\ SwitchAt(p) /\ RegionAt(p) /\ size[linked] \in Nat
  BY NodeFacts, Types DEF Files
<1>2. m.st = "ready"
  OBVIOUS
<1>4. /\ node' \in [XProc -> NodeType] /\ node'[p] = m
      /\ \A q \in XProc \ {p} : node'[q] = node[q]
  BY NodeBecomes
<1>5. /\ DbInv' /\ SlotExclusion' /\ cn' \in [XConn -> ConnType] /\ dbExcl' \in XConn \cup {NoX}
      /\ Cardinality(Attached(p))' = Cardinality(Attached(p))
  BY ConnsKept
<1>6. size' \in Seq(Nat) /\ Len(size') = Len(size) /\ size'[linked] \in Nat
  BY <1>1, SizeBecomes, Types
<1>7. XTypeOK' /\ SystemExclusion'
  BY <1>4, <1>5, <1>6, Types DEF XTypeOK, XInv, SystemExclusion
<1>8. NodeAt(p)' /\ SwitchAt(p)'
  BY <1>1, <1>2, <1>4, <1>5 DEF NodeAt, SwitchAt
<1>9. RegionAt(p)'
  BY <1>1, <1>2, <1>4, <1>6 DEF RegionAt
<1>10. \A d \in XConn : ConnAt(d)'
  BY DEF XInv, ConnAt
<1>11. ASSUME NEW q \in XProc \ {p}, node[q].st # "none"
       PROVE  size'[linked] = size[linked] \/ (node[q].nRegion <= size'[linked] /\ node[q].region = 0)
  <2> SUFFICES ASSUME node[p].region > 0, size' = [size EXCEPT ![linked] = node[p].region]
               PROVE  node[q].nRegion <= size'[linked] /\ node[q].region = 0
    OBVIOUS
  <2>1. size'[linked] = node[p].region /\ node[p].region > size[linked] /\ node[p].region \in Nat
    BY <1>1, SizeBecomes, Types DEF RegionAt
  <2>2. RegionAt(q) /\ node[q].region \in Nat /\ node[q].nRegion \in Nat
    BY NodeFacts, Types
  <2>3. PICK c \in XConn : ProcOf[c] = p /\ 0 \in cn[c].excl
    BY <1>1 DEF RegionAt
  <2>4. ~ \E d \in XConn : ProcOf[d] = q /\ 0 \in cn[d].excl
    BY <2>3 DEF XInv, SlotExclusion
  <2>5. node[q].region = 0
    BY <2>2, <2>4 DEF RegionAt
  <2>6. node[q].nRegion <= size[linked]
    BY <1>1, <2>2 DEF RegionAt
  <2> QED BY <1>1, <2>1, <2>2, <2>5, <2>6
<1> QED BY <1>4, <1>5, <1>7, <1>8, <1>9, <1>10, <1>11, LocalStep

\* A connection on the list has a node that is in use.
LEMMA MappedReady ==
  ASSUME XInv, NEW c \in XConn, cn[c].st \in {"linking", "mapped", "leaving"}
  PROVE  /\ ProcOf[c] \in XProc /\ node[ProcOf[c]].st = "ready"
         /\ linked \in Files /\ node[ProcOf[c]].file = linked
         /\ RegionAt(ProcOf[c]) /\ size[linked] \in Nat
<1>1. ProcOf[c] \in XProc /\ c \in Attached(ProcOf[c])
  BY Types DEF Attached
<1> QED BY <1>1, NodeFacts, Types DEF Files

LEMMA ShmMapRegionStep ==
  ASSUME XInv, NEW c \in XConn, NEW r \in 1..MaxRegion, ShmMapRegion(c, r) PROVE XInv'
<1> DEFINE p == ProcOf[c]
           m == [node[p] EXCEPT !.nRegion = r]
<1>1. /\ cn[c].st = "mapped" /\ node[p].region = 0 /\ r <= size[node[p].file]
      /\ node' = [node EXCEPT ![p] = m] /\ UNCHANGED <<cn, linked, size, oslock, dbExcl>>
  BY DEF ShmMapRegion
<1>2. p \in XProc /\ node[p].st = "ready" /\ node[p].file = linked /\ r \in Nat
  BY <1>1, MappedReady
<1> HIDE DEF p
<1>3. /\ m \in NodeType /\ m.st = node[p].st /\ m.file = node[p].file
      /\ m.nRef = node[p].nRef /\ m.nRegion = r /\ m.region = 0
  BY <1>1, <1>2, Types DEF NodeType
<1> HIDE DEF m
<1>4. m.nRegion <= size'[linked] /\ ~(m.region > 0)
  BY <1>1, <1>2, <1>3
<1> QED BY <1>1, <1>2, <1>3, <1>4, RegionStep

LEMMA ShmMapShortStep ==
  ASSUME XInv, NEW c \in XConn, NEW r \in 1..MaxRegion, ShmMapShort(c, r) PROVE XInv'
<1> DEFINE p == ProcOf[c]
           m == [node[p] EXCEPT !.region = r]
<1>1. /\ cn[c].st = "mapped" /\ r > size[node[p].file] /\ 0 \in cn[c].excl
      /\ node' = [node EXCEPT ![p] = m] /\ UNCHANGED <<cn, linked, size, oslock, dbExcl>>
  BY DEF ShmMapShort, MayExtend
<1>2. /\ p \in XProc /\ node[p].st = "ready" /\ node[p].file = linked /\ r \in Nat
      /\ node[p].nRegion \in Nat /\ node[p].nRegion <= size[linked]
  BY <1>1, MappedReady, Types DEF RegionAt
<1>3. \E d \in XConn : ProcOf[d] = p /\ 0 \in cn[d].excl
  BY <1>1
<1> HIDE DEF p
<1>4. /\ m \in NodeType /\ m.st = node[p].st /\ m.file = node[p].file
      /\ m.nRef = node[p].nRef /\ m.nRegion = node[p].nRegion /\ m.region = r
  BY <1>2, Types DEF NodeType
<1> HIDE DEF m
<1>5. m.nRegion <= size'[linked] /\ m.region > size[linked]
  BY <1>1, <1>2, <1>4
<1> QED BY <1>1, <1>2, <1>3, <1>4, <1>5, RegionStep

\* Who is extending the file has a node in use.
LEMMA ExtendingFacts ==
  ASSUME XInv, NEW p \in XProc, node[p].region > 0
  PROVE  /\ node[p].st = "ready" /\ linked \in Files /\ node[p].file = linked
         /\ node[p].region \in Nat /\ node[p].region > size[linked]
         /\ node[p].nRegion \in Nat /\ node[p].nRegion <= size[linked]
         /\ size' = [size EXCEPT ![linked] = node[p].region] => size'[linked] = node[p].region
<1>1. node[p].st = "ready"
  BY NotReady, Types
<1> QED BY <1>1, NodeFacts, Types, SizeBecomes DEF RegionAt

LEMMA ShmMapExtendStep == ASSUME XInv, NEW p \in XProc, ShmMapExtend(p) PROVE XInv'
<1> DEFINE m == [node[p] EXCEPT !.nRegion = node[p].region, !.region = 0]
<1>1. /\ node[p].region > 0 /\ size' = [size EXCEPT ![node[p].file] = node[p].region]
      /\ node' = [node EXCEPT ![p] = m] /\ UNCHANGED <<cn, linked, oslock, dbExcl>>
  BY DEF ShmMapExtend
<1>2. /\ node[p].st = "ready" /\ node[p].file = linked /\ node[p].region \in Nat
      /\ size' = [size EXCEPT ![linked] = node[p].region] => size'[linked] = node[p].region
  BY <1>1, ExtendingFacts
<1>3. /\ m \in NodeType /\ m.st = node[p].st /\ m.file = node[p].file
      /\ m.nRef = node[p].nRef /\ m.nRegion = node[p].region /\ m.region = 0
  BY <1>2, Types DEF NodeType
<1> HIDE DEF m
<1>4. m.nRegion <= size'[linked] /\ ~(m.region > 0)
  BY <1>1, <1>2, <1>3
<1> QED BY <1>1, <1>2, <1>3, <1>4, RegionStep

LEMMA ShmMapFailsStep == ASSUME XInv, NEW p \in XProc, ShmMapFails(p) PROVE XInv'
<1> DEFINE m == [node[p] EXCEPT !.region = 0]
<1>1. /\ node[p].region > 0
      /\ UNCHANGED size \/ size' = [size EXCEPT ![node[p].file] = node[p].region]
      /\ node' = [node EXCEPT ![p] = m] /\ UNCHANGED <<cn, linked, oslock, dbExcl>>
  BY DEF ShmMapFails
<1>2. /\ node[p].st = "ready" /\ node[p].file = linked /\ node[p].nRegion \in Nat
      /\ linked \in Files /\ node[p].region \in Nat /\ size[linked] \in Nat
      /\ node[p].nRegion <= size[linked] /\ node[p].region > size[linked]
      /\ size' = [size EXCEPT ![linked] = node[p].region] => size'[linked] = node[p].region
  BY <1>1, ExtendingFacts, Types DEF Files
<1>3. /\ m \in NodeType /\ m.st = node[p].st /\ m.file = node[p].file
      /\ m.nRef = node[p].nRef /\ m.nRegion = node[p].nRegion /\ m.region = 0
  BY <1>2, Types DEF NodeType
<1> HIDE DEF m
<1>4. m.nRegion <= size'[linked] /\ ~(m.region > 0)
  BY <1>1, <1>2, <1>3
<1> QED BY <1>1, <1>2, <1>3, <1>4, RegionStep

-----------------------------------------------------------------------------
(* Locking *)

\* A connection has slots of its process's locks, while the file keeps its name.
LEMMA SlotHeld ==
  ASSUME XInv, NEW c \in XConn
  PROVE  /\ cn[c].shared # {} \/ cn[c].excl # {} =>
              cn[c].st = "mapped" /\ linked \in Files
         /\ \A s \in cn[c].excl : s \in 0..NSlot /\ oslock[linked][ProcOf[c]][s] = "wr"
         /\ \A s \in cn[c].shared : s \in 0..NSlot /\ oslock[linked][ProcOf[c]][s] # "none"
<1>1. ConnAt(c)
  BY DEF XInv
<1>2. cn[c].st = "mapped" => linked \in Files
  BY MappedReady
<1>3. Slot \subseteq 0..NSlot
  BY Types DEF Slot
<1> QED BY <1>1, <1>2, <1>3, Types DEF ConnAt

\* What the process checks of its own connections and the system of the other processes
\* is all there is to check.
LEMMA SharedMay ==
  ASSUME XInv, NEW c \in XConn, NEW s \in Slot, ShmLockShared(c, s)
  PROVE  \A d \in XConn : s \notin cn[d].excl
<1> DEFINE p == ProcOf[c]
<1> SUFFICES ASSUME NEW d \in XConn, s \in cn[d].excl PROVE FALSE
  OBVIOUS
<1>1. cn[c].st = "mapped" /\ \A e \in Linked(p) : s \notin cn[e].excl
  BY DEF ShmLockShared, Locking
<1>2. cn[d].st = "mapped" /\ s \in 0..NSlot /\ oslock[linked][ProcOf[d]][s] = "wr"
  BY SlotHeld
<1>3. ProcOf[d] # p /\ ProcOf[d] \in XProc
  BY <1>1, <1>2, Types DEF Linked
<1>4. p \in XProc /\ node[p].file = linked /\ linked \in Files
  BY <1>1, MappedReady
<1>5. oslock[linked][p][s] = "none"
  BY <1>2, <1>3, <1>4 DEF XInv, SystemExclusion
<1>6. ASSUME NEW e \in Linked(p) PROVE s \notin cn[e].shared
  <2>1. e \in XConn /\ ProcOf[e] = p
    BY <1>6 DEF Linked
  <2> QED BY <1>5, <2>1, SlotHeld
<1>7. ShmSystemLock(p, "rd", {s})
  BY <1>6 DEF ShmLockShared
<1> QED BY <1>2, <1>3, <1>4, <1>7 DEF ShmSystemLock, SystemMay

LEMMA ExclusiveMay ==
  ASSUME XInv, NEW c \in XConn, NEW S \in SUBSET Slot, ShmLockExclusive(c, S)
  PROVE  \A d \in XConn : S \cap (cn[d].shared \cup cn[d].excl) = {}
<1> DEFINE p == ProcOf[c]
<1> SUFFICES ASSUME NEW d \in XConn, NEW s \in S, s \in cn[d].shared \cup cn[d].excl PROVE FALSE
  OBVIOUS
<1>1. /\ cn[c].st = "mapped" /\ ShmSystemLock(p, "wr", S)
      /\ \A e \in Linked(p) : S \cap (cn[e].excl \cup cn[e].shared) = {}
  BY DEF ShmLockExclusive, Locking
<1>2. cn[d].st = "mapped" /\ oslock[linked][ProcOf[d]][s] # "none"
  BY SlotHeld
<1>3. ProcOf[d] # p /\ ProcOf[d] \in XProc
  BY <1>1, <1>2, Types DEF Linked
<1>4. node[p].file = linked
  BY <1>1, MappedReady
<1> QED BY <1>1, <1>2, <1>3, <1>4 DEF ShmSystemLock, SystemMay

\* The slots of one connection change, and with them the locks of its process on the same
\* bytes, or no lock of the system.
LEMMA SlotStep ==
  ASSUME XInv, NEW c \in XConn, cn[c].st = "mapped",
         NEW S \in SUBSET Slot, cn' \in [XConn -> ConnType], cn'[c].st = "mapped",
         \A d \in XConn \ {c} : cn'[d] = cn[d],
         UNCHANGED <<node, linked, size, dbExcl>>, SlotExclusion',
         NEW type \in {"none", "rd", "wr"},
         ShmSystemLock(ProcOf[c], type, S) \/ UNCHANGED oslock,
         \A d \in XConn : ProcOf[d] = ProcOf[c] => ConnAt(d)',
         0 \in cn[c].excl => 0 \in cn'[c].excl \/ node[ProcOf[c]].region = 0
  PROVE  XInv'
<1> DEFINE p == ProcOf[c]
<1>1. \A d \in XConn \ {c} : cn'[d] = cn[d]
  OBVIOUS
<1>2. /\ p \in XProc /\ node[p].st = "ready" /\ linked \in Files
      /\ NodeAt(p) /\ SwitchAt(p) /\ RegionAt(p)
  BY MappedReady, NodeFacts
<1>3. /\ oslock' \in [Files -> [XProc -> ByteLocks]] /\ SystemExclusion'
      /\ \A f \in Files, q \in XProc \ {p} : oslock'[f][q] = oslock[f][q]
      /\ oslock'[linked][p][DMS] = oslock[linked][p][DMS]
  <2>1. S \subseteq 0..NSlot /\ DMS \in 0..NSlot /\ DMS \notin S
    BY Types DEF Slot, DMS
  <2>2. CASE ShmSystemLock(p, type, S)
    <3>1. node[p].st # "none"
      BY <1>2
    <3> HIDE DEF p
    <3> QED BY <1>2, <2>1, <2>2, <3>1, SystemLockEffect
  <2>3. CASE UNCHANGED oslock
    BY <2>3, Types DEF XInv, SystemExclusion
  <2> QED BY <2>2, <2>3
<1>4. \A d \in XConn : cn'[d].st = cn[d].st
  BY <1>1
<1>5. Cardinality(Attached(p))' = Cardinality(Attached(p))
  BY <1>2, <1>4, AttachedSame
<1>6. XTypeOK' /\ DbInv'
  BY <1>1, <1>3, Types, DbKept DEF XTypeOK
<1>7. NodeAt(p)' /\ SwitchAt(p)'
  BY <1>2, <1>3, <1>5 DEF NodeAt, SwitchAt
<1>8. RegionAt(p)'
  <2>1. node[p].region > 0 => \E d \in XConn : ProcOf[d] = p /\ 0 \in cn'[d].excl
    BY <1>1, <1>2 DEF RegionAt
  <2> QED BY <1>2, <2>1 DEF RegionAt
<1> QED BY <1>1, <1>2, <1>3, <1>6, <1>7, <1>8, LocalStep

LEMMA ShmUnlockStep ==
  ASSUME XInv, NEW c \in XConn, NEW S \in SUBSET Slot, ShmUnlock(c, S) PROVE XInv'
<1> DEFINE p == ProcOf[c]
<1>1. /\ cn[c].st = "mapped" /\ node[p].region = 0 /\ S \subseteq cn[c].shared \cup cn[c].excl
      /\ \/ /\ \A d \in Linked(p) \ {c} : S \cap cn[d].shared = {}
            /\ ShmSystemLock(p, "none", S)
         \/ UNCHANGED oslock
      /\ cn' = [cn EXCEPT ![c].shared = @ \ S, ![c].excl = @ \ S]
      /\ UNCHANGED <<node, linked, size, dbExcl>>
  BY DEF ShmUnlock, Locking
<1>2. /\ cn' \in [XConn -> ConnType] /\ cn'[c].st = "mapped"
      /\ cn'[c].shared = cn[c].shared \ S /\ cn'[c].excl = cn[c].excl \ S
      /\ \A d \in XConn \ {c} : cn'[d] = cn[d]
  BY <1>1, Types DEF ConnType
<1>3. SlotExclusion'
  BY <1>2 DEF XInv, SlotExclusion
<1>4. ASSUME NEW d \in XConn, ProcOf[d] = p PROVE ConnAt(d)'
  <2>1. /\ cn'[d].st = cn[d].st /\ cn'[d].shared \subseteq cn[d].shared
        /\ cn'[d].excl \subseteq cn[d].excl /\ ConnAt(d)
    BY <1>1, <1>2 DEF XInv
  <2>2. CASE UNCHANGED oslock
    BY <1>1, <2>1, <2>2 DEF ConnAt
  <2>3. CASE ShmSystemLock(p, "none", S) /\ \A e \in Linked(p) \ {c} : S \cap cn[e].shared = {}
    <3>1. p \in XProc /\ node[p].st # "none" /\ linked \in Files
      BY <1>1, MappedReady
    <3>2. S \subseteq 0..NSlot
      BY Types DEF Slot
    <3> HIDE DEF p
    <3>3. \A b \in 0..NSlot : b \notin S => oslock'[linked][p][b] = oslock[linked][p][b]
      BY <2>3, <3>1, <3>2, SystemLockEffect
    <3>4. cn'[d].shared \cap S = {} /\ cn'[d].excl \cap S = {}
      <4>1. CASE d = c
        BY <1>2, <4>1
      <4>2. CASE d # c
        <5>1. S \cap cn[d].shared = {}
          BY <1>4, <2>1, <2>3, <4>2 DEF Linked, ConnAt
        <5>2. cn[d].excl \cap S = {}
          BY <1>1, <4>2 DEF XInv, SlotExclusion
        <5> QED BY <1>2, <4>2, <5>1, <5>2
      <4> QED BY <4>1, <4>2
    <3>5. /\ \A b \in cn'[d].shared : b \in 0..NSlot /\ b \notin S
          /\ \A b \in cn'[d].excl : b \in 0..NSlot /\ b \notin S
      BY <2>1, <3>4, SlotHeld
    <3> QED BY <1>1, <1>4, <2>1, <3>3, <3>5 DEF ConnAt
  <2> QED BY <1>1, <2>2, <2>3
<1> QED BY <1>1, <1>2, <1>3, <1>4, SlotStep

LEMMA ShmLockSharedStep ==
  ASSUME XInv, NEW c \in XConn, NEW s \in Slot, ShmLockShared(c, s) PROVE XInv'
<1> DEFINE p == ProcOf[c]
<1>1. /\ cn[c].st = "mapped"
      /\ \/ ShmSystemLock(p, "rd", {s})
         \/ (\E d \in Linked(p) : s \in cn[d].shared) /\ UNCHANGED oslock
      /\ cn' = [cn EXCEPT ![c].shared = @ \cup {s}]
      /\ UNCHANGED <<node, linked, size, dbExcl>>
  BY DEF ShmLockShared, Locking
<1>2. /\ cn' \in [XConn -> ConnType] /\ cn'[c].st = "mapped"
      /\ cn'[c].shared = cn[c].shared \cup {s} /\ cn'[c].excl = cn[c].excl
      /\ \A d \in XConn \ {c} : cn'[d] = cn[d]
  BY <1>1, Types DEF ConnType
<1>3. \A d \in XConn : s \notin cn[d].excl
  BY SharedMay
<1>4. SlotExclusion'
  BY <1>2, <1>3 DEF XInv, SlotExclusion
<1>5. p \in XProc /\ node[p].st # "none" /\ linked \in Files /\ s \in 0..NSlot
  BY <1>1, MappedReady, Types DEF Slot
<1>6. ASSUME NEW d \in XConn, ProcOf[d] = p PROVE ConnAt(d)'
  <2>1. /\ cn'[d].st = cn[d].st /\ cn'[d].shared \subseteq cn[d].shared \cup {s}
        /\ cn'[d].excl = cn[d].excl /\ (d # c => cn'[d] = cn[d]) /\ ConnAt(d)
    BY <1>1, <1>2 DEF XInv
  <2>2. oslock'[linked][p][s] # "none" /\ \A b \in (0..NSlot) \ {s} :
          oslock'[linked][p][b] = oslock[linked][p][b]
    <3>1. CASE ShmSystemLock(p, "rd", {s})
      <4> HIDE DEF p
      <4> QED BY <1>5, <3>1, SystemLockEffect
    <3>2. CASE (\E e \in Linked(p) : s \in cn[e].shared) /\ UNCHANGED oslock
      BY <3>2, SlotHeld DEF Linked
    <3> QED BY <1>1, <3>1, <3>2
  <2>3. \A b \in cn'[d].excl : b \in (0..NSlot) \ {s}
    BY <1>3, <2>1, SlotHeld
  <2>4. \A b \in cn[d].shared : b \in 0..NSlot
    BY SlotHeld
  <2> QED BY <1>1, <1>2, <1>6, <2>1, <2>2, <2>3, <2>4 DEF ConnAt
<1>7. ShmSystemLock(p, "rd", {s}) \/ UNCHANGED oslock
  BY <1>1
<1> QED BY <1>1, <1>2, <1>4, <1>6, <1>7, SlotStep

LEMMA ShmLockExclusiveStep ==
  ASSUME XInv, NEW c \in XConn, NEW S \in SUBSET Slot, ShmLockExclusive(c, S) PROVE XInv'
<1> DEFINE p == ProcOf[c]
<1>1. /\ cn[c].st = "mapped" /\ ShmSystemLock(p, "wr", S)
      /\ cn' = [cn EXCEPT ![c].excl = @ \cup S]
      /\ UNCHANGED <<node, linked, size, dbExcl>>
  BY DEF ShmLockExclusive, Locking
<1>2. /\ cn' \in [XConn -> ConnType] /\ cn'[c].st = "mapped"
      /\ cn'[c].shared = cn[c].shared /\ cn'[c].excl = cn[c].excl \cup S
      /\ \A d \in XConn \ {c} : cn'[d] = cn[d]
  BY <1>1, Types DEF ConnType
<1>3. \A d \in XConn : S \cap (cn[d].shared \cup cn[d].excl) = {}
  BY ExclusiveMay
<1>4. SlotExclusion'
  BY <1>2, <1>3 DEF XInv, SlotExclusion
<1>5. p \in XProc /\ node[p].st # "none" /\ linked \in Files /\ S \subseteq 0..NSlot
  BY <1>1, MappedReady, Types DEF Slot
<1>6. ASSUME NEW d \in XConn, ProcOf[d] = p PROVE ConnAt(d)'
  <2>1. /\ cn'[d].st = cn[d].st /\ cn'[d].shared = cn[d].shared
        /\ cn'[d].excl \subseteq cn[d].excl \cup S /\ (d # c => cn'[d] = cn[d]) /\ ConnAt(d)
    BY <1>1, <1>2 DEF XInv
  <2>2. \A b \in 0..NSlot :
          oslock'[linked][p][b] = IF b \in S THEN "wr" ELSE oslock[linked][p][b]
    <3> HIDE DEF p
    <3> QED BY <1>1, <1>5, SystemLockEffect
  <2>3. /\ \A b \in cn[d].excl : b \in 0..NSlot
        /\ \A b \in cn[d].shared : b \in 0..NSlot /\ b \notin S
    BY <1>3, SlotHeld
  <2> QED BY <1>1, <1>2, <1>5, <1>6, <2>1, <2>2, <2>3 DEF ConnAt
<1> QED BY <1>1, <1>2, <1>4, <1>6, SlotStep

-----------------------------------------------------------------------------
(* Closing, and dying *)

\* Who may remove the name is alone: no other process has a node.
LEMMA AloneWithDb ==
  ASSUME XInv, dbExcl # NoX, NEW q \in XProc, ProcOf[dbExcl] # q
  PROVE  node[q].st = "none"
<1>1. \A d \in XConn : ProcOf[d] = q => cn[d].st = "closed"
  BY DEF XInv, DbInv
<1>2. Attached(q) = {}
  BY <1>1 DEF Attached
<1>3. node[q].st # "ready" /\ NodeAt(q)
  BY <1>2, NodeFacts
<1>4. node[q].st \notin {"opened", "first", "later"}
  BY <1>1, <1>3 DEF NodeAt
<1> QED BY <1>3, <1>4, Types

LEMMA ShmUnmapStep == ASSUME XInv, NEW c \in XConn, ShmUnmap(c) PROVE XInv'
<1> DEFINE p == ProcOf[c]
<1>1. /\ cn[c].st = "leaving" /\ node[p].st = "ready"
      /\ cn' = [cn EXCEPT ![c].st = "done"] /\ UNCHANGED <<size, dbExcl>>
  BY DEF ShmUnmap
<1>2. /\ p \in XProc /\ linked \in Files /\ node[p].file = linked
      /\ NodeAt(p) /\ SwitchAt(p) /\ RegionAt(p)
      /\ IsFiniteSet(Attached(p)) /\ node[p].nRef = Cardinality(Attached(p)) /\ node[p].nRef \in Nat
  BY <1>1, MappedReady, NodeFacts, Types
<1>3. /\ cn' \in [XConn -> ConnType] /\ SlotExclusion'
      /\ cn'[c].st = "done" /\ \A d \in XConn \ {c} : cn'[d] = cn[d]
      /\ \A d \in XConn : cn'[d].shared = cn[d].shared /\ cn'[d].excl = cn[d].excl
  BY <1>1, SetState
<1>4. cn[c].shared = {} /\ cn[c].excl = {}
  BY <1>1 DEF XInv, ConnAt
<1>5. Cardinality(Attached(p))' = node[p].nRef - 1
  BY <1>1, <1>2, <1>3, AttachedStep
<1>6. DbInv'
  BY <1>1, <1>3, DbKept
<1>7. CASE node[p].nRef = 1
  <2>1. /\ node' = [node EXCEPT ![p] = NoNode] /\ oslock' = ClosedFd(p)
        /\ linked' = linked \/ (linked' = 0 /\ dbExcl = c)
    BY <1>7 DEF ShmUnmap
  <2>2. /\ node' \in [XProc -> NodeType] /\ node'[p] = NoNode
        /\ \A q \in XProc \ {p} : node'[q] = node[q]
    BY <1>2, <2>1, NoNodeFields, NodeBecomes
  <2>3. /\ oslock' \in [Files -> [XProc -> ByteLocks]] /\ SystemExclusion'
        /\ \A f \in Files, q \in XProc \ {p} : oslock'[f][q] = oslock[f][q]
    <3>1. node[p].st # "none"
      BY <1>1
    <3> HIDE DEF p
    <3> QED BY <1>2, <2>1, <3>1, ClosedEffect
  <2>4. XTypeOK'
    <3>1. linked' \in 0..MaxFile /\ linked' <= Len(size)
      BY <2>1, Types
    <3> QED BY <1>1, <1>3, <2>2, <2>3, <3>1, Types DEF XTypeOK
  <2>5. NodeAt(p)' /\ SwitchAt(p)' /\ RegionAt(p)'
    BY <1>5, <1>7, <2>2, NoNodeFields DEF NodeAt, SwitchAt, RegionAt
  <2>6. ASSUME NEW d \in XConn, ProcOf[d] = p PROVE ConnAt(d)'
    <3>1. c \in Attached(p)
      BY <1>1 DEF Attached
    <3>2. IsFiniteSet(Attached(p)) /\ Cardinality(Attached(p)) = 1
      BY <1>2, <1>7
    <3>3. Attached(p) \ {c} = {}
      <4> DEFINE A == Attached(p)
      <4>1. IsFiniteSet(A) /\ Cardinality(A) = 1 /\ c \in A
        BY <3>1, <3>2
      <4> HIDE DEF A
      <4>2. IsFiniteSet(A \ {c}) /\ Cardinality(A \ {c}) = 0
        BY <4>1, FS_RemoveElement
      <4>3. A \ {c} = {}
        BY <4>2, FS_EmptySet
      <4> QED BY <4>3 DEF A
    <3>4. d # c => cn[d].st # "mapped"
      BY <2>6, <3>3 DEF Attached
    <3> QED BY <1>1, <1>3, <3>4 DEF XInv, ConnAt
  <2>7. \A q \in XProc \ {p} : node[q].st = "none" \/ linked' = linked
    <3>1. NoX \notin XConn
      BY ShmAssumption
    <3> QED BY <2>1, <3>1, AloneWithDb
  <2> QED BY <1>1, <1>2, <1>3, <1>6, <2>2, <2>3, <2>4, <2>5, <2>6, <2>7, LocalStep
<1>8. CASE node[p].nRef # 1
  <2> DEFINE new == [node[p] EXCEPT !.nRef = node[p].nRef - 1]
  <2>1. node' = [node EXCEPT ![p] = new] /\ UNCHANGED <<linked, oslock>>
    BY <1>8 DEF ShmUnmap
  <2>2. node[p].nRef - 1 \in Nat /\ node[p].nRef - 1 > 0
    BY <1>1, <1>2, <1>8 DEF NodeAt
  <2>3. /\ new \in NodeType /\ new.nRef = node[p].nRef - 1 /\ new.st = "ready"
        /\ new.file = node[p].file /\ new.nRegion = node[p].nRegion /\ new.region = node[p].region
    <3>1. node[p] \in NodeType
      BY <1>2, Types
    <3> QED BY <1>1, <2>2, <3>1, NodeReferences
  <2> HIDE DEF new
  <2>4. /\ node' \in [XProc -> NodeType] /\ node'[p] = new
        /\ \A q \in XProc \ {p} : node'[q] = node[q]
    BY <1>2, <2>1, <2>3, NodeBecomes
  <2>5. XTypeOK' /\ SystemExclusion'
    BY <1>1, <1>3, <2>1, <2>4, Types DEF XTypeOK, XInv, SystemExclusion
  <2>6. NodeAt(p)'
    BY <1>1, <1>2, <1>5, <2>1, <2>2, <2>3, <2>4 DEF NodeAt
  <2>7. SwitchAt(p)' /\ RegionAt(p)'
    BY <1>1, <1>2, <1>3, <2>1, <2>3, <2>4 DEF SwitchAt, RegionAt
  <2>8. \A d \in XConn : ConnAt(d)'
    BY <1>3, <1>4, <2>1, ConnSame
  <2> QED BY <1>1, <1>2, <1>3, <1>6, <2>1, <2>4, <2>5, <2>6, <2>7, <2>8, LocalStep
<1> QED BY <1>7, <1>8

LEMMA ShmKillStep == ASSUME XInv, NEW p \in XProc, ShmKill(p) PROVE XInv'
<1>1. /\ cn' = [c \in XConn |-> IF ProcOf[c] = p THEN Apart ELSE cn[c]]
      /\ node' = [node EXCEPT ![p] = NoNode]
      /\ oslock' = [f \in Files |-> [oslock[f] EXCEPT ![p] = Free]]
      /\ dbExcl' = IF dbExcl # NoX /\ ProcOf[dbExcl] = p THEN NoX ELSE dbExcl
      /\ UNCHANGED <<linked, size>>
  BY DEF ShmKill
<1>2. Apart \in ConnType /\ Apart.st = "closed" /\ Apart.shared = {} /\ Apart.excl = {}
  BY DEF Apart, ConnType
<1>3. /\ cn' \in [XConn -> ConnType]
      /\ \A d \in XConn : cn'[d] = IF ProcOf[d] = p THEN Apart ELSE cn[d]
  BY <1>1, <1>2, Types
<1>4. /\ node' \in [XProc -> NodeType] /\ node'[p] = NoNode
      /\ \A q \in XProc \ {p} : node'[q] = node[q]
  BY <1>1, NoNodeFields, NodeBecomes
<1>5. Free \in ByteLocks /\ \A b \in 0..NSlot : Free[b] = "none"
  BY DEF Free, ByteLocks
<1>6. /\ oslock' \in [Files -> [XProc -> ByteLocks]]
      /\ \A f \in Files, q \in XProc : oslock'[f][q] = IF q = p THEN Free ELSE oslock[f][q]
  BY <1>1, <1>5, Types
<1>7. SystemExclusion'
  BY <1>5, <1>6 DEF XInv, SystemExclusion
<1>8. SlotExclusion'
  <2> SUFFICES ASSUME NEW c \in XConn, NEW d \in XConn
               PROVE  /\ cn'[c].excl \cap cn'[d].shared = {}
                      /\ c # d => cn'[c].excl \cap cn'[d].excl = {}
    BY DEF SlotExclusion
  <2> QED BY <1>2, <1>3 DEF XInv, SlotExclusion
<1>9. dbExcl' \in XConn \cup {NoX} /\ DbInv'
  <2>1. dbExcl' \in {NoX, dbExcl} /\ dbExcl \in XConn \cup {NoX} /\ NoX \notin XConn
    BY <1>1, ShmAssumption, Types
  <2>2. ASSUME dbExcl' # NoX, NEW d \in XConn, d # dbExcl' PROVE cn'[d].st = "closed"
    <3>1. cn[d].st = "closed"
      BY <2>1, <2>2 DEF XInv, DbInv
    <3> QED BY <1>2, <1>3, <3>1
  <2> QED BY <2>1, <2>2 DEF DbInv
<1>10. XTypeOK'
  BY <1>1, <1>3, <1>4, <1>6, <1>9, Types DEF XTypeOK
<1>11. Cardinality(Attached(p))' = 0
  <2>1. Attached(p)' = {}
    BY <1>2, <1>3 DEF Attached
  <2> QED BY <2>1, FS_EmptySet
<1>12. NodeAt(p)' /\ SwitchAt(p)' /\ RegionAt(p)'
  BY <1>4, <1>11, NoNodeFields DEF NodeAt, SwitchAt, RegionAt
<1>13. \A d \in XConn : ProcOf[d] = p => ConnAt(d)'
  BY <1>2, <1>3 DEF ConnAt
<1> QED BY <1>1, <1>3, <1>4, <1>6, <1>7, <1>8, <1>9, <1>10, <1>12, <1>13, LocalStep

-----------------------------------------------------------------------------
(* The invariant, and what it means for the files *)

\* What holds of every action of ShmNext holds of a step.
LEMMA XInvInductive == XInv /\ [ShmNext]_shmVars => XInv'
<1> SUFFICES ASSUME XInv, [ShmNext]_shmVars PROVE XInv'
  OBVIOUS
<1>1. CASE UNCHANGED shmVars
  <2>1. \A p \in XProc : Attached(p)' = Attached(p)
    BY <1>1 DEF shmVars, Attached
  <2>2. XTypeOK' /\ DbInv' /\ SystemExclusion' /\ SlotExclusion'
    BY <1>1 DEF shmVars, XInv, XTypeOK, DbInv, SystemExclusion, SlotExclusion
  <2>3. \A p \in XProc : NodeAt(p)' /\ SwitchAt(p)' /\ RegionAt(p)'
    BY <1>1, <2>1 DEF shmVars, XInv, NodeAt, SwitchAt, RegionAt
  <2>4. \A c \in XConn : ConnAt(c)'
    BY <1>1 DEF shmVars, XInv, ConnAt
  <2> QED BY <2>2, <2>3, <2>4 DEF XInv
<1>2. ASSUME NEW c \in XConn,
             \/ OpenDb(c) \/ ShmShareNode(c) \/ ShmOpenFile(c) \/ ShmLink(c)
             \/ WalCloseLocks(c) \/ ShmUnlist(c) \/ ShmUnmap(c) \/ CloseDb(c)
      PROVE  XInv'
  BY <1>2, OpenDbStep, ShmShareNodeStep, ShmOpenFileStep, ShmLinkStep, WalCloseLocksStep,
     ShmUnlistStep, ShmUnmapStep, CloseDbStep
<1>3. ASSUME NEW c \in XConn, NEW r \in 1..MaxRegion, ShmMapRegion(c, r) \/ ShmMapShort(c, r)
      PROVE  XInv'
  BY <1>3, ShmMapRegionStep, ShmMapShortStep
<1>4. ASSUME NEW c \in XConn, NEW s \in Slot, ShmLockShared(c, s)
      PROVE  XInv'
  BY <1>4, ShmLockSharedStep
<1>5. ASSUME NEW c \in XConn, NEW i \in Slot, NEW j \in Slot,
             ShmUnlock(c, i..j) \/ ShmLockExclusive(c, i..j)
      PROVE  XInv'
  <2>1. i..j \in SUBSET Slot
    BY ShmAssumption DEF Slot
  <2> HIDE DEF Slot
  <2> QED BY <1>5, <2>1, ShmUnlockStep, ShmLockExclusiveStep
<1>6. ASSUME NEW p \in XProc,
             \/ ShmFirst(p) \/ ShmTruncate(p) \/ ShmDms(p) \/ ShmOpenFails(p)
             \/ ShmMapExtend(p) \/ ShmMapFails(p) \/ ShmKill(p)
      PROVE  XInv'
  BY <1>6, ShmFirstStep, ShmTruncateStep, ShmDmsStep, ShmOpenFailsStep, ShmMapExtendStep,
     ShmMapFailsStep, ShmKillStep
<1> QED BY <1>1, <1>2, <1>3, <1>4, <1>5, <1>6 DEF ShmNext

LEMMA XInvHolds == ShmSpec => []XInv
  BY InitStep, XInvInductive, PTL DEF ShmSpec

\* Two processes never share through two files of the same name, whoever comes, dies or
\* removes the name in between.
THEOREM OneSharedFileHolds == ShmSpec => []OneSharedFile
<1>1. XInv => OneSharedFile
  BY NodeFacts DEF OneSharedFile
<1> QED BY <1>1, XInvHolds, PTL

\* What a process has mapped stays inside the file, though others truncate and extend it.
THEOREM MappedWithinFileHolds == ShmSpec => []MappedWithinFile
<1>1. XInv => MappedWithinFile
  <2> SUFFICES ASSUME XInv, NEW p \in XProc, node[p].file # 0
               PROVE  node[p].nRegion <= size[node[p].file]
    BY DEF MappedWithinFile
  <2>1. node[p].st # "none" /\ linked \in Files /\ node[p].file = linked
    BY NodeFacts DEF NodeAt
  <2>2. size[linked] \in Nat
    BY <2>1, Types DEF Files
  <2>3. CASE node[p].st = "ready"
    BY <2>1, <2>3, NodeFacts DEF RegionAt
  <2>4. CASE node[p].st # "ready"
    BY <2>1, <2>2, <2>4, NotReady
  <2> QED BY <2>3, <2>4
<1> QED BY <1>1, XInvHolds, PTL

-----------------------------------------------------------------------------
(* UnixShm implements ShmLock *)

SharedMasks == [c \in XConn |-> cn[c].shared]
ExclMasks   == [c \in XConn |-> cn[c].excl]

\* Only the state of a connection that holds nothing changes, or of none.
LEMMA MasksKept ==
  ASSUME \A d \in XConn : cn'[d].shared = cn[d].shared /\ cn'[d].excl = cn[d].excl
  PROVE  UNCHANGED SL!vars
<1>1. SharedMasks' = SharedMasks /\ ExclMasks' = ExclMasks
  BY DEF SharedMasks, ExclMasks
<1> QED BY <1>1 DEF SL!vars, SharedMasks, ExclMasks

LEMMA UnlockImplements ==
  ASSUME XInv, NEW c \in XConn, NEW S \in SUBSET Slot, ShmUnlock(c, S)
  PROVE  SL!Unlock(c, S)
<1>1. cn' = [cn EXCEPT ![c].shared = @ \ S, ![c].excl = @ \ S]
  BY DEF ShmUnlock
<1>2. /\ cn'[c].shared = cn[c].shared \ S /\ cn'[c].excl = cn[c].excl \ S
      /\ \A d \in XConn \ {c} : cn'[d] = cn[d]
  BY <1>1, Types DEF ConnType
<1>3. /\ SharedMasks' = [SharedMasks EXCEPT ![c] = @ \ S]
      /\ ExclMasks' = [ExclMasks EXCEPT ![c] = @ \ S]
  BY <1>2 DEF SharedMasks, ExclMasks
<1> QED BY <1>3 DEF SL!Unlock, SharedMasks, ExclMasks

LEMMA LockSharedImplements ==
  ASSUME XInv, NEW c \in XConn, NEW s \in Slot, ShmLockShared(c, s)
  PROVE  SL!LockShared(c, s)
<1>1. cn' = [cn EXCEPT ![c].shared = @ \cup {s}]
  BY DEF ShmLockShared
<1>2. /\ cn'[c].shared = cn[c].shared \cup {s} /\ cn'[c].excl = cn[c].excl
      /\ \A d \in XConn \ {c} : cn'[d] = cn[d]
  BY <1>1, Types DEF ConnType
<1>3. /\ SharedMasks' = [SharedMasks EXCEPT ![c] = @ \cup {s}]
      /\ ExclMasks' = ExclMasks
  BY <1>2 DEF SharedMasks, ExclMasks
<1>4. \A d \in XConn : s \notin ExclMasks[d]
  BY SharedMay DEF ExclMasks
<1> QED BY <1>3, <1>4 DEF SL!LockShared, SL!CanShare, SharedMasks, ExclMasks

LEMMA LockExclusiveImplements ==
  ASSUME XInv, NEW c \in XConn, NEW S \in SUBSET Slot, ShmLockExclusive(c, S)
  PROVE  SL!LockExclusive(c, S)
<1>1. cn' = [cn EXCEPT ![c].excl = @ \cup S]
  BY DEF ShmLockExclusive
<1>2. /\ cn'[c].shared = cn[c].shared /\ cn'[c].excl = cn[c].excl \cup S
      /\ \A d \in XConn \ {c} : cn'[d] = cn[d]
  BY <1>1, Types DEF ConnType
<1>3. /\ ExclMasks' = [ExclMasks EXCEPT ![c] = @ \cup S]
      /\ SharedMasks' = SharedMasks
  BY <1>2 DEF SharedMasks, ExclMasks
<1>4. \A d \in XConn : S \cap (SharedMasks[d] \cup ExclMasks[d]) = {}
  BY ExclusiveMay DEF SharedMasks, ExclMasks
<1> QED BY <1>3, <1>4 DEF SL!LockExclusive, SL!CanExclude, SharedMasks, ExclMasks

LEMMA KillImplements ==
  ASSUME XInv, NEW p \in XProc, ShmKill(p)
  PROVE  SL!Drop({d \in XConn : ProcOf[d] = p})
<1> DEFINE C == {d \in XConn : ProcOf[d] = p}
<1>1. \A d \in XConn : cn'[d] = IF d \in C THEN Apart ELSE cn[d]
  BY DEF ShmKill
<1>2. Apart.shared = {} /\ Apart.excl = {}
  BY DEF Apart
<1>3. /\ SharedMasks' = [c \in XConn |-> IF c \in C THEN {} ELSE SharedMasks[c]]
      /\ ExclMasks' = [c \in XConn |-> IF c \in C THEN {} ELSE ExclMasks[c]]
  BY <1>1, <1>2 DEF SharedMasks, ExclMasks
<1> HIDE DEF C
<1>4. SL!Drop(C)
  BY <1>3 DEF SL!Drop, SharedMasks, ExclMasks
<1> QED BY <1>4 DEF C

\* The other actions leave every slot to its holder.
LEMMA StateImplements ==
  ASSUME XInv, NEW c \in XConn,
         \/ OpenDb(c) \/ ShmShareNode(c) \/ ShmOpenFile(c) \/ ShmLink(c)
         \/ WalCloseLocks(c) \/ ShmUnlist(c) \/ ShmUnmap(c) \/ CloseDb(c)
  PROVE  UNCHANGED SL!vars
<1>1. CASE ShmOpenFile(c) \/ WalCloseLocks(c)
  BY <1>1, MasksKept DEF ShmOpenFile, WalCloseLocks
<1>2. CASE OpenDb(c) \/ ShmShareNode(c) \/ ShmLink(c) \/ ShmUnlist(c) \/ ShmUnmap(c)
  <2>1. PICK st \in {"closed", "open", "linking", "mapped", "leaving", "done"} :
          cn' = [cn EXCEPT ![c].st = st]
    BY <1>2 DEF OpenDb, ShmShareNode, ShmLink, ShmUnlist, ShmUnmap
  <2> QED BY <2>1, SetState, MasksKept
<1>3. CASE CloseDb(c)
  <2>1. cn' = [cn EXCEPT ![c] = Apart] /\ cn[c].st # "mapped" /\ ConnAt(c)
    BY <1>3 DEF CloseDb, XInv
  <2>2. cn[c].shared = Apart.shared /\ cn[c].excl = Apart.excl
    BY <2>1 DEF ConnAt, Apart
  <2> HIDE DEF Apart
  <2> QED BY <2>1, <2>2, Types, MasksKept
<1> QED BY <1>1, <1>2, <1>3

LEMMA NodeImplements ==
  ASSUME XInv, NEW p \in XProc,
         \/ ShmFirst(p) \/ ShmTruncate(p) \/ ShmDms(p) \/ ShmOpenFails(p)
         \/ ShmMapExtend(p) \/ ShmMapFails(p)
  PROVE  UNCHANGED SL!vars
<1>1. CASE ShmFirst(p) \/ ShmTruncate(p) \/ ShmOpenFails(p) \/ ShmMapExtend(p) \/ ShmMapFails(p)
  BY <1>1, MasksKept DEF ShmFirst, ShmTruncate, ShmOpenFails, ShmMapExtend, ShmMapFails
<1>2. CASE ShmDms(p)
  <2>1. node[p].st = "later" /\ cn' = [cn EXCEPT ![node[p].by].st = "linking"]
    BY <1>2 DEF ShmDms, ShmReady
  <2>2. node[p].by \in XConn
    BY <2>1, NodeFacts DEF NodeAt
  <2> QED BY <2>1, <2>2, SetState, MasksKept
<1> QED BY <1>1, <1>2

LEMMA StepImplements == XInv /\ [ShmNext]_shmVars => [SL!Next]_(SL!vars)
<1> SUFFICES ASSUME XInv, [ShmNext]_shmVars PROVE SL!Next \/ UNCHANGED SL!vars
  OBVIOUS
<1>1. CASE UNCHANGED shmVars
  BY <1>1, MasksKept DEF shmVars
<1>2. ASSUME NEW c \in XConn, NEW r \in 1..MaxRegion, ShmMapRegion(c, r) \/ ShmMapShort(c, r)
      PROVE  UNCHANGED SL!vars
  BY <1>2, MasksKept DEF ShmMapRegion, ShmMapShort
<1>3. ASSUME NEW c \in XConn, NEW s \in Slot, ShmLockShared(c, s) PROVE SL!Next
  <2>1. SL!LockShared(c, s) /\ {s} \in SUBSET Slot /\ s \in {s}
    BY <1>3, LockSharedImplements
  <2> QED BY <2>1 DEF SL!Next
<1>4. ASSUME NEW c \in XConn, NEW i \in Slot, NEW j \in Slot,
             ShmUnlock(c, i..j) \/ ShmLockExclusive(c, i..j)
      PROVE  SL!Next
  <2>1. i..j \in SUBSET Slot
    BY ShmAssumption DEF Slot
  <2> HIDE DEF Slot
  <2>2. SL!Unlock(c, i..j) \/ SL!LockExclusive(c, i..j)
    BY <1>4, <2>1, UnlockImplements, LockExclusiveImplements
  <2> QED BY <2>1, <2>2 DEF SL!Next
<1>5. ASSUME NEW p \in XProc, ShmKill(p) PROVE SL!Next
  <2>1. SL!Drop({d \in XConn : ProcOf[d] = p})
    BY <1>5, KillImplements
  <2>2. {d \in XConn : ProcOf[d] = p} \in SUBSET XConn
    OBVIOUS
  <2> QED BY <2>1, <2>2 DEF SL!Next
<1> QED BY <1>1, <1>2, <1>3, <1>4, <1>5, StateImplements, NodeImplements DEF ShmNext

\* unixShmLock() keeps the promise of sqlite3OsShmLock() for every number of processes and
\* connections, through failed mappings, closed descriptors and the death of processes.
THEOREM ShmLockRefined == ShmSpec => RefinesShmLock
<1>1. ShmInit => SL!Init
  BY DEF ShmInit, SL!Init, Apart
<1> QED BY <1>1, StepImplements, XInvHolds, PTL DEF ShmSpec, RefinesShmLock, SL!Spec

-----------------------------------------------------------------------------
(* Part 3, PCache1                                                         *)

Pages == PcCache \X PcKeys

-----------------------------------------------------------------------------
(* Lists *)

Once(s) == \A i, j \in DOMAIN s : s[i] = s[j] => i = j
Members(s) == {s[i] : i \in DOMAIN s}

\* The least of a set of naturals, for the inductions on the length of a list
LEMMA Least ==
  ASSUME NEW S, S \subseteq Nat, S # {}
  PROVE  \E x \in S : \A y \in S : x <= y
<1>1. PICK x \in S : \A y \in S : ~(<<y, x>> \in OpToRel(<, Nat))
  BY NatLessThanWellFounded, WFMin
<1>2. \A y \in S : x <= y
  <2>1. SUFFICES ASSUME NEW y \in S PROVE x <= y
    OBVIOUS
  <2>2. ~(<<y, x>> \in {ss \in Nat \X Nat : ss[1] < ss[2]})
    BY <1>1, <2>1 DEF OpToRel
  <2> QED BY <2>1, <2>2
<1> QED BY <1>2

\* The recursion of Without, up to n
Filters(f, s, P, n) ==
  /\ f[0] = <<>>
  /\ \A i \in 1..n : f[i] = IF s[i] \in P THEN f[i - 1] ELSE Append(f[i - 1], s[i])

LEMMA FilterExists ==
  ASSUME NEW T, NEW s \in Seq(T), NEW P
  PROVE  \A n \in 0..Len(s) : \E f \in [0..n -> Seq(T)] : Filters(f, s, P, n)
<1> DEFINE Bad == {n \in 0..Len(s) : ~\E f \in [0..n -> Seq(T)] : Filters(f, s, P, n)}
<1>1. SUFFICES ASSUME Bad # {} PROVE FALSE
  OBVIOUS
<1>2. Bad \subseteq Nat
  OBVIOUS
<1>3. PICK n \in Bad : \A y \in Bad : n <= y
  <2> HIDE DEF Bad
  <2> QED BY <1>1, <1>2, Least
<1>4. n # 0
  <2>1. SUFFICES ASSUME n = 0 PROVE FALSE
    OBVIOUS
  <2> DEFINE f == [i \in 0..0 |-> <<>>]
  <2>2. f \in [0..0 -> Seq(T)] /\ Filters(f, s, P, 0)
    BY DEF Filters
  <2> QED BY <2>1, <2>2
<1>5. n \in 1..Len(s) /\ n - 1 \in 0..Len(s) /\ n - 1 \notin Bad
  <2>1. n \in 0..Len(s) /\ Len(s) \in Nat
    OBVIOUS
  <2>2. n \in 1..Len(s) /\ n - 1 \in 0..Len(s) /\ ~(n <= n - 1)
    BY <1>4, <2>1
  <2> HIDE DEF Bad
  <2> QED BY <1>3, <2>2
<1>6. PICK f \in [0..(n - 1) -> Seq(T)] : Filters(f, s, P, n - 1)
  BY <1>5
<1> DEFINE v == IF s[n] \in P THEN f[n - 1] ELSE Append(f[n - 1], s[n])
           g == [i \in 0..n |-> IF i = n THEN v ELSE f[i]]
<1>7. v \in Seq(T)
  BY <1>5, <1>6
<1>8. g \in [0..n -> Seq(T)]
  BY <1>5, <1>6, <1>7
<1>9. Filters(g, s, P, n)
  <2>1. g[0] = <<>>
    BY <1>5, <1>6 DEF Filters
  <2>2. SUFFICES ASSUME NEW i \in 1..n
                 PROVE  g[i] = IF s[i] \in P THEN g[i - 1] ELSE Append(g[i - 1], s[i])
    BY <2>1 DEF Filters
  <2>3. g[i - 1] = f[i - 1]
    BY <1>5
  <2>4. CASE i = n
    BY <2>3, <2>4, <1>5
  <2>5. CASE i # n
    <3>1. i \in 1..(n - 1) /\ g[i] = f[i]
      BY <1>5, <2>5
    <3> QED BY <1>6, <2>3, <3>1 DEF Filters
  <2> QED BY <2>4, <2>5
<1>10. QED BY <1>3, <1>8, <1>9

\* What is left of a list is in it once if it was before.
LEMMA WithoutIs ==
  ASSUME NEW T, NEW s \in Seq(T), NEW P
  PROVE  /\ Without(s, P) \in Seq(T)
         /\ Members(Without(s, P)) = Members(s) \ P
         /\ Once(s) => Once(Without(s, P))
<1> DEFINE R(f) == [i \in 0..Len(s) |->
                      IF i = 0 THEN <<>>
                      ELSE IF s[i] \in P THEN f[i - 1] ELSE Append(f[i - 1], s[i])]
<1>1. Without(s, P) = (CHOOSE f : f = R(f))[Len(s)]
  BY DEF Without
<1>2. \E f : f = R(f)
  <2>1. PICK f \in [0..Len(s) -> Seq(T)] : Filters(f, s, P, Len(s))
    <3>1. Len(s) \in 0..Len(s)
      OBVIOUS
    <3> QED BY <3>1, FilterExists
  <2>2. f = [i \in 0..Len(s) |-> f[i]]
    BY <2>1
  <2>3. \A i \in 0..Len(s) :
          f[i] = IF i = 0 THEN <<>>
                 ELSE IF s[i] \in P THEN f[i - 1] ELSE Append(f[i - 1], s[i])
    <3>1. \A i \in 0..Len(s) : i = 0 \/ i \in 1..Len(s)
      OBVIOUS
    <3> QED BY <2>1, <3>1 DEF Filters
  <2>4. [i \in 0..Len(s) |-> f[i]] = R(f)
    BY <2>3
  <2>5. f = R(f)
    BY <2>2, <2>4
  <2> QED BY <2>5
<1>3. PICK f : f = R(f) /\ Without(s, P) = f[Len(s)]
  BY <1>1, <1>2
<1>4. /\ f[0] = <<>>
      /\ \A i \in 1..Len(s) : f[i] = IF s[i] \in P THEN f[i - 1] ELSE Append(f[i - 1], s[i])
  <2>1. \A i \in 0..Len(s) : f[i] = IF i = 0 THEN <<>>
                      ELSE IF s[i] \in P THEN f[i - 1] ELSE Append(f[i - 1], s[i])
    <3>1. f = R(f)
      BY <1>3
    <3> HIDE <1>3
    <3> QED BY <3>1
  <2>2. Len(s) \in Nat /\ 0 \in 0..Len(s) /\ \A i \in 1..Len(s) : i \in 0..Len(s) /\ i # 0
    OBVIOUS
  <2> QED BY <2>1, <2>2
<1> DEFINE Good(n) == /\ f[n] \in Seq(T)
                      /\ \A x : (\E j \in 1..Len(f[n]) : f[n][j] = x) <=>
                                (x \notin P /\ \E i \in 1..n : s[i] = x)
                      /\ Once(s) => Once(f[n])
           Bad == {n \in 0..Len(s) : ~Good(n)}
<1>5. Bad = {}
  <2>1. SUFFICES ASSUME Bad # {} PROVE FALSE
    OBVIOUS
  <2>2. Bad \subseteq Nat
    OBVIOUS
  <2>3. PICK n \in Bad : \A y \in Bad : n <= y
    <3> HIDE DEF Bad
    <3> QED BY <2>1, <2>2, Least
  <2>4. Good(0)
    BY <1>4 DEF Once
  <2>5. n \in 1..Len(s) /\ n - 1 \in 0..Len(s) /\ Good(n - 1)
    <3> HIDE DEF Good
    <3> QED BY <2>3, <2>4
  <2>6. f[n] = IF s[n] \in P THEN f[n - 1] ELSE Append(f[n - 1], s[n])
    BY <1>4, <2>5
  <2>7. \A x : (\E i \in 1..n : s[i] = x) <=> (x = s[n] \/ \E i \in 1..(n - 1) : s[i] = x)
    <3>1. \A i \in 1..n : i = n \/ i \in 1..(n - 1)
      BY <2>5
    <3>2. n \in 1..n /\ \A i \in 1..(n - 1) : i \in 1..n
      BY <2>5
    <3> QED BY <3>1, <3>2
  <2>8. CASE s[n] \in P
    BY <2>5, <2>6, <2>7, <2>8
  <2>9. CASE s[n] \notin P
    <3> DEFINE q == f[n - 1]
    <3>1. q \in Seq(T) /\ s[n] \in T /\ f[n] = Append(q, s[n])
      BY <2>5, <2>6, <2>9
    <3>2. /\ f[n] \in Seq(T) /\ Len(f[n]) = Len(q) + 1 /\ f[n][Len(q) + 1] = s[n]
          /\ \A j \in 1..Len(q) : f[n][j] = q[j]
          /\ DOMAIN f[n] = 1..(Len(q) + 1) /\ DOMAIN q = 1..Len(q) /\ Len(q) \in Nat
      BY <3>1
    <3>3. \A x : (\E j \in 1..Len(f[n]) : f[n][j] = x) <=>
                 (x = s[n] \/ \E j \in 1..Len(q) : q[j] = x)
      <4>1. \A j \in 1..(Len(q) + 1) : j = Len(q) + 1 \/ j \in 1..Len(q)
        BY <3>2
      <4>2. Len(q) + 1 \in 1..(Len(q) + 1) /\ \A j \in 1..Len(q) : j \in 1..(Len(q) + 1)
        BY <3>2
      <4> QED BY <3>2, <4>1, <4>2
    <3>4. \A x : (\E j \in 1..Len(f[n]) : f[n][j] = x) <=>
                 (x \notin P /\ \E i \in 1..n : s[i] = x)
      BY <2>5, <2>7, <2>9, <3>3
    <3>5. ASSUME Once(s) PROVE Once(f[n])
      <4>1. Once(q)
        BY <2>5, <3>5
      <4>2. \A j \in 1..Len(q) : q[j] # s[n]
        <5>1. SUFFICES ASSUME NEW j \in 1..Len(q), q[j] = s[n] PROVE FALSE
          OBVIOUS
        <5>2. PICK i \in 1..(n - 1) : s[i] = s[n]
          BY <2>5, <5>1
        <5>3. i \in DOMAIN s /\ n \in DOMAIN s /\ i # n
          BY <2>5
        <5> QED BY <3>5, <5>2, <5>3 DEF Once
      <4>3. SUFFICES ASSUME NEW i \in 1..(Len(q) + 1), NEW j \in 1..(Len(q) + 1),
                            f[n][i] = f[n][j]
                     PROVE  i = j
        BY <3>2 DEF Once
      <4>4. CASE i \in 1..Len(q) /\ j \in 1..Len(q)
        BY <3>2, <4>1, <4>3, <4>4 DEF Once
      <4>5. CASE i = Len(q) + 1 \/ j = Len(q) + 1
        <5>1. (i = Len(q) + 1 \/ i \in 1..Len(q)) /\ (j = Len(q) + 1 \/ j \in 1..Len(q))
          BY <3>2
        <5> QED BY <3>2, <4>2, <4>3, <4>5, <5>1
      <4> QED BY <3>2, <4>4, <4>5
    <3> QED BY <2>3, <3>2, <3>4, <3>5
  <2> QED BY <2>3, <2>8, <2>9
<1>6. Good(Len(s))
  <2>1. Len(s) \in 0..Len(s)
    OBVIOUS
  <2> HIDE DEF Good
  <2> QED BY <1>5, <2>1
<1>7. Members(f[Len(s)]) = Members(s) \ P
  <2>1. DOMAIN f[Len(s)] = 1..Len(f[Len(s)]) /\ DOMAIN s = 1..Len(s)
    BY <1>6
  <2> QED BY <1>6, <2>1 DEF Members
<1> QED BY <1>3, <1>6, <1>7

-----------------------------------------------------------------------------
(* The group and its caches *)

GroupType == [nMaxPage : Int, nMinPage : Int, nCurrentPage : Int, lru : Seq(Pages)]
CacheType == [open : BOOLEAN, nMax : Int, nPage : Int, nRecyclable : Int, nHash : Nat,
              iMaxKey : Int, pages : SUBSET PcKeys]
PairType  == [g : GroupType, k : [PcCache -> CacheType]]

\* The pages in the list are those that are not pinned, of caches that may lose them.
Listing(s, H) ==
  /\ Once(s.g.lru)
  /\ \A c \in PcCache :
       /\ IsFiniteSet(s.k[c].pages)
       /\ H[c] \subseteq s.k[c].pages
       /\ \A key \in PcKeys : <<c, key>> \in InLru(s.g) <=> key \in s.k[c].pages \ H[c]
       /\ s.k[c].nRecyclable = Cardinality(Of(c, InLru(s.g)))
  /\ \A pg \in InLru(s.g) : Purgeable(pg[1])

LEMMA InLruIs ==
  ASSUME NEW g \in GroupType
  PROVE  /\ InLru(g) = Members(g.lru) /\ InLru(g) \subseteq Pages /\ IsFiniteSet(InLru(g))
         /\ InLru(g) = {} <=> g.lru = <<>>
<1>1. g.lru \in Seq(Pages) /\ DOMAIN g.lru = 1..Len(g.lru) /\ Len(g.lru) \in Nat
  BY DEF GroupType
<1>2. InLru(g) = Members(g.lru)
  BY DEF InLru, Members
<1>3. \A i \in DOMAIN g.lru : g.lru[i] \in Pages
  BY <1>1
<1>4. IsFiniteSet(InLru(g))
  <2>1. IsFiniteSet(1..Len(g.lru))
    BY <1>1, FS_Interval
  <2>2. InLru(g) = {g.lru[i] : i \in 1..Len(g.lru)}
    BY <1>1 DEF InLru
  <2> DEFINE f == [i \in 1..Len(g.lru) |-> g.lru[i]]
  <2>3. f \in Surjection(1..Len(g.lru), InLru(g))
    BY <2>2 DEF Surjection
  <2> QED BY <2>1, <2>3, FS_Surjection
<1>5. InLru(g) = {} <=> g.lru = <<>>
  <2>1. InLru(g) = {} => Len(g.lru) = 0
    <3>1. SUFFICES ASSUME Len(g.lru) # 0 PROVE InLru(g) # {}
      OBVIOUS
    <3>2. 1 \in DOMAIN g.lru
      BY <1>1, <3>1
    <3> QED BY <3>2 DEF InLru
  <2>2. Len(g.lru) = 0 => g.lru = <<>>
    BY <1>1
  <2>3. g.lru = <<>> => InLru(g) = {}
    BY DEF InLru
  <2> QED BY <2>1, <2>2, <2>3
<1> QED BY <1>2, <1>3, <1>4, <1>5 DEF InLru

\* The pages of one cache among those of a finite set
LEMMA OfFinite ==
  ASSUME NEW P, IsFiniteSet(P), NEW c
  PROVE  IsFiniteSet(Of(c, P)) /\ Cardinality(Of(c, P)) \in Nat
<1>1. Of(c, P) \subseteq P
  BY DEF Of
<1> QED BY <1>1, FS_Subset, FS_CardinalityType

\* The caches keep their pages, and those of the list are counted if they were before.
SamePages(s, t) ==
  \A c \in PcCache : /\ t.k[c].pages = s.k[c].pages /\ t.k[c].open = s.k[c].open
                     /\ t.k[c].nMax = s.k[c].nMax
Recounted(s, t) ==
  \A c \in PcCache : s.k[c].nRecyclable = Cardinality(Of(c, InLru(s.g))) =>
                       t.k[c].nRecyclable = Cardinality(Of(c, InLru(t.g)))

\* pcache1PinPage()
LEMMA PinPageIs ==
  ASSUME NEW s \in PairType, NEW P
  PROVE  LET t == PinPage(s, P) IN
         /\ t \in PairType
         /\ t.g = [s.g EXCEPT !.lru = t.g.lru]
         /\ InLru(t.g) = InLru(s.g) \ P
         /\ Once(s.g.lru) => Once(t.g.lru)
         /\ SamePages(s, t) /\ Recounted(s, t)
<1> DEFINE t == PinPage(s, P)
           L == Without(s.g.lru, P)
<1>1. s.g \in GroupType /\ s.k \in [PcCache -> CacheType]
  BY DEF PairType
<1>2. L \in Seq(Pages) /\ Members(L) = Members(s.g.lru) \ P
      /\ (Once(s.g.lru) => Once(L))
  <2>1. s.g.lru \in Seq(Pages)
    BY <1>1 DEF GroupType
  <2> QED BY <2>1, WithoutIs
<1> HIDE DEF L
<1>3. t.g = [s.g EXCEPT !.lru = L]
  BY DEF PinPage, L
<1>4. t.g \in GroupType /\ t.g.lru = L
  BY <1>1, <1>2, <1>3 DEF GroupType
<1>5. InLru(t.g) = InLru(s.g) \ P
  BY <1>1, <1>2, <1>4, InLruIs
<1>6. ASSUME NEW c \in PcCache
      PROVE  /\ t.k[c] = [s.k[c] EXCEPT
                 !.nRecyclable = s.k[c].nRecyclable - Cardinality(Of(c, P) \cap InLru(s.g))]
             /\ Cardinality(Of(c, P) \cap InLru(s.g)) \in Nat
             /\ t.k[c] \in CacheType
  <2>1. t.k[c] = [s.k[c] EXCEPT
                 !.nRecyclable = s.k[c].nRecyclable - Cardinality(Of(c, P) \cap InLru(s.g))]
    BY DEF PinPage
  <2>2. Cardinality(Of(c, P) \cap InLru(s.g)) \in Nat
    <3>1. IsFiniteSet(InLru(s.g)) /\ Of(c, P) \cap InLru(s.g) \subseteq InLru(s.g)
      BY <1>1, InLruIs
    <3> QED BY <3>1, FS_Subset, FS_CardinalityType
  <2>3. s.k[c] \in CacheType
    BY <1>1
  <2>4. s.k[c].nRecyclable - Cardinality(Of(c, P) \cap InLru(s.g)) \in Int
    BY <2>2, <2>3 DEF CacheType
  <2>5. t.k[c] \in CacheType
    BY <2>1, <2>3, <2>4 DEF CacheType
  <2> QED BY <2>1, <2>2, <2>5
<1>7. t \in PairType
  <2>1. t = [g |-> t.g, k |-> t.k] /\ t.k = [c \in PcCache |-> t.k[c]]
    BY DEF PinPage
  <2>2. t.k \in [PcCache -> CacheType]
    BY <1>6, <2>1
  <2> QED BY <1>4, <2>1, <2>2 DEF PairType
<1>8. ASSUME NEW c \in PcCache, s.k[c].nRecyclable = Cardinality(Of(c, InLru(s.g)))
      PROVE  t.k[c].nRecyclable = Cardinality(Of(c, InLru(t.g)))
  <2>1. IsFiniteSet(Of(c, InLru(s.g)))
    BY <1>1, InLruIs, OfFinite
  <2>2. Of(c, InLru(t.g)) = Of(c, InLru(s.g)) \ P
        /\ Of(c, InLru(s.g)) \cap P = Of(c, P) \cap InLru(s.g)
    BY <1>5 DEF Of
  <2>3. Cardinality(Of(c, InLru(s.g)) \ P)
          = Cardinality(Of(c, InLru(s.g))) - Cardinality(Of(c, InLru(s.g)) \cap P)
    BY <2>1, FS_Difference
  <2>4. t.k[c].nRecyclable = s.k[c].nRecyclable - Cardinality(Of(c, P) \cap InLru(s.g))
    BY <1>1, <1>6 DEF CacheType
  <2> QED BY <1>8, <2>2, <2>3, <2>4
<1>9. t.g = [s.g EXCEPT !.lru = t.g.lru]
  BY <1>3, <1>4
<1>10. ASSUME NEW c \in PcCache
       PROVE  t.k[c].pages = s.k[c].pages /\ t.k[c].open = s.k[c].open
              /\ t.k[c].nMax = s.k[c].nMax
  BY <1>1, <1>6 DEF CacheType
<1> HIDE DEF t
<1>11. SamePages(s, t) /\ Recounted(s, t)
  BY <1>8, <1>10 DEF SamePages, Recounted
<1> QED BY <1>2, <1>4, <1>5, <1>7, <1>9, <1>11 DEF t

\* The numbers of the pages of c in P
Keys(c, P) == {pg[2] : pg \in Of(c, P)}

\* pcache1RemoveFromHash()
LEMMA RemoveFromHashIs ==
  ASSUME NEW s \in PairType, NEW P, P \subseteq Pages, IsFiniteSet(P)
  PROVE  LET t == RemoveFromHash(s, P) IN
         /\ t \in PairType /\ t.g = s.g
         /\ \A c \in PcCache :
              /\ t.k[c].pages = s.k[c].pages \ Keys(c, P)
              /\ t.k[c].nRecyclable = s.k[c].nRecyclable
              /\ t.k[c].open = s.k[c].open /\ t.k[c].nMax = s.k[c].nMax
<1> DEFINE t == RemoveFromHash(s, P)
<1>1. s = [g |-> s.g, k |-> s.k] /\ s.g \in GroupType /\ s.k \in [PcCache -> CacheType]
  BY DEF PairType
<1>2. t.g = s.g /\ t = [g |-> t.g, k |-> t.k] /\ t.k = [c \in PcCache |-> t.k[c]]
  <2> DEFINE K == [c \in PcCache |->
                     [s.k[c] EXCEPT !.pages = @ \ Keys(c, P),
                                    !.nPage = @ - Cardinality(Of(c, P))]]
  <2>1. t = [s EXCEPT !.k = K]
    BY DEF RemoveFromHash, Keys
  <2>2. K = [c \in PcCache |-> K[c]]
    OBVIOUS
  <2> HIDE DEF K, t
  <2>3. t = [g |-> s.g, k |-> K]
    BY <1>1, <2>1
  <2> QED BY <2>2, <2>3
<1>3. ASSUME NEW c \in PcCache
      PROVE  /\ t.k[c] = [s.k[c] EXCEPT
                 !.pages = s.k[c].pages \ Keys(c, P),
                 !.nPage = s.k[c].nPage - Cardinality(Of(c, P))]
             /\ t.k[c] \in CacheType
  <2>1. t.k[c] = [s.k[c] EXCEPT
                 !.pages = s.k[c].pages \ Keys(c, P),
                 !.nPage = s.k[c].nPage - Cardinality(Of(c, P))]
    BY <1>1 DEF RemoveFromHash, Keys
  <2>2. s.k[c] \in CacheType /\ Cardinality(Of(c, P)) \in Nat
    BY <1>1, OfFinite
  <2>3. s.k[c].nPage - Cardinality(Of(c, P)) \in Int
    BY <2>2 DEF CacheType
  <2>4. s.k[c].pages \ Keys(c, P) \in SUBSET PcKeys
    BY <2>2 DEF CacheType
  <2>5. t.k[c] \in CacheType
    BY <2>1, <2>2, <2>3, <2>4 DEF CacheType
  <2> QED BY <2>1, <2>5
<1>4. t \in PairType
  <2>1. t.k \in [PcCache -> CacheType]
    BY <1>2, <1>3
  <2> QED BY <1>1, <1>2, <2>1 DEF PairType
<1>5. ASSUME NEW c \in PcCache
      PROVE  /\ t.k[c].pages = s.k[c].pages \ Keys(c, P)
             /\ t.k[c].nRecyclable = s.k[c].nRecyclable
             /\ t.k[c].open = s.k[c].open /\ t.k[c].nMax = s.k[c].nMax
  BY <1>1, <1>3 DEF CacheType
<1> HIDE DEF t
<1> QED BY <1>2, <1>4, <1>5 DEF t

PurgeableOf(P) == {pg \in P : Purgeable(pg[1])}

\* pcache1FreePage()
LEMMA FreePageIs ==
  ASSUME NEW s \in PairType, NEW P, IsFiniteSet(P)
  PROVE  LET t == FreePage(s, P) IN
         /\ t \in PairType /\ t.k = s.k
         /\ t.g = [s.g EXCEPT !.nCurrentPage = t.g.nCurrentPage]
         /\ t.g.nCurrentPage = s.g.nCurrentPage - Cardinality(PurgeableOf(P))
         /\ Cardinality(PurgeableOf(P)) \in Nat
<1> DEFINE t == FreePage(s, P)
           n == s.g.nCurrentPage - Cardinality(PurgeableOf(P))
<1>1. s = [g |-> s.g, k |-> s.k] /\ s.g \in GroupType /\ s.k \in [PcCache -> CacheType]
  BY DEF PairType
<1>2. Cardinality(PurgeableOf(P)) \in Nat
  BY FS_Subset, FS_CardinalityType DEF PurgeableOf
<1>3. n \in Int
  BY <1>1, <1>2 DEF GroupType
<1>4. t.k = s.k /\ t.g = [s.g EXCEPT !.nCurrentPage = n] /\ t = [g |-> t.g, k |-> t.k]
  BY <1>1 DEF FreePage, PurgeableOf
<1> HIDE DEF n
<1>5. t.g \in GroupType /\ t.g.nCurrentPage = n
  BY <1>1, <1>3, <1>4 DEF GroupType
<1>6. t \in PairType
  BY <1>1, <1>4, <1>5 DEF PairType
<1> HIDE DEF t
<1> QED BY <1>2, <1>4, <1>5, <1>6 DEF t, n

\* A page that is freed is in no list, no cache and no longer counted.
LEMMA FreedIs ==
  ASSUME NEW s \in PairType, NEW P, P \subseteq Pages, IsFiniteSet(P)
  PROVE  LET t == Freed(s, P) IN
         /\ t \in PairType
         /\ t.g.nMaxPage = s.g.nMaxPage /\ t.g.nMinPage = s.g.nMinPage
         /\ t.g.nCurrentPage = s.g.nCurrentPage - Cardinality(PurgeableOf(P))
         /\ Cardinality(PurgeableOf(P)) \in Nat
         /\ InLru(t.g) = InLru(s.g) \ P
         /\ Once(s.g.lru) => Once(t.g.lru)
         /\ \A c \in PcCache :
              /\ t.k[c].pages = s.k[c].pages \ Keys(c, P)
              /\ t.k[c].open = s.k[c].open /\ t.k[c].nMax = s.k[c].nMax
              /\ s.k[c].nRecyclable = Cardinality(Of(c, InLru(s.g))) =>
                   t.k[c].nRecyclable = Cardinality(Of(c, InLru(t.g)))
<1> DEFINE a == PinPage(s, P)
           b == RemoveFromHash(a, P)
           t == FreePage(b, P)
<1>1. /\ a \in PairType /\ a.g = [s.g EXCEPT !.lru = a.g.lru]
      /\ InLru(a.g) = InLru(s.g) \ P
      /\ Once(s.g.lru) => Once(a.g.lru)
      /\ \A c \in PcCache :
              /\ a.k[c].pages = s.k[c].pages /\ a.k[c].open = s.k[c].open
              /\ a.k[c].nMax = s.k[c].nMax
              /\ s.k[c].nRecyclable = Cardinality(Of(c, InLru(s.g))) =>
                   a.k[c].nRecyclable = Cardinality(Of(c, InLru(a.g)))
  BY PinPageIs DEF SamePages, Recounted
<1> HIDE DEF a
<1>2. /\ b \in PairType /\ b.g = a.g
      /\ \A c \in PcCache :
              /\ b.k[c].pages = a.k[c].pages \ Keys(c, P)
              /\ b.k[c].nRecyclable = a.k[c].nRecyclable
              /\ b.k[c].open = a.k[c].open /\ b.k[c].nMax = a.k[c].nMax
  BY <1>1, RemoveFromHashIs
<1> HIDE DEF b
<1>3. /\ t \in PairType /\ t.k = b.k
      /\ t.g = [b.g EXCEPT !.nCurrentPage = t.g.nCurrentPage]
      /\ t.g.nCurrentPage = b.g.nCurrentPage - Cardinality(PurgeableOf(P))
      /\ Cardinality(PurgeableOf(P)) \in Nat
  BY <1>2, FreePageIs
<1>4. Freed(s, P) = t
  BY DEF Freed, a, b, t
<1> HIDE DEF t
<1>5. s.g \in GroupType /\ a.g \in GroupType /\ b.g \in GroupType
  BY <1>1, <1>2 DEF PairType
<1>6. /\ t.g.nMaxPage = s.g.nMaxPage /\ t.g.nMinPage = s.g.nMinPage
      /\ b.g.nCurrentPage = s.g.nCurrentPage /\ t.g.lru = a.g.lru
  <2>1. /\ a.g.nMaxPage = s.g.nMaxPage /\ a.g.nMinPage = s.g.nMinPage
        /\ a.g.nCurrentPage = s.g.nCurrentPage
    BY <1>1, <1>5 DEF GroupType
  <2>2. /\ t.g.nMaxPage = b.g.nMaxPage /\ t.g.nMinPage = b.g.nMinPage
        /\ t.g.lru = b.g.lru
    BY <1>3, <1>5 DEF GroupType
  <2> QED BY <1>2, <2>1, <2>2
<1>7. InLru(t.g) = InLru(a.g)
  BY <1>6 DEF InLru
<1>8. ASSUME NEW c \in PcCache
      PROVE  /\ t.k[c].pages = s.k[c].pages \ Keys(c, P)
             /\ t.k[c].open = s.k[c].open /\ t.k[c].nMax = s.k[c].nMax
             /\ s.k[c].nRecyclable = Cardinality(Of(c, InLru(s.g))) =>
                   t.k[c].nRecyclable = Cardinality(Of(c, InLru(t.g)))
  <2>1. /\ a.k[c].pages = s.k[c].pages /\ a.k[c].open = s.k[c].open
        /\ a.k[c].nMax = s.k[c].nMax
        /\ s.k[c].nRecyclable = Cardinality(Of(c, InLru(s.g))) =>
             a.k[c].nRecyclable = Cardinality(Of(c, InLru(a.g)))
    BY <1>1
  <2>2. /\ t.k[c].pages = a.k[c].pages \ Keys(c, P)
        /\ t.k[c].nRecyclable = a.k[c].nRecyclable
        /\ t.k[c].open = a.k[c].open /\ t.k[c].nMax = a.k[c].nMax
    BY <1>2, <1>3
  <2> QED BY <2>1, <2>2, <1>7
<1>9. /\ t.g.nCurrentPage = s.g.nCurrentPage - Cardinality(PurgeableOf(P))
      /\ InLru(t.g) = InLru(s.g) \ P
      /\ Once(s.g.lru) => Once(t.g.lru)
  BY <1>1, <1>3, <1>6, <1>7
<1> QED BY <1>3, <1>4, <1>6, <1>8, <1>9

\* The pages of P have left the list and the caches.
Less(s, t, P) ==
  /\ InLru(t.g) = InLru(s.g) \ P
  /\ Once(s.g.lru) => Once(t.g.lru)
  /\ \A c \in PcCache :
       /\ t.k[c].pages = s.k[c].pages \ Keys(c, P)
       /\ s.k[c].nRecyclable = Cardinality(Of(c, InLru(s.g))) =>
            t.k[c].nRecyclable = Cardinality(Of(c, InLru(t.g)))

\* Without the pages that go, the pinned ones are still pinned.
LEMMA LessLists ==
  ASSUME NEW s \in PairType, NEW t \in PairType, NEW P, P \subseteq Pages,
         NEW H, Listing(s, H),
         NEW G, \A c \in PcCache : G[c] = H[c] \ Keys(c, P),
         Less(s, t, P)
  PROVE  Listing(t, G)
<1> USE DEF Less
<1>2. Once(t.g.lru) /\ \A pg \in InLru(t.g) : Purgeable(pg[1])
  BY DEF Listing
<1>3. ASSUME NEW c \in PcCache
      PROVE  /\ IsFiniteSet(t.k[c].pages)
             /\ G[c] \subseteq t.k[c].pages
             /\ \A key \in PcKeys : <<c, key>> \in InLru(t.g) <=> key \in t.k[c].pages \ G[c]
             /\ t.k[c].nRecyclable = Cardinality(Of(c, InLru(t.g)))
  <2>1. /\ IsFiniteSet(s.k[c].pages) /\ H[c] \subseteq s.k[c].pages
        /\ \A key \in PcKeys : <<c, key>> \in InLru(s.g) <=> key \in s.k[c].pages \ H[c]
        /\ s.k[c].nRecyclable = Cardinality(Of(c, InLru(s.g)))
    BY DEF Listing
  <2>2. t.k[c].pages = s.k[c].pages \ Keys(c, P)
    OBVIOUS
  <2>3. IsFiniteSet(t.k[c].pages)
    BY <2>1, <2>2, FS_Subset
  <2>4. G[c] = H[c] \ Keys(c, P)
    OBVIOUS
  <2>5. \A key \in PcKeys : <<c, key>> \in P <=> key \in Keys(c, P)
    BY DEF Of, Pages, Keys
  <2>6. \A key \in PcKeys : <<c, key>> \in InLru(t.g) <=> key \in t.k[c].pages \ G[c]
    BY <2>1, <2>2, <2>4, <2>5
  <2>7. t.k[c].nRecyclable = Cardinality(Of(c, InLru(t.g)))
    BY <2>1
  <2>8. G[c] \subseteq t.k[c].pages
    BY <2>1, <2>2, <2>4
  <2> QED BY <2>3, <2>6, <2>7, <2>8
<1> QED BY <1>2, <1>3 DEF Listing

LEMMA FreedLists ==
  ASSUME NEW s \in PairType, NEW P, P \subseteq Pages, IsFiniteSet(P), NEW H, Listing(s, H),
         NEW G, \A c \in PcCache : G[c] = H[c] \ Keys(c, P)
  PROVE  Listing(Freed(s, P), G)
<1>1. Freed(s, P) \in PairType /\ Less(s, Freed(s, P), P)
  BY FreedIs DEF Less
<1> QED BY <1>1, LessLists

\* What the list says of the caches depends on the list and on their pages only.
LEMMA ListingSame ==
  ASSUME NEW s, NEW t, NEW H, Listing(s, H), t.g.lru = s.g.lru,
         \A c \in PcCache : /\ t.k[c].pages = s.k[c].pages
                            /\ t.k[c].nRecyclable = s.k[c].nRecyclable
  PROVE  Listing(t, H)
<1>1. InLru(t.g) = InLru(s.g)
  BY DEF InLru
<1> QED BY <1>1 DEF Listing

\* Pages that are not pinned may be freed behind the back of the caches.
LEMMA FreedUnpinned ==
  ASSUME NEW s \in PairType, NEW H, Listing(s, H), NEW P, P \subseteq InLru(s.g)
  PROVE  /\ P \subseteq Pages /\ IsFiniteSet(P)
         /\ Listing(Freed(s, P), H)
         /\ Cardinality(PurgeableOf(P)) = Cardinality(P)
<1>1. s.g \in GroupType /\ s.k \in [PcCache -> CacheType]
  BY DEF PairType
<1>2. P \subseteq Pages /\ IsFiniteSet(P)
  BY <1>1, InLruIs, FS_Subset
<1>3. PurgeableOf(P) = P
  BY DEF PurgeableOf, Listing
<1>4. ASSUME NEW c \in PcCache PROVE H[c] = H[c] \ Keys(c, P)
  <2>1. ASSUME NEW pg \in P, pg[1] = c PROVE pg[2] \notin H[c]
    <3>1. pg = <<c, pg[2]>> /\ pg[2] \in PcKeys /\ pg \in InLru(s.g)
      BY <1>2, <2>1 DEF Pages
    <3> QED BY <3>1 DEF Listing
  <2> QED BY <2>1 DEF Of, Keys
<1>5. Listing(Freed(s, P), H)
  BY <1>2, <1>4, FreedLists
<1> QED BY <1>2, <1>3, <1>5

-----------------------------------------------------------------------------
(* The budget of the group *)

\* "in" pages are being allocated, of at most "n".
Within(g, in, n) == g.lru # <<>> => g.nCurrentPage + in < g.nMaxPage + n

\* The pages from the tail of the list on
LEMMA TailIs ==
  ASSUME NEW g \in GroupType, Once(g.lru), NEW n \in 0..Len(g.lru)
  PROVE  LET P == {g.lru[i] : i \in (Len(g.lru) - n + 1)..Len(g.lru)} IN
         /\ P \subseteq InLru(g) /\ Cardinality(P) = n
         /\ n = Len(g.lru) => P = InLru(g)
<1> DEFINE m == Len(g.lru)
           I == (m - n + 1)..m
           P == {g.lru[i] : i \in I}
           f == [i \in I |-> g.lru[i]]
<1>1. g.lru \in Seq(Pages) /\ DOMAIN g.lru = 1..m /\ m \in Nat /\ n \in Nat /\ n <= m
  BY DEF GroupType
<1>2. I \subseteq DOMAIN g.lru /\ (n = m => I = DOMAIN g.lru)
  BY <1>1
<1>3. IsFiniteSet(I) /\ Cardinality(I) = n
  <2>1. m - n + 1 \in Int /\ m \in Int
    BY <1>1
  <2>2. IsFiniteSet(I) /\ Cardinality(I) = IF m - n + 1 > m THEN 0 ELSE m - (m - n + 1) + 1
    <3> HIDE DEF m
    <3> QED BY <2>1, FS_Interval
  <2> QED BY <1>1, <2>2
<1>4. f \in Bijection(I, P)
  <2>1. f \in Surjection(I, P)
    BY DEF Surjection
  <2>2. \A i, j \in I : f[i] = f[j] => i = j
    BY <1>2 DEF Once
  <2>3. f \in Injection(I, P)
    <3> HIDE DEF f, I, P
    <3> QED BY <2>1, <2>2 DEF Injection, Surjection, IsInjective
  <2> QED BY <2>1, <2>3 DEF Bijection
<1>5. Cardinality(P) = n
  <2>1. ExistsBijection(I, P)
    BY <1>4 DEF ExistsBijection
  <2> HIDE DEF f, I, P
  <2> QED BY <1>3, <2>1, FS_Bijection
<1> QED BY <1>2, <1>5 DEF InLru

\* pcache1EnforceMaxPage() leaves no page in the list, or the group within its limit.
LEMMA EnforceMaxPageIs ==
  ASSUME NEW s \in PairType, NEW H, Listing(s, H), NEW max \in Int
  PROVE  LET t == EnforceMaxPage(s, max) IN
         /\ t \in PairType /\ Listing(t, H)
         /\ t.g.nMaxPage = s.g.nMaxPage /\ t.g.nMinPage = s.g.nMinPage
         /\ t.g.nCurrentPage <= s.g.nCurrentPage
         /\ InLru(t.g) \subseteq InLru(s.g)
         /\ t.g.lru # <<>> => t.g.nCurrentPage <= max
         /\ \A c \in PcCache :
              /\ t.k[c].pages \subseteq s.k[c].pages
              /\ t.k[c].open = s.k[c].open /\ t.k[c].nMax = s.k[c].nMax
<1> DEFINE over == s.g.nCurrentPage - max
           m == Len(s.g.lru)
           n == IF over <= 0 THEN 0 ELSE IF over > m THEN m ELSE over
           P == {s.g.lru[i] : i \in (m - n + 1)..m}
           t == Freed(s, P)
<1>1. s.g \in GroupType /\ s.k \in [PcCache -> CacheType] /\ Once(s.g.lru)
  BY DEF PairType, Listing
<1>2. m \in Nat /\ over \in Int /\ s.g.nCurrentPage \in Int /\ s.g.lru \in Seq(Pages)
  BY <1>1 DEF GroupType
<1>3. n \in 0..m
  BY <1>2
<1>4. EnforceMaxPage(s, max) = t
  BY DEF EnforceMaxPage
<1>5. P \subseteq InLru(s.g) /\ Cardinality(P) = n /\ (n = m => P = InLru(s.g))
  <2> HIDE DEF n
  <2> QED BY <1>1, <1>3, TailIs
<1> HIDE DEF P
<1>6. /\ P \subseteq Pages /\ IsFiniteSet(P) /\ Listing(t, H)
      /\ Cardinality(PurgeableOf(P)) = n
  BY <1>5, FreedUnpinned
<1>7. /\ t \in PairType
      /\ t.g.nMaxPage = s.g.nMaxPage /\ t.g.nMinPage = s.g.nMinPage
      /\ t.g.nCurrentPage = s.g.nCurrentPage - n
      /\ InLru(t.g) = InLru(s.g) \ P
      /\ \A c \in PcCache :
              /\ t.k[c].pages = s.k[c].pages \ Keys(c, P)
              /\ t.k[c].open = s.k[c].open /\ t.k[c].nMax = s.k[c].nMax
  <2>1. /\ t \in PairType
        /\ t.g.nMaxPage = s.g.nMaxPage /\ t.g.nMinPage = s.g.nMinPage
        /\ t.g.nCurrentPage = s.g.nCurrentPage - Cardinality(PurgeableOf(P))
        /\ InLru(t.g) = InLru(s.g) \ P
        /\ \A c \in PcCache :
              /\ t.k[c].pages = s.k[c].pages \ Keys(c, P)
              /\ t.k[c].open = s.k[c].open /\ t.k[c].nMax = s.k[c].nMax
    <3> HIDE DEF n
    <3>1. P \subseteq Pages /\ IsFiniteSet(P)
      BY <1>6
    <3>2. /\ t \in PairType
          /\ t.g.nMaxPage = s.g.nMaxPage /\ t.g.nMinPage = s.g.nMinPage
          /\ t.g.nCurrentPage = s.g.nCurrentPage - Cardinality(PurgeableOf(P))
          /\ InLru(t.g) = InLru(s.g) \ P
      BY <3>1, FreedIs
    <3>3. ASSUME NEW c \in PcCache
          PROVE  /\ t.k[c].pages = s.k[c].pages \ Keys(c, P)
                 /\ t.k[c].open = s.k[c].open /\ t.k[c].nMax = s.k[c].nMax
      BY <3>1, FreedIs
    <3> HIDE DEF t
    <3> QED BY <3>2, <3>3
  <2> HIDE DEF n, t
  <2> QED BY <1>6, <2>1
<1> HIDE DEF t
<1>8. t.g.lru # <<>> => t.g.nCurrentPage <= max
  <2>1. SUFFICES ASSUME t.g.lru # <<>> PROVE t.g.nCurrentPage <= max
    OBVIOUS
  <2>2. n # m
    <3>1. SUFFICES ASSUME n = m PROVE FALSE
      OBVIOUS
    <3>2. InLru(t.g) = {} /\ t.g \in GroupType
      BY <1>5, <1>7, <3>1 DEF PairType
    <3> QED BY <2>1, <3>2, InLruIs
  <2> QED BY <1>2, <1>7, <2>2
<1>9. t.g.nCurrentPage <= s.g.nCurrentPage
  BY <1>2, <1>3, <1>7
<1> HIDE DEF n
<1> QED BY <1>4, <1>6, <1>7, <1>8, <1>9

-----------------------------------------------------------------------------
(* The invariant *)

FetchType == [st : {"idle", "hash", "alloc"}, key : Nat]

\* The caches for which a page that counts is being allocated
InAlloc == {c \in PcCache : Purgeable(c) /\ fetch[c].st = "alloc"}

FetchAt(c) ==
  /\ fetch[c].st # "idle" => pc1[c].open /\ fetch[c].key \in PcKeys \ pc1[c].pages
  /\ ~pc1[c].open => pc1[c].pages = {}

PcTypeOK ==
  /\ Group \in PairType
  /\ fetch \in [PcCache -> FetchType]
  /\ held \in [PcCache -> SUBSET PcKeys]
  /\ pcEnv \in PcSetupType

PcInv ==
  /\ PcTypeOK
  /\ Listing(Group, held)
  /\ \A c \in PcCache : FetchAt(c)
  /\ Within(grp, Cardinality(InAlloc), Cardinality(PcCache))

LEMMA Stored ==
  ASSUME NEW t \in PairType, Store(t)
  PROVE  grp' = t.g /\ pc1' = t.k /\ Group' = t
BY DEF Store, PairType, Group

LEMMA GroupIs ==
  ASSUME PcTypeOK
  PROVE  /\ Group.g = grp /\ Group.k = pc1 /\ Group = [g |-> grp, k |-> pc1]
         /\ grp \in GroupType /\ pc1 \in [PcCache -> CacheType]
         /\ grp.nCurrentPage \in Int /\ grp.nMaxPage \in Int /\ grp.nMinPage \in Int
BY DEF PcTypeOK, PairType, Group, GroupType

LEMMA NoCacheIs == NoCache \in CacheType
BY DEF NoCache, CacheType

\* What is spent leaves the configuration as it is.
LEMMA Spent ==
  ASSUME PcTypeOK, NEW k \in {"fetches", "sizes", "closes", "faults"}, PcSpend(k)
  PROVE  pcEnv' \in PcSetupType /\ pcEnv'.purgeable = pcEnv.purgeable
BY DEF PcTypeOK, PcSpend, PcSetupType

LEMMA SamePurgeable ==
  ASSUME pcEnv'.purgeable = pcEnv.purgeable
  PROVE  /\ \A c : Purgeable(c)' <=> Purgeable(c)
         /\ \A s, H : Listing(s, H)' <=> Listing(s, H)
<1>1. \A c : Purgeable(c)' <=> Purgeable(c)
  BY DEF Purgeable
<1> QED BY <1>1 DEF Listing

LEMMA AllocFinite ==
  /\ IsFiniteSet(InAlloc) /\ Cardinality(InAlloc) \in Nat
  /\ Cardinality(InAlloc) <= Cardinality(PcCache) /\ Cardinality(PcCache) \in Nat
BY PcAssumption, FS_Subset, FS_CardinalityType DEF InAlloc

\* One that does not allocate leaves room.
LEMMA AllocNotAll ==
  ASSUME NEW c \in PcCache, c \notin InAlloc
  PROVE  Cardinality(InAlloc) < Cardinality(PcCache)
<1>1. InAlloc \subseteq PcCache /\ InAlloc # PcCache
  BY DEF InAlloc
<1> QED BY <1>1, AllocFinite, PcAssumption, FS_Subset

\* A step of the cache whose new state is the pair t
LEMMA PcStep ==
  ASSUME PcInv, NEW t \in PairType, Store(t), NEW H, held' = H, Listing(t, H),
         H \in [PcCache -> SUBSET PcKeys],
         pcEnv' \in PcSetupType, pcEnv'.purgeable = pcEnv.purgeable,
         fetch' \in [PcCache -> FetchType],
         \A c \in PcCache :
           /\ fetch'[c].st # "idle" => t.k[c].open /\ fetch'[c].key \in PcKeys \ t.k[c].pages
           /\ ~t.k[c].open => t.k[c].pages = {},
         Within(t.g, Cardinality(InAlloc'), Cardinality(PcCache))
  PROVE  PcInv'
<1>1. grp' = t.g /\ pc1' = t.k /\ Group' = t
  BY Stored
<1>2. PcTypeOK'
  BY <1>1 DEF PcTypeOK
<1>3. Listing(Group, held)'
  BY <1>1, SamePurgeable DEF Listing
<1>4. (\A c \in PcCache : FetchAt(c))'
  BY <1>1 DEF FetchAt
<1>5. Within(grp, Cardinality(InAlloc), Cardinality(PcCache))'
  BY <1>1 DEF Within
<1> QED BY <1>2, <1>3, <1>4, <1>5 DEF PcInv

\* Nobody's fetch moves.
LEMMA AllocSame ==
  ASSUME fetch' = fetch, pcEnv'.purgeable = pcEnv.purgeable
  PROVE  InAlloc' = InAlloc
BY DEF InAlloc, Purgeable

\* A step that takes no page into a cache, of a cache that is not fetching
LEMMA QuietStep ==
  ASSUME PcInv, NEW t \in PairType, Store(t), NEW H, held' = H, Listing(t, H),
         H \in [PcCache -> SUBSET PcKeys], UNCHANGED fetch,
         pcEnv' \in PcSetupType, pcEnv'.purgeable = pcEnv.purgeable,
         \A c \in PcCache :
           /\ t.k[c].open = pc1[c].open /\ t.k[c].pages \subseteq pc1[c].pages,
         Within(t.g, Cardinality(InAlloc), Cardinality(PcCache))
  PROVE  PcInv'
<1>1. InAlloc' = InAlloc
  BY AllocSame
<1>2. fetch' \in [PcCache -> FetchType]
  BY DEF PcInv, PcTypeOK
<1>3. \A c \in PcCache :
           /\ fetch'[c].st # "idle" => t.k[c].open /\ fetch'[c].key \in PcKeys \ t.k[c].pages
           /\ ~t.k[c].open => t.k[c].pages = {}
  BY DEF PcInv, FetchAt
<1> QED BY <1>1, <1>2, <1>3, PcStep

\* Fewer pages, of which no more are in the list, are within the same limit.
LEMMA WithinLess ==
  ASSUME PcInv, NEW t \in PairType, InLru(t.g) \subseteq InLru(grp),
         t.g.nMaxPage = grp.nMaxPage, t.g.nCurrentPage <= grp.nCurrentPage
  PROVE  Within(t.g, Cardinality(InAlloc), Cardinality(PcCache))
<1>1. grp \in GroupType /\ t.g \in GroupType /\ grp.nCurrentPage \in Int /\ t.g.nCurrentPage \in Int
      /\ grp.nMaxPage \in Int
  BY GroupIs DEF PcInv, PairType, GroupType
<1>2. t.g.lru # <<>> => grp.lru # <<>>
  BY <1>1, InLruIs
<1> QED BY <1>1, <1>2, AllocFinite DEF PcInv, Within

\* A group that is within its limit, beside a cache that does not allocate
LEMMA WithinMax ==
  ASSUME NEW t \in PairType, NEW c \in PcCache, c \notin InAlloc,
         t.g.lru # <<>> => t.g.nCurrentPage <= t.g.nMaxPage
  PROVE  Within(t.g, Cardinality(InAlloc), Cardinality(PcCache))
<1>1. t.g.nCurrentPage \in Int /\ t.g.nMaxPage \in Int
  BY DEF PairType, GroupType
<1> QED BY <1>1, AllocNotAll, AllocFinite DEF Within

-----------------------------------------------------------------------------
(* Steps *)

\* sqlite3PcacheReleaseMemory()
LEMMA ReleaseMemoryInv == ASSUME PcInv, PcReleaseMemory PROVE PcInv'
<1> DEFINE P == {LruTail(grp)}
<1>1. /\ Group \in PairType /\ Listing(Group, held) /\ Group.g = grp /\ Group.k = pc1
      /\ grp \in GroupType
  BY GroupIs DEF PcInv, PcTypeOK
<1>2. P \subseteq InLru(grp)
  <2>1. grp.lru \in Seq(Pages) /\ grp.lru # <<>>
    BY <1>1 DEF PcReleaseMemory, GroupType
  <2>2. Len(grp.lru) \in DOMAIN grp.lru
    BY <2>1
  <2> QED BY <2>2 DEF InLru, LruTail
<1> HIDE DEF P
<1>3. PICK t : t = Freed(Group, P)
  OBVIOUS
<1>4. P \subseteq Pages /\ IsFiniteSet(P) /\ Listing(t, held)
  BY <1>1, <1>2, <1>3, FreedUnpinned
<1>5. /\ t \in PairType
      /\ t.g.nMaxPage = grp.nMaxPage
      /\ t.g.nCurrentPage = grp.nCurrentPage - Cardinality(PurgeableOf(P))
      /\ Cardinality(PurgeableOf(P)) \in Nat
      /\ InLru(t.g) = InLru(grp) \ P
      /\ \A c \in PcCache : /\ t.k[c].pages = pc1[c].pages \ Keys(c, P)
                            /\ t.k[c].open = pc1[c].open
  BY <1>1, <1>3, <1>4, FreedIs
<1>6. Within(t.g, Cardinality(InAlloc), Cardinality(PcCache))
  <2>1. t.g.nCurrentPage <= grp.nCurrentPage
    BY <1>5, GroupIs DEF PcInv
  <2> QED BY <1>5, <2>1, WithinLess
<1>7. pcEnv' \in PcSetupType /\ pcEnv'.purgeable = pcEnv.purgeable
  BY Spent DEF PcReleaseMemory, PcInv
<1>8. Store(t) /\ UNCHANGED fetch /\ held' = held /\ held \in [PcCache -> SUBSET PcKeys]
  BY <1>3 DEF PcReleaseMemory, P, PcInv, PcTypeOK
<1>9. \A c \in PcCache : t.k[c].open = pc1[c].open /\ t.k[c].pages \subseteq pc1[c].pages
  BY <1>5
<1> QED BY <1>4, <1>5, <1>6, <1>7, <1>8, <1>9, QuietStep

\* pcache1Create()
LEMMA CreateInv == ASSUME PcInv, NEW c \in PcCache, NEW n \in PcSizes, PcCreate(c, n) PROVE PcInv'
<1> DEFINE g == [grp EXCEPT !.nMinPage = @ + NMin * Purge(c), !.nMaxPage = @ + n * Purge(c)]
           k == [pc1 EXCEPT ![c] = [NoCache EXCEPT !.open = TRUE, !.nMax = n * Purge(c)]]
           s == [g |-> g, k |-> k]
<1>1. /\ Group \in PairType /\ Listing(Group, held) /\ Group.g = grp /\ Group.k = pc1
      /\ grp \in GroupType /\ pc1 \in [PcCache -> CacheType]
      /\ grp.nCurrentPage \in Int /\ grp.nMaxPage \in Int /\ grp.nMinPage \in Int
  BY GroupIs DEF PcInv, PcTypeOK
<1>2. NMin * Purge(c) \in Nat /\ n * Purge(c) \in Nat
  <2>1. NMin \in Nat /\ n \in Nat
    BY PcAssumption
  <2>2. Purge(c) = 0 \/ Purge(c) = 1
    BY DEF Purge
  <2>3. NMin * 0 = 0 /\ NMin * 1 = NMin /\ n * 0 = 0 /\ n * 1 = n
    BY <2>1
  <2> QED BY <2>1, <2>2, <2>3
<1>3. g \in GroupType /\ g.lru = grp.lru /\ g.nMaxPage = grp.nMaxPage + n * Purge(c)
      /\ g.nCurrentPage = grp.nCurrentPage
  <2>1. grp.nMinPage + NMin * Purge(c) \in Int /\ grp.nMaxPage + n * Purge(c) \in Int
    BY <1>1, <1>2
  <2> QED BY <1>1, <2>1 DEF GroupType
<1>4. [NoCache EXCEPT !.open = TRUE, !.nMax = n * Purge(c)] \in CacheType
  <2> DEFINE x == n * Purge(c)
  <2>1. x \in Int
    BY <1>2
  <2> HIDE DEF x
  <2>2. [NoCache EXCEPT !.open = TRUE, !.nMax = x] \in CacheType
    BY <2>1, NoCacheIs DEF CacheType
  <2> QED BY <2>2 DEF x
<1>5. k \in [PcCache -> CacheType] /\ s \in PairType
  BY <1>1, <1>3, <1>4 DEF PairType
<1>6. /\ ~pc1[c].open /\ pc1[c].pages = {} /\ fetch[c].st = "idle" /\ held[c] = {}
      /\ UNCHANGED <<fetch, held, pcEnv>>
      /\ Store(IF Purgeable(c) THEN EnforceMaxPage(s, s.g.nMaxPage) ELSE s)
  <2>1. ~pc1[c].open /\ UNCHANGED <<fetch, held, pcEnv>>
        /\ Store(IF Purgeable(c) THEN EnforceMaxPage(s, s.g.nMaxPage) ELSE s)
    BY DEF PcCreate
  <2>2. pc1[c].pages = {} /\ fetch[c].st = "idle"
    BY <2>1 DEF PcInv, FetchAt, PcTypeOK, FetchType
  <2>3. held[c] \subseteq pc1[c].pages
    BY <1>1 DEF Listing
  <2> QED BY <2>1, <2>2, <2>3
<1>7. /\ k[c].pages = {} /\ k[c].nRecyclable = 0 /\ k[c].open
      /\ \A d \in PcCache \ {c} : k[d] = pc1[d]
  BY <1>1 DEF NoCache
<1>8. Listing(s, held)
  <2>1. Cardinality(Of(c, InLru(grp))) = 0
    <3>1. pc1[c].nRecyclable = Cardinality(Of(c, InLru(grp)))
          /\ \A key \in PcKeys : <<c, key>> \notin InLru(grp)
      BY <1>1, <1>6 DEF Listing
    <3>2. \A pg \in InLru(grp) : pg[1] # c
      BY <1>1, <3>1, InLruIs DEF Pages
    <3>3. Of(c, InLru(grp)) = {}
      BY <3>2 DEF Of
    <3> QED BY <3>3, FS_EmptySet
  <2>2. \A d \in PcCache : k[d].pages = pc1[d].pages /\ k[d].nRecyclable = pc1[d].nRecyclable
    <3>1. pc1[c].nRecyclable = 0
      BY <1>1, <2>1 DEF Listing
    <3> QED BY <1>6, <1>7, <3>1
  <2>3. s.g.lru = Group.g.lru /\ s.k = k /\ Group.k = pc1
    BY <1>1, <1>3
  <2> HIDE DEF s, k
  <2> QED BY <1>1, <2>2, <2>3, ListingSame
<1> HIDE DEF g, k
<1>9. PICK t : t = IF Purgeable(c) THEN EnforceMaxPage(s, s.g.nMaxPage) ELSE s
  OBVIOUS
<1>10. /\ t \in PairType /\ Listing(t, held)
       /\ t.g.nMaxPage = g.nMaxPage /\ t.g.nCurrentPage <= g.nCurrentPage
       /\ InLru(t.g) \subseteq InLru(g)
       /\ Purgeable(c) => (t.g.lru # <<>> => t.g.nCurrentPage <= t.g.nMaxPage)
       /\ \A d \in PcCache : t.k[d].pages \subseteq k[d].pages /\ t.k[d].open = k[d].open
  <2>1. s.g.nMaxPage \in Int /\ s.g = g /\ s.k = k /\ g.nCurrentPage \in Int
    BY <1>3 DEF GroupType
  <2>2. CASE Purgeable(c)
    <3>1. t = EnforceMaxPage(s, s.g.nMaxPage)
      BY <1>9, <2>2
    <3> HIDE DEF s
    <3>2. /\ t \in PairType /\ Listing(t, held)
          /\ t.g.nMaxPage = s.g.nMaxPage /\ t.g.nCurrentPage <= s.g.nCurrentPage
          /\ InLru(t.g) \subseteq InLru(s.g)
          /\ t.g.lru # <<>> => t.g.nCurrentPage <= s.g.nMaxPage
      BY <1>5, <1>8, <2>1, <3>1, EnforceMaxPageIs
    <3>3. \A d \in PcCache : t.k[d].pages \subseteq s.k[d].pages /\ t.k[d].open = s.k[d].open
      BY <1>5, <1>8, <2>1, <3>1, EnforceMaxPageIs
    <3> QED BY <2>1, <3>2, <3>3
  <2>3. CASE ~Purgeable(c)
    BY <1>5, <1>8, <1>9, <2>1, <2>3
  <2> QED BY <2>2, <2>3
<1>11. c \notin InAlloc
  BY <1>6 DEF InAlloc
<1>12. Within(t.g, Cardinality(InAlloc), Cardinality(PcCache))
  <2>1. CASE Purgeable(c)
    BY <1>10, <1>11, <2>1, WithinMax
  <2>2. CASE ~Purgeable(c)
    <3>1. g.nMaxPage = grp.nMaxPage
      BY <1>1, <1>2, <1>3, <2>2, PcAssumption DEF Purge
    <3>2. InLru(t.g) \subseteq InLru(grp)
      BY <1>3, <1>10 DEF InLru
    <3> QED BY <1>3, <1>10, <3>1, <3>2, WithinLess
  <2> QED BY <2>1, <2>2
<1>13. Store(t)
  BY <1>6, <1>9
<1>14. \A d \in PcCache :
           /\ fetch'[d].st # "idle" => t.k[d].open /\ fetch'[d].key \in PcKeys \ t.k[d].pages
           /\ ~t.k[d].open => t.k[d].pages = {}
  <2>1. SUFFICES ASSUME NEW d \in PcCache
                 PROVE  /\ fetch[d].st # "idle" => t.k[d].open /\ fetch[d].key \in PcKeys \ t.k[d].pages
                        /\ ~t.k[d].open => t.k[d].pages = {}
    BY <1>6
  <2>2. CASE d = c
    BY <1>6, <1>7, <1>10, <2>2
  <2>3. CASE d # c
    BY <1>7, <1>10, <2>3 DEF PcInv, FetchAt
  <2> QED BY <2>2, <2>3
<1>15. InAlloc' = InAlloc
  BY <1>6, AllocSame
<1>16. /\ held' = held /\ held \in [PcCache -> SUBSET PcKeys]
       /\ pcEnv' \in PcSetupType /\ pcEnv'.purgeable = pcEnv.purgeable
       /\ fetch' \in [PcCache -> FetchType]
  BY <1>6 DEF PcInv, PcTypeOK
<1> QED BY <1>10, <1>12, <1>13, <1>14, <1>15, <1>16, PcStep

\* The facts about the state that every step starts from
LEMMA GroupStart ==
  ASSUME PcInv
  PROVE  /\ Group \in PairType /\ Listing(Group, held) /\ Group.g = grp /\ Group.k = pc1
         /\ grp \in GroupType /\ pc1 \in [PcCache -> CacheType]
         /\ grp.nCurrentPage \in Int /\ grp.nMaxPage \in Int /\ grp.nMinPage \in Int
         /\ held \in [PcCache -> SUBSET PcKeys] /\ fetch \in [PcCache -> FetchType]
BY GroupIs DEF PcInv, PcTypeOK

LEMMA IdleIs ==
  ASSUME NEW c \in PcCache, Idle(c)
  PROVE  c \notin InAlloc /\ pc1[c].open
BY DEF Idle, InAlloc

\* pcache1Cachesize()
LEMMA CachesizeInv ==
  ASSUME PcInv, NEW c \in PcCache, NEW n \in PcSizes, PcCachesize(c, n) PROVE PcInv'
<1> DEFINE g == [grp EXCEPT !.nMaxPage = @ + n - pc1[c].nMax]
           k == [pc1 EXCEPT ![c].nMax = n]
           s == [g |-> g, k |-> k]
<1>1. n \in Int /\ pc1[c].nMax \in Int /\ pc1[c] \in CacheType
  BY GroupStart, PcAssumption DEF CacheType
<1>2. g \in GroupType /\ g.lru = grp.lru
  <2>1. grp.nMaxPage + n - pc1[c].nMax \in Int
    BY <1>1, GroupStart
  <2> QED BY <2>1, GroupStart DEF GroupType
<1>3. k \in [PcCache -> CacheType]
      /\ \A d \in PcCache : /\ k[d].pages = pc1[d].pages /\ k[d].nRecyclable = pc1[d].nRecyclable
                            /\ k[d].open = pc1[d].open
  <2>1. [pc1[c] EXCEPT !.nMax = n] \in CacheType
    BY <1>1 DEF CacheType
  <2>2. k = [pc1 EXCEPT ![c] = [pc1[c] EXCEPT !.nMax = n]]
    BY GroupStart
  <2>3. ASSUME NEW d \in PcCache
        PROVE  /\ k[d].pages = pc1[d].pages /\ k[d].nRecyclable = pc1[d].nRecyclable
               /\ k[d].open = pc1[d].open
    BY <1>1, GroupStart DEF CacheType
  <2> HIDE DEF k
  <2> QED BY <2>1, <2>2, <2>3, GroupStart
<1> HIDE DEF g, k
<1>4. s \in PairType /\ s.g = g /\ s.k = k
  BY <1>2, <1>3 DEF PairType
<1>5. Idle(c) /\ UNCHANGED <<fetch, held>> /\ Store(EnforceMaxPage(s, s.g.nMaxPage))
      /\ pcEnv' \in PcSetupType /\ pcEnv'.purgeable = pcEnv.purgeable
  BY Spent DEF PcCachesize, PcInv, g, k
<1> HIDE DEF s
<1>6. Listing(s, held)
  BY <1>2, <1>3, <1>4, GroupStart, ListingSame
<1>7. PICK t : t = EnforceMaxPage(s, s.g.nMaxPage)
  OBVIOUS
<1>8. s.g.nMaxPage \in Int
  BY <1>4 DEF PairType, GroupType
<1>9. /\ t \in PairType /\ Listing(t, held)
      /\ t.g.nMaxPage = s.g.nMaxPage
      /\ t.g.lru # <<>> => t.g.nCurrentPage <= s.g.nMaxPage
  BY <1>4, <1>6, <1>7, <1>8, EnforceMaxPageIs
<1>10. \A d \in PcCache : t.k[d].pages \subseteq s.k[d].pages /\ t.k[d].open = s.k[d].open
  BY <1>4, <1>6, <1>7, <1>8, EnforceMaxPageIs
<1>11. Within(t.g, Cardinality(InAlloc), Cardinality(PcCache))
  BY <1>5, <1>9, IdleIs, WithinMax
<1>12. \A d \in PcCache : t.k[d].open = pc1[d].open /\ t.k[d].pages \subseteq pc1[d].pages
  BY <1>3, <1>4, <1>10
<1> QED BY <1>5, <1>7, <1>9, <1>11, <1>12, GroupStart, QuietStep

\* pcache1Shrink()
LEMMA ShrinkInv == ASSUME PcInv, NEW c \in PcCache, PcShrink(c) PROVE PcInv'
<1>1. UNCHANGED <<fetch, held>> /\ Store(EnforceMaxPage(Group, 0))
      /\ pcEnv' \in PcSetupType /\ pcEnv'.purgeable = pcEnv.purgeable
  BY Spent DEF PcShrink, PcInv
<1>2. PICK t : t = EnforceMaxPage(Group, 0)
  OBVIOUS
<1>3. /\ t \in PairType /\ Listing(t, held)
      /\ t.g.nMaxPage = grp.nMaxPage /\ t.g.nCurrentPage <= grp.nCurrentPage
      /\ InLru(t.g) \subseteq InLru(grp)
  <2>1. Group \in PairType /\ Listing(Group, held) /\ 0 \in Int
    BY GroupStart
  <2>2. /\ t \in PairType /\ Listing(t, held)
        /\ t.g.nMaxPage = Group.g.nMaxPage /\ t.g.nCurrentPage <= Group.g.nCurrentPage
        /\ InLru(t.g) \subseteq InLru(Group.g)
    BY <1>2, <2>1, EnforceMaxPageIs
  <2> QED BY <2>2, GroupStart
<1>4. ASSUME NEW d \in PcCache
      PROVE  t.k[d].open = pc1[d].open /\ t.k[d].pages \subseteq pc1[d].pages
  <2>1. Group \in PairType /\ Listing(Group, held) /\ 0 \in Int
    BY GroupStart
  <2>2. t.k[d].open = Group.k[d].open /\ t.k[d].pages \subseteq Group.k[d].pages
    BY <1>2, <2>1, EnforceMaxPageIs
  <2> QED BY <2>2, GroupStart
<1>5. Within(t.g, Cardinality(InAlloc), Cardinality(PcCache))
  BY <1>3, WithinLess
<1> QED BY <1>1, <1>2, <1>3, <1>4, <1>5, GroupStart, QuietStep

\* A page that is in no list is pinned, and the other way round.
LEMMA HeldNotListed ==
  ASSUME PcInv, NEW c \in PcCache, NEW key \in PcKeys
  PROVE  /\ <<c, key>> \in InLru(grp) <=> key \in pc1[c].pages \ held[c]
         /\ held[c] \subseteq pc1[c].pages /\ IsFiniteSet(pc1[c].pages)
         /\ pc1[c].nRecyclable = Cardinality(Of(c, InLru(grp)))
BY GroupStart DEF Listing

\* pcache1Fetch(): the page is there.
LEMMA FetchHitInv ==
  ASSUME PcInv, NEW c \in PcCache, NEW key \in PcKeys, FetchHit(c, key) PROVE PcInv'
<1> DEFINE P == {<<c, key>>}
           H == [held EXCEPT ![c] = @ \cup {key}]
<1>1. /\ key \in pc1[c].pages /\ key \notin held[c]
      /\ Store(PinPage(Group, P)) /\ held' = H /\ UNCHANGED fetch
      /\ pcEnv' \in PcSetupType /\ pcEnv'.purgeable = pcEnv.purgeable
  BY Spent DEF FetchHit, PcInv
<1>2. PICK t : t = PinPage(Group, P)
  OBVIOUS
<1>3. /\ t \in PairType
      /\ t.g = [grp EXCEPT !.lru = t.g.lru]
      /\ InLru(t.g) = InLru(grp) \ P
      /\ Once(grp.lru) => Once(t.g.lru)
  <2>1. Group \in PairType
    BY GroupStart
  <2>2. /\ t \in PairType
        /\ t.g = [Group.g EXCEPT !.lru = t.g.lru]
        /\ InLru(t.g) = InLru(Group.g) \ P
        /\ Once(Group.g.lru) => Once(t.g.lru)
    BY <1>2, <2>1, PinPageIs
  <2> QED BY <2>2, GroupStart
<1>4. ASSUME NEW d \in PcCache
      PROVE   /\ t.k[d].pages = pc1[d].pages /\ t.k[d].open = pc1[d].open
              /\ pc1[d].nRecyclable = Cardinality(Of(d, InLru(grp))) =>
                   t.k[d].nRecyclable = Cardinality(Of(d, InLru(t.g)))
  <2>1. Group \in PairType
    BY GroupStart
  <2>2. SamePages(Group, t) /\ Recounted(Group, t)
    BY <1>2, <2>1, PinPageIs
  <2> QED BY <2>2, GroupStart DEF SamePages, Recounted
<1>5. H \in [PcCache -> SUBSET PcKeys] /\ H[c] = held[c] \cup {key}
      /\ \A d \in PcCache \ {c} : H[d] = held[d]
  BY GroupStart
<1> HIDE DEF H
<1>6. Listing(t, H)
  <2>1. Once(t.g.lru) /\ \A pg \in InLru(t.g) : Purgeable(pg[1])
    BY <1>3, GroupStart DEF Listing
  <2>2. ASSUME NEW d \in PcCache
        PROVE  /\ IsFiniteSet(t.k[d].pages)
               /\ H[d] \subseteq t.k[d].pages
               /\ t.k[d].nRecyclable = Cardinality(Of(d, InLru(t.g)))
    <3>1. pc1[d].nRecyclable = Cardinality(Of(d, InLru(grp))) /\ IsFiniteSet(pc1[d].pages)
          /\ held[d] \subseteq pc1[d].pages
      BY HeldNotListed
    <3> QED BY <1>1, <1>4, <1>5, <3>1
  <2>3. ASSUME NEW d \in PcCache, NEW x \in PcKeys
        PROVE  <<d, x>> \in InLru(t.g) <=> x \in t.k[d].pages \ H[d]
    <3>1. <<d, x>> \in InLru(grp) <=> x \in pc1[d].pages \ held[d]
      BY HeldNotListed
    <3>2. <<d, x>> \in P <=> d = c /\ x = key
      OBVIOUS
    <3> QED BY <1>3, <1>4, <1>5, <3>1, <3>2
  <2> QED BY <2>1, <2>2, <2>3 DEF Listing
<1>7. Within(t.g, Cardinality(InAlloc), Cardinality(PcCache))
  <2>1. t.g.nMaxPage = grp.nMaxPage /\ t.g.nCurrentPage = grp.nCurrentPage
    BY <1>3, GroupStart DEF GroupType
  <2> QED BY <1>3, <2>1, GroupStart, WithinLess
<1>8. \A d \in PcCache : t.k[d].open = pc1[d].open /\ t.k[d].pages \subseteq pc1[d].pages
  BY <1>4
<1> QED BY <1>1, <1>2, <1>3, <1>5, <1>6, <1>7, <1>8, GroupStart, QuietStep

\* The pages of a cache
LEMMA AllIs ==
  ASSUME PcInv, NEW c \in PcCache
  PROVE  /\ All(c) \subseteq Pages /\ IsFiniteSet(All(c))
         /\ Keys(c, All(c)) = pc1[c].pages
         /\ \A d \in PcCache \ {c} : Keys(d, All(c)) = {}
<1>1. pc1[c].pages \subseteq PcKeys /\ IsFiniteSet(pc1[c].pages)
  BY GroupStart, HeldNotListed DEF CacheType, Listing
<1>2. All(c) \subseteq Pages
  BY <1>1 DEF All, Pages
<1>3. IsFiniteSet(All(c))
  <2> DEFINE f == [x \in pc1[c].pages |-> <<c, x>>]
  <2>1. f \in Surjection(pc1[c].pages, All(c))
    BY DEF Surjection, All
  <2> HIDE DEF f
  <2> QED BY <1>1, <2>1, FS_Surjection
<1>4. Keys(c, All(c)) = pc1[c].pages
  <2>1. Of(c, All(c)) = All(c)
    BY DEF Of, All
  <2>2. \A x \in pc1[c].pages : <<c, x>> \in All(c) /\ <<c, x>>[2] = x
    BY DEF All
  <2>3. \A pg \in All(c) : pg[2] \in pc1[c].pages
    BY DEF All
  <2>4. Keys(c, All(c)) = {pg[2] : pg \in All(c)}
    BY <2>1 DEF Keys
  <2> QED BY <2>2, <2>3, <2>4
<1>5. \A d \in PcCache \ {c} : Keys(d, All(c)) = {}
  BY DEF Keys, Of, All
<1> QED BY <1>2, <1>3, <1>4, <1>5

\* pcache1Destroy()
LEMMA DestroyInv == ASSUME PcInv, NEW c \in PcCache, PcDestroy(c) PROVE PcInv'
<1> DEFINE H == [held EXCEPT ![c] = {}]
<1>1. PICK t : t = Freed(Group, All(c))
  OBVIOUS
<1> DEFINE g == [t.g EXCEPT !.nMaxPage = @ - pc1[c].nMax, !.nMinPage = @ - NMin * Purge(c)]
           k == [t.k EXCEPT ![c] = NoCache]
           s == [g |-> g, k |-> k]
<1>2. /\ Idle(c) /\ held' = H /\ UNCHANGED fetch
      /\ pcEnv' \in PcSetupType /\ pcEnv'.purgeable = pcEnv.purgeable
      /\ Store(EnforceMaxPage(s, s.g.nMaxPage))
  <2>1. /\ Idle(c) /\ held' = H /\ UNCHANGED fetch
        /\ pcEnv' \in PcSetupType /\ pcEnv'.purgeable = pcEnv.purgeable
    BY Spent DEF PcDestroy, PcInv
  <2>2. Store(EnforceMaxPage(s, s.g.nMaxPage))
    BY <1>1 DEF PcDestroy
  <2> QED BY <2>1, <2>2
<1>3. H \in [PcCache -> SUBSET PcKeys] /\ H[c] = {} /\ \A d \in PcCache \ {c} : H[d] = held[d]
  BY GroupStart
<1> HIDE DEF H
<1>4. Listing(t, H)
  <2>1. \A d \in PcCache : H[d] = held[d] \ Keys(d, All(c))
    <3>1. H[c] = held[c] \ Keys(c, All(c))
      BY <1>3, AllIs, HeldNotListed, GroupStart DEF Listing
    <3> QED BY <1>3, <3>1, AllIs
  <2>2. Group \in PairType /\ Listing(Group, held)
    BY GroupStart
  <2>3. All(c) \subseteq Pages /\ IsFiniteSet(All(c))
    BY AllIs
  <2> QED BY <1>1, <2>1, <2>2, <2>3, FreedLists
<1>5. t \in PairType /\ InLru(t.g) = InLru(grp) \ All(c)
  <2>1. Group \in PairType /\ All(c) \subseteq Pages /\ IsFiniteSet(All(c)) /\ Group.g = grp
    BY GroupStart, AllIs
  <2> QED BY <1>1, <2>1, FreedIs
<1>6. ASSUME NEW d \in PcCache
      PROVE  t.k[d].pages = pc1[d].pages \ Keys(d, All(c)) /\ t.k[d].open = pc1[d].open
  <2>1. Group \in PairType /\ All(c) \subseteq Pages /\ IsFiniteSet(All(c)) /\ Group.k = pc1
    BY GroupStart, AllIs
  <2>2. t.k[d].pages = Group.k[d].pages \ Keys(d, All(c)) /\ t.k[d].open = Group.k[d].open
    BY <1>1, <2>1, FreedIs
  <2> QED BY <2>1, <2>2
<1>7. t.g \in GroupType /\ t.k \in [PcCache -> CacheType]
  BY <1>5 DEF PairType
<1>8. g \in GroupType /\ g.lru = t.g.lru
  <2> DEFINE x == t.g.nMaxPage - pc1[c].nMax
             y == t.g.nMinPage - NMin * Purge(c)
  <2>1. x \in Int /\ y \in Int
    <3>1. pc1[c].nMax \in Int /\ t.g.nMaxPage \in Int /\ t.g.nMinPage \in Int
      BY <1>7, GroupStart DEF GroupType, CacheType
    <3>2. NMin * Purge(c) \in Int
      BY PcAssumption DEF Purge
    <3> QED BY <3>1, <3>2
  <2>2. g = [t.g EXCEPT !.nMaxPage = x, !.nMinPage = y]
    BY <1>7 DEF GroupType
  <2> HIDE DEF x, y, g
  <2> QED BY <1>7, <2>1, <2>2 DEF GroupType
<1>9. k \in [PcCache -> CacheType] /\ k[c] = NoCache /\ \A d \in PcCache \ {c} : k[d] = t.k[d]
  BY <1>7, NoCacheIs
<1> HIDE DEF g, k
<1>10. s \in PairType /\ s.g = g /\ s.k = k
  BY <1>8, <1>9 DEF PairType
<1> HIDE DEF s
<1>11. Listing(s, H)
  <2>1. t.k[c].pages = {}
    BY <1>6, AllIs
  <2>2. t.k[c].nRecyclable = 0
    <3>1. t.k[c].nRecyclable = Cardinality(Of(c, InLru(t.g)))
          /\ \A key \in PcKeys : <<c, key>> \notin InLru(t.g)
      BY <1>4, <2>1 DEF Listing
    <3>2. \A pg \in InLru(t.g) : pg[1] # c
      BY <1>7, <3>1, InLruIs DEF Pages
    <3>3. Of(c, InLru(t.g)) = {}
      BY <3>2 DEF Of
    <3> QED BY <3>1, <3>3, FS_EmptySet
  <2>3. \A d \in PcCache : s.k[d].pages = t.k[d].pages /\ s.k[d].nRecyclable = t.k[d].nRecyclable
    <3>1. NoCache.pages = {} /\ NoCache.nRecyclable = 0
      BY DEF NoCache
    <3> QED BY <1>9, <1>10, <2>1, <2>2, <3>1
  <2> QED BY <1>4, <1>8, <1>10, <2>3, ListingSame
<1>12. PICK e : e = EnforceMaxPage(s, s.g.nMaxPage)
  OBVIOUS
<1>13. s.g.nMaxPage \in Int
  BY <1>8, <1>10 DEF GroupType
<1>14. /\ e \in PairType /\ Listing(e, H)
       /\ e.g.nMaxPage = s.g.nMaxPage
       /\ e.g.lru # <<>> => e.g.nCurrentPage <= s.g.nMaxPage
  BY <1>10, <1>11, <1>12, <1>13, EnforceMaxPageIs
<1>15. \A d \in PcCache : e.k[d].pages \subseteq s.k[d].pages /\ e.k[d].open = s.k[d].open
  BY <1>10, <1>11, <1>12, <1>13, EnforceMaxPageIs
<1>16. Within(e.g, Cardinality(InAlloc), Cardinality(PcCache))
  BY <1>2, <1>14, IdleIs, WithinMax
<1>17. ASSUME NEW d \in PcCache
       PROVE  /\ fetch'[d].st # "idle" => e.k[d].open /\ fetch'[d].key \in PcKeys \ e.k[d].pages
              /\ ~e.k[d].open => e.k[d].pages = {}
  <2>1. CASE d = c
    BY <1>2, <1>9, <1>10, <1>15, <2>1 DEF NoCache, Idle
  <2>2. CASE d # c
    BY <1>2, <1>6, <1>9, <1>10, <1>15, <2>2 DEF PcInv, FetchAt
  <2> QED BY <2>1, <2>2
<1>18. InAlloc' = InAlloc /\ fetch' \in [PcCache -> FetchType]
  BY <1>2, AllocSame, GroupStart
<1>19. Store(e)
  BY <1>2, <1>12
<1> QED BY <1>2, <1>3, <1>14, <1>16, <1>17, <1>18, <1>19, PcStep

-----------------------------------------------------------------------------
(* Fetching a page *)

LEMMA EnteredIs ==
  ASSUME NEW s \in PairType, NEW c \in PcCache, NEW key \in PcKeys
  PROVE  LET t == Entered(s, c, key) IN
         /\ t \in PairType /\ t.g = s.g
         /\ t.k[c].pages = s.k[c].pages \cup {key} /\ t.k[c].open = s.k[c].open
         /\ t.k[c].nRecyclable = s.k[c].nRecyclable
         /\ \A d \in PcCache \ {c} : t.k[d] = s.k[d]
<1> DEFINE x == [s.k[c] EXCEPT !.nPage = @ + 1, !.pages = @ \cup {key},
                               !.iMaxKey = IF key > @ THEN key ELSE @]
           t == Entered(s, c, key)
<1>1. s = [g |-> s.g, k |-> s.k] /\ s.g \in GroupType /\ s.k \in [PcCache -> CacheType]
  BY DEF PairType
<1>2. x \in CacheType /\ x.pages = s.k[c].pages \cup {key} /\ x.open = s.k[c].open
      /\ x.nRecyclable = s.k[c].nRecyclable
  <2> DEFINE n == s.k[c].nPage + 1
             m == IF key > s.k[c].iMaxKey THEN key ELSE s.k[c].iMaxKey
             p == s.k[c].pages \cup {key}
  <2>1. n \in Int /\ m \in Int /\ p \in SUBSET PcKeys /\ s.k[c] \in CacheType
    BY <1>1, PcAssumption DEF CacheType
  <2>2. x = [s.k[c] EXCEPT !.nPage = n, !.pages = p, !.iMaxKey = m]
    BY <1>1 DEF CacheType
  <2> HIDE DEF n, m, p, x
  <2>3. x \in CacheType /\ x.pages = p /\ x.open = s.k[c].open
        /\ x.nRecyclable = s.k[c].nRecyclable
    BY <2>1, <2>2 DEF CacheType
  <2> QED BY <2>3 DEF p
<1>3. t = [s EXCEPT !.k = [s.k EXCEPT ![c] = x]]
  BY <1>1 DEF Entered
<1> HIDE DEF x
<1>4. t.g = s.g /\ t.k = [s.k EXCEPT ![c] = x] /\ t = [g |-> t.g, k |-> t.k]
  BY <1>1, <1>3
<1>5. t.k \in [PcCache -> CacheType] /\ t.k[c] = x /\ \A d \in PcCache \ {c} : t.k[d] = s.k[d]
  BY <1>1, <1>2, <1>4
<1>6. t \in PairType
  BY <1>1, <1>4, <1>5 DEF PairType
<1> HIDE DEF t
<1> QED BY <1>2, <1>4, <1>5, <1>6 DEF t

\* A page that is new to its cache is pinned in it.
LEMMA EnteredLists ==
  ASSUME NEW s \in PairType, NEW c \in PcCache, NEW key \in PcKeys,
         NEW H, Listing(s, H), key \notin s.k[c].pages,
         NEW G, G[c] = H[c] \cup {key}, \A d \in PcCache \ {c} : G[d] = H[d]
  PROVE  Listing(Entered(s, c, key), G)
<1>1. PICK t : t = Entered(s, c, key)
  OBVIOUS
<1>2. /\ t \in PairType /\ t.g = s.g
      /\ t.k[c].pages = s.k[c].pages \cup {key}
      /\ t.k[c].nRecyclable = s.k[c].nRecyclable
      /\ \A d \in PcCache \ {c} : t.k[d] = s.k[d]
  BY <1>1, EnteredIs
<1>3. ASSUME NEW d \in PcCache
      PROVE  /\ IsFiniteSet(t.k[d].pages)
             /\ G[d] \subseteq t.k[d].pages
             /\ \A x \in PcKeys : <<d, x>> \in InLru(t.g) <=> x \in t.k[d].pages \ G[d]
             /\ t.k[d].nRecyclable = Cardinality(Of(d, InLru(t.g)))
  <2>1. /\ IsFiniteSet(s.k[d].pages) /\ H[d] \subseteq s.k[d].pages
        /\ \A x \in PcKeys : <<d, x>> \in InLru(s.g) <=> x \in s.k[d].pages \ H[d]
        /\ s.k[d].nRecyclable = Cardinality(Of(d, InLru(s.g)))
    BY DEF Listing
  <2>2. CASE d = c
    <3>1. IsFiniteSet(t.k[c].pages)
      BY <1>2, <2>1, <2>2, FS_AddElement
    <3> QED BY <1>2, <2>1, <2>2, <3>1
  <2>3. CASE d # c
    BY <1>2, <2>1, <2>3
  <2> QED BY <2>2, <2>3
<1>4. Once(t.g.lru) /\ \A pg \in InLru(t.g) : Purgeable(pg[1])
  BY <1>2 DEF Listing
<1> QED BY <1>1, <1>3, <1>4 DEF Listing

\* A page that is not pinned is taken from its cache, to be recycled.
Taken(s, pg) == PinPage(RemoveFromHash(s, {pg}), {pg})

LEMMA TakenIs ==
  ASSUME NEW s \in PairType, NEW H, Listing(s, H), NEW pg \in InLru(s.g)
  PROVE  LET t == Taken(s, pg) IN
         /\ t \in PairType /\ Listing(t, H)
         /\ t.g = [s.g EXCEPT !.lru = t.g.lru]
         /\ InLru(t.g) \subseteq InLru(s.g)
         /\ pg[1] \in PcCache /\ Purgeable(pg[1])
         /\ \A d \in PcCache : t.k[d].pages \subseteq s.k[d].pages /\ t.k[d].open = s.k[d].open
<1>1. PICK P : P = {pg}
  OBVIOUS
<1>2. P \subseteq Pages /\ IsFiniteSet(P) /\ P \subseteq InLru(s.g)
      /\ pg[1] \in PcCache /\ Purgeable(pg[1])
  <2>1. P \subseteq InLru(s.g)
    BY <1>1
  <2>2. P \subseteq Pages /\ IsFiniteSet(P)
    BY <2>1, FreedUnpinned
  <2>3. Purgeable(pg[1])
    BY DEF Listing
  <2> QED BY <1>1, <2>1, <2>2, <2>3 DEF Pages
<1>3. ASSUME NEW c \in PcCache PROVE H[c] = H[c] \ Keys(c, P)
  <2>1. ASSUME NEW x \in P, x[1] = c PROVE x[2] \notin H[c]
    <3>1. x = <<c, x[2]>> /\ x[2] \in PcKeys /\ x \in InLru(s.g)
      BY <1>2, <2>1 DEF Pages
    <3> QED BY <3>1 DEF Listing
  <2> QED BY <2>1 DEF Of, Keys
<1>4. PICK a : a = RemoveFromHash(s, P)
  OBVIOUS
<1>5. a \in PairType /\ a.g = s.g
  BY <1>2, <1>4, RemoveFromHashIs
<1>6. ASSUME NEW c \in PcCache
      PROVE  /\ a.k[c].pages = s.k[c].pages \ Keys(c, P)
             /\ a.k[c].nRecyclable = s.k[c].nRecyclable
             /\ a.k[c].open = s.k[c].open
  BY <1>2, <1>4, RemoveFromHashIs
<1>7. PICK t : t = PinPage(a, P)
  OBVIOUS
<1>8. /\ t \in PairType /\ t.g = [a.g EXCEPT !.lru = t.g.lru] /\ InLru(t.g) = InLru(a.g) \ P
      /\ Once(a.g.lru) => Once(t.g.lru)
      /\ SamePages(a, t) /\ Recounted(a, t)
  BY <1>5, <1>7, PinPageIs
<1>9. ASSUME NEW c \in PcCache
      PROVE  t.k[c].pages = s.k[c].pages \ Keys(c, P) /\ t.k[c].open = s.k[c].open
  BY <1>6, <1>8 DEF SamePages
<1>10. Less(s, t, P)
  <2>1. ASSUME NEW c \in PcCache
        PROVE  s.k[c].nRecyclable = Cardinality(Of(c, InLru(s.g))) =>
                 t.k[c].nRecyclable = Cardinality(Of(c, InLru(t.g)))
    BY <1>5, <1>6, <1>8 DEF Recounted
  <2> QED BY <1>5, <1>8, <1>9, <2>1 DEF Less
<1>11. Listing(t, H)
  BY <1>2, <1>3, <1>8, <1>10, LessLists
<1>12. t = Taken(s, pg)
  BY <1>1, <1>4, <1>7 DEF Taken
<1> QED BY <1>2, <1>5, <1>8, <1>9, <1>11, <1>12

\* The pair from which a page is obtained: the group, perhaps with a larger hash table
LikeGroup(s) ==
  /\ s \in PairType /\ s.g = grp
  /\ \A d \in PcCache : /\ s.k[d].pages = pc1[d].pages /\ s.k[d].open = pc1[d].open
                        /\ s.k[d].nRecyclable = pc1[d].nRecyclable

\* The fetch of a cache waits for a new page.
FetchTo(c, key) ==
  /\ fetch' = [fetch EXCEPT ![c] = [st |-> "alloc", key |-> key]]
  /\ UNCHANGED held

LEMMA FetchToIs ==
  ASSUME PcInv, NEW c \in PcCache, NEW key \in PcKeys, c \notin InAlloc,
         FetchTo(c, key), pcEnv'.purgeable = pcEnv.purgeable
  PROVE  /\ fetch' \in [PcCache -> FetchType] /\ fetch'[c].key = key
         /\ \A d \in PcCache \ {c} : fetch'[d] = fetch[d]
         /\ Cardinality(InAlloc') = Cardinality(InAlloc) + Purge(c)
<1>1. [st |-> "alloc", key |-> key] \in FetchType
  BY PcAssumption DEF FetchType
<1>2. fetch' = [fetch EXCEPT ![c] = [st |-> "alloc", key |-> key]]
      /\ fetch \in [PcCache -> FetchType]
  BY GroupStart DEF FetchTo
<1>3. fetch' \in [PcCache -> FetchType] /\ fetch'[c] = [st |-> "alloc", key |-> key]
      /\ \A d \in PcCache \ {c} : fetch'[d] = fetch[d]
  BY <1>1, <1>2
<1>4. CASE Purgeable(c)
  <2>1. InAlloc' = InAlloc \cup {c}
    BY <1>3, <1>4 DEF InAlloc, Purgeable
  <2>2. Cardinality(InAlloc \cup {c}) = Cardinality(InAlloc) + 1
    BY AllocFinite, FS_AddElement
  <2> QED BY <1>3, <1>4, <2>1, <2>2 DEF Purge
<1>5. CASE ~Purgeable(c)
  <2>1. InAlloc' = InAlloc
    BY <1>3, <1>5 DEF InAlloc, Purgeable
  <2> QED BY <1>3, <1>5, <2>1, AllocFinite DEF Purge
<1> QED BY <1>4, <1>5

LEMMA FetchOverIs ==
  ASSUME PcInv, NEW c \in PcCache, fetch' = [fetch EXCEPT ![c] = NoFetch],
         pcEnv'.purgeable = pcEnv.purgeable
  PROVE  /\ fetch' \in [PcCache -> FetchType] /\ fetch'[c].st = "idle"
         /\ \A d \in PcCache \ {c} : fetch'[d] = fetch[d]
         /\ InAlloc' = InAlloc \ {c}
<1>1. NoFetch \in FetchType /\ NoFetch.st = "idle"
  BY DEF NoFetch, FetchType
<1>2. fetch' \in [PcCache -> FetchType] /\ fetch'[c].st = "idle"
      /\ \A d \in PcCache \ {c} : fetch'[d] = fetch[d]
  BY <1>1, GroupStart
<1> QED BY <1>2 DEF InAlloc, Purgeable

\* What FetchAt asks of the next state, from a pair with no more pages
LEMMA FetchAtNext ==
  ASSUME PcInv, NEW c \in PcCache, NEW key \in PcKeys, key \notin pc1[c].pages, pc1[c].open,
         NEW t \in PairType,
         \A d \in PcCache : t.k[d].pages \subseteq pc1[d].pages /\ t.k[d].open = pc1[d].open,
         fetch'[c].key = key, \A d \in PcCache \ {c} : fetch'[d] = fetch[d]
  PROVE  \A d \in PcCache :
           /\ fetch'[d].st # "idle" => t.k[d].open /\ fetch'[d].key \in PcKeys \ t.k[d].pages
           /\ ~t.k[d].open => t.k[d].pages = {}
<1>1. SUFFICES ASSUME NEW d \in PcCache
               PROVE  /\ fetch'[d].st # "idle" => t.k[d].open /\ fetch'[d].key \in PcKeys \ t.k[d].pages
                      /\ ~t.k[d].open => t.k[d].pages = {}
  OBVIOUS
<1>2. t.k[d].pages \subseteq pc1[d].pages /\ t.k[d].open = pc1[d].open
  OBVIOUS
<1>3. CASE d = c
  BY <1>2, <1>3
<1>4. CASE d # c
  BY <1>2, <1>4 DEF PcInv, FetchAt
<1> QED BY <1>3, <1>4

\* The group takes a page from its list, if it wants to, or waits for memory.
LEMMA ObtainInv ==
  ASSUME PcInv, NEW c \in PcCache, NEW key \in PcKeys, key \notin pc1[c].pages, pc1[c].open,
         c \notin InAlloc, NEW s0, LikeGroup(s0), NEW short, Obtain(c, key, s0, short),
         pcEnv' \in PcSetupType, pcEnv'.purgeable = pcEnv.purgeable
  PROVE  PcInv'
<1> DEFINE pg == LruTail(s0.g)
           N == Cardinality(PcCache)
<1>1. /\ s0 \in PairType /\ s0.g = grp
      /\ \A d \in PcCache : s0.k[d].pages = pc1[d].pages /\ s0.k[d].open = pc1[d].open
  BY DEF LikeGroup
<1>2. Listing(s0, held)
  <2>1. Listing(Group, held) /\ s0.g.lru = Group.g.lru
    BY <1>1, GroupStart
  <2>2. \A d \in PcCache : /\ s0.k[d].pages = Group.k[d].pages
                           /\ s0.k[d].nRecyclable = Group.k[d].nRecyclable
    BY GroupStart DEF LikeGroup
  <2> QED BY <2>1, <2>2, ListingSame
<1>3. /\ grp.nCurrentPage \in Int /\ grp.nMaxPage \in Int /\ grp \in GroupType
      /\ held \in [PcCache -> SUBSET PcKeys]
      /\ Within(grp, Cardinality(InAlloc), N)
  BY GroupStart DEF PcInv
<1>4. CASE ~Wants(c, short)
  <2>1. Store(s0) /\ FetchTo(c, key) /\ held' = held
    BY <1>4 DEF Obtain, FetchTo
  <2>2. /\ fetch' \in [PcCache -> FetchType] /\ fetch'[c].key = key
        /\ \A d \in PcCache \ {c} : fetch'[d] = fetch[d]
        /\ Cardinality(InAlloc') = Cardinality(InAlloc) + Purge(c)
    BY <2>1, FetchToIs
  <2>3. \A d \in PcCache :
           /\ fetch'[d].st # "idle" => s0.k[d].open /\ fetch'[d].key \in PcKeys \ s0.k[d].pages
           /\ ~s0.k[d].open => s0.k[d].pages = {}
    BY <1>1, <2>2, FetchAtNext
  <2>4. Within(s0.g, Cardinality(InAlloc'), N)
    <3>1. CASE Purgeable(c)
      <4>1. grp.lru # <<>> => grp.nCurrentPage < grp.nMaxPage
        BY <1>3, <1>4, <3>1 DEF Wants
      <4>2. Cardinality(InAlloc') <= N /\ Cardinality(InAlloc') \in Nat /\ N \in Nat
        <5>1. Cardinality(InAlloc) < N
          BY AllocNotAll
        <5> QED BY <2>2, <3>1, <5>1, AllocFinite DEF Purge
      <4> HIDE DEF N
      <4> QED BY <1>1, <1>3, <4>1, <4>2 DEF Within
    <3>2. CASE ~Purgeable(c)
      <4>1. Cardinality(InAlloc') = Cardinality(InAlloc)
        BY <2>2, <3>2, AllocFinite DEF Purge
      <4> QED BY <1>1, <1>3, <4>1
    <3> QED BY <3>1, <3>2
  <2> QED BY <1>1, <1>2, <1>3, <2>1, <2>2, <2>3, <2>4, PcStep
<1>5. CASE Wants(c, short)
  <2>1. Purgeable(c) /\ grp.lru # <<>> /\ Purge(c) = 1
    BY <1>5 DEF Wants, Purge
  <2>2. pg \in InLru(s0.g)
    <3>1. Len(grp.lru) \in DOMAIN grp.lru
      BY <1>3, <2>1 DEF GroupType
    <3> QED BY <1>1, <3>1 DEF InLru, LruTail
  <2> HIDE DEF pg
  <2>3. PICK t : t = Taken(s0, pg)
    OBVIOUS
  <2>4. /\ t \in PairType /\ Listing(t, held)
        /\ t.g = [grp EXCEPT !.lru = t.g.lru]
        /\ InLru(t.g) \subseteq InLru(grp)
        /\ pg[1] \in PcCache /\ Purgeable(pg[1])
    <3>1. s0 \in PairType
      BY <1>1
    <3>2. /\ t \in PairType /\ Listing(t, held)
          /\ t.g = [s0.g EXCEPT !.lru = t.g.lru]
          /\ InLru(t.g) \subseteq InLru(s0.g)
          /\ pg[1] \in PcCache /\ Purgeable(pg[1])
      BY <3>1, <1>2, <2>2, <2>3, TakenIs
    <3> QED BY <1>1, <3>2
  <2>5. ASSUME NEW d \in PcCache
        PROVE  t.k[d].pages \subseteq pc1[d].pages /\ t.k[d].open = pc1[d].open
    <3>1. s0 \in PairType
      BY <1>1
    <3>2. t.k[d].pages \subseteq s0.k[d].pages /\ t.k[d].open = s0.k[d].open
      BY <3>1, <1>2, <2>2, <2>3, TakenIs
    <3> QED BY <1>1, <3>2
  <2>6. /\ t.g \in GroupType /\ t.g.nCurrentPage = grp.nCurrentPage
        /\ t.g.nMaxPage = grp.nMaxPage
        /\ t.g.lru # <<>> => grp.lru # <<>>
    BY <1>3, <2>1, <2>4 DEF PairType, GroupType
  <2>7. grp.nCurrentPage + Cardinality(InAlloc) < grp.nMaxPage + N
    BY <1>3, <2>1 DEF Within
  <2>8. CASE pcEnv.sz[pg[1]] # pcEnv.sz[c]
    <3>1. PICK P : P = {pg}
      OBVIOUS
    <3>2. IsFiniteSet(P) /\ Cardinality(PurgeableOf(P)) = 1
      <4>1. PurgeableOf(P) = {pg}
        BY <2>4, <3>1 DEF PurgeableOf
      <4> QED BY <3>1, <4>1, FS_Singleton
    <3>3. PICK e : e = FreePage(t, P)
      OBVIOUS
    <3>4. /\ e \in PairType /\ e.k = t.k
          /\ e.g = [t.g EXCEPT !.nCurrentPage = e.g.nCurrentPage]
          /\ e.g.nCurrentPage = grp.nCurrentPage - 1
      BY <2>4, <2>6, <3>2, <3>3, FreePageIs
    <3>5. e.g.lru = t.g.lru /\ e.g.nMaxPage = grp.nMaxPage
      BY <2>6, <3>4 DEF GroupType
    <3>6. Listing(e, held)
      BY <2>4, <3>4, <3>5, ListingSame
    <3>7. Store(e) /\ FetchTo(c, key) /\ held' = held
      BY <1>5, <2>3, <2>8, <3>1, <3>3 DEF Obtain, FetchTo, Taken, pg
    <3>8. /\ fetch' \in [PcCache -> FetchType] /\ fetch'[c].key = key
          /\ \A d \in PcCache \ {c} : fetch'[d] = fetch[d]
          /\ Cardinality(InAlloc') = Cardinality(InAlloc) + 1
      BY <2>1, <3>7, FetchToIs
    <3>9. \A d \in PcCache : e.k[d].pages \subseteq pc1[d].pages /\ e.k[d].open = pc1[d].open
      BY <2>5, <3>4
    <3>10. \A d \in PcCache :
             /\ fetch'[d].st # "idle" => e.k[d].open /\ fetch'[d].key \in PcKeys \ e.k[d].pages
             /\ ~e.k[d].open => e.k[d].pages = {}
      BY <3>4, <3>8, <3>9, FetchAtNext
    <3>11. Within(e.g, Cardinality(InAlloc'), N)
      <4> HIDE DEF N
      <4>1. N \in Nat
        BY AllocFinite DEF N
      <4> QED BY <1>3, <2>7, <3>4, <3>5, <3>8, <4>1, AllocFinite DEF Within
    <3> QED BY <1>3, <3>4, <3>6, <3>7, <3>8, <3>10, <3>11, PcStep
  <2>9. CASE pcEnv.sz[pg[1]] = pcEnv.sz[c]
    <3> DEFINE H == [held EXCEPT ![c] = @ \cup {key}]
    <3>1. PICK b : b = [t EXCEPT !.g.nCurrentPage = @ - (Purge(pg[1]) - Purge(c))]
      OBVIOUS
    <3>2. b = t
      <4>1. t = [g |-> t.g, k |-> t.k]
        BY <2>4 DEF PairType
      <4>2. Purge(pg[1]) - Purge(c) = 0
        BY <2>1, <2>4 DEF Purge
      <4>3. b = [t EXCEPT !.g = [t.g EXCEPT !.nCurrentPage = t.g.nCurrentPage - 0]]
        BY <3>1, <4>2
      <4>4. [t.g EXCEPT !.nCurrentPage = t.g.nCurrentPage - 0] = t.g
        BY <2>6 DEF GroupType
      <4> QED BY <4>1, <4>3, <4>4
    <3>3. PICK e : e = Entered(t, c, key)
      OBVIOUS
    <3>4. Store(e) /\ fetch' = [fetch EXCEPT ![c] = NoFetch] /\ held' = H
      BY <1>5, <2>3, <2>9, <3>1, <3>2, <3>3 DEF Obtain, Taken, pg
    <3>5. H \in [PcCache -> SUBSET PcKeys] /\ H[c] = held[c] \cup {key}
          /\ \A d \in PcCache \ {c} : H[d] = held[d]
      BY GroupStart
    <3> HIDE DEF H
    <3>6. Listing(e, H)
      <4>1. key \notin t.k[c].pages
        BY <2>5
      <4> QED BY <2>4, <3>3, <3>5, <4>1, EnteredLists
    <3>7. /\ e \in PairType /\ e.g = t.g
          /\ e.k[c].open = t.k[c].open
          /\ \A d \in PcCache \ {c} : e.k[d] = t.k[d]
      BY <2>4, <3>3, EnteredIs
    <3>8. /\ fetch' \in [PcCache -> FetchType] /\ fetch'[c].st = "idle"
          /\ \A d \in PcCache \ {c} : fetch'[d] = fetch[d]
          /\ InAlloc' = InAlloc
      <4>1. /\ fetch' \in [PcCache -> FetchType] /\ fetch'[c].st = "idle"
            /\ \A d \in PcCache \ {c} : fetch'[d] = fetch[d]
            /\ InAlloc' = InAlloc \ {c}
        BY <3>4, FetchOverIs
      <4> QED BY <4>1
    <3>9. ASSUME NEW d \in PcCache
          PROVE  /\ fetch'[d].st # "idle" => e.k[d].open /\ fetch'[d].key \in PcKeys \ e.k[d].pages
                 /\ ~e.k[d].open => e.k[d].pages = {}
      <4>1. CASE d = c
        BY <2>5, <3>7, <3>8, <4>1
      <4>2. CASE d # c
        BY <2>5, <3>7, <3>8, <4>2 DEF PcInv, FetchAt
      <4> QED BY <4>1, <4>2
    <3>10. Within(e.g, Cardinality(InAlloc'), N)
      BY <2>6, <2>7, <3>7, <3>8 DEF Within
    <3> QED BY <3>4, <3>5, <3>6, <3>7, <3>8, <3>9, <3>10, PcStep
  <2> QED BY <2>8, <2>9
<1> QED BY <1>4, <1>5

LEMMA GroupLike == ASSUME PcInv PROVE LikeGroup(Group)
BY GroupStart DEF LikeGroup

\* A step that changes nothing but the fetch of one cache, which does not wait for a page
LEMMA FetchStep ==
  ASSUME PcInv, NEW c \in PcCache, UNCHANGED <<grp, pc1, held>>,
         pcEnv' \in PcSetupType, pcEnv'.purgeable = pcEnv.purgeable,
         fetch' \in [PcCache -> FetchType], \A d \in PcCache \ {c} : fetch'[d] = fetch[d],
         fetch'[c].st # "alloc",
         fetch'[c].st # "idle" => pc1[c].open /\ fetch'[c].key \in PcKeys \ pc1[c].pages
  PROVE  PcInv'
<1>1. Group \in PairType /\ Listing(Group, held) /\ Store(Group) /\ Group.g = grp /\ Group.k = pc1
      /\ held' = held /\ held \in [PcCache -> SUBSET PcKeys]
  BY GroupStart DEF Store
<1>2. \A d \in PcCache :
         /\ fetch'[d].st # "idle" => Group.k[d].open /\ fetch'[d].key \in PcKeys \ Group.k[d].pages
         /\ ~Group.k[d].open => Group.k[d].pages = {}
  <2>1. SUFFICES ASSUME NEW d \in PcCache
                 PROVE  /\ fetch'[d].st # "idle" => pc1[d].open /\ fetch'[d].key \in PcKeys \ pc1[d].pages
                        /\ ~pc1[d].open => pc1[d].pages = {}
    BY <1>1
  <2>2. CASE d = c
    BY <2>2 DEF PcInv, FetchAt
  <2>3. CASE d # c
    BY <2>3 DEF PcInv, FetchAt
  <2> QED BY <2>2, <2>3
<1>3. Cardinality(InAlloc') <= Cardinality(InAlloc) /\ Cardinality(InAlloc') \in Nat
  <2>1. InAlloc' = InAlloc \ {c}
    BY DEF InAlloc, Purgeable
  <2>2. Cardinality(InAlloc \ {c}) <= Cardinality(InAlloc) /\ Cardinality(InAlloc \ {c}) \in Nat
    <3>1. IsFiniteSet(InAlloc) /\ InAlloc \ {c} \subseteq InAlloc
      BY AllocFinite
    <3> QED BY <3>1, FS_Subset, FS_CardinalityType
  <2> QED BY <2>1, <2>2
<1>4. Within(Group.g, Cardinality(InAlloc'), Cardinality(PcCache))
  <2>1. Within(grp, Cardinality(InAlloc), Cardinality(PcCache))
    BY DEF PcInv
  <2>2. grp.nCurrentPage \in Int /\ grp.nMaxPage \in Int /\ Cardinality(InAlloc) \in Nat
        /\ Cardinality(PcCache) \in Nat
    BY GroupStart, AllocFinite
  <2> QED BY <1>1, <1>3, <2>1, <2>2 DEF Within
<1> QED BY <1>1, <1>2, <1>4, PcStep

\* pcache1Fetch(): the page is not there.
LEMMA FetchMissInv ==
  ASSUME PcInv, NEW c \in PcCache, NEW key \in PcKeys, NEW flag, NEW short,
         FetchMiss(c, key, flag, short)
  PROVE  PcInv'
<1>1. /\ Idle(c) /\ pc1[c].open /\ c \notin InAlloc /\ key \notin pc1[c].pages
      /\ pcEnv' \in PcSetupType /\ pcEnv'.purgeable = pcEnv.purgeable
  BY Spent, IdleIs DEF FetchMiss, PcInv
<1>2. CASE pc1[c].nPage >= pc1[c].nHash
  <2> DEFINE f == [st |-> "hash", key |-> key]
  <2>1. fetch' = [fetch EXCEPT ![c] = f] /\ UNCHANGED <<grp, pc1, held>>
    BY <1>2 DEF FetchMiss
  <2>2. f \in FetchType
    BY PcAssumption DEF FetchType
  <2>3. /\ fetch' \in [PcCache -> FetchType] /\ fetch'[c] = f
        /\ \A d \in PcCache \ {c} : fetch'[d] = fetch[d]
    BY <2>1, <2>2, GroupStart
  <2> QED BY <1>1, <2>1, <2>3, FetchStep
<1>3. CASE ~(pc1[c].nPage >= pc1[c].nHash)
  <2>1. Obtain(c, key, Group, short)
    BY <1>3 DEF FetchMiss
  <2> QED BY <1>1, <2>1, GroupLike, ObtainInv
<1> QED BY <1>2, <1>3

\* What is known while the mutex was free
LEMMA FetchingIs ==
  ASSUME PcInv, NEW c \in PcCache, fetch[c].st # "idle"
  PROVE  fetch[c].key \in PcKeys /\ fetch[c].key \notin pc1[c].pages /\ pc1[c].open
BY DEF PcInv, FetchAt

LEMMA FetchResizedInv ==
  ASSUME PcInv, NEW c \in PcCache, NEW short, FetchResized(c, short) PROVE PcInv'
<1> DEFINE twice == 2 * pc1[c].nHash
           n == IF twice < MinHash THEN MinHash ELSE twice
           s == [Group EXCEPT !.k[c].nHash = n]
<1>1. /\ fetch[c].st = "hash" /\ Obtain(c, fetch[c].key, s, short)
      /\ pcEnv' \in PcSetupType /\ pcEnv'.purgeable = pcEnv.purgeable
  BY DEF FetchResized, PcInv, PcTypeOK
<1>2. n \in Nat
  BY GroupStart, PcAssumption DEF CacheType
<1> HIDE DEF n
<1>3. LikeGroup(s)
  <2> DEFINE x == [pc1[c] EXCEPT !.nHash = n]
             k == [pc1 EXCEPT ![c] = x]
  <2>1. pc1[c] \in CacheType /\ x \in CacheType
    BY <1>2, GroupStart DEF CacheType
  <2>2. x.pages = pc1[c].pages /\ x.open = pc1[c].open /\ x.nRecyclable = pc1[c].nRecyclable
    BY <2>1 DEF CacheType
  <2>3. s = [g |-> grp, k |-> k]
    BY GroupStart DEF Group
  <2> HIDE DEF x, s
  <2>4. k \in [PcCache -> CacheType] /\ k[c] = x /\ \A d \in PcCache \ {c} : k[d] = pc1[d]
    BY <2>1, GroupStart
  <2> HIDE DEF k
  <2>5. s.g = grp /\ s.k = k /\ s \in PairType
    BY <2>3, <2>4, GroupStart DEF PairType
  <2>6. \A d \in PcCache : /\ k[d].pages = pc1[d].pages /\ k[d].open = pc1[d].open
                           /\ k[d].nRecyclable = pc1[d].nRecyclable
    BY <2>2, <2>4
  <2> QED BY <2>5, <2>6 DEF LikeGroup
<1> HIDE DEF s
<1>4. c \notin InAlloc
  BY <1>1 DEF InAlloc
<1>5. fetch[c].key \in PcKeys /\ fetch[c].key \notin pc1[c].pages /\ pc1[c].open
  BY <1>1, FetchingIs
<1> QED BY <1>1, <1>3, <1>4, <1>5, ObtainInv

LEMMA FetchNotResizedInv ==
  ASSUME PcInv, NEW c \in PcCache, NEW short, FetchNotResized(c, short) PROVE PcInv'
<1>1. /\ fetch[c].st = "hash" /\ c \notin InAlloc
      /\ pcEnv' \in PcSetupType /\ pcEnv'.purgeable = pcEnv.purgeable
  BY Spent DEF FetchNotResized, PcInv, InAlloc
<1>2. fetch[c].key \in PcKeys /\ fetch[c].key \notin pc1[c].pages /\ pc1[c].open
  BY <1>1, FetchingIs
<1>3. CASE pc1[c].nHash = 0
  <2>1. fetch' = [fetch EXCEPT ![c] = NoFetch] /\ UNCHANGED <<grp, pc1, held>>
    BY <1>3 DEF FetchNotResized
  <2>2. /\ fetch' \in [PcCache -> FetchType] /\ fetch'[c].st = "idle"
        /\ \A d \in PcCache \ {c} : fetch'[d] = fetch[d]
    BY <1>1, <2>1, FetchOverIs
  <2> QED BY <1>1, <2>1, <2>2, FetchStep
<1>4. CASE pc1[c].nHash # 0
  <2>1. Obtain(c, fetch[c].key, Group, short)
    BY <1>4 DEF FetchNotResized
  <2> QED BY <1>1, <1>2, <2>1, GroupLike, ObtainInv
<1> QED BY <1>3, <1>4

LEMMA FetchNoMemoryInv == ASSUME PcInv, NEW c \in PcCache, FetchNoMemory(c) PROVE PcInv'
<1>1. /\ pcEnv' \in PcSetupType /\ pcEnv'.purgeable = pcEnv.purgeable
      /\ fetch' = [fetch EXCEPT ![c] = NoFetch] /\ UNCHANGED <<grp, pc1, held>>
  BY Spent DEF FetchNoMemory, PcInv
<1>2. /\ fetch' \in [PcCache -> FetchType] /\ fetch'[c].st = "idle"
      /\ \A d \in PcCache \ {c} : fetch'[d] = fetch[d]
  BY <1>1, FetchOverIs
<1> QED BY <1>1, <1>2, FetchStep

\* pcache1AllocPage() is back with a page.
LEMMA FetchAllocatedInv == ASSUME PcInv, NEW c \in PcCache, FetchAllocated(c) PROVE PcInv'
<1> DEFINE n == grp.nCurrentPage + Purge(c)
           g == [grp EXCEPT !.nCurrentPage = n]
           H == [held EXCEPT ![c] = @ \cup {fetch[c].key}]
           N == Cardinality(PcCache)
<1>1. PICK s : s = [Group EXCEPT !.g.nCurrentPage = @ + Purge(c)]
  OBVIOUS
<1>2. PICK key : key = fetch[c].key
  OBVIOUS
<1>3. PICK e : e = Entered(s, c, key)
  OBVIOUS
<1>4. /\ fetch[c].st = "alloc" /\ Store(e) /\ held' = H
      /\ fetch' = [fetch EXCEPT ![c] = NoFetch] /\ UNCHANGED pcEnv
  BY <1>1, <1>2, <1>3 DEF FetchAllocated
<1>5. key \in PcKeys /\ key \notin pc1[c].pages /\ pc1[c].open
  BY <1>2, <1>4, FetchingIs
<1>6. s = [g |-> g, k |-> pc1]
  BY <1>1 DEF Group
<1>7. n \in Int /\ grp \in GroupType
  BY GroupStart DEF Purge
<1>8. H \in [PcCache -> SUBSET PcKeys] /\ H[c] = held[c] \cup {key}
      /\ \A d \in PcCache \ {c} : H[d] = held[d]
  BY <1>2, <1>5, GroupStart
<1> HIDE DEF n, H
<1>9. g \in GroupType /\ g.nCurrentPage = n /\ g.lru = grp.lru /\ g.nMaxPage = grp.nMaxPage
  BY <1>7 DEF GroupType
<1> HIDE DEF g
<1>10. s \in PairType /\ s.g = g /\ s.k = pc1
  BY <1>6, <1>9, GroupStart DEF PairType
<1>11. Listing(s, held)
  <2>1. Listing(Group, held) /\ s.g.lru = Group.g.lru
        /\ \A d \in PcCache : /\ s.k[d].pages = Group.k[d].pages
                              /\ s.k[d].nRecyclable = Group.k[d].nRecyclable
    BY <1>9, <1>10, GroupStart
  <2> QED BY <2>1, ListingSame
<1>12. Listing(e, H)
  <2>1. key \notin s.k[c].pages
    BY <1>5, <1>10
  <2> QED BY <1>3, <1>5, <1>8, <1>10, <1>11, <2>1, EnteredLists
<1>13. /\ e \in PairType /\ e.g = g /\ e.k[c].open = pc1[c].open
       /\ \A d \in PcCache \ {c} : e.k[d] = pc1[d]
  <2>1. /\ e \in PairType /\ e.g = s.g /\ e.k[c].open = s.k[c].open
        /\ \A d \in PcCache \ {c} : e.k[d] = s.k[d]
    BY <1>3, <1>5, <1>10, EnteredIs
  <2> QED BY <1>10, <2>1
<1>14. /\ fetch' \in [PcCache -> FetchType] /\ fetch'[c].st = "idle"
       /\ \A d \in PcCache \ {c} : fetch'[d] = fetch[d]
       /\ InAlloc' = InAlloc \ {c}
  BY <1>4, FetchOverIs
<1>15. ASSUME NEW d \in PcCache
       PROVE  /\ fetch'[d].st # "idle" => e.k[d].open /\ fetch'[d].key \in PcKeys \ e.k[d].pages
              /\ ~e.k[d].open => e.k[d].pages = {}
  <2>1. CASE d = c
    BY <1>5, <1>13, <1>14, <2>1
  <2>2. CASE d # c
    BY <1>13, <1>14, <2>2 DEF PcInv, FetchAt
  <2> QED BY <2>1, <2>2
<1>16. Cardinality(InAlloc') + Purge(c) = Cardinality(InAlloc)
  <2>1. CASE Purgeable(c)
    <3>1. c \in InAlloc
      BY <1>4, <2>1 DEF InAlloc
    <3>2. Cardinality(InAlloc \ {c}) = Cardinality(InAlloc) - 1
      BY <3>1, AllocFinite, FS_RemoveElement
    <3> QED BY <1>14, <2>1, <3>2, AllocFinite DEF Purge
  <2>2. CASE ~Purgeable(c)
    <3>1. InAlloc \ {c} = InAlloc
      BY <2>2 DEF InAlloc
    <3> QED BY <1>14, <2>2, <3>1, AllocFinite DEF Purge
  <2> QED BY <2>1, <2>2
<1>17. Within(e.g, Cardinality(InAlloc'), N)
  <2>1. Within(grp, Cardinality(InAlloc), N) /\ grp.nCurrentPage \in Int /\ grp.nMaxPage \in Int
    BY GroupStart DEF PcInv
  <2>2. Purge(c) = 0 \/ Purge(c) = 1
    BY DEF Purge
  <2>3. N \in Nat /\ Cardinality(InAlloc) \in Nat
    BY AllocFinite
  <2>4. Cardinality(InAlloc') \in Nat
    <3>1. IsFiniteSet(InAlloc \ {c})
      BY AllocFinite, FS_Subset
    <3> QED BY <1>14, <3>1, FS_CardinalityType
  <2> HIDE DEF N
  <2> QED BY <1>9, <1>13, <1>16, <2>1, <2>2, <2>3, <2>4 DEF Within, n
<1>18. pcEnv' \in PcSetupType /\ pcEnv'.purgeable = pcEnv.purgeable
  BY <1>4 DEF PcInv, PcTypeOK
<1> QED BY <1>4, <1>8, <1>12, <1>13, <1>14, <1>15, <1>17, <1>18, PcStep

-----------------------------------------------------------------------------
(* Giving pages back *)

\* One page of a cache that nobody else uses is freed.
LEMMA OnePage ==
  ASSUME NEW c \in PcCache, NEW key \in PcKeys, NEW P, P = {<<c, key>>}
  PROVE  /\ P \subseteq Pages /\ IsFiniteSet(P) /\ Keys(c, P) = {key}
         /\ \A d \in PcCache \ {c} : Keys(d, P) = {}
<1>1. P \subseteq Pages /\ IsFiniteSet(P)
  BY FS_Singleton DEF Pages
<1>2. Of(c, P) = {<<c, key>>} /\ \A d \in PcCache \ {c} : Of(d, P) = {}
  BY DEF Of
<1> QED BY <1>1, <1>2 DEF Keys

\* pcache1Unpin()
LEMMA UnpinInv ==
  ASSUME PcInv, NEW c \in PcCache, NEW key \in PcKeys, NEW b, PcUnpin(c, key, b) PROVE PcInv'
<1> DEFINE H == [held EXCEPT ![c] = @ \ {key}]
           free == b \/ grp.nCurrentPage > grp.nMaxPage
<1>1. PICK P : P = {<<c, key>>}
  OBVIOUS
<1>2. /\ Idle(c) /\ key \in held[c] /\ held' = H /\ UNCHANGED fetch
      /\ (Purgeable(c) \/ b)
      /\ pcEnv' \in PcSetupType /\ pcEnv'.purgeable = pcEnv.purgeable
  BY DEF PcUnpin, PcInv, PcTypeOK
<1>3. H \in [PcCache -> SUBSET PcKeys] /\ H[c] = held[c] \ {key}
      /\ \A d \in PcCache \ {c} : H[d] = held[d]
  BY GroupStart
<1>4. c \notin InAlloc
  BY <1>2, IdleIs
<1> HIDE DEF H
<1>5. CASE free
  <2>1. PICK t : t = Freed(Group, P)
    OBVIOUS
  <2>2. Store(t)
    BY <1>1, <1>5, <2>1 DEF PcUnpin
  <2>3. P \subseteq Pages /\ IsFiniteSet(P) /\ Keys(c, P) = {key}
        /\ \A d \in PcCache \ {c} : Keys(d, P) = {}
    BY <1>1, OnePage
  <2>4. \A d \in PcCache : H[d] = held[d] \ Keys(d, P)
    BY <1>3, <2>3
  <2>5. Group \in PairType /\ Listing(Group, held)
    BY GroupStart
  <2>6. Listing(t, H)
    BY <2>1, <2>3, <2>4, <2>5, FreedLists
  <2>7. /\ t \in PairType /\ t.g.nMaxPage = grp.nMaxPage
        /\ t.g.nCurrentPage = grp.nCurrentPage - Cardinality(PurgeableOf(P))
        /\ Cardinality(PurgeableOf(P)) \in Nat
        /\ InLru(t.g) \subseteq InLru(grp)
    <3>1. /\ t \in PairType /\ t.g.nMaxPage = Group.g.nMaxPage
          /\ t.g.nCurrentPage = Group.g.nCurrentPage - Cardinality(PurgeableOf(P))
          /\ Cardinality(PurgeableOf(P)) \in Nat
          /\ InLru(t.g) = InLru(Group.g) \ P
      BY <2>1, <2>3, <2>5, FreedIs
    <3> QED BY <3>1, GroupStart
  <2>8. ASSUME NEW d \in PcCache
        PROVE  t.k[d].open = pc1[d].open /\ t.k[d].pages \subseteq pc1[d].pages
    <3>1. t.k[d].open = Group.k[d].open /\ t.k[d].pages = Group.k[d].pages \ Keys(d, P)
      BY <2>1, <2>3, <2>5, FreedIs
    <3> QED BY <3>1, GroupStart
  <2>9. Within(t.g, Cardinality(InAlloc), Cardinality(PcCache))
    <3>1. t.g.nCurrentPage <= grp.nCurrentPage
      BY <2>7, GroupStart
    <3> QED BY <2>7, <3>1, WithinLess
  <2> QED BY <1>2, <1>3, <2>2, <2>6, <2>7, <2>8, <2>9, QuietStep
<1>6. CASE ~free
  <2> DEFINE q == <<<<c, key>>>> \o grp.lru
             g == [grp EXCEPT !.lru = q]
             x == [pc1[c] EXCEPT !.nRecyclable = @ + 1]
             k == [pc1 EXCEPT ![c] = x]
  <2>1. PICK t : t = [g |-> g, k |-> k]
    OBVIOUS
  <2>2. Store(t)
    <3>1. Store([Group EXCEPT !.g.lru = <<<<c, key>>>> \o @, !.k[c].nRecyclable = @ + 1])
      BY <1>6 DEF PcUnpin
    <3>2. [Group EXCEPT !.g.lru = <<<<c, key>>>> \o @, !.k[c].nRecyclable = @ + 1]
            = [g |-> g, k |-> k]
      <4>1. Group = [g |-> grp, k |-> pc1]
        BY DEF Group
      <4>2. [Group EXCEPT !.g.lru = <<<<c, key>>>> \o @] = [g |-> g, k |-> pc1]
        <5>1. PICK r : r = <<<<c, key>>>> \o grp.lru
          OBVIOUS
        <5>2. [Group EXCEPT !.g = [grp EXCEPT !.lru = r]]
                = [g |-> [grp EXCEPT !.lru = r], k |-> pc1]
          BY <4>1
        <5>3. Group.g = grp
          BY <4>1
        <5> QED BY <5>1, <5>2, <5>3, Zenon
      <4> HIDE DEF g
      <4>3. [[g |-> g, k |-> pc1] EXCEPT !.k[c].nRecyclable = @ + 1] = [g |-> g, k |-> k]
        OBVIOUS
      <4> QED BY <4>2, <4>3
    <3> QED BY <2>1, <3>1, <3>2
  <2>3. <<c, key>> \in Pages /\ grp.lru \in Seq(Pages) /\ pc1[c] \in CacheType
    BY GroupStart DEF Pages, GroupType
  <2>4. /\ q \in Seq(Pages) /\ Len(q) = Len(grp.lru) + 1 /\ q[1] = <<c, key>>
        /\ \A i \in 2..Len(q) : q[i] = grp.lru[i - 1] /\ i - 1 \in DOMAIN grp.lru
        /\ \A i \in DOMAIN grp.lru : i + 1 \in DOMAIN q /\ q[i + 1] = grp.lru[i]
        /\ DOMAIN q = 1..Len(q)
    <3>1. PICK a : a = <<c, key>>
      OBVIOUS
    <3>2. a \in Pages /\ q = <<a>> \o grp.lru
      BY <2>3, <3>1
    <3> HIDE DEF q
    <3> QED BY <2>3, <3>1, <3>2
  <2> HIDE DEF q
  <2>5. g \in GroupType /\ g.lru = q /\ g.nCurrentPage = grp.nCurrentPage
        /\ g.nMaxPage = grp.nMaxPage
    BY <2>4, GroupStart DEF GroupType
  <2>6. x \in CacheType /\ x.pages = pc1[c].pages /\ x.open = pc1[c].open
        /\ x.nRecyclable = pc1[c].nRecyclable + 1
    BY <2>3 DEF CacheType
  <2> HIDE DEF g, x
  <2>7. k \in [PcCache -> CacheType] /\ k[c] = x /\ \A d \in PcCache \ {c} : k[d] = pc1[d]
    BY <2>6, GroupStart
  <2> HIDE DEF k
  <2>8. t \in PairType /\ t.g = g /\ t.k = k
    BY <2>1, <2>5, <2>7 DEF PairType
  <2>9. <<c, key>> \notin InLru(grp)
    BY <1>2, HeldNotListed
  <2>10. InLru(t.g) = InLru(grp) \cup {<<c, key>>}
    <3>1. InLru(t.g) = {q[i] : i \in DOMAIN q}
      BY <2>5, <2>8 DEF InLru
    <3>2. ASSUME NEW y \in InLru(grp) PROVE y \in InLru(t.g)
      <4>1. PICK i \in DOMAIN grp.lru : y = grp.lru[i]
        BY DEF InLru
      <4>2. i + 1 \in DOMAIN q /\ q[i + 1] = y
        BY <2>4, <4>1
      <4> QED BY <3>1, <4>2
    <3>3. <<c, key>> \in InLru(t.g)
      <4>1. 1 \in DOMAIN q
        BY <2>3, <2>4
      <4> QED BY <2>4, <3>1, <4>1
    <3>4. ASSUME NEW y \in InLru(t.g) PROVE y \in InLru(grp) \/ y = <<c, key>>
      <4>1. PICK i \in DOMAIN q : y = q[i]
        BY <3>1
      <4>2. CASE i = 1
        BY <2>4, <4>1, <4>2
      <4>3. CASE i # 1
        <5>1. i \in 2..Len(q)
          BY <2>4, <4>3
        <5> QED BY <2>4, <4>1, <5>1 DEF InLru
      <4> QED BY <4>2, <4>3
    <3> QED BY <3>2, <3>3, <3>4
  <2>11. Once(t.g.lru)
    <3>1. SUFFICES ASSUME NEW i \in DOMAIN q, NEW j \in DOMAIN q, q[i] = q[j], i # j
                   PROVE  FALSE
      BY <2>5, <2>8 DEF Once
    <3>2. CASE i = 1
      <4>1. j \in 2..Len(q)
        BY <2>4, <3>1, <3>2
      <4> QED BY <2>4, <2>9, <3>1, <3>2, <4>1 DEF InLru
    <3>3. CASE j = 1
      <4>1. i \in 2..Len(q)
        BY <2>4, <3>1, <3>3
      <4> QED BY <2>4, <2>9, <3>1, <3>3, <4>1 DEF InLru
    <3>4. CASE i # 1 /\ j # 1
      <4>1. i \in 2..Len(q) /\ j \in 2..Len(q)
        BY <2>4, <3>4
      <4>2. Once(grp.lru)
        BY GroupStart DEF Listing
      <4>3. i - 1 = j - 1
        BY <2>4, <3>1, <4>1, <4>2 DEF Once
      <4> QED BY <3>1, <4>1, <4>3
    <3> QED BY <3>2, <3>3, <3>4
  <2>12. Purgeable(c)
    BY <1>2, <1>6
  <2>13. \A pg \in InLru(t.g) : Purgeable(pg[1])
    BY <2>10, <2>12, GroupStart DEF Listing
  <2>14. ASSUME NEW d \in PcCache
         PROVE  /\ IsFiniteSet(t.k[d].pages)
                /\ H[d] \subseteq t.k[d].pages
                /\ \A y \in PcKeys : <<d, y>> \in InLru(t.g) <=> y \in t.k[d].pages \ H[d]
                /\ t.k[d].nRecyclable = Cardinality(Of(d, InLru(t.g)))
    <3>1. /\ IsFiniteSet(pc1[d].pages) /\ held[d] \subseteq pc1[d].pages
          /\ \A y \in PcKeys : <<d, y>> \in InLru(grp) <=> y \in pc1[d].pages \ held[d]
          /\ pc1[d].nRecyclable = Cardinality(Of(d, InLru(grp)))
      BY HeldNotListed
    <3>2. CASE d = c
      <4>1. Of(c, InLru(t.g)) = Of(c, InLru(grp)) \cup {<<c, key>>}
        BY <2>10 DEF Of
      <4>2. IsFiniteSet(Of(c, InLru(grp))) /\ Cardinality(Of(c, InLru(grp))) \in Nat
        BY GroupStart, InLruIs, OfFinite
      <4>3. <<c, key>> \notin Of(c, InLru(grp))
        BY <2>9 DEF Of
      <4>4. Cardinality(Of(c, InLru(t.g))) = Cardinality(Of(c, InLru(grp))) + 1
        BY <4>1, <4>2, <4>3, FS_AddElement
      <4>5. \A y \in PcKeys : <<c, y>> \in InLru(t.g) <=> (<<c, y>> \in InLru(grp) \/ y = key)
        BY <2>10
      <4> QED BY <1>2, <1>3, <2>6, <2>7, <2>8, <3>1, <3>2, <4>4, <4>5
    <3>3. CASE d # c
      <4>1. Of(d, InLru(t.g)) = Of(d, InLru(grp))
        BY <2>10, <3>3 DEF Of
      <4>2. \A y \in PcKeys : <<d, y>> \in InLru(t.g) <=> <<d, y>> \in InLru(grp)
        BY <2>10, <3>3
      <4> QED BY <1>3, <2>7, <2>8, <3>1, <3>3, <4>1, <4>2
    <3> QED BY <3>2, <3>3
  <2>15. Listing(t, H)
    BY <2>11, <2>13, <2>14 DEF Listing
  <2>16. Within(t.g, Cardinality(InAlloc), Cardinality(PcCache))
    <3>1. t.g.nCurrentPage <= t.g.nMaxPage
      BY <1>6, <2>5, <2>8, GroupStart
    <3> QED BY <1>4, <2>8, <3>1, WithinMax
  <2>17. \A d \in PcCache : t.k[d].open = pc1[d].open /\ t.k[d].pages \subseteq pc1[d].pages
    BY <2>6, <2>7, <2>8
  <2> QED BY <1>2, <1>3, <2>2, <2>8, <2>15, <2>16, <2>17, QuietStep
<1> QED BY <1>5, <1>6

\* pcache1Rekey()
LEMMA RekeyInv ==
  ASSUME PcInv, NEW c \in PcCache, NEW old \in PcKeys, NEW new \in PcKeys, PcRekey(c, old, new)
  PROVE  PcInv'
<1> DEFINE H == [held EXCEPT ![c] = (@ \ {old}) \cup {new}]
           p == (pc1[c].pages \ {old}) \cup {new}
           m == IF new > pc1[c].iMaxKey THEN new ELSE pc1[c].iMaxKey
           x == [pc1[c] EXCEPT !.pages = p, !.iMaxKey = m]
           k == [pc1 EXCEPT ![c] = x]
<1>1. PICK t : t = [g |-> grp, k |-> k]
  OBVIOUS
<1>2. /\ Idle(c) /\ old \in held[c] /\ new \notin pc1[c].pages
      /\ held' = H /\ UNCHANGED <<grp, fetch>> /\ pc1' = k
      /\ pcEnv' \in PcSetupType /\ pcEnv'.purgeable = pcEnv.purgeable
  <2>1. pc1' = k
    BY GroupStart DEF PcRekey
  <2> QED BY <2>1, Spent DEF PcRekey, PcInv
<1>3. H \in [PcCache -> SUBSET PcKeys] /\ H[c] = (held[c] \ {old}) \cup {new}
      /\ \A d \in PcCache \ {c} : H[d] = held[d]
  BY GroupStart
<1>4. p \in SUBSET PcKeys /\ m \in Int /\ pc1[c] \in CacheType
  BY GroupStart, PcAssumption DEF CacheType
<1>5. IsFiniteSet(p)
  <2>1. IsFiniteSet(pc1[c].pages)
    BY HeldNotListed
  <2> QED BY <2>1, FS_RemoveElement, FS_AddElement
<1> HIDE DEF H, m
<1>6. x \in CacheType /\ x.pages = p /\ x.open = pc1[c].open
      /\ x.nRecyclable = pc1[c].nRecyclable
  <2> HIDE DEF p
  <2> QED BY <1>4 DEF CacheType
<1> HIDE DEF x
<1>7. k \in [PcCache -> CacheType] /\ k[c] = x /\ \A d \in PcCache \ {c} : k[d] = pc1[d]
  BY <1>6, GroupStart
<1> HIDE DEF k
<1>8. t \in PairType /\ t.g = grp /\ t.k = k /\ Store(t)
  BY <1>1, <1>2, <1>7, GroupStart DEF PairType, Store
<1>9. ASSUME NEW d \in PcCache
      PROVE  /\ IsFiniteSet(t.k[d].pages)
             /\ H[d] \subseteq t.k[d].pages
             /\ \A y \in PcKeys : <<d, y>> \in InLru(t.g) <=> y \in t.k[d].pages \ H[d]
             /\ t.k[d].nRecyclable = Cardinality(Of(d, InLru(t.g)))
  <2>1. /\ IsFiniteSet(pc1[d].pages) /\ held[d] \subseteq pc1[d].pages
        /\ \A y \in PcKeys : <<d, y>> \in InLru(grp) <=> y \in pc1[d].pages \ held[d]
        /\ pc1[d].nRecyclable = Cardinality(Of(d, InLru(grp)))
    BY HeldNotListed
  <2>2. CASE d = c
    BY <1>2, <1>3, <1>5, <1>6, <1>7, <1>8, <2>1, <2>2
  <2>3. CASE d # c
    BY <1>3, <1>7, <1>8, <2>1, <2>3
  <2> QED BY <2>2, <2>3
<1>10. Listing(t, H)
  BY <1>8, <1>9, GroupStart DEF Listing
<1>11. ASSUME NEW d \in PcCache
       PROVE  /\ fetch'[d].st # "idle" => t.k[d].open /\ fetch'[d].key \in PcKeys \ t.k[d].pages
              /\ ~t.k[d].open => t.k[d].pages = {}
  <2>1. CASE d = c
    BY <1>2, <1>6, <1>7, <1>8, <2>1 DEF Idle
  <2>2. CASE d # c
    BY <1>2, <1>7, <1>8, <2>2 DEF PcInv, FetchAt
  <2> QED BY <2>1, <2>2
<1>12. InAlloc' = InAlloc /\ fetch' \in [PcCache -> FetchType]
  BY <1>2, AllocSame, GroupStart
<1>13. Within(t.g, Cardinality(InAlloc'), Cardinality(PcCache))
  BY <1>8, <1>12 DEF PcInv
<1> QED BY <1>2, <1>3, <1>8, <1>10, <1>11, <1>12, <1>13, PcStep

\* pcache1Truncate()
LEMMA TruncateInv ==
  ASSUME PcInv, NEW c \in PcCache, NEW limit \in PcKeys, PcTruncate(c, limit) PROVE PcInv'
<1> DEFINE H == [held EXCEPT ![c] = {y \in @ : y < limit}]
<1>1. PICK P : P = {pg \in All(c) : pg[2] >= limit}
  OBVIOUS
<1>2. PICK s : s = Freed(Group, P)
  OBVIOUS
<1>3. /\ Idle(c) /\ UNCHANGED fetch
      /\ pcEnv' \in PcSetupType /\ pcEnv'.purgeable = pcEnv.purgeable
  BY Spent DEF PcTruncate, PcInv
<1>4. CASE limit <= pc1[c].iMaxKey
  <2> DEFINE x == [s.k[c] EXCEPT !.iMaxKey = limit - 1]
             k == [s.k EXCEPT ![c] = x]
  <2>1. P \subseteq Pages /\ IsFiniteSet(P)
    BY <1>1, AllIs, FS_Subset
  <2>2. H \in [PcCache -> SUBSET PcKeys] /\ H[c] = {y \in held[c] : y < limit}
        /\ \A d \in PcCache \ {c} : H[d] = held[d]
    BY GroupStart
  <2> HIDE DEF H
  <2>3. /\ Keys(c, P) = {y \in pc1[c].pages : y >= limit}
        /\ \A d \in PcCache \ {c} : Keys(d, P) = {}
    <3>1. \A d \in PcCache \ {c} : Keys(d, P) = {}
      BY <1>1 DEF Keys, Of, All
    <3>2. Of(c, P) = P
      BY <1>1 DEF Of, All
    <3>3. \A y \in pc1[c].pages : y >= limit => <<c, y>> \in P /\ <<c, y>>[2] = y
      BY <1>1 DEF All
    <3>4. \A pg \in P : pg[2] \in pc1[c].pages /\ pg[2] >= limit
      BY <1>1 DEF All
    <3>5. Keys(c, P) = {pg[2] : pg \in P}
      BY <3>2 DEF Keys
    <3>6. \A y : y \in Keys(c, P) <=> y \in pc1[c].pages /\ y >= limit
      BY <3>3, <3>4, <3>5
    <3> QED BY <3>1, <3>6
  <2>4. \A d \in PcCache : H[d] = held[d] \ Keys(d, P)
    <3>1. held[c] \subseteq pc1[c].pages /\ held[c] \subseteq PcKeys /\ limit \in Nat
          /\ PcKeys \subseteq Nat
      BY HeldNotListed, GroupStart, PcAssumption
    <3>2. ASSUME NEW y \in held[c] PROVE y < limit <=> ~(y >= limit)
      <4>1. y \in Nat /\ limit \in Nat
        BY <3>1
      <4> QED BY <4>1
    <3>3. H[c] = held[c] \ Keys(c, P)
      BY <2>2, <2>3, <3>1, <3>2
    <3> QED BY <2>2, <2>3, <3>3
  <2>5. Group \in PairType /\ Listing(Group, held)
    BY GroupStart
  <2>6. Listing(s, H)
    BY <1>2, <2>1, <2>4, <2>5, FreedLists
  <2>7. /\ s \in PairType /\ s.g.nMaxPage = grp.nMaxPage
        /\ s.g.nCurrentPage = grp.nCurrentPage - Cardinality(PurgeableOf(P))
        /\ Cardinality(PurgeableOf(P)) \in Nat
        /\ InLru(s.g) \subseteq InLru(grp)
    <3>1. /\ s \in PairType /\ s.g.nMaxPage = Group.g.nMaxPage
          /\ s.g.nCurrentPage = Group.g.nCurrentPage - Cardinality(PurgeableOf(P))
          /\ Cardinality(PurgeableOf(P)) \in Nat
          /\ InLru(s.g) = InLru(Group.g) \ P
      BY <1>2, <2>1, <2>5, FreedIs
    <3> QED BY <3>1, GroupStart
  <2>8. ASSUME NEW d \in PcCache
        PROVE  s.k[d].open = pc1[d].open /\ s.k[d].pages \subseteq pc1[d].pages
    <3>1. s.k[d].open = Group.k[d].open /\ s.k[d].pages = Group.k[d].pages \ Keys(d, P)
      BY <1>2, <2>1, <2>5, FreedIs
    <3> QED BY <3>1, GroupStart
  <2>9. s.g \in GroupType /\ s.k \in [PcCache -> CacheType] /\ s = [g |-> s.g, k |-> s.k]
    BY <2>7 DEF PairType
  <2>10. x \in CacheType /\ x.pages = s.k[c].pages /\ x.open = s.k[c].open
         /\ x.nRecyclable = s.k[c].nRecyclable
    <3>1. limit - 1 \in Int /\ s.k[c] \in CacheType
      BY <2>9, PcAssumption
    <3> QED BY <3>1 DEF CacheType
  <2>11. PICK t : t = [g |-> s.g, k |-> k]
    OBVIOUS
  <2>12. Store(t) /\ held' = H
    <3>1. Store([s EXCEPT !.k[c].iMaxKey = limit - 1]) /\ held' = H
      BY <1>1, <1>2, <1>4 DEF PcTruncate, H
    <3>2. [s EXCEPT !.k[c].iMaxKey = limit - 1] = [g |-> s.g, k |-> k]
      BY <2>9
    <3> QED BY <2>11, <3>1, <3>2
  <2> HIDE DEF x
  <2>13. k \in [PcCache -> CacheType] /\ k[c] = x /\ \A d \in PcCache \ {c} : k[d] = s.k[d]
    BY <2>9, <2>10
  <2> HIDE DEF k
  <2>14. t \in PairType /\ t.g = s.g /\ t.k = k
    BY <2>9, <2>11, <2>13 DEF PairType
  <2>15. \A d \in PcCache : /\ t.k[d].pages = s.k[d].pages /\ t.k[d].open = s.k[d].open
                            /\ t.k[d].nRecyclable = s.k[d].nRecyclable
    BY <2>10, <2>13, <2>14
  <2>16. Listing(t, H)
    BY <2>6, <2>14, <2>15, ListingSame
  <2>17. Within(t.g, Cardinality(InAlloc), Cardinality(PcCache))
    <3>1. s.g.nCurrentPage <= grp.nCurrentPage
      BY <2>7, GroupStart
    <3>2. Within(s.g, Cardinality(InAlloc), Cardinality(PcCache))
      BY <2>7, <3>1, WithinLess
    <3> QED BY <2>14, <3>2
  <2>18. \A d \in PcCache : t.k[d].open = pc1[d].open /\ t.k[d].pages \subseteq pc1[d].pages
    BY <2>8, <2>15
  <2> QED BY <1>3, <2>2, <2>12, <2>14, <2>16, <2>17, <2>18, QuietStep
<1>5. CASE ~(limit <= pc1[c].iMaxKey)
  <2>1. UNCHANGED <<grp, pc1, held, fetch>>
    BY <1>3, <1>5 DEF PcTruncate
  <2>2. /\ fetch' \in [PcCache -> FetchType] /\ \A d \in PcCache \ {c} : fetch'[d] = fetch[d]
        /\ fetch'[c].st = "idle"
    BY <1>3, <2>1, GroupStart DEF Idle
  <2> QED BY <1>3, <2>1, <2>2, FetchStep
<1> QED BY <1>4, <1>5

-----------------------------------------------------------------------------
(* Initially, and from one state to the next *)

LEMMA InitPcInv == ASSUME PcInit PROVE PcInv
<1>1. Group = [g |-> grp, k |-> pc1] /\ Group.g = grp /\ Group.k = pc1
  BY DEF Group
<1>2. /\ grp = [nMaxPage |-> 0, nMinPage |-> 0, nCurrentPage |-> 0, lru |-> <<>>]
      /\ pc1 = [c \in PcCache |-> NoCache]
      /\ fetch = [c \in PcCache |-> NoFetch] /\ held = [c \in PcCache |-> {}]
      /\ pcEnv \in PcSetupType
  BY PcAssumption DEF PcInit
<1>3. grp \in GroupType /\ grp.lru = <<>>
  BY <1>2 DEF GroupType
<1>4. PcTypeOK
  <2>1. pc1 \in [PcCache -> CacheType]
    BY <1>2, NoCacheIs
  <2>2. NoFetch \in FetchType
    BY DEF NoFetch, FetchType
  <2> QED BY <1>1, <1>2, <1>3, <2>1, <2>2 DEF PcTypeOK, PairType
<1>5. InLru(grp) = {}
  BY <1>3, InLruIs
<1>6. Listing(Group, held)
  <2>1. Once(Group.g.lru)
    BY <1>1, <1>3 DEF Once
  <2>2. ASSUME NEW c \in PcCache
        PROVE  /\ IsFiniteSet(pc1[c].pages)
               /\ held[c] \subseteq pc1[c].pages
               /\ \A key \in PcKeys : <<c, key>> \in InLru(grp) <=> key \in pc1[c].pages \ held[c]
               /\ pc1[c].nRecyclable = Cardinality(Of(c, InLru(grp)))
    <3>1. pc1[c].pages = {} /\ held[c] = {} /\ pc1[c].nRecyclable = 0
      BY <1>2 DEF NoCache
    <3>2. Of(c, InLru(grp)) = {}
      BY <1>5 DEF Of
    <3> QED BY <1>5, <3>1, <3>2, FS_EmptySet
  <2> QED BY <1>1, <1>5, <2>1, <2>2 DEF Listing
<1>7. \A c \in PcCache : FetchAt(c)
  BY <1>2 DEF FetchAt, NoFetch, NoCache
<1>8. Within(grp, Cardinality(InAlloc), Cardinality(PcCache))
  BY <1>3 DEF Within
<1> QED BY <1>4, <1>6, <1>7, <1>8 DEF PcInv

LEMMA NextPcInv == ASSUME PcInv, [PcNext]_pcVars PROVE PcInv'
<1>1. CASE PcReleaseMemory
  BY <1>1, ReleaseMemoryInv
<1>2. ASSUME NEW c \in PcCache,
             PcShrink(c) \/ PcDestroy(c) \/ FetchAllocated(c) \/ FetchNoMemory(c)
      PROVE  PcInv'
  BY <1>2, ShrinkInv, DestroyInv, FetchAllocatedInv, FetchNoMemoryInv
<1>3. ASSUME NEW c \in PcCache, NEW n \in PcSizes, PcCreate(c, n) \/ PcCachesize(c, n)
      PROVE  PcInv'
  BY <1>3, CreateInv, CachesizeInv
<1>4. ASSUME NEW c \in PcCache, NEW short \in BOOLEAN,
             FetchResized(c, short) \/ FetchNotResized(c, short)
      PROVE  PcInv'
  BY <1>4, FetchResizedInv, FetchNotResizedInv
<1>5. ASSUME NEW c \in PcCache, NEW k \in PcKeys, FetchHit(c, k) \/ PcTruncate(c, k)
      PROVE  PcInv'
  BY <1>5, FetchHitInv, TruncateInv
<1>6. ASSUME NEW c \in PcCache, NEW k \in PcKeys, NEW b \in BOOLEAN, PcUnpin(c, k, b)
      PROVE  PcInv'
  BY <1>6, UnpinInv
<1>7. ASSUME NEW c \in PcCache, NEW k \in PcKeys, NEW b \in BOOLEAN, NEW flag \in {1, 2},
             FetchMiss(c, k, flag, b)
      PROVE  PcInv'
  BY <1>7, FetchMissInv
<1>8. ASSUME NEW c \in PcCache, NEW k \in PcKeys, NEW new \in PcKeys, PcRekey(c, k, new)
      PROVE  PcInv'
  BY <1>8, RekeyInv
<1>9. CASE UNCHANGED pcVars
  <2>1. Group' = Group /\ InAlloc' = InAlloc
    BY <1>9 DEF pcVars, Group, InAlloc, Purgeable
  <2>2. PcTypeOK' /\ Within(grp, Cardinality(InAlloc), Cardinality(PcCache))'
    BY <1>9, <2>1 DEF pcVars, PcInv, PcTypeOK, Within
  <2>3. Listing(Group, held)'
    BY <1>9, <2>1, SamePurgeable DEF pcVars, PcInv, Listing
  <2>4. (\A c \in PcCache : FetchAt(c))'
    BY <1>9 DEF pcVars, PcInv, FetchAt
  <2> QED BY <2>2, <2>3, <2>4 DEF PcInv
<1> QED BY <1>1, <1>2, <1>3, <1>4, <1>5, <1>6, <1>7, <1>8, <1>9 DEF PcNext

-----------------------------------------------------------------------------
(* Theorems *)

\* Type correctness, the list and the counters beside the pages that are pinned, and the room
\* that allocations under way may still take
THEOREM PcInvHolds == PcSpec => []PcInv
<1>1. PcInit => PcInv
  BY InitPcInv
<1>2. PcInv /\ [PcNext]_pcVars => PcInv'
  BY NextPcInv
<1> QED BY <1>1, <1>2, PTL DEF PcSpec

\* Counting the places of the list or the pages in it is the same.
LEMMA PlacesArePages ==
  ASSUME NEW g \in GroupType, Once(g.lru), NEW c
  PROVE  Cardinality({i \in DOMAIN g.lru : g.lru[i][1] = c}) = Cardinality(Of(c, InLru(g)))
<1> DEFINE I == {i \in DOMAIN g.lru : g.lru[i][1] = c}
           S == Of(c, InLru(g))
           f == [i \in I |-> g.lru[i]]
<1>1. IsFiniteSet(I)
  <2>1. g.lru \in Seq(Pages) /\ DOMAIN g.lru = 1..Len(g.lru) /\ Len(g.lru) \in Nat
    BY DEF GroupType
  <2>2. IsFiniteSet(DOMAIN g.lru)
    BY <2>1, FS_Interval
  <2> QED BY <2>2, FS_Subset
<1>2. f \in Bijection(I, S)
  <2>1. f \in Surjection(I, S)
    <3>1. f \in [I -> S]
      BY DEF Of, InLru
    <3>2. \A y \in S : \E i \in I : f[i] = y
      BY DEF Of, InLru
    <3> HIDE DEF f, I, S
    <3> QED BY <3>1, <3>2 DEF Surjection
  <2>2. \A i, j \in I : f[i] = f[j] => i = j
    BY DEF Once
  <2> HIDE DEF f, I, S
  <2>3. f \in Injection(I, S)
    BY <2>1, <2>2 DEF Injection, Surjection, IsInjective
  <2> QED BY <2>1, <2>3 DEF Bijection
<1> HIDE DEF f, I, S
<1>3. ExistsBijection(I, S)
  BY <1>2 DEF ExistsBijection
<1>4. Cardinality(I) = Cardinality(S)
  BY <1>1, <1>3, FS_Bijection
<1> QED BY <1>4 DEF I, S

\* However fetches that let go of the mutex interleave with the recycling of pages, no cache
\* loses a page its pager has pinned, and each other page can be recycled (pcache1Fetch(),
\* pcache1PinPage(), pcache1Unpin()).
THEOREM PinnedNotRecycledHolds == PcSpec => []PinnedNotRecycled
<1>1. ASSUME PcInv PROVE PinnedNotRecycled
  <2>1. SUFFICES ASSUME NEW c \in PcCache
        PROVE  /\ {k \in PcKeys : <<c, k>> \in InLru(grp)} = pc1[c].pages \ held[c]
               /\ held[c] \subseteq pc1[c].pages
               /\ pc1[c].nRecyclable = Cardinality({i \in DOMAIN grp.lru : grp.lru[i][1] = c})
    BY DEF PinnedNotRecycled
  <2>2. /\ \A k \in PcKeys : <<c, k>> \in InLru(grp) <=> k \in pc1[c].pages \ held[c]
        /\ held[c] \subseteq pc1[c].pages
        /\ pc1[c].nRecyclable = Cardinality(Of(c, InLru(grp)))
    BY <1>1, GroupStart DEF Listing
  <2>3. pc1[c].pages \subseteq PcKeys
    BY <1>1, GroupStart DEF CacheType
  <2>4. grp \in GroupType /\ Once(grp.lru)
    BY <1>1, GroupStart DEF Listing
  <2>5. Cardinality({i \in DOMAIN grp.lru : grp.lru[i][1] = c}) = Cardinality(Of(c, InLru(grp)))
    BY <2>4, PlacesArePages
  <2> QED BY <2>2, <2>3, <2>5
<1> QED BY <1>1, PcInvHolds, PTL

\* The pages that were being allocated when the mutex was free are the only ones by which a
\* group that has pages to recycle exceeds its budget (pcache1EnforceMaxPage(), pcache1Unpin()).
THEOREM OverBudgetHolds == PcSpec => []OverBudgetByRacesOnly
<1>1. ASSUME PcInv PROVE OverBudgetByRacesOnly
  <2>1. grp.nCurrentPage \in Int /\ grp.nMaxPage \in Int
    BY <1>1, GroupStart
  <2>2. Within(grp, Cardinality(InAlloc), Cardinality(PcCache))
    BY <1>1 DEF PcInv
  <2> QED BY <2>1, <2>2, AllocFinite DEF Within, OverBudgetByRacesOnly
<1> QED BY <1>1, PcInvHolds, PTL
=============================================================================
