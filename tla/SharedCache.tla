---------------------------- MODULE SharedCache ----------------------------
(***************************************************************************)
(* Connections of one process that share a b-tree (shared-cache mode):     *)
(* table locks, the statements and transactions that take and drop them    *)
(* (OP_Transaction, OP_TableLock, OP_AutoCommit, sqlite3VdbeHalt()), and   *)
(* notify.c, with which a connection waits for the one that blocks it.     *)
(*                                                                         *)
(* Every step under the b-tree's mutex is one action; other connections    *)
(* run between the opcodes of a statement, and between the release of the  *)
(* locks and the notification.  The schema table is table 1.               *)
(***************************************************************************)
EXTENDS Integers, FiniteSets

CONSTANTS ShConn,       \* connections
          NoConn,
          NTab,         \* tables
          ShSetups      \* configurations: [conns, slots, starts, closes, uncommitted]

ASSUME SharedCacheAssumption ==
  /\ IsFiniteSet(ShConn) /\ NoConn \notin ShConn /\ NTab \in Nat \ {0}
  /\ ShSetups \subseteq [conns : SUBSET ShConn, slots : Nat, starts : Nat, closes : Nat,
                        uncommitted : SUBSET ShConn]

VARIABLES
  lock,                 \* lock[c][t]: 0, READ_LOCK or WRITE_LOCK
  inTrans,              \* inTrans[c]
  shared,               \* BtShared: inTransaction, nTransaction, pWriter, the BTS_ flags
  auto,                 \* db->autoCommit
  stmt,                 \* stmt[c][s]: the statement in slot s
  notify,               \* pBlockingConnection, pUnlockConnection
  blockedList,          \* sqlite3BlockedList
  failed,               \* the last statement got SQLITE_LOCKED
  closed,               \* sqlite3_close(): "no", "locks" (the b-tree is closed) or "yes"
  shEnv

shVars == <<lock, inTrans, shared, auto, stmt, notify, blockedList, failed, closed, shEnv>>
btree  == <<lock, inTrans, shared>>
waits  == <<notify, blockedList>>

None == 0
Read == 1
Write == 2

Slots == 1..2
NoStmt == [pc |-> "none", kind |-> "none", wr |-> 0, tab |-> 0, ok |-> TRUE]

ShInit ==
  /\ shEnv \in ShSetups
  /\ lock = [c \in ShConn |-> [t \in 1..NTab |-> 0]]
  /\ inTrans = [c \in ShConn |-> None]
  /\ shared = [inTransaction |-> None, nTransaction |-> 0, pWriter |-> NoConn,
               exclusive |-> FALSE, pending |-> FALSE]
  /\ auto = [c \in ShConn |-> TRUE]
  /\ stmt = [c \in ShConn |-> [s \in Slots |-> NoStmt]]
  /\ notify = [c \in ShConn |-> [blocking |-> NoConn, unlock |-> NoConn]]
  /\ blockedList = {}
  /\ failed = [c \in ShConn |-> FALSE]
  /\ closed = [c \in ShConn |-> "no"]

Active(c) == {s \in Slots : stmt[c][s].pc # "none"}               \* activeVdbeCnt
Writers(c) == {s \in Active(c) : stmt[c][s].wr > 0}               \* writeVdbeCnt
\* No statement of c is in the middle of sqlite3_step(), which holds the connection's mutex.
Quiet(c) == closed[c] = "no" /\ \A s \in Slots : stmt[c][s].pc \in {"none", "run"}
Goes(c, s, pc) == stmt' = [stmt EXCEPT ![c][s].pc = pc]

-----------------------------------------------------------------------------
(* notify.c *)

ConnectionBlocked(c, d) ==
  /\ notify' = [notify EXCEPT ![c].blocking = d]
  /\ blockedList' = blockedList \cup {c}

\* Who waits for d is called back; who is on no one's account leaves the list.
ConnectionUnlocked(d) ==
  LET Clear(x) == IF x = d THEN NoConn ELSE x IN
  /\ notify' = [c \in ShConn |->
       IF c \notin blockedList THEN notify[c]
       ELSE [blocking |-> Clear(notify[c].blocking), unlock |-> Clear(notify[c].unlock)]]
  /\ blockedList' = {c \in blockedList :
       notify'[c].blocking # NoConn \/ notify'[c].unlock # NoConn}

\* The connections that are met on the way from d along pUnlockConnection.
Waits(d) ==
  {x \in ShConn : \A S \in SUBSET ShConn :
     d \in S /\ (\A y \in S : notify[y].unlock \in S \cup {NoConn}) => x \in S}

\* Mutant: whoever blocks is waited for.
UnlockNotifyBlind(c) ==
  LET b == notify[c].blocking IN
  /\ failed[c] /\ Quiet(c)
  /\ failed' = [failed EXCEPT ![c] = FALSE]
  /\ IF b = NoConn THEN UNCHANGED waits
     ELSE notify' = [notify EXCEPT ![c].unlock = b] /\ blockedList' = blockedList \cup {c}
  /\ UNCHANGED <<btree, auto, stmt, shEnv, closed>>

\* sqlite3_unlock_notify(): called back at once if nobody blocks, refused (SQLITE_LOCKED,
\* "database is deadlocked") if the blocker waits for this connection.
UnlockNotify(c) ==
  LET b == notify[c].blocking IN
  /\ failed[c] /\ Quiet(c)
  /\ failed' = [failed EXCEPT ![c] = FALSE]
  /\ IF b = NoConn \/ c \in Waits(b) THEN UNCHANGED waits
     ELSE notify' = [notify EXCEPT ![c].unlock = b] /\ blockedList' = blockedList \cup {c}
  /\ UNCHANGED <<btree, auto, stmt, shEnv, closed>>

\* with xNotify = 0
CancelNotify(c) ==
  /\ notify[c].unlock # NoConn /\ Quiet(c)
  /\ notify' = [notify EXCEPT ![c] = [blocking |-> NoConn, unlock |-> NoConn]]
  /\ blockedList' = blockedList \ {c}
  /\ UNCHANGED <<btree, auto, stmt, failed, shEnv, closed>>

-----------------------------------------------------------------------------
(* btree.c: the locks *)

\* querySharedCacheTableLock(): the connections that block c, on either account.
LockBlockers(c, t, mode) ==
  IF shared.pWriter # c /\ shared.exclusive THEN {shared.pWriter}
  ELSE {d \in ShConn \ {c} : lock[d][t] # 0 /\ lock[d][t] # mode}

\* sqlite3BtreeBeginTrans(): those that block the start of a transaction.
BeginBlockers(c, wr) ==
  IF (wr > 0 /\ shared.inTransaction = Write) \/ shared.pending THEN {shared.pWriter}
  ELSE LET others == {d \in ShConn \ {c} : \E t \in 1..NTab : lock[d][t] # 0}
       IN IF wr > 1 /\ others # {} THEN others ELSE LockBlockers(c, 1, Read)

Fails(c, s, d) ==
  /\ ConnectionBlocked(c, d)
  /\ stmt' = [stmt EXCEPT ![c][s].pc = "halt", ![c][s].ok = FALSE]

BeginTrans(c, s) ==
  LET wr   == stmt[c][s].wr
      has  == inTrans[c] = Write \/ (inTrans[c] = Read /\ wr = 0)
      next == IF stmt[c][s].kind = "begin" THEN "auto" ELSE "lock"
  IN /\ stmt[c][s].pc = "trans"
     /\ \/ /\ has
           /\ Goes(c, s, next) /\ UNCHANGED <<btree, waits>>
        \/ /\ ~has /\ BeginBlockers(c, wr) = {}
           /\ inTrans' = [inTrans EXCEPT ![c] = IF wr > 0 THEN Write ELSE Read]
           /\ lock' = IF inTrans[c] = None THEN [lock EXCEPT ![c][1] = Read] ELSE lock
           /\ shared' = [shared EXCEPT
                !.nTransaction = IF inTrans[c] = None THEN @ + 1 ELSE @,
                !.inTransaction = IF inTrans'[c] > @ THEN inTrans'[c] ELSE @,
                !.pWriter = IF wr > 0 THEN c ELSE @,
                !.exclusive = IF wr > 0 THEN wr > 1 ELSE @]
           /\ Goes(c, s, next) /\ UNCHANGED waits
        \/ /\ ~has
           /\ \E d \in BeginBlockers(c, wr) : Fails(c, s, d)
           /\ UNCHANGED btree
     /\ UNCHANGED <<auto, failed, shEnv, closed>>

\* sqlite3BtreeLockTable(): a read-uncommitted connection takes no read locks.
LockTable(c, s) ==
  LET t    == stmt[c][s].tab
      mode == IF stmt[c][s].wr > 0 THEN Write ELSE Read
      B    == LockBlockers(c, t, mode)
  IN /\ stmt[c][s].pc = "lock"
     /\ \/ /\ mode = Read /\ c \in shEnv.uncommitted
           /\ Goes(c, s, "run") /\ UNCHANGED <<lock, shared, waits>>
        \/ /\ mode = Write \/ c \notin shEnv.uncommitted
           /\ B = {}
           /\ lock' = [lock EXCEPT ![c][t] = IF mode > @ THEN mode ELSE @]
           /\ Goes(c, s, "run") /\ UNCHANGED <<shared, waits>>
        \/ /\ mode = Write \/ c \notin shEnv.uncommitted
           /\ \E d \in B : Fails(c, s, d)
           /\ shared' = [shared EXCEPT !.pending = @ \/ mode = Write]
           /\ UNCHANGED lock
     /\ UNCHANGED <<inTrans, auto, failed, shEnv, closed>>

\* Mutant: the locks are dropped, whatever else the connection runs.
EndTransactionDrops(c, active) ==
  LET mine == shared.pWriter = c IN
  /\ inTrans' = [inTrans EXCEPT ![c] = None]
  /\ lock' = [lock EXCEPT ![c] = [t \in 1..NTab |-> 0]]
  /\ shared' = [shared EXCEPT
       !.nTransaction = @ - 1,
       !.inTransaction = IF shared.nTransaction = 1 THEN None
                         ELSE IF inTrans[c] = Write THEN Read ELSE @,
       !.pWriter = IF mine THEN NoConn ELSE @,
       !.exclusive = @ /\ ~mine,
       !.pending = @ /\ ~mine /\ shared.nTransaction # 2]

\* sqlite3BtreeCommitPhaseTwo() or sqlite3BtreeRollback(), and btreeEndTransaction(): with
\* another statement active the locks are downgraded, not dropped.
EndTransaction(c, active) ==
  LET mine == shared.pWriter = c
      keep == active > 1
  IN /\ inTrans' = [inTrans EXCEPT ![c] = IF keep THEN Read ELSE None]
     /\ lock' = [lock EXCEPT ![c] = [t \in 1..NTab |->
                   IF ~keep THEN 0 ELSE IF mine /\ @[t] = Write THEN Read ELSE @[t]]]
     /\ shared' = [shared EXCEPT
          !.nTransaction = IF keep THEN @ ELSE @ - 1,
          !.inTransaction = IF ~keep /\ shared.nTransaction = 1 THEN None
                            ELSE IF inTrans[c] = Write THEN Read ELSE @,
          !.pWriter = IF mine THEN NoConn ELSE @,
          !.exclusive = @ /\ ~mine,
          !.pending = @ /\ ~mine /\ (keep \/ shared.nTransaction # 2)]

-----------------------------------------------------------------------------
(* The statements *)

\* The slots of a connection are alike: a new statement takes the first that is free.
FirstFree(c, s) == s \notin Active(c) /\ 1..(s - 1) \subseteq Active(c)

\* A statement reads or writes a table; BEGIN IMMEDIATE and EXCLUSIVE start a write
\* transaction first.  A connection that waits for its callback runs nothing.
Start(c, s, kind, wr, tab) ==
  /\ shEnv.starts > 0 /\ c \in shEnv.conns /\ s <= shEnv.slots
  /\ Quiet(c) /\ FirstFree(c, s)
  /\ notify[c].unlock = NoConn
  /\ stmt' = [stmt EXCEPT ![c][s] =
       [pc |-> IF kind = "begin" /\ wr = 0 THEN "auto" ELSE "trans",
        kind |-> kind, wr |-> wr, tab |-> tab, ok |-> TRUE]]
  /\ shEnv' = [shEnv EXCEPT !.starts = @ - 1]
  /\ failed' = [failed EXCEPT ![c] = FALSE]
  /\ UNCHANGED <<btree, auto, waits, closed>>

\* The last row was returned; OP_AutoCommit of a BEGIN.
Finish(c, s) ==
  /\ stmt[c][s].pc = "auto" \/ (stmt[c][s].pc = "run" /\ Quiet(c) /\ notify[c].unlock = NoConn)
  /\ Goes(c, s, "halt")
  /\ auto' = [auto EXCEPT ![c] = @ /\ stmt[c][s].kind # "begin"]
  /\ UNCHANGED <<btree, waits, failed, shEnv, closed>>

\* OP_AutoCommit of a COMMIT, which an active writer refuses, and of a ROLLBACK, which makes
\* the statements that are active fail (SQLITE_ABORT_ROLLBACK).
EndExplicit(c, s, rollback) ==
  /\ c \in shEnv.conns /\ s <= shEnv.slots
  /\ Quiet(c) /\ FirstFree(c, s) /\ ~auto[c]
  /\ notify[c].unlock = NoConn
  /\ rollback \/ Writers(c) = {}
  /\ auto' = [auto EXCEPT ![c] = TRUE]
  /\ stmt' = [stmt EXCEPT ![c] = [x \in Slots |->
       IF x = s THEN [NoStmt EXCEPT !.pc = "halt", !.kind = "end"]
       ELSE [stmt[c][x] EXCEPT !.ok = @ /\ ~rollback]]]
  /\ IF rollback /\ inTrans[c] # None THEN EndTransaction(c, Cardinality(Active(c)) + 1)
     ELSE UNCHANGED btree
  /\ failed' = [failed EXCEPT ![c] = FALSE]
  /\ UNCHANGED <<waits, shEnv, closed>>

\* sqlite3VdbeHalt(): in autocommit mode, and without another writer, the transaction ends.
Halt(c, s) ==
  /\ stmt[c][s].pc = "halt"
  /\ Goes(c, s, "unlock")
  /\ IF auto[c] /\ Writers(c) \subseteq {s} /\ inTrans[c] # None
     THEN EndTransaction(c, Cardinality(Active(c))) ELSE UNCHANGED btree
  /\ UNCHANGED <<auto, waits, failed, shEnv, closed>>

\* Mutant: only the end of an explicit transaction is notified.
HaltedSilent(c, s) ==
  /\ stmt[c][s].pc = "unlock"
  /\ IF stmt[c][s].kind = "end" THEN ConnectionUnlocked(c) ELSE UNCHANGED waits
  /\ stmt' = [stmt EXCEPT ![c][s] = NoStmt]
  /\ failed' = [failed EXCEPT ![c] = ~stmt[c][s].ok]
  /\ UNCHANGED <<btree, auto, shEnv, closed>>

Halted(c, s) ==
  /\ stmt[c][s].pc = "unlock"
  /\ IF auto[c] THEN ConnectionUnlocked(c) ELSE UNCHANGED waits
  /\ stmt' = [stmt EXCEPT ![c][s] = NoStmt]
  /\ failed' = [failed EXCEPT ![c] = ~stmt[c][s].ok]
  /\ UNCHANGED <<btree, auto, shEnv, closed>>

\* sqlite3_close(), with all statements finalized: the b-tree is closed, and
\* sqlite3ConnectionClosed() called.
CloseBtree(c) ==
  /\ Quiet(c) /\ Active(c) = {}
  /\ shEnv.closes > 0 /\ shEnv' = [shEnv EXCEPT !.closes = @ - 1]
  /\ closed' = [closed EXCEPT ![c] = "locks"]
  /\ IF inTrans[c] # None THEN EndTransaction(c, 0) ELSE UNCHANGED btree
  /\ UNCHANGED <<auto, stmt, waits, failed>>

ConnectionClosed(c) ==
  /\ closed[c] = "locks"
  /\ closed' = [closed EXCEPT ![c] = "yes"]
  /\ LET Clear(x) == IF x = c THEN NoConn ELSE x
         after == [d \in ShConn |->
           IF d = c THEN [blocking |-> NoConn, unlock |-> NoConn]
           ELSE IF d \notin blockedList THEN notify[d]
           ELSE [blocking |-> Clear(notify[d].blocking), unlock |-> Clear(notify[d].unlock)]]
     IN /\ notify' = after
        /\ blockedList' = {d \in blockedList \ {c} :
             after[d].blocking # NoConn \/ after[d].unlock # NoConn}
  /\ UNCHANGED <<btree, auto, stmt, failed, shEnv>>

ShNext ==
  \E c \in ShConn :
    \/ UnlockNotify(c) \/ CancelNotify(c) \/ CloseBtree(c) \/ ConnectionClosed(c)
    \/ \E s \in Slots :
         \/ BeginTrans(c, s) \/ LockTable(c, s) \/ Finish(c, s) \/ Halt(c, s) \/ Halted(c, s)
         \/ \E wr \in {0, 1}, t \in 1..NTab : Start(c, s, "sql", wr, t)
         \/ \E wr \in 0..2 : auto[c] /\ Start(c, s, "begin", wr, 0)
         \/ \E rollback \in BOOLEAN : EndExplicit(c, s, rollback)

ShSpec == ShInit /\ [][ShNext]_shVars

-----------------------------------------------------------------------------
(* Properties *)

\* While a statement returns rows of a table, no other connection has the table locked for
\* writing, nor locked at all if the statement writes; whatever other statements of its
\* connection have committed or failed meanwhile.  Read-uncommitted readers excepted.
Isolated ==
  \A d \in ShConn, s \in Slots :
    LET x == stmt[d][s] IN
    x.pc = "run" /\ x.ok /\ (x.wr > 0 \/ d \notin shEnv.uncommitted) =>
      /\ lock[d][x.tab] # 0
      /\ \A c \in ShConn \ {d} : lock[c][x.tab] \in (IF x.wr > 0 THEN {0} ELSE {0, Read})

\* No connections wait for each other, at whatever distance.
WaitsAcyclic ==
  \A c \in ShConn : notify[c].unlock # NoConn => c \notin Waits(notify[c].unlock)

\* A connection that waits is called back: the one it waits for has a transaction or a
\* statement left to end.  One that is closed, its memory freed, is nobody's blocker.
WaiterWillBeNotified ==
  \A c \in ShConn : LET d == notify[c].unlock IN
    /\ d # NoConn => ~auto[d] \/ Active(d) # {} \/ closed[d] = "locks"
    /\ notify[c].blocking # NoConn => closed[notify[c].blocking] # "yes"
=============================================================================
