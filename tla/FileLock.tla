------------------------------ MODULE FileLock ------------------------------
(***************************************************************************)
(* The promise of sqlite3OsLock() / sqlite3OsUnlock(): the five lock       *)
(* levels of a database file, as the pager relies on them.  A connection   *)
(* holds one level; RESERVED may be skipped on the way to EXCLUSIVE (hot   *)
(* journal rollback), so "resv" says who holds the reservation proper.     *)
(***************************************************************************)
EXTENDS Naturals

CONSTANTS Conn,            \* the open database handles, in any process
          ProcOf           \* the process each handle lives in

NO_LOCK        == 0
SHARED_LOCK    == 1
RESERVED_LOCK  == 2
PENDING_LOCK   == 3
EXCLUSIVE_LOCK == 4

Level == NO_LOCK..EXCLUSIVE_LOCK

VARIABLES lock,            \* Conn -> Level
          resv             \* the connections that hold the reservation

vars == <<lock, resv>>

TypeOK == /\ lock \in [Conn -> Level]
          /\ resv \subseteq Conn

Init == /\ lock = [c \in Conn |-> NO_LOCK]
        /\ resv = {}

Others(c) == Conn \ {c}

\* No reader while somebody has the whole file, nor beside a sibling that waits
\* for it.  The PENDING lock of another process is no promise: a process that
\* already reads lets more of its handles in.
GetShared(c) ==
  /\ lock[c] = NO_LOCK
  /\ \A d \in Others(c) :
       \/ lock[d] < PENDING_LOCK
       \/ lock[d] = PENDING_LOCK /\ ProcOf[d] # ProcOf[c]
  /\ lock' = [lock EXCEPT ![c] = SHARED_LOCK]
  /\ UNCHANGED resv

\* One reservation at a time, taken by a reader.
GetReserved(c) ==
  /\ lock[c] = SHARED_LOCK
  /\ resv = {}
  /\ lock' = [lock EXCEPT ![c] = RESERVED_LOCK]
  /\ resv' = {c}

\* Escalating past RESERVED keeps the reservation as it is; an implementation
\* whose process owns the whole file (unix-excl) reserves on the way.
KeepOrTakeReservation(c) == \/ UNCHANGED resv
                            \/ resv \subseteq {c} /\ resv' = {c}

\* Escalation that stops short of EXCLUSIVE because readers remain.
GetPending(c) ==
  /\ lock[c] \in {SHARED_LOCK, RESERVED_LOCK}
  /\ \A d \in Others(c) : lock[d] < PENDING_LOCK
  /\ lock' = [lock EXCEPT ![c] = PENDING_LOCK]
  /\ KeepOrTakeReservation(c)

GetExclusive(c) ==
  /\ lock[c] \in SHARED_LOCK..PENDING_LOCK
  /\ \A d \in Others(c) : lock[d] = NO_LOCK
  /\ lock' = [lock EXCEPT ![c] = EXCLUSIVE_LOCK]
  /\ KeepOrTakeReservation(c)

\* Lowering a lock never waits for anybody.
Release(c, l) ==
  /\ l \in {NO_LOCK, SHARED_LOCK}
  /\ lock[c] > l
  /\ lock' = [lock EXCEPT ![c] = l]
  /\ resv' = resv \ {c}

\* The operating system drops every lock of a process that dies.
Die(S) ==
  /\ lock' = [c \in Conn |-> IF c \in S THEN NO_LOCK ELSE lock[c]]
  /\ resv' = resv \ S

Next == \/ \E c \in Conn :
             \/ GetShared(c) \/ GetReserved(c) \/ GetPending(c)
             \/ GetExclusive(c)
             \/ \E l \in {NO_LOCK, SHARED_LOCK} : Release(c, l)
        \/ \E S \in SUBSET Conn : Die(S)

Spec == Init /\ [][Next]_vars
=============================================================================
