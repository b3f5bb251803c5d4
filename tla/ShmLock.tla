------------------------------ MODULE ShmLock ------------------------------
(***************************************************************************)
(* The promise of sqlite3OsShmLock(): the lock slots in the shared memory  *)
(* of a write-ahead log.  A connection holds a slot shared or exclusive;   *)
(* an exclusive holder is the only holder.  Requests never wait.           *)
(***************************************************************************)
CONSTANTS Conn, Slot

VARIABLES sharedMask, exclMask        \* Conn -> the slots it holds

vars == <<sharedMask, exclMask>>

TypeOK == /\ sharedMask \in [Conn -> SUBSET Slot]
          /\ exclMask \in [Conn -> SUBSET Slot]

Init == /\ sharedMask = [c \in Conn |-> {}]
        /\ exclMask = [c \in Conn |-> {}]

CanShare(c, s) == \A d \in Conn : s \notin exclMask[d]

CanExclude(c, S) == \A d \in Conn : S \cap (sharedMask[d] \cup exclMask[d]) = {}

LockShared(c, s) ==
  /\ CanShare(c, s)
  /\ sharedMask' = [sharedMask EXCEPT ![c] = @ \cup {s}]
  /\ UNCHANGED exclMask

\* Several slots are taken together or not at all.
LockExclusive(c, S) ==
  /\ CanExclude(c, S)
  /\ exclMask' = [exclMask EXCEPT ![c] = @ \cup S]
  /\ UNCHANGED sharedMask

Unlock(c, S) ==
  /\ sharedMask' = [sharedMask EXCEPT ![c] = @ \ S]
  /\ exclMask' = [exclMask EXCEPT ![c] = @ \ S]

\* The locks of connections that die or unmap the memory are dropped.
Drop(C) ==
  /\ sharedMask' = [c \in Conn |-> IF c \in C THEN {} ELSE sharedMask[c]]
  /\ exclMask' = [c \in Conn |-> IF c \in C THEN {} ELSE exclMask[c]]

Next == \/ \E c \in Conn, S \in SUBSET Slot :
             \/ LockExclusive(c, S)
             \/ Unlock(c, S)
             \/ \E s \in S : LockShared(c, s)
        \/ \E C \in SUBSET Conn : Drop(C)

Spec == Init /\ [][Next]_vars
=============================================================================
