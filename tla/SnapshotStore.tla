--------------------------- MODULE SnapshotStore ---------------------------
(***************************************************************************)
(* What the write-ahead log promises to the pager: a sequence of committed *)
(* databases; a reader sees the last one of the moment it began, until it  *)
(* ends; one writer at a time, which starts from the last database.        *)
(***************************************************************************)
EXTENDS Naturals, Sequences

CONSTANTS Conn, None

VARIABLES hist,      \* the committed databases, the last one is current
          floor,     \* this many of them survive a power loss
          limbo,     \* a database whose commit was cut off: recovery decides
          lossy,     \* the power failed since the last recovery
          view,      \* Conn -> the database it sees, or None
          writer     \* the connection that writes, or None

vars == <<hist, floor, limbo, lossy, view, writer>>

Current == hist[Len(hist)]

Init == /\ Len(hist) >= 1
        /\ floor \in 1..Len(hist)
        /\ limbo = None
        /\ lossy = FALSE
        /\ view = [c \in Conn |-> None]
        /\ writer = None

BeginRead(c) ==
  /\ view[c] = None
  /\ view' = [view EXCEPT ![c] = Current]
  /\ UNCHANGED <<hist, floor, limbo, lossy, writer>>

EndRead(c) ==
  /\ view[c] # None
  /\ writer # c
  /\ view' = [view EXCEPT ![c] = None]
  /\ UNCHANGED <<hist, floor, limbo, lossy, writer>>

\* No writer on an old snapshot.
BeginWrite(c) ==
  /\ writer = None
  /\ view[c] = Current
  /\ writer' = c
  /\ UNCHANGED <<hist, floor, limbo, lossy, view>>

\* The writer changes what it alone sees; an earlier commit that was cut off is
\* given up, or this one is (its last write fails).
Write(c) ==
  /\ writer = c
  /\ \A d \in Conn \ {c} : view'[d] = view[d]
  /\ UNCHANGED <<hist, floor, lossy, writer>>

Rollback(c) ==
  /\ writer = c
  /\ writer' = None
  /\ view' = [view EXCEPT ![c] = Current]
  /\ UNCHANGED <<hist, floor, limbo, lossy>>

Commit(c) ==
  /\ writer = c
  /\ writer' = None
  /\ Len(hist') = Len(hist) + 1 /\ SubSeq(hist', 1, Len(hist)) = hist
  /\ view' = [view EXCEPT ![c] = Current']
  /\ floor' \in {floor, Len(hist')}
  /\ limbo' = None
  /\ UNCHANGED lossy

\* What was committed becomes durable.
Harden == /\ floor' = Len(hist)
          /\ UNCHANGED <<hist, limbo, lossy, view, writer>>

\* Connections die; the one that writes may leave a commit half done.  A power
\* loss takes all of them.
Die(C) ==
  /\ view' = [c \in Conn |-> IF c \in C THEN None ELSE view[c]]
  /\ writer' = IF writer \in C THEN None ELSE writer
  /\ writer \notin C => limbo' = limbo
  /\ C # Conn => lossy' = lossy
  /\ UNCHANGED <<hist, floor>>

\* Recovery, while nobody reads: it finds the last database or the one in limbo;
\* after a power loss, possibly an older one that was not durable.
Recover ==
  /\ \A c \in Conn : view[c] = None
  /\ \/ \E k \in (IF lossy THEN floor ELSE Len(hist))..Len(hist) : hist' = SubSeq(hist, 1, k)
     \/ limbo # None /\ hist' = Append(hist, limbo)
  /\ limbo' = None
  /\ lossy' = FALSE
  /\ UNCHANGED <<floor, view, writer>>

Next == \/ \E c \in Conn : \/ BeginRead(c) \/ EndRead(c) \/ BeginWrite(c)
                           \/ Write(c) \/ Rollback(c) \/ Commit(c)
        \/ Harden
        \/ \E C \in SUBSET Conn : Die(C)
        \/ Recover

Spec == Init /\ [][Next]_vars
=============================================================================
