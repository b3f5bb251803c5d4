---------------------------- MODULE AtomicStore ----------------------------
(***************************************************************************)
(* What pager.c promises the layers above it: the database is one value    *)
(* that transactions replace as a whole.  A connection sees the value it   *)
(* began with, with its own changes; there is one writer, and it commits   *)
(* alone.  A process may die at any time.  A power loss may also take back *)
(* the last commit, as long as that is not settled on the disk.            *)
(***************************************************************************)
EXTENDS Naturals

CONSTANTS Conn,       \* the connections
          None        \* the view of a connection without a transaction

VARIABLES store,      \* the committed database
          undo,       \* the database that a power loss leaves
          view,       \* Conn -> the database that the connection sees, or None
          writer      \* the connections with a write transaction

vars == <<store, undo, view, writer>>

Init == /\ undo = store
        /\ view = [c \in Conn |-> None]
        /\ writer = {}

SetView(c, v) == view' = [view EXCEPT ![c] = v]

BeginRead(c) ==
  /\ view[c] = None
  /\ SetView(c, store)
  /\ UNCHANGED <<store, undo, writer>>

EndRead(c) ==
  /\ view[c] = store /\ c \notin writer
  /\ SetView(c, None)
  /\ UNCHANGED <<store, undo, writer>>

BeginWrite(c) ==
  /\ view[c] = store /\ writer = {}
  /\ writer' = {c}
  /\ UNCHANGED <<store, undo, view>>

Update(c) ==
  /\ writer = {c}
  /\ view'[c] # None
  /\ SetView(c, view'[c])
  /\ UNCHANGED <<store, undo, writer>>

\* No other connection may be looking.
Commit(c) ==
  /\ writer = {c}
  /\ \A d \in Conn \ {c} : view[d] = None
  /\ store' = view[c] /\ undo' = store
  /\ writer' = {}
  /\ UNCHANGED view

\* Without its changes the connection goes on as a reader.
Rollback(c) ==
  /\ writer = {c}
  /\ SetView(c, store)
  /\ writer' = {}
  /\ UNCHANGED <<store, undo>>

\* Connections lose their transactions (an error, a death).
Abort(S) ==
  /\ view' = [c \in Conn |-> IF c \in S THEN None ELSE view[c]]
  /\ writer' = writer \ S
  /\ UNCHANGED <<store, undo>>

Settle ==
  /\ undo' = store
  /\ UNCHANGED <<store, view, writer>>

PowerLoss ==
  /\ store' \in {store, undo} /\ undo' = store'
  /\ view' = [c \in Conn |-> None]
  /\ writer' = {}

Next ==
  \/ \E c \in Conn : \/ BeginRead(c) \/ EndRead(c) \/ BeginWrite(c)
                     \/ Update(c) \/ Commit(c) \/ Rollback(c)
  \/ \E S \in SUBSET Conn : Abort(S)
  \/ Settle \/ PowerLoss

Spec == Init /\ [][Next]_vars
=============================================================================
