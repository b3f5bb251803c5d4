------------------------------- MODULE UnixShm -------------------------------
(***************************************************************************)
(* The shared memory of a write-ahead log in the unix VFS (os_unix.c): the *)
(* connections of a process share a unixShmNode, which is one descriptor   *)
(* of the "-shm" file, its mappings and one set of POSIX locks.  The first *)
(* process to come, which it learns from the dead-man-switch byte, empties *)
(* the file; the last connection to close may unlink it.                   *)
(*                                                                         *)
(* The system calls of one process interleave with those of the others; in *)
(* a process, the global mutex covers opening and purging a node, and the  *)
(* mutex of the node covers mapping and locking.  Files are numbered in    *)
(* the order of their creation.                                            *)
(***************************************************************************)
EXTENDS Integers, Sequences, FiniteSets

CONSTANTS
  XConn, XProc,         \* connections and processes
  ProcOf,               \* XConn -> XProc
  NoX,                  \* no connection
  NSlot,                \* lock slots; slot 0 is WAL_WRITE_LOCK
  MaxRegion, MaxFile,   \* bounds on the regions of a file and on the files ever created
  ShmSetups             \* configurations: [opens, locks, faults, kills]

ASSUME ShmAssumption ==
  /\ ProcOf \in [XConn -> XProc] /\ NoX \notin XConn /\ IsFiniteSet(XConn)
  /\ NSlot \in Nat \ {0} /\ MaxRegion \in Nat \ {0} /\ MaxFile \in Nat \ {0}

VARIABLES
  cn,                   \* XConn -> [st, shared, excl]: unixShm, and whether the database is open
  node,                 \* XProc -> unixShmNode: [st, by, file, nRef, nRegion, region]
  linked,               \* the file the name "-shm" stands for, 0 for none
  size,                 \* regions in each file created so far
  oslock,               \* file -> process -> byte -> POSIX lock
  dbExcl,               \* the connection with an EXCLUSIVE lock on the database, or NoX
  xEnv

shmVars == <<cn, node, linked, size, oslock, dbExcl, xEnv>>

Slot == 0..(NSlot - 1)
DMS  == NSlot           \* UNIX_SHM_DMS
Files == 1..MaxFile

NoNode == [st |-> "none", by |-> NoX, file |-> 0, nRef |-> 0, nRegion |-> 0, region |-> 0]
Apart  == [st |-> "closed", shared |-> {}, excl |-> {}]
Free   == [b \in 0..NSlot |-> "none"]

ShmInit ==
  /\ xEnv \in ShmSetups
  /\ cn = [c \in XConn |-> Apart] /\ node = [p \in XProc |-> NoNode]
  /\ linked = 0 /\ size = <<>> /\ dbExcl = NoX
  /\ oslock = [f \in Files |-> [p \in XProc |-> Free]]

ShmSpend(k) == xEnv[k] > 0 /\ xEnv' = [xEnv EXCEPT ![k] = @ - 1]

\* The list pShmNode->pFirst
Linked(p) == {c \in XConn : ProcOf[c] = p /\ cn[c].st = "mapped"}

SL == INSTANCE ShmLock WITH Conn <- XConn, sharedMask <- [c \in XConn |-> cn[c].shared],
                            exclMask <- [c \in XConn |-> cn[c].excl]

-----------------------------------------------------------------------------
(* fcntl(F_SETLK) on the bytes of the file of a node *)

SystemMay(f, p, type, B) ==
  \A q \in XProc \ {p}, b \in B :
    CASE type = "rd" -> oslock[f][q][b] # "wr"
      [] type = "wr" -> oslock[f][q][b] = "none"
      [] type = "none" -> TRUE

\* unixShmSystemLock()
ShmSystemLock(p, type, B) ==
  LET f == node[p].file
  IN /\ SystemMay(f, p, type, B)
     /\ oslock' = [oslock EXCEPT ![f][p] = [b \in 0..NSlot |-> IF b \in B THEN type ELSE @[b]]]

\* robust_close() of the descriptor: every lock the process has on the file is gone.
ClosedFd(p) == [oslock EXCEPT ![node[p].file][p] = Free]

-----------------------------------------------------------------------------
(* unixOpenSharedMemory(), called under a SHARED lock on the database *)

OpenDb(c) ==
  /\ cn[c].st = "closed" /\ dbExcl = NoX
  /\ ShmSpend("opens")
  /\ cn' = [cn EXCEPT ![c].st = "open"]
  /\ UNCHANGED <<node, linked, size, oslock, dbExcl>>

\* The node of the process is there already.
ShmShareNode(c) ==
  LET p == ProcOf[c] IN
  /\ cn[c].st = "open" /\ node[p].st = "ready"
  /\ node' = [node EXCEPT ![p].nRef = @ + 1]
  /\ cn' = [cn EXCEPT ![c].st = "linking"]
  /\ UNCHANGED <<linked, size, oslock, dbExcl, xEnv>>

\* open(O_RDWR|O_CREAT): the descriptor may be on a file whose name goes before it is locked.
ShmOpenFile(c) ==
  LET p == ProcOf[c] IN
  /\ cn[c].st = "open" /\ node[p].st = "none"
  /\ linked # 0 \/ Len(size) < MaxFile
  /\ linked' = IF linked # 0 THEN linked ELSE Len(size) + 1
  /\ size' = IF linked # 0 THEN size ELSE Append(size, 0)
  /\ node' = [node EXCEPT ![p] = [NoNode EXCEPT !.st = "opened", !.by = c, !.file = linked']]
  /\ UNCHANGED <<cn, oslock, dbExcl, xEnv>>

\* The first process takes the dead-man switch exclusive ...
ShmFirst(p) ==
  /\ node[p].st = "opened"
  /\ \/ ShmSystemLock(p, "wr", {DMS}) /\ node' = [node EXCEPT ![p].st = "first"]
     \/ /\ ~SystemMay(node[p].file, p, "wr", {DMS})
        /\ node' = [node EXCEPT ![p].st = "later"] /\ UNCHANGED oslock
  /\ UNCHANGED <<cn, linked, size, dbExcl, xEnv>>

\* ... and empties the file,
ShmTruncate(p) ==
  /\ node[p].st = "first"
  /\ size' = [size EXCEPT ![node[p].file] = 0]
  /\ node' = [node EXCEPT ![p].st = "later"]
  /\ UNCHANGED <<cn, linked, oslock, dbExcl, xEnv>>

ShmReady(p) ==
  /\ node' = [node EXCEPT ![p].st = "ready", ![p].by = NoX, ![p].nRef = 1]
  /\ cn' = [cn EXCEPT ![node[p].by].st = "linking"]

\* and every process keeps it shared.
ShmDms(p) ==
  /\ node[p].st = "later"
  /\ ShmSystemLock(p, "rd", {DMS})
  /\ ShmReady(p)
  /\ UNCHANGED <<linked, size, dbExcl, xEnv>>

\* shm_open_err: the switch is held exclusive by another process, or ftruncate() fails.
ShmOpenFails(p) ==
  /\ \/ /\ node[p].st = "later" /\ ~SystemMay(node[p].file, p, "rd", {DMS})
        /\ UNCHANGED xEnv
     \/ node[p].st = "first" /\ ShmSpend("faults")
  /\ oslock' = ClosedFd(p)
  /\ node' = [node EXCEPT ![p] = NoNode]
  /\ UNCHANGED <<cn, linked, size, dbExcl>>

\* The list is entered under the other mutex, after the global one is released.
ShmLink(c) ==
  /\ cn[c].st = "linking"
  /\ cn' = [cn EXCEPT ![c].st = "mapped"]
  /\ UNCHANGED <<node, linked, size, oslock, dbExcl, xEnv>>

-----------------------------------------------------------------------------
(* unixShmMap() *)

\* Mutant: any connection may extend the file.
MayExtendAny(c) == TRUE

\* The caller passes bExtend only while it holds WAL_WRITE_LOCK.
MayExtend(c) == 0 \in cn[c].excl

\* fstat() finds region r in the file, which is then mapped ...
ShmMapRegion(c, r) ==
  LET p == ProcOf[c] IN
  /\ cn[c].st = "mapped" /\ node[p].region = 0
  /\ r > node[p].nRegion /\ r <= size[node[p].file]
  /\ node' = [node EXCEPT ![p].nRegion = r]
  /\ UNCHANGED <<cn, linked, size, oslock, dbExcl, xEnv>>

\* ... or misses it; nothing more is done unless the file may be extended.
ShmMapShort(c, r) ==
  LET p == ProcOf[c] IN
  /\ cn[c].st = "mapped" /\ node[p].region = 0
  /\ r > node[p].nRegion /\ r > size[node[p].file] /\ MayExtend(c)
  /\ node' = [node EXCEPT ![p].region = r]
  /\ UNCHANGED <<cn, linked, size, oslock, dbExcl, xEnv>>

\* ftruncate() to what fstat() made it ask for, and mmap()
ShmMapExtend(p) ==
  /\ node[p].region > 0
  /\ size' = [size EXCEPT ![node[p].file] = node[p].region]
  /\ node' = [node EXCEPT ![p].nRegion = node[p].region, ![p].region = 0]
  /\ UNCHANGED <<cn, linked, oslock, dbExcl, xEnv>>

ShmMapFails(p) ==
  /\ node[p].region > 0
  /\ ShmSpend("faults")
  /\ \/ UNCHANGED size                  \* ftruncate(), or ...
     \/ size' = [size EXCEPT ![node[p].file] = node[p].region]     \* realloc(), mmap()
  /\ node' = [node EXCEPT ![p].region = 0]
  /\ UNCHANGED <<cn, linked, oslock, dbExcl>>

-----------------------------------------------------------------------------
(* unixShmLock(), under the mutex of the node *)

Locking(c) == cn[c].st = "mapped" /\ node[ProcOf[c]].region = 0

\* The process keeps its lock while another of its connections shares a slot of S.
ShmUnlock(c, S) ==
  LET p == ProcOf[c] IN
  /\ Locking(c) /\ S \subseteq cn[c].shared \cup cn[c].excl
  /\ IF \A d \in Linked(p) \ {c} : S \cap cn[d].shared = {}
     THEN ShmSystemLock(p, "none", S) ELSE UNCHANGED oslock
  /\ cn' = [cn EXCEPT ![c].shared = @ \ S, ![c].excl = @ \ S]
  /\ UNCHANGED <<node, linked, size, dbExcl, xEnv>>

\* Mutant: slots that another connection of the process has exclusive are overlooked.
ShmLockSharedBlind(c, s) ==
  LET p == ProcOf[c] IN
  /\ Locking(c) /\ s \notin cn[c].shared \cup cn[c].excl
  /\ ShmSpend("locks")
  /\ IF \A d \in Linked(p) : s \notin cn[d].shared
     THEN ShmSystemLock(p, "rd", {s}) ELSE UNCHANGED oslock
  /\ cn' = [cn EXCEPT ![c].shared = @ \cup {s}]
  /\ UNCHANGED <<node, linked, size, dbExcl>>

ShmLockShared(c, s) ==
  LET p == ProcOf[c] IN
  /\ Locking(c) /\ s \notin cn[c].shared \cup cn[c].excl
  /\ ShmSpend("locks")
  /\ \A d \in Linked(p) : s \notin cn[d].excl
  /\ IF \A d \in Linked(p) : s \notin cn[d].shared
     THEN ShmSystemLock(p, "rd", {s}) ELSE UNCHANGED oslock
  /\ cn' = [cn EXCEPT ![c].shared = @ \cup {s}]
  /\ UNCHANGED <<node, linked, size, dbExcl>>

ShmLockExclusive(c, S) ==
  LET p == ProcOf[c] IN
  /\ Locking(c)
  /\ ShmSpend("locks")
  /\ \A d \in Linked(p) : S \cap (cn[d].excl \cup cn[d].shared) = {}
  /\ ShmSystemLock(p, "wr", S)
  /\ cn' = [cn EXCEPT ![c].excl = @ \cup S]
  /\ UNCHANGED <<node, linked, size, dbExcl>>

-----------------------------------------------------------------------------
(* Closing, and dying *)

AtRest(c) == /\ cn[c].st \in {"open", "mapped"} /\ node[ProcOf[c]].by # c
             /\ cn[c].shared = {} /\ cn[c].excl = {}

Opened == {d \in XConn : cn[d].st # "closed"}

\* sqlite3WalClose() tries for an EXCLUSIVE lock on the database,
WalCloseLocks(c) ==
  /\ AtRest(c) /\ dbExcl = NoX /\ Opened = {c}
  /\ dbExcl' = c
  /\ UNCHANGED <<cn, node, linked, size, oslock, xEnv>>

\* unixShmUnmap() leaves the list of the node,
ShmUnlist(c) ==
  LET p == ProcOf[c] IN
  /\ cn[c].st = "mapped" /\ cn[c].shared = {} /\ cn[c].excl = {} /\ node[p].region = 0
  /\ cn' = [cn EXCEPT ![c].st = "leaving"]
  /\ UNCHANGED <<node, linked, size, oslock, dbExcl, xEnv>>

\* Mutant: the last connection of the process removes the name.
ShmUnmapDeletes(c) ==
  LET p == ProcOf[c] IN
  /\ cn[c].st = "leaving" /\ node[p].st = "ready"
  /\ IF node[p].nRef = 1
     THEN /\ linked' = 0
          /\ oslock' = ClosedFd(p) /\ node' = [node EXCEPT ![p] = NoNode]
     ELSE /\ node' = [node EXCEPT ![p].nRef = @ - 1]
          /\ UNCHANGED <<linked, oslock>>
  /\ cn' = [cn EXCEPT ![c].st = "done"]
  /\ UNCHANGED <<size, dbExcl, xEnv>>

\* and under the global mutex the node, which unixShmPurge() closes with its last reference;
\* the name is removed by who has the database to itself and has emptied the log.
ShmUnmap(c) ==
  LET p == ProcOf[c] IN
  /\ cn[c].st = "leaving" /\ node[p].st = "ready"
  /\ IF node[p].nRef = 1
     THEN /\ linked' \in IF dbExcl = c THEN {0, linked} ELSE {linked}
          /\ oslock' = ClosedFd(p) /\ node' = [node EXCEPT ![p] = NoNode]
     ELSE /\ node' = [node EXCEPT ![p].nRef = @ - 1]
          /\ UNCHANGED <<linked, oslock>>
  /\ cn' = [cn EXCEPT ![c].st = "done"]
  /\ UNCHANGED <<size, dbExcl, xEnv>>

\* The lock on the database goes last.
CloseDb(c) ==
  /\ cn[c].st \in {"open", "done"} /\ node[ProcOf[c]].by # c
  /\ cn' = [cn EXCEPT ![c] = Apart]
  /\ dbExcl' = IF dbExcl = c THEN NoX ELSE dbExcl
  /\ UNCHANGED <<node, linked, size, oslock, xEnv>>

ShmKill(p) ==
  /\ ShmSpend("kills")
  /\ cn' = [c \in XConn |-> IF ProcOf[c] = p THEN Apart ELSE cn[c]]
  /\ node' = [node EXCEPT ![p] = NoNode]
  /\ oslock' = [f \in Files |-> [oslock[f] EXCEPT ![p] = Free]]
  /\ dbExcl' = IF dbExcl # NoX /\ ProcOf[dbExcl] = p THEN NoX ELSE dbExcl
  /\ UNCHANGED <<linked, size>>

ShmNext ==
  \/ \E c \in XConn :
       \/ OpenDb(c) \/ ShmShareNode(c) \/ ShmOpenFile(c) \/ ShmLink(c)
       \/ WalCloseLocks(c) \/ ShmUnlist(c) \/ ShmUnmap(c) \/ CloseDb(c)
       \/ \E r \in 1..MaxRegion : ShmMapRegion(c, r) \/ ShmMapShort(c, r)
       \/ \E s \in Slot : ShmLockShared(c, s)
       \/ \E i, j \in Slot : i <= j /\ (ShmUnlock(c, i..j) \/ ShmLockExclusive(c, i..j))
  \/ \E p \in XProc :
       \/ ShmFirst(p) \/ ShmTruncate(p) \/ ShmDms(p) \/ ShmOpenFails(p)
       \/ ShmMapExtend(p) \/ ShmMapFails(p) \/ ShmKill(p)

ShmSpec == ShmInit /\ [][ShmNext]_shmVars

-----------------------------------------------------------------------------
\* Connections of one process and of several hold the slots as ShmLock promises, though the
\* system knows of processes only and forgets every lock when a descriptor is closed.
RefinesShmLock == SL!Spec

\* A region that a process has mapped is never cut off the file, neither by a process that
\* believes itself the first nor by one that extends what it found too short.
MappedWithinFile == \A p \in XProc : node[p].file # 0 => node[p].nRegion <= size[node[p].file]

\* Two processes never share through two files of the same name.
OneSharedFile ==
  \A p, q \in XProc : node[p].st = "ready" /\ node[q].st = "ready" => node[p].file = node[q].file
=============================================================================
