------------------------------ MODULE AsyncIO ------------------------------
(***************************************************************************)
(* The asynchronous VFS (ext/async/sqlite3async.c): SQLite's threads put   *)
(* their writes, truncations, closes, deletions and unlocks into a queue   *)
(* that one writer thread carries out.                                     *)
(*                                                                         *)
(* A database and its journal are sequences of pages.  SQLite's side is    *)
(* what a pager in delete mode does: it writes the database with           *)
(* EXCLUSIVE, the journal with RESERVED or more, extends a file page by    *)
(* page, and deletes the journal before it unlocks.  A step holds the      *)
(* queue mutex from its beginning to its end, unless the writer thread     *)
(* keeps the mutex (wt.holding).                                           *)
(***************************************************************************)
EXTENDS Integers, Sequences, FiniteSets, FiniteSetsExt

CONSTANTS NHandle,      \* AsyncFileData objects
          AsSetups      \* configurations: [opens, writes, locks, journals, closes,
                        \*                  others, faults, retries]

VARIABLES
  queue,                \* async.pQueueFirst: operations not carried out yet
  hd,                   \* AsyncFileData
  alock,                \* AsyncLock of the database, and what the system has granted
  real,                 \* the files
  wt,                   \* the writer thread
  ioError, nFile,       \* async.ioError, async.nFile
  granted,              \* the lock that SQLite has been given through each handle
  synch,                \* the files if every call were carried out at once
  other,                \* the lock of another process
  asEnv                 \* what is left of the bounds

asVars == <<queue, hd, alock, real, wt, ioError, nFile, granted, synch, other, asEnv>>

Handles == 1..NHandle
AsLevel == [none |-> 0, shared |-> 1, reserved |-> 2, pending |-> 3, exclusive |-> 4]
NoHandle == [st |-> "free", name |-> "db", base |-> FALSE, eLock |-> 0, eAsyncLock |-> 0]
NoFile   == [on |-> FALSE, data |-> <<>>]

AsInit ==
  /\ queue = <<>>
  /\ hd = [h \in Handles |-> NoHandle]
  /\ alock = [eLock |-> 0, os |-> 0]
  /\ real = [db |-> [on |-> TRUE, data |-> <<0>>], jrnl |-> NoFile]
  /\ synch = real
  /\ wt = [pc |-> "idle", holding |-> FALSE, rc |-> TRUE]
  /\ ioError = FALSE /\ nFile = 0
  /\ granted = [h \in Handles |-> 0]
  /\ other = 0
  /\ asEnv \in AsSetups

AsSpend(k) == asEnv[k] > 0 /\ asEnv' = [asEnv EXCEPT ![k] = @ - 1]

QueueMutex == ~wt.holding
IsDb(h)    == hd[h].st # "free" /\ hd[h].name = "db"
OpenOn(n)  == {h \in Handles : hd[h].st = "open" /\ hd[h].name = n}
Listed(H)  == {h \in Handles : H[h].st \in {"opening", "open", "closed"}}

-----------------------------------------------------------------------------
(* What is read *)

AsOp(op, h, name, n, val) == [op |-> op, h |-> h, name |-> name, n |-> n, val |-> val]
SetAt(data, n, val) == [i \in 1..(IF n > Len(data) THEN n ELSE Len(data)) |->
                          IF i = n THEN val ELSE IF i <= Len(data) THEN data[i] ELSE 0]

\* Mutant: only the writes through the same handle are looked at.
OverReadOwn(h, n) ==
  {i \in DOMAIN queue : queue[i].op = "write" /\ queue[i].h = h /\ queue[i].n = n}

\* The queued writes of page n of the file of h
OverRead(h, n) ==
  {i \in DOMAIN queue : queue[i].op = "write" /\ queue[i].name = hd[h].name /\ queue[i].n = n}

\* asyncRead(): the file, under the writes that are queued.
AsyncRead(h, n) ==
  LET W == OverRead(h, n) IN
  IF W # {} THEN queue[Max(W)].val
  ELSE IF hd[h].base /\ n <= Len(real[hd[h].name].data) THEN real[hd[h].name].data[n]
  ELSE -1

\* asyncFileSize()
AsyncFileSize(h) ==
  LET name == hd[h].name
      size[i \in 0..Len(queue)] ==
        IF i = 0 THEN IF hd[h].base THEN Len(real[name].data) ELSE 0
        ELSE LET p == queue[i]
                 s == size[i - 1]
             IN CASE p.name # name -> s
                  [] p.name = name /\ p.op = "delete" -> 0
                  [] p.name = name /\ p.op = "write" -> IF p.n > s THEN p.n ELSE s
                  [] p.name = name /\ p.op = "truncate" -> IF p.n < s THEN p.n ELSE s
                  [] OTHER -> s
  IN size[Len(queue)]

\* asyncAccess()
AsyncAccess(name) ==
  LET I == {i \in DOMAIN queue : queue[i].name = name /\ queue[i].op \in {"delete", "openex"}}
  IN IF I = {} THEN real[name].on ELSE queue[Max(I)].op = "openex"

-----------------------------------------------------------------------------
(* Locks *)

\* xLock() of the system, beside the other process
OsMayLock(l) ==
  CASE l = AsLevel.shared    -> other < AsLevel.pending
    [] l = AsLevel.reserved  -> other < AsLevel.reserved
    [] l = AsLevel.exclusive -> other = 0

\* getFileLock(): the strongest lock that a handle still needs.  A refused EXCLUSIVE leaves
\* the system's handle with PENDING.
Required(H) == Max({0} \cup {H[h].eAsyncLock : h \in {g \in Listed(H) : H[g].name = "db"}})

GetFileLock(H) ==
  LET req == Required(H) IN
  IF req > alock.eLock
  THEN IF OsMayLock(req) THEN [ok |-> TRUE, lock |-> [eLock |-> req, os |-> req]]
       ELSE [ok |-> FALSE,
             lock |-> IF req = AsLevel.exclusive /\ other < AsLevel.pending
                      THEN [alock EXCEPT !.os = AsLevel.pending] ELSE alock]
  ELSE IF req < alock.eLock /\ req <= AsLevel.shared
  THEN [ok |-> TRUE, lock |-> [eLock |-> req, os |-> req]]
  ELSE [ok |-> TRUE, lock |-> alock]

\* A lock of a sibling that keeps h from l
AsSiblingBlocks(h, l) ==
  \E g \in Listed(hd) \ {h} :
    /\ hd[g].name = "db"
    /\ hd[g].eLock >= CASE l = AsLevel.exclusive -> AsLevel.shared
                        [] l = AsLevel.reserved  -> AsLevel.reserved
                        [] l = AsLevel.shared    -> AsLevel.pending

\* pager_wait_on_lock(): the locks that the busy handler waits for, from and to
Waited == {<<AsLevel.none, AsLevel.shared>>, <<AsLevel.reserved, AsLevel.exclusive>>}

\* asyncLock(): the handle's lock is raised before the system is asked, and stays so if the
\* system refuses.  SQLite gives up then (asyncUnlock()), or its busy handler tries again.
AsyncLock(h, l) ==
  /\ h \in OpenOn("db") /\ granted[h] < l
  /\ l = AsLevel.shared \/ granted[h] >= AsLevel.shared
  /\ IF hd[h].eLock > granted[h]
     THEN <<granted[h], l>> \in Waited /\ AsSpend("retries") ELSE AsSpend("locks")
  /\ IF hd[h].eLock >= l
     THEN granted' = [granted EXCEPT ![h] = l] /\ UNCHANGED <<hd, alock>>
     ELSE /\ ~AsSiblingBlocks(h, l)
          /\ LET H == [hd EXCEPT ![h].eLock = l,
                                 ![h].eAsyncLock = IF l > @ THEN l ELSE @]
                 got == GetFileLock(H)
             IN /\ hd' = H
                /\ alock' = got.lock
                /\ granted' = IF got.ok THEN [granted EXCEPT ![h] = l] ELSE granted
  /\ UNCHANGED <<queue, real, wt, ioError, nFile, synch, other>>

\* asyncUnlock(): for SQLite at once, in the system when the writer thread gets there.
AsyncUnlock(h, l) ==
  /\ QueueMutex
  /\ h \in OpenOn("db") /\ hd[h].eLock > l
  /\ granted[h] >= AsLevel.reserved => ioError \/ (OpenOn("jrnl") = {} /\ ~synch.jrnl.on)
  /\ hd' = [hd EXCEPT ![h].eLock = l]
  /\ granted' = [granted EXCEPT ![h] = IF l < @ THEN l ELSE @]
  /\ queue' = IF ioError THEN queue ELSE Append(queue, AsOp("unlock", h, "db", l, 0))
  /\ UNCHANGED <<alock, real, wt, ioError, nFile, synch, other, asEnv>>

OtherLocks(l) ==
  /\ \/ other = 0 /\ l = AsLevel.shared /\ alock.os < AsLevel.pending
     \/ other = AsLevel.shared /\ l = AsLevel.reserved /\ alock.os < AsLevel.reserved
     \/ other = AsLevel.reserved /\ l = AsLevel.exclusive /\ alock.os = 0
  /\ AsSpend("others")
  /\ other' = l
  /\ UNCHANGED <<queue, hd, alock, real, wt, ioError, nFile, granted, synch>>

OtherUnlocks ==
  /\ other # 0
  /\ other' = 0
  /\ UNCHANGED <<queue, hd, alock, real, wt, ioError, nFile, granted, synch, asEnv>>

-----------------------------------------------------------------------------
(* SQLite's calls that are queued *)

\* addNewAsyncWrite(): refused after an error; ioError is looked at without the mutex, so
\* that the answer may be an old one.
Push(op) ==
  /\ QueueMutex
  /\ \/ queue' = Append(queue, op)
     \/ ioError /\ UNCHANGED queue

NewHandle == CHOOSE h \in Handles : hd[h].st = "free" /\ \A g \in 1..(h - 1) : hd[g].st # "free"

\* asyncOpen(): a database is opened now; the creation of a journal is queued.  The open is
\* counted, and the last error forgotten if it is the first, in a later step.
AsyncOpenDb ==
  /\ \E h \in Handles : hd[h].st = "free"
  /\ AsSpend("opens")
  /\ hd' = [hd EXCEPT ![NewHandle] = [NoHandle EXCEPT !.st = "opening", !.base = TRUE]]
  /\ UNCHANGED <<queue, alock, real, wt, ioError, nFile, granted, synch, other>>

AsyncOpenJournal(h) ==
  /\ h \in OpenOn("db") /\ granted[h] >= AsLevel.reserved
  /\ ~synch.jrnl.on /\ OpenOn("jrnl") = {}
  /\ \E g \in Handles : hd[g].st = "free"
  /\ AsSpend("journals")
  /\ Push(AsOp("openex", NewHandle, "jrnl", 0, 0))
  /\ hd' = IF queue' = queue THEN hd
           ELSE [hd EXCEPT ![NewHandle] = [NoHandle EXCEPT !.st = "opening", !.name = "jrnl"]]
  /\ synch' = IF queue' = queue THEN synch ELSE [synch EXCEPT !.jrnl.on = TRUE]
  /\ UNCHANGED <<alock, real, wt, ioError, nFile, granted, other>>

\* incrOpenFileCount()
IncrOpenFileCount(h) ==
  /\ QueueMutex
  /\ hd[h].st = "opening"
  /\ hd' = [hd EXCEPT ![h].st = "open"]
  /\ ioError' = IF nFile = 0 THEN FALSE ELSE ioError
  /\ nFile' = nFile + 1
  /\ UNCHANGED <<queue, alock, real, wt, granted, synch, other, asEnv>>

\* The pager may write the file.
MayWrite(h) ==
  /\ hd[h].st = "open"
  /\ \/ hd[h].name = "db" /\ granted[h] = AsLevel.exclusive
     \/ hd[h].name = "jrnl"

AsyncWrite(h, n) ==
  /\ MayWrite(h)
  /\ n <= Len(synch[hd[h].name].data) + 1
  /\ AsSpend("writes")
  /\ Push(AsOp("write", h, hd[h].name, n, asEnv.writes))
  /\ synch' = [synch EXCEPT ![hd[h].name].data = SetAt(@, n, asEnv.writes)]
  /\ UNCHANGED <<hd, alock, real, wt, ioError, nFile, granted, other>>

AsyncTruncate(h, n) ==
  /\ MayWrite(h) /\ hd[h].name = "db"
  /\ n < Len(synch.db.data)
  /\ AsSpend("writes")
  /\ Push(AsOp("truncate", h, "db", n, 0))
  /\ synch' = [synch EXCEPT !.db.data = SubSeq(@, 1, n)]
  /\ UNCHANGED <<hd, alock, real, wt, ioError, nFile, granted, other>>

\* asyncClose(): the operation is allocated with the file, so that it cannot be refused.
AsyncClose(h) ==
  /\ QueueMutex
  /\ hd[h].st = "open"
  /\ hd[h].name = "db" => asEnv.closes > 0 /\ hd[h].eLock = 0
  /\ queue' = Append(queue, AsOp("close", h, hd[h].name, 0, 0))
  /\ nFile' = nFile - 1
  /\ hd' = [hd EXCEPT ![h].st = "closed"]
  /\ asEnv' = IF hd[h].name = "db" THEN [asEnv EXCEPT !.closes = @ - 1] ELSE asEnv
  /\ UNCHANGED <<alock, real, wt, ioError, granted, synch, other>>

\* asyncDelete(), of a journal that is closed
AsyncDelete ==
  /\ synch.jrnl.on /\ ~\E h \in Handles : hd[h].name = "jrnl" /\ hd[h].st \in {"opening", "open"}
  /\ Push(AsOp("delete", 0, "jrnl", 0, 0))
  /\ synch' = [synch EXCEPT !.jrnl = NoFile]
  /\ UNCHANGED <<hd, alock, real, wt, ioError, nFile, granted, other, asEnv>>

-----------------------------------------------------------------------------
(* The writer thread *)

Head1 == queue[1]

\* A failing operation stops all that follow but the closes.
OpNow == IF ioError /\ Head1.op # "close" THEN "noop" ELSE Head1.op

\* The mutex is given up for a close, an open, and a write to a file with two handles.
Relinquishes == OpNow \in {"close", "openex"} \/ (OpNow = "write" /\ Head1.name = "db")

\* Mutant: the handle's present lock is not looked at.
UnlockedToAlways(h, l) == Min({hd[h].eAsyncLock, l})

\* What an ASYNC_UNLOCK lowers eAsyncLock to: no lower than SQLite's present lock
UnlockedTo(h, l) == Min({hd[h].eAsyncLock, Max({hd[h].eLock, l})})

\* Only the last ASYNC_UNLOCK of a file unlocks it.
UnlockLater(h) == \E i \in 2..Len(queue) : queue[i].op = "unlock" /\ queue[i].h = h

\* The operation is removed, and an error remembered until no file is open.  After an error
\* the mutex is kept as long as operations are queued.  rc is not reset: an operation that
\* does not set it passes on that of the one before.
Finish1(H, rc) ==
  LET q == Tail(queue)
      e == ioError \/ ~rc
      err == e /\ ~(q = <<>> /\ Listed(H) = {})
  IN /\ queue' = q
     /\ ioError' = err
     /\ wt' = [pc |-> "idle", holding |-> err /\ q # <<>>, rc |-> rc]

\* A file operation that fails has done nothing, or half of its work.
Fails1 == AsSpend("faults")

WriterHolds ==
  /\ wt.pc = "idle" /\ queue # <<>> /\ ~Relinquishes
  /\ LET x == Head1
         H == [hd EXCEPT ![x.h].eAsyncLock = UnlockedTo(x.h, x.n)]
     IN CASE OpNow = "noop" ->
               /\ Finish1(hd, wt.rc)
               /\ UNCHANGED <<hd, alock, real, asEnv>>
          [] OpNow = "unlock" ->
               /\ IF UnlockLater(x.h)
                  THEN Finish1(hd, wt.rc) /\ UNCHANGED <<hd, alock>>
                  ELSE /\ hd' = H
                       /\ alock' = GetFileLock(H).lock
                       /\ Finish1(H, GetFileLock(H).ok)
               /\ UNCHANGED <<real, asEnv>>
          [] OpNow \in {"write", "truncate", "delete"} ->
               /\ \/ /\ real' = CASE OpNow = "write" -> [real EXCEPT ![x.name].data = SetAt(@, x.n, x.val)]
                                  [] OpNow = "truncate" -> [real EXCEPT ![x.name].data = SubSeq(@, 1, x.n)]
                                  [] OpNow = "delete" -> [real EXCEPT ![x.name] = NoFile]
                     /\ Finish1(hd, TRUE) /\ UNCHANGED asEnv
                  \/ Fails1 /\ Finish1(hd, FALSE) /\ UNCHANGED real
               /\ UNCHANGED <<hd, alock>>
  /\ UNCHANGED <<nFile, granted, synch, other>>

WriterLeaves ==
  /\ wt.pc = "idle" /\ queue # <<>> /\ Relinquishes
  /\ wt' = [wt EXCEPT !.pc = "io", !.holding = FALSE]
  /\ UNCHANGED <<queue, hd, alock, real, ioError, nFile, granted, synch, other, asEnv>>

\* unlinkAsyncFile(), and xClose() of the handle that holds the locks, with the last file
UnlinkAsyncFile(H) ==
  IF \E h \in Listed(H) : H[h].name = "db" THEN GetFileLock(H).lock ELSE [eLock |-> 0, os |-> 0]

WriterIo ==
  /\ wt.pc = "io"
  /\ LET x == Head1
     IN \/ /\ x.op = "write"
           /\ real' = [real EXCEPT ![x.name].data = SetAt(@, x.n, x.val)]
           /\ wt' = [wt EXCEPT !.pc = "done"]
           /\ UNCHANGED <<hd, alock, asEnv>>
        \/ /\ x.op = "openex"
           /\ real' = [real EXCEPT ![x.name].on = TRUE]
           /\ hd' = [hd EXCEPT ![x.h].base = TRUE]
           /\ wt' = [wt EXCEPT !.pc = "done"]
           /\ UNCHANGED <<alock, asEnv>>
        \/ /\ x.op = "close"
           /\ hd' = [hd EXCEPT ![x.h].st = "gone", ![x.h].eAsyncLock = 0]
           /\ alock' = IF x.name = "db" THEN UnlinkAsyncFile(hd') ELSE alock
           /\ wt' = [wt EXCEPT !.pc = "done", !.rc = x.name = "db" => GetFileLock(hd').ok]
           /\ UNCHANGED <<real, asEnv>>
        \/ /\ x.op \in {"write", "openex"}
           /\ Fails1
           /\ wt' = [wt EXCEPT !.pc = "done", !.rc = FALSE]
           /\ UNCHANGED <<real, hd, alock>>
  /\ UNCHANGED <<queue, ioError, nFile, granted, synch, other>>

WriterFinishes ==
  /\ wt.pc = "done"
  /\ LET H == IF Head1.op = "close" THEN [hd EXCEPT ![Head1.h] = NoHandle] ELSE hd
     IN hd' = H /\ Finish1(H, wt.rc)
  /\ UNCHANGED <<alock, real, nFile, granted, synch, other, asEnv>>

AsNext ==
  \/ WriterHolds \/ WriterLeaves \/ WriterIo \/ WriterFinishes
  \/ AsyncOpenDb \/ AsyncDelete \/ OtherUnlocks
  \/ \E l \in {1, 2, 4} : OtherLocks(l)
  \/ \E h \in Handles :
       \/ AsyncOpenJournal(h) \/ IncrOpenFileCount(h) \/ AsyncClose(h)
       \/ \E l \in {1, 2, 4} : AsyncLock(h, l)
       \/ \E l \in {0, 1} : AsyncUnlock(h, l)
       \/ \E n \in 1..2 : AsyncWrite(h, n)
       \/ \E n \in 0..1 : AsyncTruncate(h, n)

AsSpec == AsInit /\ [][AsNext]_asVars

-----------------------------------------------------------------------------
(* Properties *)

\* SQLite does not notice the queue: the size of a file, its pages and its existence are what
\* they would be had every call been carried out at once, through whichever handle, while
\* the writer thread is anywhere.  Not after an error, when reads are refused.
AsyncTransparent ==
  ~ioError =>
    /\ \A n \in {"db", "jrnl"} : AsyncAccess(n) = synch[n].on
    /\ \A h \in Handles : hd[h].st = "open" =>
         LET data == synch[hd[h].name].data IN
         /\ AsyncFileSize(h) = Len(data)
         /\ \A n \in DOMAIN data : AsyncRead(h, n) = data[n]

\* "The design of the async backend requires that the 'real' file-system file be locked from
\* the time that SQLite first locks it (and probably reads from it) until all asynchronous
\* write events that were scheduled before SQLite unlocked the file have been processed."
LockedUntilFlushed ==
  /\ \A h \in OpenOn("db") : granted[h] <= alock.os
  /\ (\E i \in DOMAIN queue : queue[i].op \in {"write", "truncate"} /\ queue[i].name = "db") =>
       alock.os = AsLevel.exclusive
=============================================================================
