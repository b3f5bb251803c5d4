----------------------------- MODULE WalProofs -----------------------------
(***************************************************************************)
(* A reader of the write-ahead log keeps its snapshot and the cache of the *)
(* pager stands for it, for any number of connections, read marks, frames  *)
(* and pages, whatever checkpoints, restarts of the log, spills, closes,   *)
(* failing calls and power losses do meanwhile.                            *)
(*                                                                         *)
(* The invariant has three layers: control and locks (Ctl); the header     *)
(* that is published, H, and who may take it for what (Heads); the         *)
(* database under H, Current, and what readers, the writer and the         *)
(* checkpointer have of it (Data).  A header is recognised by its checksum *)
(* and its salt: what a writer is about to publish nobody has seen before. *)
(***************************************************************************)
EXTENDS WalControlProofs

(* Headers *)

\* The two copies of the header differ only while somebody writes the second one.
Publishing == {"commit0", "restart0", "recover0"}

HdrInv ==
  /\ (\A c \in Conn : pc[c] \notin Publishing) => shm.hdr[1] = H
  /\ \A c \in Conn : pc[c] \in Publishing => shm.hdr[1] = w[c].hdr
  /\ mxH > 0 => H.nPage > 0

\* Content and salts are older than seed.
Older(h) == h.cksum[1] < seed /\ h.salt < seed

OldInv ==
  /\ Older(H)
  /\ \A l \in {wal, walDisk} : /\ l.salt < seed
                               /\ \A i \in 1..Len(l.frames) : l.frames[i].data < seed

\* Before anybody has rebuilt the wal-index, nobody has read anything.
BlankPc == {"closed", "idle", "hdr0", "hdr1", "hdrlock", "hdragain", "recover", "recover0", "ckend"}

BlankAt(c) ==
  ~H.isInit => /\ pc[c] \in BlankPc /\ cached[c] = None /\ mine[c] = None
               /\ w[c].readLock = -1 /\ ~call[c].h1.isInit
               /\ pc[c] # "recover0" => w[c].hdr = ZeroHdr

\* What a writer is about to publish nobody has seen before.
FreshAt(c, d) ==
  /\ call[c].mode = "write" => /\ call[d].h1.cksum[1] # call[c].data
                               /\ c # d => w[d].hdr.cksum[1] # call[c].data
  /\ pc[c] \in {"restart1", "restart0"} =>
       /\ call[d].h1.salt # w[c].hdr.salt
       /\ c # d => w[d].hdr.salt # w[c].hdr.salt

HeadAt(c) ==
  /\ Older(w[c].hdr) /\ Older(call[c].h1)
  /\ w[c].svpt # None => w[c].svpt.cksum[1] < seed
  /\ ~InWrite(c) /\ w[c].hdr.mxFrame > 0 => w[c].hdr.nPage > 0
  /\ InWrite(c) => w[c].hdr.isInit
  /\ call[c].mode = "write" => call[c].data \in 1..(seed - 1) /\ H.cksum[1] # call[c].data
  /\ pc[c] \in {"restart"} \cup RestartPc => w[c].hdr.cksum[1] # call[c].data
  /\ pc[c] \in {"restart1", "restart0"} =>
       w[c].hdr.salt > 0 /\ H.salt # w[c].hdr.salt /\ w[c].hdr.mxFrame = 0
  /\ pc[c] \in {"framesync", "index", "commit0"} => w[c].hdr.cksum[1] = call[c].data
  /\ pc[c] = "commit0" => call[c].nTruncate # 0 /\ w[c].hdr.nPage = call[c].nTruncate
  /\ pc[c] \in {"recover", "recover0"} => ~H.isInit
  /\ pc[c] = "recover0" => w[c].hdr.isInit
  /\ pc[c] = "recoverinfo" => w[c].hdr = H /\ H.isInit
  /\ pc[c] \in RecoverPc => shm.nBackfill = 0
  /\ BlankAt(c)

Heads == /\ HdrInv /\ OldInv
         /\ ~H.isInit => shm.nBackfill = 0
         /\ \A c \in Conn : HeadAt(c)
         /\ \A c, d \in Conn : FreshAt(c, d)

-----------------------------------------------------------------------------
(* The database under a header *)

F(mx, p) == LastFrame(shm.aPgno, mx, p)
DbAt(p)  == IF p <= Len(db) THEN db[p] ELSE 0
At(mx, p) == IF F(mx, p) = 0 THEN DbAt(p) ELSE wal.frames[F(mx, p)].data

Size(h)     == IF h.nPage # 0 THEN h.nPage ELSE Len(db)
LogView(h)  == [p \in 1..Size(h) |-> At(h.mxFrame, p)]
FileView(h) == [p \in 1..Size(h) |-> DbAt(p)]
Current     == LogView(H)

\* A header of the log that H is a header of, of the same age or older.
Follows(h) == h.mxFrame <= mxH /\ (h.mxFrame = mxH => h = H)

\* The pages that the database has gained since are in later frames.
Growth(h) == \A p \in 1..H.nPage : p > h.nPage => F(mxH, p) > h.mxFrame

\* The image m, but for the pages of X, is what the first mx frames make of the file; pages
\* beyond the current database come from later frames than it has.
Overlays(m, mx, X) ==
  \A p \in (1..Len(m)) \ X : m[p] = At(mx, p) /\ (p > Size(H) => F(mx, p) > mxH)

\* A frame that is backfilled is in the database file.
InFile(p, f) == p <= Len(db) /\ db[p] = wal.frames[f].data

\* nBackfill belongs to the log of H, except in the middle of a restart.
BackfillInv ==
  /\ (\A c \in Conn : pc[c] # "restartinfo") => shm.nBackfill <= mxH
  /\ (\E c \in Conn : pc[c] # "closed") =>
       \A p \in 1..H.nPage : F(mxH, p) \in 1..shm.nBackfill => InFile(p, F(mxH, p))

\* What the cache keeps between transactions.
RelyAt(c) ==
  ~InWrite(c) /\ w[c].readLock = -1 /\ cached[c] # None /\ ~call[c].changed /\ w[c].hdr = H
    => cached[c] = Current

ReadAt(c) ==
  /\ ~InWrite(c) /\ w[c].readLock >= 1
       => Follows(w[c].hdr) /\ cached[c] = LogView(w[c].hdr)
  /\ ~InWrite(c) /\ w[c].readLock = 0
       => cached[c] = FileView(w[c].hdr)
  /\ (w[c].readLock = 0 /\ ~InWrite(c)) \/ pc[c] = "lock0"
       => (w[c].hdr = H => shm.nBackfill >= mxH)
  /\ w[c].readLock >= 1 => /\ shm.aReadMark[w[c].readLock] <= w[c].hdr.mxFrame
                           /\ shm.aReadMark[w[c].readLock] <= mxH

\* The pages of a call to sqlite3WalFrames() that are not in the index yet.
Pending(c) == IF pc[c] \in {"idle", "commit0"} THEN {} ELSE Range(call[c].list)

SvptAt(c) ==
  w[c].svpt # None =>
    /\ w[c].svpt.nCkpt <= w[c].nCkpt
    /\ UndoTo(c) <= w[c].hdr.mxFrame
    /\ pc[c] \notin {"restart1", "restart0"} => mxH <= UndoTo(c)
    /\ Overlays(w[c].svpt.mine, UndoTo(c), {})
    /\ w[c].readLock = 0 /\ pc[c] \notin RestartPc => w[c].svpt.nCkpt = w[c].nCkpt

\* The frames of a call are the intended pages.
ContentAt(c) ==
  LET mx == w[c].hdr.mxFrame
      x  == call[c]
  IN
  /\ pc[c] \notin {"commit0", "failed"} =>
       /\ \A i, j \in 1..Len(x.list) : i # j => x.list[i] # x.list[j]
       /\ \A p \in Range(x.list) : p <= Len(mine[c]) => mine[c][p] = x.data
  /\ pc[c] # "failed" /\ x.nTruncate # 0 => x.nTruncate = Len(mine[c])
  /\ pc[c] \in {"walhdrsync", "frame", "framesync", "index"} =>
       \A j \in 1..(x.iFrame - mx) : wal.frames[mx + j].data = x.data
  /\ pc[c] = "commit0" => mx > mxH

WriteAt(c) ==
  InWrite(c) =>
    /\ cached[c] = Current
    /\ w[c].readLock = 0 => shm.nBackfill >= mxH
    /\ w[c].readLock = 0 /\ pc[c] \notin {"restart1", "restart0"} => w[c].hdr = H
    /\ pc[c] \in MarkPc => w[c].hdr = H
    /\ pc[c] \in {"restart1", "restart0"} =>
         w[c].hdr.nPage = H.nPage /\ mxH > 0
    /\ pc[c] = "restartinfo" => mxH = 0
    /\ pc[c] \notin {"restart1", "restart0"} => w[c].hdr.mxFrame >= mxH
    /\ pc[c] # "failed" => Overlays(mine[c], w[c].hdr.mxFrame, Pending(c))
    /\ pc[c] # "idle" => ContentAt(c)
    /\ SvptAt(c)

CkAt(c) ==
  LET mx == w[c].hdr.mxFrame
      x  == call[c]
  IN
  /\ pc[c] = "ckstart" => (Follows(w[c].hdr) /\ Growth(w[c].hdr)) \/ shm.nBackfill >= mx
  /\ pc[c] \in CkRunPc =>
       /\ Follows(w[c].hdr) /\ Growth(w[c].hdr)
       /\ shm.nBackfill < mx /\ x.mxSafeFrame <= mx
       /\ \A d \in Conn : w[d].readLock \in 1..(x.i - 1) => x.mxSafeFrame <= w[d].hdr.mxFrame
       /\ \A t \in x.todo : t[2] = F(mx, t[1])
  /\ pc[c] \in {"ckmark", "ckput", "cklock0"} =>
       \A p \in Nat : F(mx, p) # 0 => <<p, F(mx, p)>> \in x.todo
  /\ pc[c] \in CkWritePc =>
       /\ x.nBackfill = shm.nBackfill /\ shm.nBackfill < x.mxSafeFrame
       /\ \A p \in 1..w[c].hdr.nPage :
            F(mx, p) \in (x.nBackfill + 1)..x.mxSafeFrame =>
              \/ pc[c] \in {"cksync", "ckpage"} /\ <<p, F(mx, p)>> \in x.todo
              \/ InFile(p, F(mx, p))

DataAt(c) == RelyAt(c) /\ ReadAt(c) /\ WriteAt(c) /\ CkAt(c)

Data == BackfillInv /\ \A c \in Conn : DataAt(c)

WalInv == Ctl /\ Heads /\ Data
-----------------------------------------------------------------------------
-----------------------------------------------------------------------------
(* The frame of a step *)

\* The variables of the other connections stay.
Others(c) ==
  \A d \in Conn \ {c} : /\ pc'[d] = pc[d] /\ call'[d] = call[d] /\ w'[d] = w[d]
                        /\ cached'[d] = cached[d] /\ mine'[d] = mine[d]

LEMMA WriterAlone ==
  ASSUME Ctl, NEW c \in Conn, NEW d \in Conn, c # d, WRITE \in exclMask[c]
  PROVE  /\ ~InWrite(d) /\ call[d].mode # "write"
         /\ pc[d] \notin WritePc \cup RecoverPc \cup Publishing \cup {"hdragain"}
<1>1. WRITE \notin exclMask[d]
  BY DEF Ctl, Excluded
<1>2. CtlAt(d) /\ WRITE \in Slot
  BY Slots DEF Ctl
<1>3. QED BY <1>1, <1>2 DEF CtlAt, LocksAt, ModeAt, TransAt, WritePc, Publishing, RestartPc, FramePc, RecoverPc

LEMMA RecovererAlone ==
  ASSUME Ctl, NEW c \in Conn, NEW d \in Conn, c # d, exclMask[c] \cup sharedMask[c] # {}
  PROVE  pc[d] \notin RecoverPc
<1>1. exclMask[d] \cap (exclMask[c] \cup sharedMask[c]) = {}
  BY DEF Ctl, Excluded
<1>2. CtlAt(d) /\ exclMask[c] \cup sharedMask[c] \subseteq Slot
  BY DEF Ctl, WalTypeOK
<1>3. QED BY <1>1, <1>2 DEF CtlAt, LocksAt

\* A header of type Hdr, its numbers.
LEMMA HdrIs == ASSUME NEW h \in Hdr
               PROVE  /\ h.mxFrame \in Nat /\ h.nPage \in Nat /\ h.salt \in Nat /\ h.iChange \in Nat
                      /\ h.cksum[1] \in Nat /\ h.isInit \in BOOLEAN
BY DEF Hdr, Pair

\* Headers of other connections, or of nobody, that c may take.
Known(c) == {w[c].hdr, call[c].h1, H, ZeroHdr}

\* A step of c keeps what holds of the others' headers.
LEMMA HeadsStep ==
  ASSUME Ctl, Heads, NEW c \in Conn, Others(c), seed' \in Nat, seed' >= seed, H' \in Hdr,
         H' = H \/ (H'.isInit /\ WRITE \in exclMask[c]),
         shm'.nBackfill = shm.nBackfill \/ exclMask[c] # {},
         HdrInv', OldInv', (~H.isInit => shm.nBackfill = 0)', HeadAt(c)',
         (call'[c].h1 \in Known(c) /\ w'[c].hdr \in Known(c)) \/ WRITE \in exclMask[c],
         \A d \in Conn : FreshAt(c, d)'
  PROVE  Heads'
<1>1. WalTypeOK /\ \A d \in Conn : CtlAt(d)
  BY DEF Ctl
<1>2. seed \in Nat /\ shm.nBackfill \in Nat
  BY <1>1 DEF WalTypeOK, Index
<1>3. ASSUME NEW d \in Conn, d # c
      PROVE  /\ pc'[d] = pc[d] /\ call'[d] = call[d] /\ w'[d] = w[d]
             /\ cached'[d] = cached[d] /\ mine'[d] = mine[d]
  BY <1>3 DEF Others
<1>4. ASSUME NEW d \in Conn, d # c PROVE HeadAt(d)'
  <2>1. HeadAt(d)
    BY DEF Heads
  <2>2. /\ w[d].hdr.salt \in Nat /\ w[d].hdr.cksum[1] \in Nat
        /\ call[d].h1.salt \in Nat /\ call[d].h1.cksum[1] \in Nat
        /\ w[d].svpt # None => w[d].svpt.cksum[1] \in Nat
    BY <1>1, Types, HdrIs DEF WalObj, Svpt, Pair
  <2>3. Older(w[d].hdr)' /\ Older(call[d].h1)' /\ (w[d].svpt # None => w[d].svpt.cksum[1] < seed)'
    BY <1>2, <1>3, <1>4, <2>1, <2>2 DEF HeadAt, Older
  <2>4. CASE H' = H
    <3>1. pc[d] \in RecoverPc => shm'.nBackfill = 0
      BY <1>4, <2>1, RecovererAlone DEF HeadAt
    <3>2. call[d].data \in 1..(seed - 1) => call[d].data \in 1..(seed' - 1)
      BY <1>2
    <3>3. QED BY <1>3, <1>4, <2>1, <2>3, <2>4, <3>1, <3>2 DEF HeadAt, BlankAt, InWrite, mxH, H
  <2>5. CASE H'.isInit /\ WRITE \in exclMask[c]
    <3>1. ~InWrite(d) /\ call[d].mode # "write" /\ pc[d] \notin WritePc \cup RecoverPc
      BY <1>4, <2>5, WriterAlone
    <3>2. QED BY <1>3, <1>4, <2>1, <2>3, <2>5, <3>1
              DEF HeadAt, BlankAt, InWrite, mxH, H, WritePc, RecoverPc, RestartPc, FramePc
  <2>6. QED BY <2>4, <2>5
<1>5. ASSUME NEW d \in Conn, NEW e \in Conn, d # c PROVE FreshAt(d, e)'
  <2>1. FreshAt(d, e) /\ HeadAt(d) /\ FreshAt(d, c)
    BY DEF Heads
  <2>2. CASE e # c
    BY <1>3, <1>5, <2>1, <2>2 DEF FreshAt
  <2>3. CASE e = c /\ WRITE \in exclMask[c]
    BY <1>3, <1>5, <2>3, WriterAlone DEF FreshAt, WritePc, RestartPc
  <2>4. CASE e = c /\ call'[c].h1 \in Known(c) /\ w'[c].hdr \in Known(c)
    <3>1. call[d].mode = "write" => \A h \in Known(c) : h.cksum[1] # call[d].data
      BY <1>5, <2>1 DEF HeadAt, FreshAt, Known, ZeroHdr
    <3>2. pc[d] \in {"restart1", "restart0"} => \A h \in Known(c) : h.salt # w[d].hdr.salt
      BY <1>5, <2>1 DEF HeadAt, FreshAt, Known, ZeroHdr
    <3>3. QED BY <1>3, <1>5, <2>4, <3>1, <3>2 DEF FreshAt
  <2>5. QED BY <2>2, <2>3, <2>4
<1>6. \A d \in Conn : HeadAt(d)'
  BY <1>4
<1>7. \A d, e \in Conn : FreshAt(d, e)'
  BY <1>5
<1>8. QED BY <1>6, <1>7 DEF Heads

LEMMA OthersKept ==
  ASSUME Ctl, NEW c \in Conn, NEW to, NEW k, NEW o, NEW ca, NEW mi, Does(c, to, k, o, ca, mi)
  PROVE  Others(c) /\ pc'[c] = to /\ call'[c] = k /\ w'[c] = o /\ cached'[c] = ca /\ mine'[c] = mi
BY DoesIs DEF Ctl, Others

\* What a writer is about to publish stays new.
LEMMA FreshKept ==
  ASSUME Heads, NEW c \in Conn, Others(c),
         call'[c].mode = "write" \/ pc'[c] \in {"restart1", "restart0"} => call'[c].h1 = call[c].h1,
         call'[c].mode = "write" => call[c].mode = "write" /\ call'[c].data = call[c].data,
         pc'[c] \in {"restart1", "restart0"} =>
           pc[c] \in {"restart1", "restart0"} /\ w'[c].hdr.salt = w[c].hdr.salt
  PROVE  \A d \in Conn : FreshAt(c, d)'
<1>1. ASSUME NEW d \in Conn PROVE FreshAt(c, d)'
  <2>1. FreshAt(c, d)
    BY DEF Heads
  <2>2. CASE d = c
    BY <2>1, <2>2 DEF FreshAt
  <2>3. CASE d # c
    BY <2>1, <2>3 DEF FreshAt, Others
  <2>4. QED BY <2>2, <2>3
<1>2. QED BY <1>1

LEMMA HdrKept ==
  ASSUME Heads, NEW c \in Conn, Others(c), shm'.hdr[0] = H, shm'.hdr[1] = shm.hdr[1],
         pc'[c] \in Publishing <=> pc[c] \in Publishing,
         pc[c] \in Publishing => w'[c].hdr = w[c].hdr
  PROVE  HdrInv'
<1>1. HdrInv
  BY DEF Heads
<1>2. (\A d \in Conn : pc'[d] \notin Publishing) => \A d \in Conn : pc[d] \notin Publishing
  BY DEF Others
<1>3. ASSUME NEW d \in Conn, pc'[d] \in Publishing PROVE pc[d] \in Publishing /\ w'[d].hdr = w[d].hdr
  BY <1>3 DEF Others
<1>4. QED BY <1>1, <1>2, <1>3 DEF HdrInv, H, mxH

LEMMA OldKept ==
  ASSUME WalTypeOK, OldInv, shm'.hdr[0] = H, wal' = wal, walDisk' \in {walDisk, wal},
         seed' \in Nat, seed' >= seed
  PROVE  OldInv'
<1>1. /\ seed \in Nat /\ H.cksum[1] \in Nat /\ H.salt \in Nat
      /\ \A l \in {wal, walDisk} : l.salt \in Nat /\ \A i \in 1..Len(l.frames) : l.frames[i].data \in Nat
  <2>1. H \in Hdr
    BY DEF WalTypeOK, Index, H
  <2>2. \A l \in {wal, walDisk} : l.salt \in Nat /\ \A i \in 1..Len(l.frames) : l.frames[i] \in Frame
    BY DEF WalTypeOK, Log
  <2>3. QED BY <2>1, <2>2, HdrIs DEF WalTypeOK, Frame
<1>2. Older(H)'
  BY <1>1 DEF OldInv, Older, H
<1>3. ASSUME NEW l \in {wal, walDisk}
      PROVE  l.salt < seed' /\ \A i \in 1..Len(l.frames) : l.frames[i].data < seed'
  BY <1>1 DEF OldInv
<1>4. QED BY <1>2, <1>3 DEF OldInv

\* A step that publishes nothing.
LEMMA QuietHeads ==
  ASSUME Ctl, Heads, NEW c \in Conn, Others(c),
         shm'.hdr[0] = H, shm'.hdr[1] = shm.hdr[1],
         \/ shm'.nBackfill = shm.nBackfill
         \/ exclMask[c] # {} /\ (H.isInit \/ shm'.nBackfill = 0),
         wal' = wal, walDisk' \in {walDisk, wal}, seed' \in Nat, seed' >= seed,
         pc[c] \notin Publishing, pc'[c] \notin Publishing,
         (call'[c].h1 \in Known(c) /\ w'[c].hdr \in Known(c)) \/ WRITE \in exclMask[c],
         call'[c].mode = "write" => /\ call[c].mode = "write" /\ call'[c].data = call[c].data
                                    /\ call'[c].h1 = call[c].h1,
         pc'[c] # "restart1", HeadAt(c)'
  PROVE  Heads'
<1>1. HdrInv' /\ OldInv'
  <2>1. WalTypeOK /\ OldInv
    BY DEF Ctl, Heads
  <2>2. QED BY <2>1, HdrKept, OldKept
<1>2. pc'[c] \notin {"restart1", "restart0"}
  BY DEF Publishing
<1>3. \A d \in Conn : FreshAt(c, d)'
  BY <1>2, FreshKept
<1>4. (~H.isInit => shm.nBackfill = 0)'
  BY DEF H, Heads
<1>5. H' = H /\ H' \in Hdr
  BY DEF H, Ctl, WalTypeOK, Index
<1>6. QED BY <1>1, <1>3, <1>4, <1>5, HeadsStep

LEMMA HeadIs ==
  ASSUME Ctl, Heads, NEW c \in Conn
  PROVE  /\ WalTypeOK /\ CtlAt(c) /\ HeadAt(c) /\ Older(H) /\ seed \in Nat
         /\ Older(ZeroHdr) /\ (mxH > 0 => H.nPage > 0)
         /\ \A h \in Known(c) : Older(h) /\ h \in Hdr
<1>1. WalTypeOK /\ CtlAt(c) /\ HeadAt(c) /\ Older(H) /\ seed \in Nat \ {0} /\ (mxH > 0 => H.nPage > 0)
  BY DEF Ctl, Heads, OldInv, HdrInv, WalTypeOK
<1>2. Older(ZeroHdr)
  BY <1>1 DEF Older, ZeroHdr
<1>3. QED BY <1>1, <1>2, Types, Blanks DEF HeadAt, Known
-----------------------------------------------------------------------------
(* Headers: Heads is inductive *)

LEMMA Untouched ==
  /\ NoCall.h1 = ZeroHdr /\ NoCall.mode # "write"
  /\ FreshWal.hdr = ZeroHdr /\ FreshWal.readLock = -1 /\ FreshWal.svpt = None
  /\ ZeroHdr.cksum[1] = 0 /\ ZeroHdr.salt = 0 /\ ZeroHdr.mxFrame = 0 /\ ~ZeroHdr.isInit
BY DEF NoCall, FreshWal, ZeroHdr

\* Nobody does anything yet, or any more.
LEMMA BlankHeads ==
  ASSUME seed' \in Nat \ {0}, OldInv', shm'.hdr[1] = shm'.hdr[0],
         (mxH > 0 => H.nPage > 0)', (~H.isInit => shm.nBackfill = 0)',
         \A d \in Conn : /\ pc'[d] \in {"idle", "closed"} /\ call'[d] = NoCall /\ w'[d] = FreshWal
                         /\ cached'[d] = None /\ mine'[d] = None
  PROVE  Heads'
<1>1. HdrInv'
  BY DEF HdrInv, Publishing, H, mxH
<1>2. ASSUME NEW d \in Conn PROVE HeadAt(d)'
  <2>1. Older(w[d].hdr)' /\ Older(call[d].h1)'
    BY Untouched DEF Older
  <2>2. BlankAt(d)'
    BY Untouched DEF BlankAt, BlankPc
  <2>3. QED BY <2>1, <2>2, Untouched DEF HeadAt, InWrite, RestartPc, RecoverPc
<1>3. ASSUME NEW d \in Conn, NEW e \in Conn PROVE FreshAt(d, e)'
  BY DEF FreshAt, NoCall
<1>4. QED BY <1>1, <1>2, <1>3 DEF Heads

LEMMA OpenHeads == ASSUME Ctl, Heads, NEW c \in Conn, Open(c) PROVE Heads'
<1>1. WalTypeOK /\ CtlAt(c) /\ HeadAt(c) /\ Older(ZeroHdr) /\ seed \in Nat
  BY HeadIs
<1>2. /\ pc[c] = "closed" /\ Does(c, "idle", call[c], FreshWal, cached[c], mine[c])
      /\ shm' = IF \A d \in Conn : pc[d] = "closed" THEN ZeroShm ELSE shm
      /\ UNCHANGED <<lockVars, files, seed, env>>
  BY <1>1, OpenDoes
<1>3. /\ Others(c) /\ pc'[c] = "idle" /\ call'[c] = call[c] /\ w'[c] = FreshWal
      /\ cached'[c] = cached[c] /\ mine'[c] = mine[c] /\ wal' = wal /\ walDisk' = walDisk /\ seed' = seed
  BY <1>2, OthersKept DEF files
<1>4. \A d \in Conn : pc[d] = "closed" =>
        call[d] = NoCall /\ w[d] = FreshWal /\ cached[d] = None /\ mine[d] = None
  BY DEF Ctl, CtlAt, ModeAt, TransAt
<1>5. CASE \A d \in Conn : pc[d] = "closed"
  <2>1. shm'.hdr[0] = ZeroHdr /\ shm'.hdr[1] = ZeroHdr /\ shm'.nBackfill = 0
    BY <1>2, <1>5 DEF ZeroShm
  <2>2. OldInv'
    BY <1>1, <1>3, <2>1 DEF Heads, OldInv, Older, H
  <2>3. \A d \in Conn : /\ pc'[d] \in {"idle", "closed"} /\ call'[d] = NoCall /\ w'[d] = FreshWal
                        /\ cached'[d] = None /\ mine'[d] = None
    BY <1>2, <1>3, <1>4, <1>5 DEF Others
  <2>4. (mxH > 0 => H.nPage > 0)' /\ (~H.isInit => shm.nBackfill = 0)'
    BY <2>1 DEF H, mxH, ZeroHdr
  <2>5. seed' \in Nat \ {0}
    BY <1>1, <1>3 DEF WalTypeOK
  <2>6. QED BY <2>1, <2>2, <2>3, <2>4, <2>5, BlankHeads
<1>6. CASE ~(\A d \in Conn : pc[d] = "closed")
  <2>1. shm' = shm
    BY <1>2, <1>6
  <2>2. HeadAt(c)'
    BY <1>1, <1>2, <1>3, <1>4, <2>1 DEF NoCall, FreshWal, ZeroHdr, HeadAt, Older, BlankAt, BlankPc, InWrite, RestartPc, RecoverPc, Publishing, Known, H, mxH
  <2>3. FreshWal.hdr \in Known(c) /\ call[c].h1 \in Known(c) /\ call[c].mode # "write"
    BY <1>2, <1>4 DEF Known, FreshWal, NoCall
  <2>4. QED BY <1>1, <1>2, <1>3, <2>1, <2>2, <2>3, QuietHeads DEF Publishing, H
<1>7. QED BY <1>5, <1>6

\* A step that changes the variables of a call but no header.
LEMMA BeginReadHeads == ASSUME Ctl, Heads, NEW c \in Conn, BeginRead(c) PROVE Heads'
<1>1. WalTypeOK /\ CtlAt(c) /\ HeadAt(c) /\ Older(ZeroHdr) /\ seed \in Nat /\ Steady
  BY HeadIs DEF Ctl
<1> DEFINE k == [NoCall EXCEPT !.mode = "read"]
<1>2. k.h1 = ZeroHdr /\ k.mode = "read"
  BY DEF NoCall
<1>3. /\ pc[c] = "idle" /\ w[c].readLock < 0 /\ Calls(c, "hdr0", k)
      /\ UNCHANGED <<lockVars, shm, files, seed>>
  BY <1>1, BeginReadDoes
<1> HIDE DEF k
<1>4. /\ Others(c) /\ pc'[c] = "hdr0" /\ call'[c] = k /\ w'[c] = w[c]
      /\ cached'[c] = cached[c] /\ mine'[c] = mine[c] /\ wal' = wal /\ walDisk' = walDisk /\ seed' = seed
      /\ shm' = shm
  BY <1>3, OthersKept DEF Calls, files
<1>5. HeadAt(c)'
  BY <1>1, <1>2, <1>3, <1>4 DEF ZeroHdr, HeadAt, Older, BlankAt, BlankPc, InWrite, RestartPc, RecoverPc, Publishing, Known, H, mxH
<1>6. k.h1 \in Known(c) /\ w[c].hdr \in Known(c)
  BY <1>2 DEF Known
<1>7. QED BY <1>1, <1>2, <1>3, <1>4, <1>5, <1>6, QuietHeads DEF Publishing, H

\* Who is beyond reading the header knows that there is one.
LEMMA Recognised ==
  ASSUME Heads, NEW c \in Conn, pc[c] \notin BlankPc \/ InWrite(c) \/ w[c].readLock >= 0 \/ cached[c] # None
  PROVE  H.isInit
BY DEF Heads, HeadAt, BlankAt, InWrite

\* A step inside an operation that leaves its transaction as it is.
LEMMA StepHeads ==
  ASSUME Ctl, Heads, NEW c \in Conn, Others(c), shm'.hdr[0] = H, shm'.hdr[1] = shm.hdr[1],
         \/ shm'.nBackfill = shm.nBackfill
         \/ exclMask[c] # {} /\ (H.isInit \/ shm'.nBackfill = 0),
         wal' = wal, walDisk' \in {walDisk, wal}, seed' = seed,
         pc[c] \notin Publishing,
         pc'[c] \notin {"restart", "framesync", "index", "commit0"} \cup RestartPc \cup RecoverPc,
         w'[c].hdr = w[c].hdr \/ (~InWrite(c) /\ w'[c].hdr \in {H, ZeroHdr}),
         call'[c].h1 \in Known(c), w'[c].svpt # None => w'[c].svpt = w[c].svpt,
         call'[c].mode = "write" => /\ call[c].mode = "write" /\ call'[c].data = call[c].data
                                    /\ call'[c].h1 = call[c].h1,
         mine'[c] = None <=> mine[c] = None,
         H.isInit \/ BlankAt(c)'
  PROVE  Heads'
<1>1. /\ WalTypeOK /\ CtlAt(c) /\ HeadAt(c) /\ Older(H) /\ seed \in Nat /\ Older(ZeroHdr)
      /\ (mxH > 0 => H.nPage > 0) /\ \A h \in Known(c) : Older(h)
  BY HeadIs
<1>2. w'[c].hdr \in Known(c)
  BY DEF Known
<1>3. Older(w[c].hdr)' /\ Older(call[c].h1)'
  BY <1>1, <1>2 DEF Older
<1>4. BlankAt(c)'
  BY DEF BlankAt, H
<1>5. (InWrite(c) => w[c].hdr.isInit)' /\ (~InWrite(c) /\ w[c].hdr.mxFrame > 0 => w[c].hdr.nPage > 0)'
  BY <1>1 DEF HeadAt, InWrite, ZeroHdr, mxH
<1>6. HeadAt(c)'
  BY <1>1, <1>3, <1>4, <1>5 DEF HeadAt, H, InWrite, RestartPc, RecoverPc
<1>7. pc'[c] \notin Publishing /\ pc'[c] # "restart1"
  BY DEF Publishing, RestartPc, RecoverPc
<1>8. QED BY <1>1, <1>2, <1>6, <1>7, QuietHeads

LEMMA ReadHdr0Heads == ASSUME Ctl, Heads, NEW c \in Conn, ReadHdr0(c) PROVE Heads'
<1>1. WalTypeOK /\ CtlAt(c) /\ HeadAt(c)
  BY HeadIs
<1> DEFINE k == [call[c] EXCEPT !.h1 = H]
<1>2. pc[c] = "hdr0" /\ Calls(c, "hdr1", k) /\ Quiet
  BY <1>1, ReadHdr0Does
<1>3. k.h1 = H /\ k.mode = call[c].mode /\ k.mode # "write"
  BY <1>1, <1>2 DEF WalTypeOK, Call, CtlAt, ModeAt, HdrPc
<1> HIDE DEF k
<1>4. /\ Others(c) /\ pc'[c] = "hdr1" /\ call'[c] = k /\ w'[c] = w[c]
      /\ cached'[c] = cached[c] /\ mine'[c] = mine[c] /\ wal' = wal /\ walDisk' = walDisk /\ seed' = seed
      /\ shm' = shm
  BY <1>2, OthersKept DEF Calls, files, Quiet
<1>5. BlankAt(c)'
  BY <1>1, <1>2, <1>3, <1>4 DEF HeadAt, BlankAt, BlankPc, H
<1>6. H \in Known(c)
  BY DEF Known
<1>7. QED BY <1>2, <1>3, <1>4, <1>5, <1>6, StepHeads DEF Publishing, RestartPc, RecoverPc, H

LEMMA MoveHeads ==
  ASSUME Ctl, Heads, NEW c \in Conn, NEW to, Moves(c, to), Quiet, pc[c] \notin Publishing,
         to \notin {"restart", "framesync", "index", "commit0"} \cup RestartPc \cup RecoverPc,
         pc[c] \notin BlankPc \/ to \in BlankPc
  PROVE  Heads'
<1>1. /\ Others(c) /\ pc'[c] = to /\ call'[c] = call[c] /\ w'[c] = w[c]
      /\ cached'[c] = cached[c] /\ mine'[c] = mine[c] /\ wal' = wal /\ walDisk' = walDisk /\ seed' = seed
      /\ shm' = shm
  BY OthersKept DEF Moves, files, Quiet
<1>2. HeadAt(c)
  BY DEF Heads
<1>3. H.isInit \/ BlankAt(c)'
  BY <1>1, <1>2 DEF HeadAt, BlankAt, BlankPc, H, Publishing
<1>4. QED BY <1>1, <1>3, StepHeads DEF H, Known

\* A header of which both copies were seen is the current one.
LEMMA SeenIsCurrent ==
  ASSUME Ctl, Heads, NEW c \in Conn, call[c].h1 = shm.hdr[1], call[c].h1.isInit, pc[c] = "hdr1"
  PROVE  call[c].h1 = H
<1>1. CASE \A d \in Conn : pc[d] \notin Publishing
  BY <1>1 DEF Heads, HdrInv
<1>2. ASSUME NEW d \in Conn, pc[d] \in Publishing PROVE FALSE
  <2>1. call[c].h1 = w[d].hdr /\ FreshAt(d, c) /\ HeadAt(d) /\ HeadAt(c) /\ CtlAt(d)
    BY <1>2 DEF Heads, HdrInv, Ctl
  <2>2. pc[d] \notin {"commit0", "restart0"}
    BY <2>1 DEF FreshAt, HeadAt, CtlAt, ModeAt, WritePc, FramePc, RestartPc
  <2>3. pc[d] # "recover0"
    BY <2>1 DEF HeadAt, BlankAt
  <2>4. QED BY <1>2, <2>2, <2>3 DEF Publishing
<1>3. QED BY <1>1, <1>2

LEMMA AdoptHeads ==
  ASSUME Ctl, Heads, NEW c \in Conn, pc[c] \in {"hdr1", "hdragain"}, Quiet, H.isInit, Adopts(c, H)
  PROVE  Heads'
<1> DEFINE k == [call[c] EXCEPT !.changed = @ \/ w[c].hdr # H]
           o == [w[c] EXCEPT !.hdr = H]
<1>1. WalTypeOK /\ CtlAt(c)
  BY HeadIs
<1>2. k.h1 = call[c].h1 /\ k.mode = call[c].mode /\ o.hdr = H /\ o.svpt = w[c].svpt
  BY <1>1 DEF WalTypeOK, Call, WalObj
<1>3. k.mode # "write" /\ ~InWrite(c)
  BY <1>1, <1>2 DEF CtlAt, ModeAt, TransAt, MarkStepAt, CkStepAt, LocksAt, InWrite,
                    FrameStepAt, InLogAt, HdrPc, RecoverPc, MarkPc, WritePc, RestartPc, FramePc, CkPc,
                    CkRunPc, CkWritePc, CkMode
<1> HIDE DEF k, o
<1>4. /\ Others(c) /\ pc'[c] = AfterHdr(c) /\ call'[c] = k /\ w'[c] = o
      /\ cached'[c] = cached[c] /\ mine'[c] = mine[c] /\ wal' = wal /\ walDisk' = walDisk /\ seed' = seed
      /\ shm' = shm
  BY OthersKept DEF Adopts, files, Quiet, k, o
<1>5. QED BY <1>2, <1>3, <1>4, StepHeads DEF Publishing, RestartPc, RecoverPc, H, AfterHdr, Known

LEMMA RefusedHeads ==
  ASSUME Ctl, Heads, NEW c \in Conn, pc[c] \in {"hdrlock", "hdragain"}, Quiet, Refused(c)
  PROVE  Heads'
<1>1. HeadAt(c) /\ WalTypeOK /\ CtlAt(c)
  BY HeadIs
<1>2. CASE Moves(c, "ckend")
  BY <1>2, MoveHeads DEF Publishing, RestartPc, RecoverPc, BlankPc
<1>3. CASE Moves(c, "hdr0")
  BY <1>3, MoveHeads DEF Publishing, RestartPc, RecoverPc, BlankPc
<1>4. CASE Does(c, "idle", NoCall, w[c], None, mine[c])
  <2>1. /\ Others(c) /\ pc'[c] = "idle" /\ call'[c] = NoCall /\ w'[c] = w[c]
        /\ cached'[c] = None /\ mine'[c] = mine[c] /\ wal' = wal /\ walDisk' = walDisk /\ seed' = seed
        /\ shm' = shm
    BY <1>4, OthersKept DEF files, Quiet
  <2>2. BlankAt(c)'
    BY <1>1, <2>1 DEF HeadAt, BlankAt, BlankPc, NoCall, ZeroHdr, H
  <2>3. NoCall.h1 = ZeroHdr /\ NoCall.mode # "write"
    BY DEF NoCall
  <2>4. QED BY <2>1, <2>2, <2>3, StepHeads DEF Publishing, RestartPc, RecoverPc, H, Known
<1>5. QED BY <1>2, <1>3, <1>4 DEF Refused

LEMMA ReadHdr1Heads == ASSUME Ctl, Heads, NEW c \in Conn, ReadHdr1(c) PROVE Heads'
<1>1. WalTypeOK
  BY DEF Ctl
<1>2. CASE call[c].h1 = shm.hdr[1] /\ call[c].h1.isInit /\ Adopts(c, call[c].h1)
  <2>1. call[c].h1 = H
    BY <1>1, <1>2, ReadHdr1Does, SeenIsCurrent
  <2>2. QED BY <1>1, <1>2, <2>1, ReadHdr1Does, AdoptHeads
<1>3. CASE Moves(c, "hdrlock")
  BY <1>1, <1>3, ReadHdr1Does, MoveHeads DEF Publishing, RestartPc, RecoverPc, BlankPc
<1>4. QED BY <1>1, <1>2, <1>3, ReadHdr1Does

LEMMA LockHdrHeads == ASSUME Ctl, Heads, NEW c \in Conn, LockHdr(c) PROVE Heads'
<1>1. WalTypeOK
  BY DEF Ctl
<1>2. CASE Moves(c, "hdragain")
  BY <1>1, <1>2, LockHdrDoes, MoveHeads DEF Publishing, RestartPc, RecoverPc, BlankPc
<1>3. CASE Refused(c)
  BY <1>1, <1>3, LockHdrDoes, RefusedHeads
<1>4. QED BY <1>1, <1>2, <1>3, LockHdrDoes

\* Without the write lock of anybody else nobody else is publishing.
LEMMA AloneSame ==
  ASSUME Ctl, Heads, NEW c \in Conn, WRITE \in exclMask[c], pc[c] \notin Publishing
  PROVE  shm.hdr[1] = H
<1>1. \A d \in Conn : pc[d] \notin Publishing
  BY WriterAlone
<1>2. QED BY <1>1 DEF Heads, HdrInv

LEMMA ReadHdrAgainHeads == ASSUME Ctl, Heads, NEW c \in Conn, ReadHdrAgain(c) PROVE Heads'
<1>1. WalTypeOK /\ CtlAt(c) /\ HeadAt(c) /\ Older(H) /\ seed \in Nat
  BY HeadIs
<1>2. pc[c] = "hdragain" /\ Quiet
  BY <1>1, ReadHdrAgainDoes
<1>3. WRITE \in exclMask[c]
  BY <1>1, <1>2 DEF CtlAt, LocksAt
<1>4. CASE GoodHdr /\ Adopts(c, H)
  BY <1>2, <1>4, AdoptHeads DEF GoodHdr, H
<1>5. CASE ~GoodHdr /\ Calls(c, "recover", [call[c] EXCEPT !.changed = TRUE])
  <2> DEFINE k == [call[c] EXCEPT !.changed = TRUE]
  <2>1. k.h1 = call[c].h1 /\ k.mode = call[c].mode
    BY <1>1 DEF WalTypeOK, Call
  <2>2. k.mode # "write" /\ ~InWrite(c)
    BY <1>1, <1>2, <2>1 DEF CtlAt, ModeAt, TransAt, MarkStepAt, CkStepAt, LocksAt, InWrite,
                            FrameStepAt, InLogAt, HdrPc, RecoverPc, MarkPc, WritePc, RestartPc, FramePc, CkPc,
                            CkRunPc, CkWritePc, CkMode
  <2> HIDE DEF k
  <2>3. /\ Others(c) /\ pc'[c] = "recover" /\ call'[c] = k /\ w'[c] = w[c]
        /\ cached'[c] = cached[c] /\ mine'[c] = mine[c] /\ wal' = wal /\ walDisk' = walDisk
        /\ seed' = seed /\ shm' = shm
    BY <1>2, <1>5, OthersKept DEF Calls, files, Quiet, k
  <2>4. shm.hdr[1] = H
    BY <1>2, <1>3, AloneSame DEF Publishing
  <2>5. ~H.isInit /\ shm.nBackfill = 0
    BY <1>5, <2>4 DEF GoodHdr, H, Heads
  <2>6. HeadAt(c)'
    BY <1>1, <1>2, <2>1, <2>2, <2>3, <2>5 DEF HeadAt, Older, BlankAt, BlankPc, InWrite, RestartPc, RecoverPc, Publishing, Known, H, mxH
  <2>7. QED BY <1>1, <1>2, <2>1, <2>2, <2>3, <2>6, QuietHeads DEF Publishing, H, Known
<1>6. CASE Refused(c)
  BY <1>2, <1>6, RefusedHeads
<1>7. QED BY <1>1, <1>4, <1>5, <1>6, ReadHdrAgainDoes

LEMMA RecoverHeads == ASSUME Ctl, Heads, NEW c \in Conn, Recover(c) PROVE Heads'
<1>1. WalTypeOK /\ CtlAt(c) /\ HeadAt(c) /\ Older(H) /\ seed \in Nat /\ OldInv
  BY HeadIs DEF Heads
<1>2. PICK h \in Hdr, n \in Nat, idx \in [1..MaxFrame -> Nat] :
        /\ pc[c] = "recover" /\ UNCHANGED <<lockVars, files, seed, env>>
        /\ h.isInit /\ h.mxFrame <= Len(wal.frames)
        /\ h.mxFrame > 0 => h.nPage > 0
        /\ h.salt \in {0, wal.salt}
        /\ h.cksum[1] = 0 \/ \E i \in 1..Len(wal.frames) : h.cksum[1] = wal.frames[i].data
        /\ Does(c, "recover0", call[c], [w[c] EXCEPT !.hdr = h, !.nCkpt = n], cached[c], mine[c])
        /\ Shm(H, h, shm.nBackfill, shm.aReadMark, idx)
  BY <1>1, RecoverDoes
<1> DEFINE o == [w[c] EXCEPT !.hdr = h, !.nCkpt = n]
<1>3. o.hdr = h /\ o.svpt = w[c].svpt /\ o.readLock = w[c].readLock
  BY <1>1 DEF WalTypeOK, WalObj
<1> HIDE DEF o
<1>4. /\ Others(c) /\ pc'[c] = "recover0" /\ call'[c] = call[c] /\ w'[c] = o
      /\ cached'[c] = cached[c] /\ mine'[c] = mine[c] /\ wal' = wal /\ walDisk' = walDisk /\ seed' = seed
  BY <1>2, OthersKept DEF files, o
<1>5. /\ shm'.hdr[0] = H /\ shm'.hdr[1] = h /\ shm'.nBackfill = shm.nBackfill
  BY <1>2 DEF Shm
<1>6. WRITE \in exclMask[c] /\ call[c].mode # "write" /\ ~InWrite(c)
  BY <1>1, <1>2, Slots DEF CtlAt, ModeAt, TransAt, MarkStepAt, CkStepAt, LocksAt, InWrite,
                           FrameStepAt, InLogAt, HdrPc, RecoverPc, MarkPc, WritePc, RestartPc, FramePc, CkPc,
                           CkRunPc, CkWritePc, CkMode
<1>7. HdrInv'
  <2>1. \A d \in Conn : d # c => pc'[d] \notin Publishing
    BY <1>4, <1>6, WriterAlone DEF Others
  <2>2. HdrInv /\ pc'[c] \in Publishing
    BY <1>4 DEF Heads, Publishing
  <2>3. QED BY <1>3, <1>4, <1>5, <2>1, <2>2 DEF HdrInv, H, mxH
<1>8. OldInv'
  BY <1>1, <1>4, <1>5, OldKept
<1>9. h.salt < seed /\ h.cksum[1] < seed
  BY <1>1, <1>2 DEF OldInv, WalTypeOK
<1>10. HeadAt(c)'
  BY <1>1, <1>2, <1>3, <1>4, <1>5, <1>6, <1>9 DEF HeadAt, Older, BlankAt, BlankPc, InWrite, RestartPc, RecoverPc, Publishing, Known, H, mxH
<1>11. \A d \in Conn : FreshAt(c, d)'
  BY <1>4, <1>6, FreshKept
<1>12. H' = H /\ H' \in Hdr /\ (~H.isInit => shm.nBackfill = 0)'
  BY <1>5, Types, <1>1 DEF H, Heads
<1>13. QED BY <1>1, <1>4, <1>5, <1>6, <1>7, <1>8, <1>10, <1>11, <1>12, HeadsStep

\* Copy 0 follows copy 1.
LEMMA PublishHdr ==
  ASSUME Ctl, Heads, NEW c \in Conn, Others(c), pc[c] \in Publishing, pc'[c] \notin Publishing,
         shm'.hdr[0] = w[c].hdr, shm'.hdr[1] = shm.hdr[1], w[c].hdr.mxFrame > 0 => w[c].hdr.nPage > 0,
         wal' = wal, walDisk' = walDisk, seed' = seed
  PROVE  HdrInv' /\ OldInv' /\ H' \in Hdr /\ WRITE \in exclMask[c]
<1>1. WalTypeOK /\ CtlAt(c) /\ HeadAt(c) /\ HdrInv /\ OldInv
  BY HeadIs DEF Heads
<1>2. WRITE \in exclMask[c]
  BY <1>1, Slots DEF Publishing, CtlAt, ModeAt, TransAt, MarkStepAt, CkStepAt, LocksAt, InWrite,
                                 FrameStepAt, InLogAt, HdrPc, RecoverPc, MarkPc, WritePc, RestartPc, FramePc, CkPc,
                                 CkRunPc, CkWritePc, CkMode
<1>3. \A d \in Conn : pc'[d] \notin Publishing
  BY <1>2, WriterAlone DEF Others
<1>4. shm'.hdr[1] = w[c].hdr
  BY <1>1 DEF HdrInv
<1>5. HdrInv'
  BY <1>3, <1>4 DEF HdrInv, H, mxH
<1>6. OldInv'
  BY <1>1 DEF HeadAt, OldInv, Older, H
<1>7. QED BY <1>1, <1>2, <1>5, <1>6, Types DEF H

LEMMA RecoverHdr0Heads == ASSUME Ctl, Heads, NEW c \in Conn, RecoverHdr0(c) PROVE Heads'
<1>1. WalTypeOK /\ CtlAt(c) /\ HeadAt(c) /\ Older(H) /\ seed \in Nat
  BY HeadIs
<1>2. /\ pc[c] = "recover0" /\ Moves(c, "recoverinfo")
      /\ Shm(w[c].hdr, shm.hdr[1], shm.nBackfill, shm.aReadMark, shm.aPgno)
      /\ UNCHANGED <<lockVars, files, seed, env>>
  BY <1>1, RecoverHdr0Does
<1>3. /\ Others(c) /\ pc'[c] = "recoverinfo" /\ call'[c] = call[c] /\ w'[c] = w[c]
      /\ cached'[c] = cached[c] /\ mine'[c] = mine[c] /\ wal' = wal /\ walDisk' = walDisk /\ seed' = seed
  BY <1>2, OthersKept DEF files, Moves
<1>4. shm'.hdr[0] = w[c].hdr /\ shm'.hdr[1] = shm.hdr[1] /\ shm'.nBackfill = shm.nBackfill
  BY <1>2 DEF Shm
<1>5. call[c].mode # "write" /\ ~InWrite(c)
  BY <1>1, <1>2 DEF CtlAt, ModeAt, TransAt, MarkStepAt, CkStepAt, LocksAt, InWrite,
                    FrameStepAt, InLogAt, HdrPc, RecoverPc, MarkPc, WritePc, RestartPc, FramePc, CkPc,
                    CkRunPc, CkWritePc, CkMode
<1>6. HdrInv' /\ OldInv' /\ H' \in Hdr /\ WRITE \in exclMask[c]
  BY <1>1, <1>2, <1>3, <1>4, <1>5, PublishHdr DEF Publishing, HeadAt
<1>7. HeadAt(c)'
  BY <1>1, <1>2, <1>3, <1>4, <1>5 DEF HeadAt, Older, BlankAt, BlankPc, InWrite, RestartPc, RecoverPc, Publishing, Known, H, mxH
<1>8. \A d \in Conn : FreshAt(c, d)'
  BY <1>3, <1>5, FreshKept
<1>9. H'.isInit
  BY <1>1, <1>2, <1>4 DEF HeadAt, H
<1>10. QED BY <1>1, <1>3, <1>4, <1>6, <1>7, <1>8, <1>9, HeadsStep

LEMMA RecoverInfoHeads == ASSUME Ctl, Heads, NEW c \in Conn, RecoverInfo(c) PROVE Heads'
<1>1. WalTypeOK /\ CtlAt(c)
  BY HeadIs
<1>2. PICK marks : /\ pc[c] = "recoverinfo" /\ Moves(c, AfterHdr(c))
                   /\ Shm(H, shm.hdr[1], 0, marks, shm.aPgno) /\ UNCHANGED <<files, seed, env>>
  BY <1>1, RecoverInfoDoes
<1>3. /\ Others(c) /\ pc'[c] = AfterHdr(c) /\ call'[c] = call[c] /\ w'[c] = w[c]
      /\ cached'[c] = cached[c] /\ mine'[c] = mine[c] /\ wal' = wal /\ walDisk' = walDisk /\ seed' = seed
  BY <1>2, OthersKept DEF files, Moves
<1>4. shm'.hdr[0] = H /\ shm'.hdr[1] = shm.hdr[1] /\ shm'.nBackfill = 0
  BY <1>2 DEF Shm
<1>5. exclMask[c] # {}
  BY <1>1, <1>2, Slots DEF CtlAt, LocksAt, RecoverPc
<1>6. H.isInit
  BY <1>2, Recognised DEF BlankPc
<1>7. QED BY <1>2, <1>3, <1>4, <1>5, <1>6, StepHeads DEF Publishing, RestartPc, RecoverPc, AfterHdr, Known

LEMMA CheckBackfillHeads == ASSUME Ctl, Heads, NEW c \in Conn, CheckBackfill(c) PROVE Heads'
<1>1. WalTypeOK
  BY DEF Ctl
<1>2. QED BY <1>1, CheckBackfillDoes, MoveHeads DEF Publishing, RestartPc, RecoverPc, BlankPc

LEMMA RetriesHeads ==
  ASSUME Ctl, Heads, NEW c \in Conn, Quiet, Retries(c), pc[c] \in {"lock0", "grab", "lockmark"}
  PROVE  Heads'
BY MoveHeads DEF Retries, Publishing, RestartPc, RecoverPc, BlankPc

LEMMA ReadBeginsHeads ==
  ASSUME Ctl, Heads, NEW c \in Conn, NEW i \in Readers, Quiet, ReadBegins(c, i), pc[c] \in {"lock0", "lockmark"}
  PROVE  Heads'
<1> DEFINE o == [w[c] EXCEPT !.readLock = i]
<1>1. WalTypeOK /\ CtlAt(c)
  BY HeadIs
<1>2. o.hdr = w[c].hdr /\ o.svpt = w[c].svpt
  BY <1>1 DEF WalTypeOK, WalObj
<1> HIDE DEF o
<1>3. H.isInit
  BY Recognised DEF BlankPc
<1>4. NoCall.h1 = ZeroHdr /\ NoCall.mode # "write"
  BY DEF NoCall
<1>5. CASE Does(c, "idle", NoCall, o, Filled(c, i), mine[c])
  <2>1. /\ Others(c) /\ pc'[c] = "idle" /\ call'[c] = NoCall /\ w'[c] = o
        /\ mine'[c] = mine[c] /\ wal' = wal /\ walDisk' = walDisk /\ seed' = seed /\ shm' = shm
    BY <1>5, OthersKept DEF files, Quiet
  <2>2. QED BY <1>2, <1>3, <1>4, <2>1, StepHeads DEF Publishing, RestartPc, RecoverPc, H, Known
<1>6. CASE Does(c, "walhdr", call[c], o, cached[c], mine[c])
  <2>1. /\ Others(c) /\ pc'[c] = "walhdr" /\ call'[c] = call[c] /\ w'[c] = o
        /\ mine'[c] = mine[c] /\ wal' = wal /\ walDisk' = walDisk /\ seed' = seed /\ shm' = shm
    BY <1>6, OthersKept DEF files, Quiet
  <2>2. QED BY <1>2, <1>3, <2>1, StepHeads DEF Publishing, RestartPc, RecoverPc, H, Known
<1>7. QED BY <1>5, <1>6 DEF ReadBegins, o

LEMMA Lock0Heads == ASSUME Ctl, Heads, NEW c \in Conn, Lock0(c) PROVE Heads'
<1>1. pc[c] = "lock0" /\ Quiet /\ (ReadBegins(c, 0) \/ Retries(c) \/ Moves(c, "marks"))
  BY Lock0Does DEF Ctl
<1>2. CASE Moves(c, "marks")
  BY <1>1, <1>2, MoveHeads DEF Publishing, RestartPc, RecoverPc, BlankPc
<1>3. QED BY <1>1, <1>2, RetriesHeads, ReadBeginsHeads, Slots

LEMMA CallHeads ==
  ASSUME Ctl, Heads, NEW c \in Conn, NEW to, NEW k, Calls(c, to, k),
         shm'.hdr[0] = H, shm'.hdr[1] = shm.hdr[1],
         \/ shm'.nBackfill = shm.nBackfill
         \/ exclMask[c] # {} /\ (H.isInit \/ shm'.nBackfill = 0),
         wal' = wal, walDisk' \in {walDisk, wal}, seed' = seed, pc[c] \notin Publishing \cup BlankPc,
         to \notin {"restart", "framesync", "index", "commit0"} \cup RestartPc \cup RecoverPc,
         k.h1 = call[c].h1, k.data = call[c].data, k.mode = "write" => call[c].mode = "write"
  PROVE  Heads'
<1>1. /\ Others(c) /\ pc'[c] = to /\ call'[c] = k /\ w'[c] = w[c]
      /\ cached'[c] = cached[c] /\ mine'[c] = mine[c]
  BY OthersKept DEF Calls
<1>2. H.isInit
  BY Recognised
<1>3. QED BY <1>1, <1>2, StepHeads DEF Known

LEMMA ChooseMarkHeads == ASSUME Ctl, Heads, NEW c \in Conn, ChooseMark(c) PROVE Heads'
<1>1. WalTypeOK
  BY DEF Ctl
<1>2. PICK best \in 0..w[c].hdr.mxFrame, i \in Readers, to \in {"grab", "lockmark"} :
        Calls(c, to, [call[c] EXCEPT !.mxReadMark = best, !.mxI = i, !.i = 1])
  BY <1>1, ChooseMarkDoes
<1> DEFINE k == [call[c] EXCEPT !.mxReadMark = best, !.mxI = i, !.i = 1]
<1>3. k.h1 = call[c].h1 /\ k.data = call[c].data /\ k.mode = call[c].mode
  BY <1>1 DEF WalTypeOK, Call
<1> HIDE DEF k
<1>4. pc[c] = "marks" /\ Quiet /\ Calls(c, to, k)
  BY <1>1, <1>2, ChooseMarkDoes DEF k
<1>5. QED BY <1>3, <1>4, CallHeads DEF Quiet, files, H, Publishing, BlankPc, RestartPc, RecoverPc

LEMMA GrabMarkHeads == ASSUME Ctl, Heads, NEW c \in Conn, GrabMark(c) PROVE Heads'
<1>1. WalTypeOK
  BY DEF Ctl
<1>2. pc[c] = "grab" /\ Quiet
  BY <1>1, GrabMarkDoes
<1> DEFINE k == [call[c] EXCEPT !.i = call[c].i + 1]
<1>3. k.h1 = call[c].h1 /\ k.data = call[c].data /\ k.mode = call[c].mode
  BY <1>1 DEF WalTypeOK, Call
<1> HIDE DEF k
<1>4. CASE Moves(c, "putmark") \/ Moves(c, "lockmark")
  BY <1>2, <1>4, MoveHeads DEF Publishing, RestartPc, RecoverPc, BlankPc
<1>5. CASE Calls(c, "grab", k)
  BY <1>2, <1>3, <1>5, CallHeads DEF Quiet, files, H, Publishing, BlankPc, RestartPc, RecoverPc
<1>6. CASE Retries(c)
  BY <1>2, <1>6, RetriesHeads
<1>7. QED BY <1>1, <1>4, <1>5, <1>6, GrabMarkDoes DEF k

LEMMA PutMarkHeads == ASSUME Ctl, Heads, NEW c \in Conn, PutMark(c) PROVE Heads'
<1>1. WalTypeOK
  BY DEF Ctl
<1> DEFINE k == [call[c] EXCEPT !.mxI = call[c].i, !.mxReadMark = w[c].hdr.mxFrame]
<1>2. k.h1 = call[c].h1 /\ k.data = call[c].data /\ k.mode = call[c].mode
  BY <1>1 DEF WalTypeOK, Call
<1>3. /\ pc[c] = "putmark" /\ UNCHANGED <<files, seed, env>> /\ Calls(c, "lockmark", k)
      /\ shm'.hdr[0] = H /\ shm'.hdr[1] = shm.hdr[1] /\ shm'.nBackfill = shm.nBackfill
  BY <1>1, PutMarkDoes DEF Shm
<1> HIDE DEF k
<1>4. QED BY <1>2, <1>3, CallHeads DEF files, Publishing, BlankPc, RestartPc, RecoverPc

LEMMA LockMarkHeads == ASSUME Ctl, Heads, NEW c \in Conn, LockMark(c) PROVE Heads'
<1>1. pc[c] = "lockmark" /\ Quiet /\ (ReadBegins(c, call[c].mxI) \/ Retries(c))
  BY LockMarkDoes DEF Ctl
<1>2. call[c].mxI \in Readers
  BY DEF Ctl, WalTypeOK, Call
<1>3. QED BY <1>1, <1>2, RetriesHeads, ReadBeginsHeads

LEMMA EndReadHeads == ASSUME Ctl, Heads, NEW c \in Conn, EndRead(c) PROVE Heads'
<1>1. WalTypeOK /\ CtlAt(c)
  BY HeadIs
<1> DEFINE o == [w[c] EXCEPT !.readLock = -1]
<1>2. o.hdr = w[c].hdr /\ o.svpt = w[c].svpt
  BY <1>1 DEF WalTypeOK, WalObj
<1> HIDE DEF o
<1>3. /\ pc[c] = "idle" /\ w[c].readLock >= 0 /\ ~InWrite(c) /\ Quiet
      /\ Does(c, "idle", call[c], o, cached[c], mine[c])
  BY <1>1, EndReadDoes DEF o
<1>4. /\ Others(c) /\ pc'[c] = "idle" /\ call'[c] = call[c] /\ w'[c] = o
      /\ mine'[c] = mine[c] /\ wal' = wal /\ walDisk' = walDisk /\ seed' = seed /\ shm' = shm
  BY <1>3, OthersKept DEF files, Quiet
<1>5. H.isInit
  BY <1>3, Recognised
<1>6. QED BY <1>2, <1>3, <1>4, <1>5, StepHeads DEF Publishing, RestartPc, RecoverPc, H, Known

LEMMA BeginWriteHeads == ASSUME Ctl, Heads, NEW c \in Conn, BeginWrite(c) PROVE Heads'
<1>1. WalTypeOK /\ CtlAt(c) /\ HeadAt(c) /\ Steady /\ Older(H) /\ seed \in Nat
  BY HeadIs DEF Ctl
<1>2. /\ pc[c] = "idle" /\ w[c].readLock >= 0 /\ ~InWrite(c) /\ H = w[c].hdr
      /\ Does(c, "idle", call[c], w[c], cached[c], View(c)) /\ UNCHANGED <<shm, files, seed>>
  BY <1>1, BeginWriteDoes
<1>3. /\ Others(c) /\ pc'[c] = "idle" /\ call'[c] = call[c] /\ w'[c] = w[c]
      /\ cached'[c] = cached[c]
      /\ wal' = wal /\ walDisk' = walDisk /\ seed' = seed /\ shm' = shm
  BY <1>2, OthersKept DEF files
<1>4. H.isInit /\ call[c].mode # "write"
  BY <1>1, <1>2, Recognised DEF CtlAt, TransAt
<1>5. HeadAt(c)'
  <2>1. w[c].hdr.mxFrame > 0 => w[c].hdr.nPage > 0
    BY <1>1, <1>2 DEF HeadAt
  <2>2. QED BY <1>1, <1>2, <1>3, <1>4, <2>1 DEF HeadAt, Older, BlankAt, BlankPc, InWrite, RestartPc, RecoverPc, Publishing, Known, H, mxH
<1>6. QED BY <1>1, <1>2, <1>3, <1>4, <1>5, QuietHeads DEF Publishing, H, Known

LEMMA SavepointHeads == ASSUME Ctl, Heads, NEW c \in Conn, Savepoint(c) PROVE Heads'
<1>1. WalTypeOK /\ CtlAt(c) /\ HeadAt(c) /\ Older(H) /\ seed \in Nat
  BY HeadIs
<1> DEFINE s == [mxFrame |-> w[c].hdr.mxFrame, cksum |-> w[c].hdr.cksum, nCkpt |-> w[c].nCkpt,
                 mine |-> mine[c]]
           o == [w[c] EXCEPT !.svpt = s]
<1>2. o.hdr = w[c].hdr /\ o.svpt = s /\ s.cksum = w[c].hdr.cksum /\ o.readLock = w[c].readLock
  BY <1>1 DEF WalTypeOK, WalObj
<1> HIDE DEF s, o
<1>3. pc[c] = "idle" /\ InWrite(c) /\ Quiet /\ Does(c, "idle", call[c], o, cached[c], mine[c])
  BY <1>1, SavepointDoes DEF s, o
<1>4. /\ Others(c) /\ pc'[c] = "idle" /\ call'[c] = call[c] /\ w'[c] = o
      /\ cached'[c] = cached[c] /\ mine'[c] = mine[c]
      /\ wal' = wal /\ walDisk' = walDisk /\ seed' = seed /\ shm' = shm
  BY <1>3, OthersKept DEF files, Quiet
<1>5. HeadAt(c)'
  BY <1>1, <1>2, <1>3, <1>4, Recognised DEF HeadAt, Older, BlankAt, BlankPc, InWrite, RestartPc, RecoverPc, Publishing, Known, H, mxH
<1>6. QED BY <1>1, <1>2, <1>3, <1>4, <1>5, QuietHeads DEF Publishing, H, Known

LEMMA SavepointUndoHeads == ASSUME Ctl, Heads, NEW c \in Conn, SavepointUndo(c) PROVE Heads'
<1>1. WalTypeOK /\ CtlAt(c) /\ HeadAt(c) /\ Older(H) /\ seed \in Nat
  BY HeadIs
<1> DEFINE s == w[c].svpt
           to == UndoTo(c)
           o1 == [w[c] EXCEPT !.hdr = [w[c].hdr EXCEPT !.mxFrame = to, !.cksum = s.cksum], !.svpt = None]
           o2 == [w[c] EXCEPT !.svpt = None]
<1>2. /\ pc[c] = "idle" /\ InWrite(c) /\ s # None /\ UNCHANGED <<lockVars, files, seed, env>>
      /\ Does(c, "idle", call[c], o1, cached[c], s.mine) \/ Does(c, "idle", call[c], o2, cached[c], s.mine)
      /\ shm'.hdr[0] = H /\ shm'.hdr[1] = shm.hdr[1] /\ shm'.nBackfill = shm.nBackfill
  BY <1>1, SavepointUndoDoes DEF Shm, H
<1>3. s \in Svpt /\ s.mine # None
  BY <1>1, <1>2, WalAssumption DEF WalTypeOK, WalObj, Svpt
<1>4. w[c].hdr.isInit /\ WRITE \in exclMask[c] /\ H.isInit /\ s.cksum[1] < seed
  BY <1>1, <1>2, <1>3, Recognised DEF HeadAt, CtlAt, LocksAt
<1>5. PICK o \in {o1, o2} :
        /\ Others(c) /\ pc'[c] = "idle" /\ call'[c] = call[c] /\ w'[c] = o
        /\ cached'[c] = cached[c] /\ mine'[c] = s.mine
        /\ wal' = wal /\ walDisk' = walDisk /\ seed' = seed
  BY <1>2, OthersKept DEF files
<1>6. o.svpt = None /\ o.hdr.isInit /\ o.hdr.salt = w[c].hdr.salt /\ o.hdr.cksum \in {w[c].hdr.cksum, s.cksum}
  BY <1>1, <1>4, ZenonT(40) DEF WalTypeOK, WalObj, Hdr
<1> HIDE DEF o1, o2, s
<1>7. call[c].mode # "write" /\ call[c].h1 \in Known(c)
  BY <1>1, <1>2 DEF CtlAt, ModeAt, NoCall, Known
<1>8. HeadAt(c)'
  <2>1. Older(o.hdr)' /\ Older(call[c].h1)'
    BY <1>1, <1>4, <1>5, <1>6 DEF HeadAt, Older
  <2>2. InWrite(c)'
    BY <1>3, <1>5 DEF InWrite
  <2>3. QED BY <1>2, <1>4, <1>5, <1>6, <1>7, <2>1, <2>2 DEF HeadAt, Older, BlankAt, BlankPc, InWrite, RestartPc, RecoverPc, Publishing, Known, H, mxH
<1>9. QED BY <1>1, <1>2, <1>4, <1>5, <1>7, <1>8, QuietHeads DEF Publishing

LEMMA StartsHeads ==
  ASSUME Ctl, Heads, NEW c \in Conn, NEW list \in Seq(Nat \ {0}), NEW m \in Nat, NEW n \in Nat, Starts(c, list, m, n)
  PROVE  Heads'
<1>1. WalTypeOK /\ CtlAt(c) /\ HeadAt(c) /\ Older(H) /\ seed \in Nat \ {0} /\ Older(ZeroHdr)
  BY HeadIs DEF WalTypeOK
<1> DEFINE k == [NoCall EXCEPT !.list = list, !.nTruncate = n, !.data = seed, !.mode = "write"]
           im == Changed(mine[c], Range(list), m, seed)
<1>2. k.h1 = ZeroHdr /\ k.data = seed /\ k.mode = "write"
  BY DEF NoCall
<1>3. im # None
  <2>1. mine[c] \in Seq(Int)
    BY <1>1 DEF Starts, WalTypeOK, Image, InWrite
  <2>2. im \in Seq(Int)
    BY <1>1, <2>1, ChangedType
  <2>3. QED BY <2>2, WalAssumption
<1> HIDE DEF k, im
<1>4. /\ pc[c] = "idle" /\ InWrite(c) /\ Does(c, "restart", k, w[c], cached[c], im)
      /\ UNCHANGED <<lockVars, shm, files>> /\ seed' = seed + 1
  BY DEF Starts, k, im
<1>5. /\ Others(c) /\ pc'[c] = "restart" /\ call'[c] = k /\ w'[c] = w[c]
      /\ cached'[c] = cached[c] /\ mine'[c] = im
      /\ wal' = wal /\ walDisk' = walDisk /\ shm' = shm
  BY <1>4, OthersKept DEF files
<1>6. WRITE \in exclMask[c] /\ H.isInit
  BY <1>1, <1>4, Recognised DEF CtlAt, LocksAt
<1>7. \A d \in Conn : /\ w[d].hdr.cksum[1] \in Nat /\ w[d].hdr.salt \in Nat /\ call[d].h1.cksum[1] \in Nat
                      /\ call[d].h1.salt \in Nat /\ w[d].hdr.cksum[1] < seed /\ call[d].h1.cksum[1] < seed
                      /\ w[d].hdr.salt < seed /\ call[d].h1.salt < seed
                      /\ w[d].svpt # None => w[d].svpt.cksum[1] \in Nat
  BY <1>1, Types, HdrIs DEF Heads, HeadAt, Older, WalObj, Svpt, Pair
<1>8. HeadAt(c)'
  <2>1. Older(w[c].hdr)' /\ Older(call[c].h1)' /\ (w[c].svpt # None => w[c].svpt.cksum[1] < seed)'
    BY <1>1, <1>2, <1>4, <1>5, <1>7, SMTT(30) DEF Older, HeadAt, ZeroHdr
  <2>2. H.cksum[1] # seed /\ seed \in 1..(seed' - 1) /\ w[c].hdr.cksum[1] # seed
    BY <1>1, <1>4, <1>7 DEF Older
  <2>3. QED BY <1>1, <1>2, <1>3, <1>4, <1>5, <1>6, <2>1, <2>2
            DEF HeadAt, BlankAt, BlankPc, InWrite, RestartPc, RecoverPc, H, mxH
<1>9. ASSUME NEW d \in Conn PROVE FreshAt(c, d)'
  <2>1. CASE d = c
    BY <1>1, <1>2, <1>5, <2>1 DEF FreshAt, ZeroHdr
  <2>2. CASE d # c
    BY <1>1, <1>2, <1>5, <1>7, <2>2 DEF FreshAt, Others
  <2>3. QED BY <2>1, <2>2
<1>10. HdrInv' /\ OldInv'
  <2>1. OldInv /\ WalTypeOK
    BY <1>1 DEF Heads
  <2>2. seed' \in Nat /\ seed' >= seed
    BY <1>1, <1>4
  <2>3. QED BY <1>4, <1>5, <2>1, <2>2, HdrKept, OldKept DEF Publishing, H
<1>11. H' = H /\ H' \in Hdr /\ (~H.isInit => shm.nBackfill = 0)'
  BY <1>1, <1>5, <1>6, Types DEF H
<1>12. seed' \in Nat /\ seed' >= seed
  BY <1>1, <1>4
<1>13. QED BY <1>5, <1>6, <1>8, <1>9, <1>10, <1>11, <1>12, HeadsStep

LEMMA RestartLogHeads == ASSUME Ctl, Heads, NEW c \in Conn, RestartLog(c) PROVE Heads'
<1>1. WalTypeOK /\ CtlAt(c) /\ HeadAt(c) /\ Older(H) /\ seed \in Nat \ {0}
  BY HeadIs DEF WalTypeOK
<1>2. pc[c] = "restart" /\ UNCHANGED <<shm, files, env>>
  BY <1>1, RestartLogDoes
<1>3. H.isInit /\ WRITE \in exclMask[c] /\ InWrite(c) /\ call[c].mode = "write"
  BY <1>1, <1>2, Recognised DEF BlankPc, CtlAt, ModeAt, TransAt, MarkStepAt, CkStepAt, LocksAt, InWrite,
                                         FrameStepAt, InLogAt, HdrPc, RecoverPc, MarkPc, WritePc, RestartPc, FramePc, CkPc,
                                         CkRunPc, CkWritePc, CkMode
<1>4. CASE seed' = seed /\ Moves(c, "walhdr")
  <2>1. /\ Others(c) /\ pc'[c] = "walhdr" /\ call'[c] = call[c] /\ w'[c] = w[c]
        /\ mine'[c] = mine[c] /\ wal' = wal /\ walDisk' = walDisk /\ shm' = shm
    BY <1>2, <1>4, OthersKept DEF files, Moves
  <2>2. QED BY <1>2, <1>3, <1>4, <2>1, StepHeads DEF Publishing, RestartPc, RecoverPc, H, Known
<1>5. CASE /\ seed' = seed + 1
           /\ Does(c, "restart1", call[c],
                   [w[c] EXCEPT !.nCkpt = w[c].nCkpt + 1,
                                !.hdr = [w[c].hdr EXCEPT !.mxFrame = 0, !.salt = seed]],
                   cached[c], mine[c])
  <2> DEFINE o == [w[c] EXCEPT !.nCkpt = w[c].nCkpt + 1,
                               !.hdr = [w[c].hdr EXCEPT !.mxFrame = 0, !.salt = seed]]
  <2>1. /\ o.hdr.salt = seed /\ o.hdr.cksum = w[c].hdr.cksum /\ o.hdr.isInit = w[c].hdr.isInit
        /\ o.svpt = w[c].svpt /\ o.readLock = w[c].readLock /\ o.hdr.mxFrame = 0
    BY <1>1, ZenonT(40) DEF WalTypeOK, WalObj, Hdr
  <2> HIDE DEF o
  <2>2. /\ Others(c) /\ pc'[c] = "restart1" /\ call'[c] = call[c] /\ w'[c] = o
        /\ cached'[c] = cached[c] /\ mine'[c] = mine[c] /\ wal' = wal /\ walDisk' = walDisk /\ shm' = shm
    BY <1>2, <1>5, OthersKept DEF files, o
  <2>3. \A d \in Conn : /\ w[d].hdr.cksum[1] \in Nat /\ w[d].hdr.salt \in Nat /\ call[d].h1.cksum[1] \in Nat
                        /\ call[d].h1.salt \in Nat /\ w[d].hdr.cksum[1] < seed /\ call[d].h1.cksum[1] < seed
                        /\ w[d].hdr.salt < seed /\ call[d].h1.salt < seed
                        /\ w[d].svpt # None => w[d].svpt.cksum[1] \in Nat
    BY <1>1, Types, HdrIs DEF Heads, HeadAt, Older, WalObj, Svpt, Pair
  <2>4. seed' \in Nat /\ seed' >= seed
    BY <1>1, <1>5
  <2>5. HeadAt(c)'
    <3>1. Older(w[c].hdr)' /\ Older(call[c].h1)' /\ (w[c].svpt # None => w[c].svpt.cksum[1] < seed)'
      BY <1>1, <1>5, <2>1, <2>2, <2>3 DEF Older, HeadAt
    <3>2. call[c].data \in 1..(seed - 1) => call[c].data \in 1..(seed' - 1)
      BY <1>1, <1>5
    <3>3. H.salt # seed /\ seed > 0
      BY <1>1 DEF Older
    <3>4. QED BY <1>1, <1>2, <1>3, <2>1, <2>2, <3>1, <3>2, <3>3
              DEF HeadAt, BlankAt, InWrite, RestartPc, RecoverPc, H, mxH
  <2>6. ASSUME NEW d \in Conn PROVE FreshAt(c, d)'
    <3>1. FreshAt(c, d)
      BY DEF Heads
    <3>2. CASE d = c
      BY <1>1, <2>1, <2>2, <2>3, <3>1, <3>2 DEF FreshAt
    <3>3. CASE d # c
      BY <1>1, <2>1, <2>2, <2>3, <3>1, <3>3 DEF FreshAt, Others
    <3>4. QED BY <3>2, <3>3
  <2>7. HdrInv' /\ OldInv'
    <3>1. OldInv
      BY DEF Heads
    <3>2. QED BY <1>1, <1>2, <2>2, <2>4, <3>1, HdrKept, OldKept DEF Publishing, H
  <2>8. H' = H /\ H' \in Hdr /\ (~H.isInit => shm.nBackfill = 0)'
    BY <1>1, <1>3, <2>2, Types DEF H
  <2>9. QED BY <1>3, <2>2, <2>4, <2>5, <2>6, <2>7, <2>8, HeadsStep
<1>6. CASE seed' = seed /\ Does(c, "marks", call[c], [w[c] EXCEPT !.readLock = -1], cached[c], mine[c])
  <2> DEFINE o == [w[c] EXCEPT !.readLock = -1]
  <2>1. o.hdr = w[c].hdr /\ o.svpt = w[c].svpt
    BY <1>1 DEF WalTypeOK, WalObj
  <2> HIDE DEF o
  <2>2. /\ Others(c) /\ pc'[c] = "marks" /\ call'[c] = call[c] /\ w'[c] = o
        /\ mine'[c] = mine[c] /\ wal' = wal /\ walDisk' = walDisk /\ shm' = shm
    BY <1>2, <1>6, OthersKept DEF files, o
  <2>3. QED BY <1>2, <1>3, <1>6, <2>1, <2>2, StepHeads DEF Publishing, RestartPc, RecoverPc, H, Known
<1>7. QED BY <1>1, <1>4, <1>5, <1>6, RestartLogDoes

LEMMA RestartHdr1Heads == ASSUME Ctl, Heads, NEW c \in Conn, RestartHdr1(c) PROVE Heads'
<1>1. WalTypeOK /\ CtlAt(c) /\ HeadAt(c) /\ Older(H) /\ seed \in Nat
  BY HeadIs
<1>2. /\ pc[c] = "restart1" /\ Moves(c, "restart0")
      /\ Shm(H, w[c].hdr, shm.nBackfill, shm.aReadMark, shm.aPgno)
      /\ UNCHANGED <<lockVars, files, seed, env>>
  BY <1>1, RestartHdr1Does
<1>3. /\ Others(c) /\ pc'[c] = "restart0" /\ call'[c] = call[c] /\ w'[c] = w[c]
      /\ cached'[c] = cached[c] /\ mine'[c] = mine[c] /\ wal' = wal /\ walDisk' = walDisk /\ seed' = seed
  BY <1>2, OthersKept DEF files, Moves
<1>4. shm'.hdr[0] = H /\ shm'.hdr[1] = w[c].hdr /\ shm'.nBackfill = shm.nBackfill
  BY <1>2 DEF Shm
<1>5. WRITE \in exclMask[c] /\ H.isInit
  BY <1>1, <1>2, Recognised DEF BlankPc, CtlAt, ModeAt, TransAt, MarkStepAt, CkStepAt, LocksAt, InWrite,
                                         FrameStepAt, InLogAt, HdrPc, RecoverPc, MarkPc, WritePc, RestartPc, FramePc, CkPc,
                                         CkRunPc, CkWritePc, CkMode
<1>6. HdrInv'
  <2>1. \A d \in Conn : d # c => pc'[d] \notin Publishing
    BY <1>3, <1>5, WriterAlone DEF Others
  <2>2. HdrInv /\ pc'[c] \in Publishing
    BY <1>3 DEF Heads, Publishing
  <2>3. QED BY <1>3, <1>4, <2>1, <2>2 DEF HdrInv, H, mxH
<1>7. OldInv'
  BY <1>1, <1>3, <1>4, OldKept DEF Heads
<1>8. HeadAt(c)'
  BY <1>1, <1>2, <1>3, <1>4, <1>5 DEF HeadAt, Older, BlankAt, BlankPc, InWrite, RestartPc, RecoverPc, Publishing, Known, H, mxH
<1>9. \A d \in Conn : FreshAt(c, d)'
  BY <1>1, <1>2, <1>3, FreshKept DEF CtlAt, ModeAt, WritePc, RestartPc
<1>10. H' = H /\ H' \in Hdr /\ (~H.isInit => shm.nBackfill = 0)'
  BY <1>1, <1>4, <1>5, Types DEF H
<1>11. QED BY <1>1, <1>3, <1>4, <1>5, <1>6, <1>7, <1>8, <1>9, <1>10, HeadsStep

LEMMA RestartHdr0Heads == ASSUME Ctl, Heads, NEW c \in Conn, RestartHdr0(c) PROVE Heads'
<1>1. WalTypeOK /\ CtlAt(c) /\ HeadAt(c) /\ Older(H) /\ seed \in Nat
  BY HeadIs
<1>2. /\ pc[c] = "restart0" /\ Moves(c, "restartinfo")
      /\ Shm(w[c].hdr, shm.hdr[1], shm.nBackfill, shm.aReadMark, shm.aPgno)
      /\ UNCHANGED <<lockVars, files, seed, env>>
  BY <1>1, RestartHdr0Does
<1>3. /\ Others(c) /\ pc'[c] = "restartinfo" /\ call'[c] = call[c] /\ w'[c] = w[c]
      /\ cached'[c] = cached[c] /\ mine'[c] = mine[c] /\ wal' = wal /\ walDisk' = walDisk /\ seed' = seed
  BY <1>2, OthersKept DEF files, Moves
<1>4. shm'.hdr[0] = w[c].hdr /\ shm'.hdr[1] = shm.hdr[1] /\ shm'.nBackfill = shm.nBackfill
  BY <1>2 DEF Shm
<1>5. InWrite(c) /\ call[c].mode = "write" /\ w[c].hdr.isInit
  BY <1>1, <1>2 DEF HeadAt, CtlAt, ModeAt, TransAt, MarkStepAt, CkStepAt, LocksAt, InWrite,
                            FrameStepAt, InLogAt, HdrPc, RecoverPc, MarkPc, WritePc, RestartPc, FramePc, CkPc,
                            CkRunPc, CkWritePc, CkMode
<1>6. HdrInv' /\ OldInv' /\ H' \in Hdr /\ WRITE \in exclMask[c]
  <2>1. w[c].hdr.mxFrame = 0
    BY <1>1, <1>2 DEF HeadAt
  <2>2. QED BY <1>2, <1>3, <1>4, <2>1, PublishHdr DEF Publishing
<1>7. HeadAt(c)'
  BY <1>1, <1>2, <1>3, <1>4, <1>5 DEF HeadAt, Older, BlankAt, BlankPc, InWrite, RestartPc, RecoverPc, Publishing, Known, H, mxH
<1>8. \A d \in Conn : FreshAt(c, d)'
  BY <1>3, <1>5, FreshKept
<1>9. H'.isInit /\ (~H.isInit => shm.nBackfill = 0)'
  BY <1>4, <1>5 DEF H
<1>10. QED BY <1>1, <1>3, <1>4, <1>6, <1>7, <1>8, <1>9, HeadsStep

LEMMA RestartInfoHeads == ASSUME Ctl, Heads, NEW c \in Conn, RestartInfo(c) PROVE Heads'
<1>1. WalTypeOK /\ CtlAt(c) /\ Steady
  BY HeadIs DEF Ctl
<1> DEFINE o == [w[c] EXCEPT !.readLock = -1]
<1>2. o.hdr = w[c].hdr /\ o.svpt = w[c].svpt
  BY <1>1 DEF WalTypeOK, WalObj
<1> HIDE DEF o
<1>3. /\ pc[c] = "restartinfo" /\ Does(c, "marks", call[c], o, cached[c], mine[c])
      /\ shm'.hdr[0] = H /\ shm'.hdr[1] = shm.hdr[1] /\ shm'.nBackfill = 0
      /\ UNCHANGED <<files, seed, env>>
  BY <1>1, RestartInfoDoes DEF Shm, o
<1>4. /\ Others(c) /\ pc'[c] = "marks" /\ call'[c] = call[c] /\ w'[c] = o
      /\ mine'[c] = mine[c] /\ wal' = wal /\ walDisk' = walDisk /\ seed' = seed
  BY <1>3, OthersKept DEF files
<1>5. H.isInit /\ exclMask[c] # {} /\ call[c].mode = "write"
  BY <1>1, <1>3, Recognised DEF BlankPc, CtlAt, ModeAt, TransAt, MarkStepAt, CkStepAt, LocksAt, InWrite,
                                         FrameStepAt, InLogAt, HdrPc, RecoverPc, MarkPc, WritePc, RestartPc, FramePc, CkPc,
                                         CkRunPc, CkWritePc, CkMode
<1>6. QED BY <1>1, <1>2, <1>3, <1>4, <1>5, StepHeads DEF Publishing, RestartPc, RecoverPc, Known

LEMMA WriteWalHdrHeads == ASSUME Ctl, Heads, NEW c \in Conn, WriteWalHdr(c) PROVE Heads'
<1>1. WalTypeOK /\ CtlAt(c) /\ HeadAt(c) /\ Older(H) /\ seed \in Nat /\ OldInv
  BY HeadIs DEF Heads
<1> DEFINE k == [call[c] EXCEPT !.iFrame = w[c].hdr.mxFrame]
<1>2. k.h1 = call[c].h1 /\ k.data = call[c].data /\ k.mode = call[c].mode /\ k.nTruncate = call[c].nTruncate
  BY <1>1 DEF WalTypeOK, Call
<1> HIDE DEF k
<1>3. pc[c] = "walhdr" /\ UNCHANGED <<lockVars, shm, walDisk, db, dbDisk, env>>
  BY <1>1, WriteWalHdrDoes
<1>4. H.isInit /\ WRITE \in exclMask[c] /\ InWrite(c) /\ call[c].mode = "write"
  BY <1>1, <1>3, Recognised DEF BlankPc, CtlAt, ModeAt, TransAt, MarkStepAt, CkStepAt, LocksAt, InWrite,
                                         FrameStepAt, InLogAt, HdrPc, RecoverPc, MarkPc, WritePc, RestartPc, FramePc, CkPc,
                                         CkRunPc, CkWritePc, CkMode
<1>5. CASE UNCHANGED <<wal, seed>> /\ Calls(c, "frame", k)
  BY <1>2, <1>3, <1>4, <1>5, CallHeads DEF H, Publishing, BlankPc, RestartPc, RecoverPc
<1>6. ASSUME NEW salt \in Nat,
             (salt = seed /\ seed' = seed + 1) \/ (salt = w[c].hdr.salt /\ seed' = seed),
             wal' = [wal EXCEPT !.salt = salt, !.nCkpt = w[c].nCkpt],
             Does(c, "walhdrsync", k,
                  [w[c] EXCEPT !.hdr = [w[c].hdr EXCEPT !.salt = salt, !.cksum = <<0, salt>>]],
                  cached[c], mine[c])
      PROVE  Heads'
  <2> DEFINE o == [w[c] EXCEPT !.hdr = [w[c].hdr EXCEPT !.salt = salt, !.cksum = <<0, salt>>]]
  <2>1. o.hdr.salt = salt /\ o.hdr.cksum[1] = 0 /\ o.hdr.isInit = w[c].hdr.isInit /\ o.svpt = w[c].svpt
    BY <1>1, ZenonT(40) DEF WalTypeOK, WalObj, Hdr
  <2> HIDE DEF o
  <2>2. /\ Others(c) /\ pc'[c] = "walhdrsync" /\ call'[c] = k /\ w'[c] = o
        /\ cached'[c] = cached[c] /\ mine'[c] = mine[c] /\ shm' = shm /\ walDisk' = walDisk
    BY <1>3, <1>6, OthersKept DEF o
  <2>3. seed' \in Nat /\ seed' >= seed /\ salt < seed' /\ seed' > 0
    BY <1>1, <1>6, Types, HdrIs DEF HeadAt, Older, WalTypeOK
  <2>4. /\ call[c].h1.cksum[1] \in Nat /\ call[c].h1.salt \in Nat
        /\ w[c].svpt # None => w[c].svpt.cksum[1] \in Nat
    BY <1>1, Types, HdrIs DEF WalObj, Svpt, Pair
  <2>5. HeadAt(c)'
    <3>1. Older(w[c].hdr)' /\ Older(call[c].h1)' /\ (w[c].svpt # None => w[c].svpt.cksum[1] < seed)'
      BY <1>1, <1>2, <2>1, <2>2, <2>3, <2>4 DEF Older, HeadAt
    <3>2. call[c].data \in 1..(seed - 1) => call[c].data \in 1..(seed' - 1)
      BY <1>1, <2>3
    <3>3. QED BY <1>1, <1>2, <1>4, <2>1, <2>2, <3>1, <3>2
              DEF HeadAt, BlankAt, InWrite, RestartPc, RecoverPc, H, mxH
  <2>6. \A d \in Conn : FreshAt(c, d)'
    BY <1>2, <2>2, FreshKept
  <2>7. HdrInv'
    BY <1>3, <2>2, HdrKept DEF Publishing, H
  <2>8. OldInv'
    <3>1. wal'.salt = salt /\ wal'.frames = wal.frames
      BY <1>1, <1>6 DEF WalTypeOK, Log
    <3>2. /\ wal \in Log /\ walDisk \in Log /\ H.salt \in Nat /\ H.cksum[1] \in Nat
      BY <1>1, Types, HdrIs DEF WalTypeOK
    <3>3. Older(H)'
      BY <1>1, <2>2, <2>3, <3>2 DEF Older, H
    <3>4. \A l \in {wal, walDisk} : l.salt \in Nat /\ \A i \in 1..Len(l.frames) : l.frames[i].data \in Nat
      <4>1. \A l \in Log : l.salt \in Nat /\ l.frames \in Seq(Frame)
        BY DEF Log
      <4>2. \A q \in Seq(Frame) : \A i \in 1..Len(q) : q[i].data \in Nat
        <5>1. \A f \in Frame : f.data \in Nat
          BY DEF Frame
        <5>2. QED BY <5>1
      <4>3. QED BY <3>2, <4>1, <4>2
    <3>5. \A l \in {wal, walDisk} : l.salt < seed' /\ \A i \in 1..Len(l.frames) : l.frames[i].data < seed'
      BY <1>1, <2>3, <3>4 DEF OldInv
    <3>6. QED BY <2>2, <2>3, <3>1, <3>3, <3>5 DEF OldInv
  <2>9. H' = H /\ H' \in Hdr /\ (~H.isInit => shm.nBackfill = 0)'
    BY <1>1, <1>4, <2>2, Types DEF H
  <2>10. QED BY <1>4, <2>2, <2>3, <2>5, <2>6, <2>7, <2>8, <2>9, HeadsStep
<1>7. QED BY <1>1, <1>5, <1>6, WriteWalHdrDoes DEF k

LEMMA SyncWalHdrHeads == ASSUME Ctl, Heads, NEW c \in Conn, SyncWalHdr(c) PROVE Heads'
<1>1. /\ pc[c] = "walhdrsync" /\ Calls(c, "frame", call[c]) /\ walDisk' = wal
      /\ UNCHANGED <<shm, wal, seed>>
  BY SyncWalHdrDoes DEF Ctl, Moves, Calls
<1>2. QED BY <1>1, CallHeads DEF H, Publishing, BlankPc, RestartPc, RecoverPc

LEMMA WriteFrameHeads == ASSUME Ctl, Heads, NEW c \in Conn, WriteFrame(c) PROVE Heads'
<1>1. WalTypeOK /\ CtlAt(c) /\ HeadAt(c) /\ Older(H) /\ seed \in Nat /\ OldInv
  BY HeadIs DEF Heads
<1> DEFINE n == call[c].iFrame
           x == call[c].data
           k == [call[c] EXCEPT !.iFrame = n + 1]
<1>2. /\ pc[c] = "frame" /\ UNCHANGED <<lockVars, shm, walDisk, db, dbDisk, seed, env>>
      /\ wal'.salt = wal.salt
      /\ wal'.frames[n + 1].data = x
      /\ \A j \in 1..Len(wal'.frames) :
           j # n + 1 => j <= Len(wal.frames) /\ wal'.frames[j] = wal.frames[j]
  BY <1>1, WriteFrameDoes DEF CtlAt
<1>3. PICK to \in {"frame", "framesync", "index"}, pg \in Nat :
        Does(c, to, k, [w[c] EXCEPT !.hdr = [w[c].hdr EXCEPT !.cksum = <<x, pg>>]], cached[c], mine[c])
  BY <1>1, WriteFrameDoes DEF CtlAt
<1> DEFINE o == [w[c] EXCEPT !.hdr = [w[c].hdr EXCEPT !.cksum = <<x, pg>>]]
<1>4. /\ k.h1 = call[c].h1 /\ k.data = x /\ k.mode = call[c].mode /\ k.nTruncate = call[c].nTruncate
      /\ o.hdr.salt = w[c].hdr.salt /\ o.hdr.cksum[1] = x /\ o.hdr.isInit = w[c].hdr.isInit
      /\ o.svpt = w[c].svpt
  <2>1. w[c] \in WalObj /\ w[c].hdr \in Hdr /\ call[c] \in Call
    BY <1>1, Types
  <2>2. \A h \in Hdr : LET g == [h EXCEPT !.cksum = <<x, pg>>]
                     IN g.salt = h.salt /\ g.cksum[1] = x /\ g.isInit = h.isInit
    BY DEF Hdr
  <2>3. o.hdr = [w[c].hdr EXCEPT !.cksum = <<x, pg>>] /\ o.svpt = w[c].svpt
    BY <2>1 DEF WalObj
  <2>4. k.h1 = call[c].h1 /\ k.data = x /\ k.mode = call[c].mode /\ k.nTruncate = call[c].nTruncate
    BY <2>1 DEF Call
  <2>5. QED BY <2>1, <2>2, <2>3, <2>4
<1>5. H.isInit /\ WRITE \in exclMask[c] /\ InWrite(c) /\ call[c].mode = "write"
  BY <1>1, <1>2, Recognised DEF BlankPc, CtlAt, ModeAt, TransAt, MarkStepAt, CkStepAt, LocksAt, InWrite,
                                         FrameStepAt, InLogAt, HdrPc, RecoverPc, MarkPc, WritePc, RestartPc, FramePc, CkPc,
                                         CkRunPc, CkWritePc, CkMode
<1>6. x \in 1..(seed - 1) /\ H.cksum[1] # x
  BY <1>1, <1>5 DEF HeadAt
<1> HIDE DEF k, o, x, n
<1>7. /\ Others(c) /\ pc'[c] = to /\ call'[c] = k /\ w'[c] = o
      /\ cached'[c] = cached[c] /\ mine'[c] = mine[c] /\ walDisk' = walDisk /\ seed' = seed /\ shm' = shm
  BY <1>2, <1>3, OthersKept DEF o
<1>8. HeadAt(c)'
  <2>1. Older(w[c].hdr)' /\ Older(call[c].h1)'
    BY <1>1, <1>4, <1>6, <1>7 DEF HeadAt, Older
  <2>2. QED BY <1>1, <1>4, <1>5, <1>6, <1>7, <2>1 DEF HeadAt, BlankAt, InWrite, RestartPc, RecoverPc, H, mxH
<1>9. \A d \in Conn : FreshAt(c, d)'
  BY <1>4, <1>5, <1>7, FreshKept DEF x
<1>10. HdrInv'
  BY <1>2, <1>7, HdrKept DEF Publishing, H
<1>11. OldInv'
  <2>1. Older(H)'
    BY <1>1, <1>7 DEF Older, H
  <2>2. ASSUME NEW j \in 1..Len(wal'.frames) PROVE wal'.frames[j].data < seed
    <3>1. j # n + 1 => j \in 1..Len(wal.frames)
      BY <1>1, <1>2 DEF WalTypeOK, Log
    <3>2. QED BY <1>1, <1>2, <1>6, <3>1 DEF OldInv
  <2>3. QED BY <1>1, <1>2, <1>7, <2>1, <2>2 DEF OldInv
<1>12. H' = H /\ H' \in Hdr /\ (~H.isInit => shm.nBackfill = 0)'
  BY <1>1, <1>5, <1>7, Types DEF H
<1>13. QED BY <1>1, <1>5, <1>7, <1>8, <1>9, <1>10, <1>11, <1>12, HeadsStep

LEMMA SyncFramesHeads == ASSUME Ctl, Heads, NEW c \in Conn, SyncFrames(c) PROVE Heads'
<1>1. WalTypeOK /\ CtlAt(c) /\ HeadAt(c) /\ seed \in Nat
  BY HeadIs
<1>2. /\ pc[c] = "framesync" /\ Moves(c, "index") /\ walDisk' = wal
      /\ UNCHANGED <<lockVars, shm, wal, seed>>
  BY <1>1, SyncFramesDoes
<1>3. /\ Others(c) /\ pc'[c] = "index" /\ call'[c] = call[c] /\ w'[c] = w[c]
      /\ cached'[c] = cached[c] /\ mine'[c] = mine[c]
  BY <1>2, OthersKept DEF Moves
<1>4. H.isInit /\ call[c].mode = "write" /\ InWrite(c)
  BY <1>1, <1>2, Recognised DEF BlankPc, CtlAt, ModeAt, TransAt, MarkStepAt, CkStepAt, LocksAt, InWrite,
                                         FrameStepAt, InLogAt, HdrPc, RecoverPc, MarkPc, WritePc, RestartPc, FramePc, CkPc,
                                         CkRunPc, CkWritePc, CkMode
<1>5. HeadAt(c)'
  BY <1>1, <1>2, <1>3, <1>4 DEF HeadAt, Older, BlankAt, BlankPc, InWrite, RestartPc, RecoverPc, Publishing, Known, H, mxH
<1>6. QED BY <1>1, <1>2, <1>3, <1>4, <1>5, QuietHeads DEF Publishing, H, Known

LEMMA AppendIndexHeads == ASSUME Ctl, Heads, NEW c \in Conn, AppendIndex(c) PROVE Heads'
<1>1. WalTypeOK /\ CtlAt(c) /\ HeadAt(c) /\ Older(H) /\ seed \in Nat /\ LogBound
  BY HeadIs DEF Ctl
<1>2. pc[c] = "index" /\ UNCHANGED <<lockVars, files, seed, env>>
  BY <1>1, AppendIndexDoes DEF CtlAt
<1>3. PICK idx \in [1..MaxFrame -> Nat], h \in Hdr :
        /\ h.cksum = w[c].hdr.cksum /\ h.salt = w[c].hdr.salt
        /\ \/ /\ call[c].nTruncate # 0 /\ h.isInit /\ h.nPage = call[c].nTruncate
              /\ Does(c, "commit0", call[c], [w[c] EXCEPT !.hdr = h], cached[c], mine[c])
              /\ Shm(H, h, shm.nBackfill, shm.aReadMark, idx)
           \/ /\ call[c].nTruncate = 0
              /\ h.isInit = w[c].hdr.isInit /\ h.nPage = w[c].hdr.nPage
              /\ Does(c, "idle", NoCall, [w[c] EXCEPT !.hdr = h], cached[c], mine[c])
              /\ Shm(H, shm.hdr[1], shm.nBackfill, shm.aReadMark, idx)
  BY <1>1, AppendIndexDoes DEF CtlAt
<1> DEFINE o == [w[c] EXCEPT !.hdr = h]
<1>4. o.hdr = h /\ o.svpt = w[c].svpt
  BY <1>1 DEF WalTypeOK, WalObj
<1> HIDE DEF o
<1>5. H.isInit /\ WRITE \in exclMask[c] /\ InWrite(c) /\ call[c].mode = "write" /\ w[c].hdr.isInit
  BY <1>1, <1>2, Recognised DEF BlankPc, HeadAt, CtlAt, ModeAt, TransAt, MarkStepAt, CkStepAt, LocksAt, InWrite,
                                                 FrameStepAt, InLogAt, HdrPc, RecoverPc, MarkPc, WritePc, RestartPc, FramePc, CkPc,
                                                 CkRunPc, CkWritePc, CkMode
<1>6. Older(h)
  BY <1>1, <1>3 DEF HeadAt, Older
<1>7. CASE /\ call[c].nTruncate # 0 /\ h.isInit /\ h.nPage = call[c].nTruncate
           /\ Does(c, "commit0", call[c], o, cached[c], mine[c])
           /\ Shm(H, h, shm.nBackfill, shm.aReadMark, idx)
  <2>1. /\ Others(c) /\ pc'[c] = "commit0" /\ call'[c] = call[c] /\ w'[c] = o
        /\ cached'[c] = cached[c] /\ mine'[c] = mine[c] /\ wal' = wal /\ walDisk' = walDisk /\ seed' = seed
    BY <1>2, <1>7, OthersKept DEF files
  <2>2. shm'.hdr[0] = H /\ shm'.hdr[1] = h /\ shm'.nBackfill = shm.nBackfill
    BY <1>7 DEF Shm
  <2>3. HdrInv'
    <3>1. \A d \in Conn : d # c => pc'[d] \notin Publishing
      BY <1>5, <2>1, WriterAlone DEF Others
    <3>2. HdrInv /\ pc'[c] \in Publishing
      BY <2>1 DEF Heads, Publishing
    <3>3. QED BY <1>4, <2>1, <2>2, <3>1, <3>2 DEF HdrInv, H, mxH
  <2>4. OldInv'
    BY <1>1, <2>1, <2>2, OldKept DEF Heads
  <2>5. HeadAt(c)'
    BY <1>1, <1>2, <1>3, <1>4, <1>5, <1>6, <1>7, <2>1, <2>2 DEF HeadAt, Older, BlankAt, BlankPc, InWrite, RestartPc, RecoverPc, Publishing, Known, H, mxH
  <2>6. \A d \in Conn : FreshAt(c, d)'
    BY <2>1, <1>5, FreshKept
  <2>7. H' = H /\ H' \in Hdr /\ (~H.isInit => shm.nBackfill = 0)'
    BY <1>1, <1>5, <2>2, Types DEF H
  <2>8. QED BY <1>1, <1>5, <2>1, <2>2, <2>3, <2>4, <2>5, <2>6, <2>7, HeadsStep
<1>8. CASE /\ h.isInit = w[c].hdr.isInit
           /\ Does(c, "idle", NoCall, o, cached[c], mine[c])
           /\ Shm(H, shm.hdr[1], shm.nBackfill, shm.aReadMark, idx)
  <2>1. /\ Others(c) /\ pc'[c] = "idle" /\ call'[c] = NoCall /\ w'[c] = o
        /\ cached'[c] = cached[c] /\ mine'[c] = mine[c] /\ wal' = wal /\ walDisk' = walDisk /\ seed' = seed
    BY <1>2, <1>8, OthersKept DEF files
  <2>2. shm'.hdr[0] = H /\ shm'.hdr[1] = shm.hdr[1] /\ shm'.nBackfill = shm.nBackfill
    BY <1>8 DEF Shm
  <2>3. NoCall.h1 = ZeroHdr /\ NoCall.mode # "write" /\ Older(ZeroHdr)
    BY HeadIs DEF NoCall
  <2>4. HeadAt(c)'
    <3>1. Older(w[c].hdr)' /\ Older(call[c].h1)'
      BY <1>4, <1>6, <2>1, <2>3 DEF Older
    <3>2. QED BY <1>1, <1>4, <1>5, <1>8, <2>1, <2>2, <2>3, <3>1 DEF HeadAt, BlankAt, InWrite, RestartPc, RecoverPc, H, mxH
  <2>5. QED BY <1>1, <1>2, <1>5, <2>1, <2>2, <2>3, <2>4, QuietHeads DEF Publishing
<1>9. QED BY <1>3, <1>7, <1>8 DEF o

LEMMA CommitHdr0Heads == ASSUME Ctl, Heads, NEW c \in Conn, CommitHdr0(c) PROVE Heads'
<1>1. WalTypeOK /\ CtlAt(c) /\ HeadAt(c) /\ Older(H) /\ seed \in Nat /\ Older(ZeroHdr)
  BY HeadIs
<1> DEFINE o == [w[c] EXCEPT !.svpt = None]
<1>2. o.hdr = w[c].hdr /\ o.svpt = None
  BY <1>1 DEF WalTypeOK, WalObj
<1> HIDE DEF o
<1>3. /\ pc[c] = "commit0" /\ UNCHANGED <<files, seed, env>>
      /\ Does(c, "idle", NoCall, o, mine[c], None)
      /\ shm'.hdr[0] = w[c].hdr /\ shm'.hdr[1] = shm.hdr[1] /\ shm'.nBackfill = shm.nBackfill
  BY <1>1, CommitHdr0Does DEF Shm, o
<1>4. /\ Others(c) /\ pc'[c] = "idle" /\ call'[c] = NoCall /\ w'[c] = o
      /\ cached'[c] = mine[c] /\ mine'[c] = None /\ wal' = wal /\ walDisk' = walDisk /\ seed' = seed
  BY <1>3, OthersKept DEF files
<1>5. NoCall.h1 = ZeroHdr /\ NoCall.mode # "write"
  BY DEF NoCall
<1>6. InWrite(c) /\ w[c].hdr.isInit /\ w[c].hdr.nPage > 0
  BY <1>1, <1>3, Types, HdrIs DEF HeadAt, CtlAt, ModeAt, TransAt, MarkStepAt, CkStepAt, LocksAt, InWrite,
                                          FrameStepAt, InLogAt, HdrPc, RecoverPc, MarkPc, WritePc, RestartPc, FramePc, CkPc,
                                          CkRunPc, CkWritePc, CkMode
<1>7. HdrInv' /\ OldInv' /\ H' \in Hdr /\ WRITE \in exclMask[c]
  BY <1>3, <1>4, <1>6, PublishHdr DEF Publishing
<1>8. HeadAt(c)'
  <2>1. Older(w[c].hdr)' /\ Older(call[c].h1)'
    BY <1>1, <1>2, <1>4, <1>5 DEF HeadAt, Older
  <2>2. QED BY <1>1, <1>2, <1>3, <1>4, <1>5, <1>6, <2>1 DEF HeadAt, BlankAt, InWrite, RestartPc, RecoverPc, H, mxH
<1>9. \A d \in Conn : FreshAt(c, d)'
  BY <1>4, <1>5, FreshKept
<1>10. H'.isInit /\ (~H.isInit => shm.nBackfill = 0)'
  BY <1>3, <1>6 DEF H
<1>11. QED BY <1>1, <1>3, <1>4, <1>7, <1>8, <1>9, <1>10, HeadsStep

LEMMA FramesFailHeads == ASSUME Ctl, Heads, NEW c \in Conn, FramesFail(c) PROVE Heads'
<1>1. /\ pc[c] \in {"walhdr", "walhdrsync", "frame", "framesync"}
      /\ Calls(c, "failed", call[c]) /\ UNCHANGED <<shm, files, seed>>
  BY FramesFailDoes DEF Ctl, Moves, Calls
<1>2. QED BY <1>1, CallHeads DEF files, H, Publishing, BlankPc, RestartPc, RecoverPc

LEMMA RollbackHeads == ASSUME Ctl, Heads, NEW c \in Conn, Rollback(c) PROVE Heads'
<1>1. /\ WalTypeOK /\ CtlAt(c) /\ HeadAt(c) /\ Older(H) /\ seed \in Nat /\ Older(ZeroHdr)
      /\ (mxH > 0 => H.nPage > 0)
  BY HeadIs
<1> DEFINE o == [w[c] EXCEPT !.hdr = H, !.svpt = None]
<1>2. o.hdr = H /\ o.svpt = None
  BY <1>1 DEF WalTypeOK, WalObj
<1> HIDE DEF o
<1>3. /\ pc[c] \in {"idle", "failed"} /\ InWrite(c) /\ UNCHANGED <<files, seed, env>>
      /\ Does(c, "idle", NoCall, o, cached[c], None)
      /\ shm'.hdr[0] = H /\ shm'.hdr[1] = shm.hdr[1] /\ shm'.nBackfill = shm.nBackfill
  BY <1>1, RollbackDoes DEF Shm, o
<1>4. /\ Others(c) /\ pc'[c] = "idle" /\ call'[c] = NoCall /\ w'[c] = o
      /\ cached'[c] = cached[c] /\ mine'[c] = None /\ wal' = wal /\ walDisk' = walDisk /\ seed' = seed
  BY <1>3, OthersKept DEF files
<1>5. NoCall.h1 = ZeroHdr /\ NoCall.mode # "write"
  BY DEF NoCall
<1>6. H.isInit
  BY <1>3, Recognised
<1>7. HeadAt(c)'
  <2>1. Older(w[c].hdr)' /\ Older(call[c].h1)'
    BY <1>1, <1>2, <1>4, <1>5 DEF Older
  <2>2. QED BY <1>1, <1>2, <1>3, <1>4, <1>5, <1>6, <2>1 DEF HeadAt, BlankAt, InWrite, RestartPc, RecoverPc, H, mxH
<1>8. QED BY <1>1, <1>2, <1>3, <1>4, <1>5, <1>7, QuietHeads DEF Publishing, Known

LEMMA CheckpointHeads == ASSUME Ctl, Heads, NEW c \in Conn, Checkpoint(c) PROVE Heads'
<1>1. WalTypeOK /\ CtlAt(c) /\ HeadAt(c) /\ Steady
  BY HeadIs DEF Ctl
<1> DEFINE k(m) == [NoCall EXCEPT !.mode = m]
<1>2. k("passive").h1 = ZeroHdr /\ k("passive").mode = "passive" /\ k("full").h1 = ZeroHdr /\ k("full").mode = "full"
  BY DEF NoCall
<1> HIDE DEF k
<1>3. /\ pc[c] = "idle" /\ UNCHANGED <<shm, files, seed>>
      /\ \E m \in {"passive", "full"} : Calls(c, "hdr0", k(m))
  BY <1>1, CheckpointDoes DEF k
<1>4. PICK m \in {"passive", "full"} : Calls(c, "hdr0", k(m))
  BY <1>3
<1>5. /\ Others(c) /\ pc'[c] = "hdr0" /\ call'[c] = k(m) /\ w'[c] = w[c]
      /\ cached'[c] = cached[c] /\ mine'[c] = mine[c] /\ wal' = wal /\ walDisk' = walDisk /\ seed' = seed
      /\ shm' = shm
  BY <1>3, <1>4, OthersKept DEF Calls, files
<1>6. BlankAt(c)'
  BY <1>1, <1>2, <1>3, <1>5 DEF HeadAt, BlankAt, BlankPc, H, ZeroHdr
<1>7. QED BY <1>2, <1>3, <1>5, <1>6, StepHeads DEF Publishing, RestartPc, RecoverPc, H, Known

LEMMA CkStartHeads == ASSUME Ctl, Heads, NEW c \in Conn, CkStart(c) PROVE Heads'
<1>1. WalTypeOK /\ CtlAt(c) /\ LogBound
  BY DEF Ctl
<1>2. w[c].hdr.mxFrame <= MaxFrame
  BY <1>1, Types, HdrIs, WalAssumption DEF CtlAt, InLogAt, LogBound, WalTypeOK, Log
<1>3. pc[c] = "ckstart" /\ Quiet
  BY <1>1, <1>2, CkStartDoes
<1>4. CASE Moves(c, "ckend")
  BY <1>3, <1>4, MoveHeads DEF Publishing, RestartPc, RecoverPc, BlankPc
<1>5. ASSUME NEW todo, NEW mx,
             Calls(c, "ckmark", [call[c] EXCEPT !.mxSafeFrame = mx, !.i = 1, !.todo = todo])
      PROVE  Heads'
  <2> DEFINE k == [call[c] EXCEPT !.mxSafeFrame = mx, !.i = 1, !.todo = todo]
  <2>1. k.h1 = call[c].h1 /\ k.data = call[c].data /\ k.mode = call[c].mode
    BY <1>1 DEF WalTypeOK, Call
  <2> HIDE DEF k
  <2>2. QED BY <1>3, <1>5, <2>1, CallHeads DEF Quiet, files, H, Publishing, BlankPc, RestartPc, RecoverPc, k
<1>6. QED BY <1>1, <1>2, <1>4, <1>5, CkStartDoes

LEMMA CkMarkHeads == ASSUME Ctl, Heads, NEW c \in Conn, CkMark(c) PROVE Heads'
<1>1. WalTypeOK /\ CtlAt(c)
  BY DEF Ctl
<1>2. pc[c] = "ckmark" /\ Quiet
  BY <1>1, CkMarkDoes DEF CtlAt
<1>3. CASE Moves(c, "ckput") \/ Moves(c, "cklock0")
  BY <1>2, <1>3, MoveHeads DEF Publishing, RestartPc, RecoverPc, BlankPc
<1>4. ASSUME NEW s \in Nat, Calls(c, "ckmark", [call[c] EXCEPT !.i = call[c].i + 1, !.mxSafeFrame = s])
      PROVE  Heads'
  <2> DEFINE k == [call[c] EXCEPT !.i = call[c].i + 1, !.mxSafeFrame = s]
  <2>1. k.h1 = call[c].h1 /\ k.data = call[c].data /\ k.mode = call[c].mode
    BY <1>1 DEF WalTypeOK, Call
  <2> HIDE DEF k
  <2>2. QED BY <1>2, <1>4, <2>1, CallHeads DEF Quiet, files, H, Publishing, BlankPc, RestartPc, RecoverPc, k
<1>5. QED BY <1>1, <1>3, <1>4, CkMarkDoes DEF CtlAt

LEMMA CkPutHeads == ASSUME Ctl, Heads, NEW c \in Conn, CkPut(c) PROVE Heads'
<1>1. WalTypeOK /\ CtlAt(c)
  BY DEF Ctl
<1> DEFINE k == [call[c] EXCEPT !.i = call[c].i + 1]
<1>2. k.h1 = call[c].h1 /\ k.data = call[c].data /\ k.mode = call[c].mode
  BY <1>1 DEF WalTypeOK, Call
<1>3. /\ pc[c] = "ckput" /\ UNCHANGED <<files, seed, env>> /\ Calls(c, "ckmark", k)
      /\ shm'.hdr[0] = H /\ shm'.hdr[1] = shm.hdr[1] /\ shm'.nBackfill = shm.nBackfill
  BY <1>1, CkPutDoes DEF CtlAt, Shm
<1> HIDE DEF k
<1>4. QED BY <1>2, <1>3, CallHeads DEF files, Publishing, BlankPc, RestartPc, RecoverPc

LEMMA CkLock0Heads == ASSUME Ctl, Heads, NEW c \in Conn, CkLock0(c) PROVE Heads'
<1>1. WalTypeOK
  BY DEF Ctl
<1> DEFINE k == [call[c] EXCEPT !.nBackfill = shm.nBackfill]
<1>2. k.h1 = call[c].h1 /\ k.data = call[c].data /\ k.mode = call[c].mode
  BY <1>1 DEF WalTypeOK, Call
<1>3. pc[c] = "cklock0" /\ Quiet /\ (Calls(c, "cksync", k) \/ Moves(c, "ckend"))
  BY <1>1, CkLock0Does
<1> HIDE DEF k
<1>4. CASE Moves(c, "ckend")
  BY <1>3, <1>4, MoveHeads DEF Publishing, RestartPc, RecoverPc, BlankPc
<1>5. QED BY <1>2, <1>3, <1>4, CallHeads DEF Quiet, files, H, Publishing, BlankPc, RestartPc, RecoverPc

\* The steps of a checkpoint that write files.
LEMMA CkFileHeads ==
  ASSUME Ctl, Heads, NEW c \in Conn,
         CkSync(c) \/ CkPage(c) \/ CkTrunc(c) \/ CkDbSync(c) \/ CkDone(c) \/ CkFails(c)
  PROVE  Heads'
<1>1. WalTypeOK /\ CtlAt(c) /\ Steady
  BY DEF Ctl
<1>2. ASSUME NEW to \in {"ckpage", "cktrunc", "ckdbsync", "ckdone", "ckend", "closing"}, NEW k, Calls(c, to, k),
             pc[c] \in CkWritePc, shm'.hdr[0] = H, shm'.hdr[1] = shm.hdr[1],
             shm'.nBackfill = shm.nBackfill \/ exclMask[c] # {},
             wal' = wal, walDisk' \in {walDisk, wal}, seed' = seed,
             k.h1 = call[c].h1, k.data = call[c].data, k.mode = "write" => call[c].mode = "write"
      PROVE  Heads'
  <2>1. H.isInit /\ pc[c] \notin Publishing \cup BlankPc
    BY <1>2, Recognised DEF BlankPc, CkWritePc, Publishing
  <2>2. QED BY <1>2, <2>1, CallHeads DEF RestartPc, RecoverPc
<1>3. CASE CkSync(c)
  BY <1>1, <1>2, <1>3, CkSyncDoes DEF CkWritePc, Moves, Calls, H
<1>4. CASE CkPage(c)
  <2>1. pc[c] = "ckpage" /\ UNCHANGED <<shm, wal, walDisk, seed>>
    BY <1>1, <1>4, CkPageDoes DEF CtlAt
  <2>2. \A todo : LET k == [call[c] EXCEPT !.todo = todo] IN
                  k.h1 = call[c].h1 /\ k.data = call[c].data /\ k.mode = call[c].mode
    BY <1>1 DEF WalTypeOK, Call
  <2>3. PICK k : /\ k.h1 = call[c].h1 /\ k.data = call[c].data /\ k.mode = call[c].mode
                 /\ Calls(c, "ckpage", k) \/ Calls(c, "cktrunc", k)
    <3>1. CASE Moves(c, "cktrunc")
      <4>1. Calls(c, "cktrunc", call[c])
        BY <3>1 DEF Moves, Calls
      <4>2. QED BY <4>1
    <3>2. CASE \E todo : Calls(c, "ckpage", [call[c] EXCEPT !.todo = todo])
      <4>1. PICK todo : Calls(c, "ckpage", [call[c] EXCEPT !.todo = todo])
        BY <3>2
      <4>2. QED BY <2>2, <4>1
    <3>3. QED BY <1>1, <1>4, <3>1, <3>2, CkPageDoes DEF CtlAt
  <2>4. QED BY <1>2, <2>1, <2>3 DEF CkWritePc, H
<1>5. CASE CkTrunc(c)
  BY <1>1, <1>2, <1>5, CkTruncDoes DEF CkWritePc, Moves, Calls, H
<1>6. CASE CkDbSync(c)
  BY <1>1, <1>2, <1>6, CkDbSyncDoes DEF CkWritePc, Moves, Calls, H
<1>7. CASE CkDone(c)
  <2>1. /\ pc[c] = "ckdone" /\ Calls(c, "ckend", call[c]) /\ UNCHANGED <<files, seed, env>>
        /\ shm'.hdr[0] = H /\ shm'.hdr[1] = shm.hdr[1]
    BY <1>1, <1>7, CkDoneDoes DEF Shm, Moves, Calls
  <2>2. exclMask[c] # {}
    BY <1>1, <2>1 DEF CtlAt, LocksAt, CkWritePc
  <2>3. QED BY <1>2, <2>1, <2>2 DEF CkWritePc, files
<1>8. CASE CkFails(c)
  <2>1. pc[c] \in {"cksync", "ckpage", "cktrunc", "ckdbsync"} /\ UNCHANGED <<shm, files, seed>>
    BY <1>1, <1>8, CkFailsDoes
  <2> DEFINE k == [call[c] EXCEPT !.mode = "passive"]
  <2>2. k.h1 = call[c].h1 /\ k.data = call[c].data /\ k.mode = "passive"
    BY <1>1 DEF WalTypeOK, Call
  <2> HIDE DEF k
  <2>3. Calls(c, "closing", k) \/ Calls(c, "ckend", call[c])
    BY <1>1, <1>8, CkFailsDoes DEF Moves, Calls, k
  <2>4. QED BY <1>2, <2>1, <2>2, <2>3 DEF CkWritePc, files, H
<1>9. QED BY <1>3, <1>4, <1>5, <1>6, <1>7, <1>8

LEMMA CkEndHeads == ASSUME Ctl, Heads, NEW c \in Conn, CkEnd(c) PROVE Heads'
<1>1. WalTypeOK /\ CtlAt(c) /\ HeadAt(c)
  BY HeadIs
<1>2. pc[c] = "ckend" /\ call[c].mode # "close" /\ Quiet
  BY <1>1, CkEndDoes
<1>3. ~InWrite(c) /\ NoCall.h1 = ZeroHdr /\ NoCall.mode # "write"
  BY <1>1, <1>2 DEF NoCall, CtlAt, ModeAt, TransAt, MarkStepAt, CkStepAt, LocksAt, InWrite,
                            FrameStepAt, InLogAt, HdrPc, RecoverPc, MarkPc, WritePc, RestartPc, FramePc, CkPc,
                            CkRunPc, CkWritePc, CkMode
<1>4. PICK o : o.hdr \in {w[c].hdr, ZeroHdr} /\ o.svpt = w[c].svpt /\ o.readLock = w[c].readLock
               /\ Does(c, "idle", NoCall, o, cached[c], mine[c])
  <2>1. CASE Does(c, "idle", NoCall, [w[c] EXCEPT !.hdr = ZeroHdr], cached[c], mine[c])
    <3> DEFINE o == [w[c] EXCEPT !.hdr = ZeroHdr]
    <3>1. o.hdr = ZeroHdr /\ o.svpt = w[c].svpt /\ o.readLock = w[c].readLock
      BY <1>1 DEF WalTypeOK, WalObj
    <3>2. QED BY <2>1, <3>1
  <2>2. QED BY <1>1, <2>1, CkEndDoes DEF Returns
<1>5. /\ Others(c) /\ pc'[c] = "idle" /\ call'[c] = NoCall /\ w'[c] = o
      /\ cached'[c] = cached[c] /\ mine'[c] = mine[c] /\ wal' = wal /\ walDisk' = walDisk /\ seed' = seed
      /\ shm' = shm
  BY <1>2, <1>4, OthersKept DEF Quiet, files
<1>6. BlankAt(c)'
  <2>1. BlankAt(c) /\ (H.isInit' <=> H.isInit)
    BY <1>1, <1>5 DEF HeadAt, H
  <2>2. QED BY <1>2, <1>3, <1>4, <1>5, <2>1, Untouched DEF BlankAt, BlankPc, InWrite
<1>7. QED BY <1>2, <1>3, <1>4, <1>5, <1>6, StepHeads DEF Publishing, RestartPc, RecoverPc, H, Known

LEMMA GoesHeads ==
  ASSUME Ctl, Heads, NEW c \in Conn, Goes(c), pc[c] \notin Publishing, UNCHANGED <<shm, wal, walDisk, seed>>
  PROVE  Heads'
<1>1. WalTypeOK /\ CtlAt(c) /\ HeadAt(c) /\ seed \in Nat /\ Older(ZeroHdr)
  BY HeadIs
<1>2. /\ Others(c) /\ pc'[c] = "closed" /\ call'[c] = NoCall /\ w'[c] = FreshWal
      /\ cached'[c] = None /\ mine'[c] = None
  BY <1>1, GoesIs, OthersKept
<1>3. HeadAt(c)'
  BY <1>1, <1>2 DEF NoCall, FreshWal, ZeroHdr, HeadAt, Older, BlankAt, BlankPc, InWrite, RestartPc, RecoverPc, Publishing, Known, H, mxH
<1>4. FreshWal.hdr = ZeroHdr /\ NoCall.h1 = ZeroHdr /\ NoCall.mode # "write"
  BY DEF FreshWal, NoCall
<1>5. QED BY <1>1, <1>2, <1>3, <1>4, QuietHeads DEF Publishing, H, Known

LEMMA CloseHeads == ASSUME Ctl, Heads, NEW c \in Conn, Close(c) PROVE Heads'
<1>1. WalTypeOK /\ CtlAt(c) /\ HeadAt(c) /\ Steady
  BY HeadIs DEF Ctl
<1> DEFINE k == [NoCall EXCEPT !.mode = "close"]
<1>2. k.h1 = ZeroHdr /\ k.mode = "close"
  BY DEF NoCall
<1> HIDE DEF k
<1>3. pc[c] = "idle" /\ UNCHANGED <<shm, files, seed>> /\ (Goes(c) \/ Calls(c, "hdr0", k))
  BY <1>1, CloseDoes DEF k
<1>4. CASE Calls(c, "hdr0", k)
  <2>1. /\ Others(c) /\ pc'[c] = "hdr0" /\ call'[c] = k /\ w'[c] = w[c]
        /\ cached'[c] = cached[c] /\ mine'[c] = mine[c] /\ wal' = wal /\ walDisk' = walDisk /\ seed' = seed
        /\ shm' = shm
    BY <1>3, <1>4, OthersKept DEF Calls, files
  <2>2. BlankAt(c)'
    BY <1>1, <1>2, <1>3, <2>1 DEF HeadAt, BlankAt, BlankPc, H, ZeroHdr
  <2>3. QED BY <1>2, <1>3, <2>1, <2>2, StepHeads DEF Publishing, RestartPc, RecoverPc, H, Known
<1>5. QED BY <1>3, <1>4, GoesHeads DEF files, Publishing

LEMMA FinishCloseHeads == ASSUME Ctl, Heads, NEW c \in Conn, FinishClose(c) PROVE Heads'
<1>1. WalTypeOK /\ Goes(c) /\ UNCHANGED <<shm, db, dbDisk, seed, env>>
  BY FinishCloseDoes DEF Ctl
<1>2. CASE pc[c] = "closing" /\ UNCHANGED <<wal, walDisk>>
  BY <1>1, <1>2, GoesHeads DEF Publishing
<1>3. CASE pc[c] = "ckend" /\ call[c].mode = "close" /\ wal' = EmptyLog /\ walDisk' = EmptyLog
  <2>1. \A d \in Conn : d # c => pc[d] = "closed"
    BY <1>3 DEF Ctl, ClosesAlone
  <2>2. \A d \in Conn : /\ pc'[d] \in {"idle", "closed"} /\ call'[d] = NoCall /\ w'[d] = FreshWal
                        /\ cached'[d] = None /\ mine'[d] = None
    <3>1. Others(c) /\ pc'[c] = "closed" /\ call'[c] = NoCall /\ w'[c] = FreshWal
          /\ cached'[c] = None /\ mine'[c] = None
      BY <1>1, GoesIs, OthersKept
    <3>2. \A d \in Conn : pc[d] = "closed" =>
            call[d] = NoCall /\ w[d] = FreshWal /\ cached[d] = None /\ mine[d] = None
      BY DEF Ctl, CtlAt, ModeAt, TransAt
    <3>3. QED BY <2>1, <3>1, <3>2 DEF Others
  <2>3. HdrInv /\ shm.hdr[1] = H
    BY <1>3, <2>1 DEF Heads, HdrInv, Publishing
  <2>4. seed' \in Nat \ {0} /\ OldInv'
    BY <1>1, <1>3 DEF WalTypeOK, Heads, OldInv, EmptyLog, Older, H
  <2>5. QED BY <1>1, <2>2, <2>3, <2>4, BlankHeads DEF HdrInv, H, mxH, Heads
<1>4. QED BY <1>1, <1>2, <1>3, FinishCloseDoes

LEMMA PowerLossHeads == ASSUME Ctl, Heads, PowerLoss PROVE Heads'
<1>1. WalTypeOK /\ Steady /\ LogBound /\ OldInv /\ seed \in Nat \ {0}
  BY DEF Ctl, Heads, WalTypeOK
<1>2. /\ UNCHANGED seed /\ shm' = ZeroShm
      /\ pc' = [c \in Conn |-> "closed"] /\ call' = [c \in Conn |-> NoCall]
      /\ w' = [c \in Conn |-> FreshWal] /\ cached' = [c \in Conn |-> None]
      /\ mine' = [c \in Conn |-> None]
      /\ wal' \in Log /\ walDisk' = wal'
      /\ wal'.salt \in {0, wal.salt, walDisk.salt}
      /\ \A i \in 1..Len(wal'.frames) :
           \/ wal'.frames[i].data = 0
           \/ i <= Len(wal.frames) /\ wal'.frames[i].data = wal.frames[i].data
           \/ i <= Len(walDisk.frames) /\ wal'.frames[i].data = walDisk.frames[i].data
  BY <1>1, PowerLossDoes
<1>3. shm'.hdr[0] = ZeroHdr /\ shm'.hdr[1] = ZeroHdr /\ shm'.nBackfill = 0
  BY <1>2 DEF ZeroShm
<1>4. OldInv'
  <2>1. wal'.salt < seed
    BY <1>1, <1>2 DEF OldInv
  <2>2. ASSUME NEW i \in 1..Len(wal'.frames) PROVE wal'.frames[i].data < seed
    <3>1. Len(wal.frames) \in Nat /\ Len(walDisk.frames) \in Nat
      BY <1>1 DEF WalTypeOK, Log
    <3>2. QED BY <1>1, <1>2, <3>1 DEF OldInv
  <2>3. Older(H)'
    BY <1>1, <1>2, <1>3 DEF Older, H, ZeroHdr
  <2>4. QED BY <1>2, <2>1, <2>2, <2>3 DEF OldInv
<1>5. QED BY <1>1, <1>2, <1>3, <1>4, BlankHeads DEF H, mxH, ZeroHdr

LEMMA HeadsInit == ASSUME Init, Steady PROVE Heads
<1>1. /\ \A d \in Conn : /\ pc[d] \in {"idle", "closed"} /\ call[d] = NoCall /\ w[d] = FreshWal
                         /\ cached[d] = None /\ mine[d] = None
  BY DEF Init
<1>2. WalTypeOK
  BY CtlInit DEF Ctl
<1>3. Len(db) > 0
  BY DbOfInit
<1>4. OldInv
  <2>1. CASE env.warm
    <3>1. wal = WarmLog /\ shm = WarmShm /\ seed = 3
      BY <2>1 DEF Init
    <3>2. WarmLog.salt = 2 /\ Len(WarmLog.frames) = 1 /\ WarmLog.frames[1].data = 1
      BY DEF WarmLog
    <3>3. walDisk = wal \/ walDisk = [wal EXCEPT !.frames = <<>>]
      BY DEF Init
    <3>4. WarmShm.hdr[0] = WarmHdr /\ WarmHdr.cksum[1] = 1 /\ WarmHdr.salt = 2
      BY DEF WarmShm, WarmHdr
    <3>5. walDisk.salt = 2 /\ (walDisk.frames = wal.frames \/ walDisk.frames = <<>>)
      BY <1>2, <3>1, <3>2, <3>3 DEF WalTypeOK, Log
    <3>6. \A i \in 1..Len(walDisk.frames) : walDisk.frames[i].data < 3
      BY <3>1, <3>2, <3>5
    <3>7. QED BY <3>1, <3>2, <3>4, <3>5, <3>6 DEF OldInv, Older, H
  <2>2. CASE ~env.warm
    <3>1. wal = EmptyLog /\ shm = ZeroShm /\ seed = 1
      BY <2>2 DEF Init
    <3>2. EmptyLog.salt = 0 /\ EmptyLog.frames = <<>>
      BY DEF EmptyLog
    <3>3. walDisk = wal \/ walDisk = [wal EXCEPT !.frames = <<>>]
      BY DEF Init
    <3>4. walDisk.salt = 0 /\ walDisk.frames = <<>>
      BY <1>2, <3>1, <3>2, <3>3 DEF WalTypeOK, Log
    <3>5. H = ZeroHdr /\ ZeroHdr.cksum[1] = 0 /\ ZeroHdr.salt = 0
      BY <3>1 DEF ZeroShm, H, ZeroHdr
    <3>6. QED BY <3>1, <3>2, <3>4, <3>5 DEF OldInv, Older
  <2>3. QED BY <2>1, <2>2
<1>5. /\ shm.hdr[1] = H /\ (mxH > 0 => H.nPage > 0) /\ shm.nBackfill = 0
  BY <1>3 DEF Init, ZeroShm, WarmShm, ZeroHdr, WarmHdr, H, mxH
<1>6. seed \in Nat \ {0}
  BY <1>2 DEF WalTypeOK
<1>7. HdrInv
  BY <1>1, <1>5 DEF HdrInv, Publishing
<1>8. ASSUME NEW d \in Conn PROVE HeadAt(d)
  <2>1. Older(w[d].hdr) /\ Older(call[d].h1)
    BY <1>1, <1>6, Untouched DEF Older
  <2>2. BlankAt(d)
    BY <1>1, Untouched DEF BlankAt, BlankPc
  <2>3. QED BY <1>1, <2>1, <2>2, Untouched DEF HeadAt, InWrite, RestartPc, RecoverPc
<1>9. ASSUME NEW d \in Conn, NEW e \in Conn PROVE FreshAt(d, e)
  BY <1>1 DEF FreshAt, NoCall
<1>10. QED BY <1>4, <1>5, <1>7, <1>8, <1>9 DEF Heads

LEMMA HeadsNext == ASSUME Ctl, Heads, [Next]_vars PROVE Heads'
<1>1. CASE UNCHANGED vars
  BY <1>1 DEF vars, lockVars, files, ghosts, Heads, HdrInv, OldInv, FreshAt, HeadAt, Older, BlankAt, BlankPc, InWrite, RestartPc, RecoverPc, Publishing, Known, H, mxH
<1>2. CASE PowerLoss
  BY <1>2, PowerLossHeads
<1>3. ASSUME NEW c \in Conn,
             \/ Open(c) \/ BeginRead(c) \/ ReadHdr0(c) \/ ReadHdr1(c) \/ LockHdr(c)
             \/ ReadHdrAgain(c) \/ Recover(c) \/ RecoverHdr0(c) \/ RecoverInfo(c)
             \/ CheckBackfill(c) \/ Lock0(c) \/ ChooseMark(c) \/ GrabMark(c) \/ PutMark(c)
             \/ LockMark(c) \/ EndRead(c) \/ BeginWrite(c) \/ Savepoint(c) \/ SavepointUndo(c)
      PROVE  Heads'
  BY <1>3, OpenHeads, BeginReadHeads, ReadHdr0Heads, ReadHdr1Heads, LockHdrHeads, ReadHdrAgainHeads,
     RecoverHeads, RecoverHdr0Heads, RecoverInfoHeads, CheckBackfillHeads, Lock0Heads, ChooseMarkHeads,
     GrabMarkHeads, PutMarkHeads, LockMarkHeads, EndReadHeads, BeginWriteHeads, SavepointHeads,
     SavepointUndoHeads
<1>4. ASSUME NEW c \in Conn, Spill(c) \/ Commit(c) PROVE Heads'
  BY <1>4, SpillDoes, CommitDoes, StartsHeads DEF Ctl
<1>5. ASSUME NEW c \in Conn,
             \/ RestartLog(c) \/ RestartHdr1(c) \/ RestartHdr0(c) \/ RestartInfo(c)
             \/ WriteWalHdr(c) \/ SyncWalHdr(c) \/ WriteFrame(c) \/ SyncFrames(c)
             \/ AppendIndex(c) \/ CommitHdr0(c) \/ FramesFail(c) \/ Rollback(c)
      PROVE  Heads'
  BY <1>5, RestartLogHeads, RestartHdr1Heads, RestartHdr0Heads, RestartInfoHeads, WriteWalHdrHeads,
     SyncWalHdrHeads, WriteFrameHeads, SyncFramesHeads, AppendIndexHeads, CommitHdr0Heads,
     FramesFailHeads, RollbackHeads
<1>6. ASSUME NEW c \in Conn,
             \/ Checkpoint(c) \/ CkStart(c) \/ CkMark(c) \/ CkPut(c) \/ CkLock0(c) \/ CkSync(c)
             \/ CkPage(c) \/ CkTrunc(c) \/ CkDbSync(c) \/ CkDone(c) \/ CkEnd(c) \/ CkFails(c)
             \/ Close(c) \/ FinishClose(c) \/ Kill(c)
      PROVE  Heads'
  BY <1>6, CheckpointHeads, CkStartHeads, CkMarkHeads, CkPutHeads, CkLock0Heads, CkFileHeads,
     CkEndHeads, CloseHeads, FinishCloseHeads, NoKill DEF Ctl
<1>7. QED BY <1>1, <1>2, <1>3, <1>4, <1>5, <1>6 DEF Next
-----------------------------------------------------------------------------
(* What a step leaves of the database *)

\* The published header, nBackfill and the file are as before.
SameBase == shm'.hdr[0] = H /\ shm'.nBackfill = shm.nBackfill /\ db' = db

\* So are the first n frames and their pages.
SamePrefix(n) == \A i \in 1..n : shm'.aPgno[i] = shm.aPgno[i] /\ wal'.frames[i] = wal.frames[i]

\* So is everything else that a reader, a writer or a checkpointer looks at.
SameLog == shm'.aPgno = shm.aPgno /\ wal'.frames = wal.frames

LEMMA FIs == ASSUME NEW m \in Nat, NEW p
             PROVE  /\ F(m, p) \in 0..m /\ (F(m, p) # 0 => shm.aPgno[F(m, p)] = p)
                    /\ \A i \in 1..m : shm.aPgno[i] = p => i <= F(m, p)
BY LastFrameIs DEF F

LEMMA FOfPrefix == ASSUME NEW m \in Nat, NEW k \in 0..m, NEW p
                   PROVE  F(k, p) <= F(m, p) /\ (F(m, p) <= k => F(k, p) = F(m, p))
BY LastFrameOfPrefix DEF F

LEMMA FileKept ==
  ASSUME db' = db
  PROVE  /\ \A p : DbAt(p)' = DbAt(p)
         /\ \A h : Size(h)' = Size(h) /\ FileView(h)' = FileView(h)
<1>1. (\A p : DbAt(p)' = DbAt(p)) /\ \A h : Size(h)' = Size(h)
  BY DEF DbAt, Size
<1>2. QED BY <1>1 DEF FileView

LEMMA PrefixKept ==
  ASSUME SameBase, NEW n \in Nat, SamePrefix(n)
  PROVE  /\ H' = H /\ mxH' = mxH
         /\ \A m \in 0..n : \A p : F(m, p)' = F(m, p) /\ At(m, p)' = At(m, p)
         /\ \A h : (Follows(h)' <=> Follows(h))
         /\ \A h : h.mxFrame \in 0..n => LogView(h)' = LogView(h)
         /\ mxH \in 0..n => Current' = Current /\ \A h : Growth(h)' <=> Growth(h)
         /\ \A f \in 1..n : \A p : InFile(p, f)' <=> InFile(p, f)
<1>1. H' = H /\ mxH' = mxH
  BY DEF SameBase, H, mxH
<1>2. ASSUME NEW m \in 0..n, NEW p PROVE F(m, p)' = F(m, p) /\ At(m, p)' = At(m, p)
  <2>1. \A i \in 1..m : shm'.aPgno[i] = shm.aPgno[i] /\ wal'.frames[i] = wal.frames[i]
    BY DEF SamePrefix
  <2>2. F(m, p)' = F(m, p)
    BY <2>1, LastFrameAgrees, SMTT(30) DEF F
  <2>3. F(m, p) \in 0..m
    BY FIs
  <2>4. DbAt(p)' = DbAt(p)
    BY FileKept DEF SameBase
  <2>5. QED BY <2>1, <2>2, <2>3, <2>4 DEF At
<1>3. \A h : (Follows(h)' <=> Follows(h))
  BY <1>1 DEF Follows
<1>4. ASSUME NEW h, h.mxFrame \in 0..n PROVE LogView(h)' = LogView(h)
  <2>1. Size(h)' = Size(h)
    BY FileKept DEF SameBase
  <2>2. QED BY <1>2, <1>4, <2>1 DEF LogView
<1>5. mxH \in 0..n => Current' = Current
  <2>1. Size(H)' = Size(H)
    BY <1>1, FileKept DEF SameBase
  <2>2. QED BY <1>1, <1>2, <2>1 DEF Current, LogView, mxH
<1>6. mxH \in 0..n => \A h : Growth(h)' <=> Growth(h)
  BY <1>1, <1>2 DEF Growth
<1>7. \A f \in 1..n : \A p : InFile(p, f)' <=> InFile(p, f)
  BY DEF InFile, SamePrefix, SameBase
<1>8. QED BY <1>1, <1>2, <1>3, <1>4, <1>5, <1>6, <1>7

LEMMA LogKept ==
  ASSUME SameBase, SameLog
  PROVE  /\ H' = H /\ mxH' = mxH
         /\ \A m, p : F(m, p)' = F(m, p) /\ At(m, p)' = At(m, p)
         /\ \A h : (Follows(h)' <=> Follows(h)) /\ LogView(h)' = LogView(h) /\ (Growth(h)' <=> Growth(h))
         /\ Current' = Current
         /\ \A p, f : InFile(p, f)' <=> InFile(p, f)
         /\ \A m, k, X : Overlays(m, k, X)' <=> Overlays(m, k, X)
<1>1. H' = H /\ mxH' = mxH
  BY DEF SameBase, H, mxH
<1>2. \A m, p : F(m, p)' = F(m, p) /\ At(m, p)' = At(m, p)
  <2>1. \A m, p : F(m, p)' = F(m, p)
    BY DEF F, SameLog
  <2>2. \A p : DbAt(p)' = DbAt(p)
    BY FileKept DEF SameBase
  <2>3. QED BY <2>1, <2>2 DEF At, SameLog
<1>3. \A h : Size(h)' = Size(h)
  BY FileKept DEF SameBase
<1>4. \A h : LogView(h)' = LogView(h)
  BY <1>2, <1>3 DEF LogView
<1>5. \A h : (Follows(h)' <=> Follows(h)) /\ (Growth(h)' <=> Growth(h))
  BY <1>1, <1>2 DEF Follows, Growth
<1>6. Current' = Current
  BY <1>1, <1>4 DEF Current
<1>7. \A p, f : InFile(p, f)' <=> InFile(p, f)
  BY DEF InFile, SameBase, SameLog
<1>8. Size(H)' = Size(H)
  BY <1>1, <1>3
<1>9. \A m, k, X : Overlays(m, k, X)' <=> Overlays(m, k, X)
  BY <1>1, <1>2, <1>8 DEF Overlays
<1>10. QED BY <1>1, <1>2, <1>4, <1>5, <1>6, <1>7, <1>9

-----------------------------------------------------------------------------
(* What a step leaves of the others *)

LEMMA DataIs ==
  ASSUME Ctl, Heads, Data, NEW c \in Conn
  PROVE  /\ WalTypeOK /\ CtlAt(c) /\ HeadAt(c) /\ DataAt(c) /\ BackfillInv
         /\ RelyAt(c) /\ ReadAt(c) /\ WriteAt(c) /\ CkAt(c)
         /\ mxH \in Nat /\ H.nPage \in Nat /\ w[c].hdr.mxFrame \in Nat /\ w[c].hdr.nPage \in Nat
         /\ shm.nBackfill \in Nat /\ w[c].readLock \in (-1)..(NReader - 1) /\ NReader \in Nat
         /\ call[c].i \in Nat /\ call[c].mxSafeFrame \in Nat /\ call[c].nBackfill \in Nat
         /\ (w[c].readLock >= 1 => w[c].readLock \in Readers)
<1>1. WalTypeOK /\ CtlAt(c) /\ HeadAt(c) /\ DataAt(c) /\ BackfillInv
  BY DEF Ctl, Heads, Data
<1>2. /\ mxH \in Nat /\ H.nPage \in Nat /\ w[c].hdr.mxFrame \in Nat /\ w[c].hdr.nPage \in Nat
  BY <1>1, Types, HdrIs DEF mxH
<1>3. /\ shm.nBackfill \in Nat /\ w[c].readLock \in (-1)..(NReader - 1) /\ NReader \in Nat
      /\ call[c].i \in Nat /\ call[c].mxSafeFrame \in Nat /\ call[c].nBackfill \in Nat
  BY <1>1, WalAssumption DEF WalTypeOK, Index, WalObj, Call
<1>4. w[c].readLock >= 1 => w[c].readLock \in Readers
  BY <1>3 DEF Readers
<1>5. QED BY <1>1, <1>2, <1>3, <1>4 DEF DataAt

\* A read mark that somebody reads at is not moved.
MarksKept(c) == \A i \in Readers : shm'.aReadMark[i] = shm.aReadMark[i] \/ READ(i) \in exclMask[c]

\* A new reader reads the newest frames.
ReadsOn(c) ==
  w'[c].readLock >= 1 =>
    \/ w'[c].hdr.mxFrame >= mxH
    \/ w'[c].readLock = w[c].readLock /\ w'[c].hdr.mxFrame = w[c].hdr.mxFrame

LEMMA MarkKept ==
  ASSUME Ctl, NEW c \in Conn, NEW d \in Conn, d # c, MarksKept(c), w[d].readLock >= 1
  PROVE  shm'.aReadMark[w[d].readLock] = shm.aReadMark[w[d].readLock]
<1>1. CtlAt(d) /\ exclMask[c] \cap sharedMask[d] = {} /\ w[d].readLock \in (-1)..(NReader - 1)
      /\ NReader \in Nat
  BY WalAssumption DEF Ctl, Excluded, WalTypeOK, WalObj
<1>2. READ(w[d].readLock) \in sharedMask[d] /\ w[d].readLock \in Readers
  BY <1>1 DEF CtlAt, LocksAt, Readers
<1>3. QED BY <1>1, <1>2 DEF MarksKept

\* What holds of a checkpointer does not depend on the others but for the readers.
LEMMA CkKept ==
  ASSUME Ctl, Heads, Data, NEW c \in Conn, NEW d \in Conn, d # c, Others(c), SameBase,
         SamePrefix(mxH), ReadsOn(c), w'[c] \in WalObj
  PROVE  CkAt(d)'
<1>1. /\ CkAt(d) /\ CtlAt(d) /\ mxH \in Nat /\ w[d].hdr.mxFrame \in Nat /\ call[d].mxSafeFrame \in Nat
      /\ call[d].nBackfill \in Nat /\ shm.nBackfill \in Nat /\ call[d].i \in Nat
  BY DataIs
<1>2. pc'[d] = pc[d] /\ call'[d] = call[d] /\ w'[d] = w[d]
  BY DEF Others
<1>3. /\ H' = H /\ mxH' = mxH /\ shm'.nBackfill = shm.nBackfill
      /\ \A m \in 0..mxH : \A p : F(m, p)' = F(m, p)
      /\ \A h : (Follows(h)' <=> Follows(h)) /\ (Growth(h)' <=> Growth(h))
      /\ \A f \in 1..mxH : \A p : InFile(p, f)' <=> InFile(p, f)
  BY <1>1, PrefixKept DEF SameBase
<1> DEFINE mx == w[d].hdr.mxFrame
<1>4. CASE pc[d] \notin CkRunPc
  BY <1>1, <1>2, <1>3, <1>4 DEF CkAt, CkRunPc, CkWritePc
<1>5. CASE pc[d] \in CkRunPc
  <2>1. Follows(w[d].hdr) /\ Growth(w[d].hdr) /\ mx \in 0..mxH
    BY <1>1, <1>5 DEF CkAt, Follows
  <2>2. \A p : F(mx, p)' = F(mx, p)
    BY <1>2, <1>3, <2>1
  <2>3. ASSUME NEW e \in Conn, w'[e].readLock \in 1..(call[d].i - 1)
        PROVE  call[d].mxSafeFrame <= w'[e].hdr.mxFrame
    <3>1. \A x \in Conn : w[x].readLock \in 1..(call[d].i - 1) => call[d].mxSafeFrame <= w[x].hdr.mxFrame
      BY <1>1, <1>5 DEF CkAt
    <3>2. CASE e # c
      BY <2>3, <3>1, <3>2 DEF Others
    <3>3. CASE e = c
      <4>1. call[d].mxSafeFrame <= mx /\ mx <= mxH
        BY <1>1, <1>5, <2>1 DEF CkAt
      <4>2. w'[c].hdr.mxFrame \in Nat
        BY HdrIs DEF WalObj
      <4>3. QED BY <1>1, <2>1, <2>3, <3>1, <3>3, <4>1, <4>2 DEF ReadsOn
    <3>4. QED BY <3>2, <3>3
  <2>4. \A t \in call[d].todo : t[2] = F(mx, t[1])
    BY <1>1, <1>5 DEF CkAt
  <2>5. pc[d] \in {"ckmark", "ckput", "cklock0"} =>
          \A p \in Nat : F(mx, p) # 0 => <<p, F(mx, p)>> \in call[d].todo
    BY <1>1 DEF CkAt
  <2>6. pc[d] \in CkWritePc =>
       /\ call[d].nBackfill = shm.nBackfill /\ shm.nBackfill < call[d].mxSafeFrame
       /\ \A p \in 1..w[d].hdr.nPage :
            F(mx, p) \in (call[d].nBackfill + 1)..call[d].mxSafeFrame =>
              \/ pc[d] \in {"cksync", "ckpage"} /\ <<p, F(mx, p)>> \in call[d].todo
              \/ InFile(p, F(mx, p))'
    <3>1. \A p : F(mx, p) \in 0..mx
      BY <1>1, FIs
    <3>2. \A p : F(mx, p) \in (call[d].nBackfill + 1)..call[d].mxSafeFrame => F(mx, p) \in 1..mxH
      BY <1>1, <2>1, <3>1
    <3>3. HAVE pc[d] \in CkWritePc
    <3>4. /\ call[d].nBackfill = shm.nBackfill /\ shm.nBackfill < call[d].mxSafeFrame
          /\ \A p \in 1..w[d].hdr.nPage :
               F(mx, p) \in (call[d].nBackfill + 1)..call[d].mxSafeFrame =>
                 \/ pc[d] \in {"cksync", "ckpage"} /\ <<p, F(mx, p)>> \in call[d].todo
                 \/ InFile(p, F(mx, p))
      BY <1>1, <3>3 DEF CkAt
    <3>5. \A p : F(mx, p) \in (call[d].nBackfill + 1)..call[d].mxSafeFrame =>
                  (InFile(p, F(mx, p)) => InFile(p, F(mx, p))')
      <4>1. TAKE p
      <4>2. HAVE F(mx, p) \in (call[d].nBackfill + 1)..call[d].mxSafeFrame
      <4>3. F(mx, p) \in 1..mxH /\ F(mx, p)' = F(mx, p)
        BY <2>2, <3>2, <4>2
      <4>4. \A f \in 1..mxH : InFile(p, f)' <=> InFile(p, f)
        BY <1>3
      <4>5. QED BY <4>3, <4>4
    <3>6. QED BY <3>4, <3>5
  <2>7. (\A t \in call[d].todo : t[2] = F(mx, t[1]))'
    BY <1>2, <2>2, <2>4
  <2>8. (pc[d] \in {"ckmark", "ckput", "cklock0"} =>
          \A p \in Nat : F(mx, p) # 0 => <<p, F(mx, p)>> \in call[d].todo)'
    BY <1>2, <2>2, <2>5
  <2>9. shm.nBackfill < mx /\ call[d].mxSafeFrame <= mx
    BY <1>1, <1>5 DEF CkAt
  <2>10. pc[d] # "ckstart"
    BY <1>5 DEF CkRunPc, CkWritePc
  <2>11. (pc[d] \in CkWritePc =>
       /\ call[d].nBackfill = shm.nBackfill /\ shm.nBackfill < call[d].mxSafeFrame
       /\ \A p \in 1..w[d].hdr.nPage :
            F(mx, p) \in (call[d].nBackfill + 1)..call[d].mxSafeFrame =>
              \/ pc[d] \in {"cksync", "ckpage"} /\ <<p, F(mx, p)>> \in call[d].todo
              \/ InFile(p, F(mx, p)))'
    BY <1>2, <1>3, <2>2, <2>6
  <2>12. QED BY <1>2, <1>3, <2>1, <2>3, <2>7, <2>8, <2>9, <2>10, <2>11 DEF CkAt
<1>6. QED BY <1>4, <1>5

LEMMA RelyKept ==
  ASSUME Ctl, Heads, Data, NEW c \in Conn, NEW d \in Conn, d # c, Others(c), SameBase,
         SamePrefix(mxH)
  PROVE  RelyAt(d)'
<1>1. RelyAt(d) /\ mxH \in Nat
  BY DataIs
<1>2. pc'[d] = pc[d] /\ call'[d] = call[d] /\ w'[d] = w[d] /\ cached'[d] = cached[d] /\ mine'[d] = mine[d]
  BY DEF Others
<1>3. H' = H /\ Current' = Current
  BY <1>1, PrefixKept
<1>4. QED BY <1>1, <1>2, <1>3 DEF RelyAt, InWrite

LEMMA ReadKept ==
  ASSUME Ctl, Heads, Data, NEW c \in Conn, NEW d \in Conn, d # c, Others(c), SameBase,
         SamePrefix(mxH), MarksKept(c)
  PROVE  ReadAt(d)'
<1>1. ReadAt(d) /\ mxH \in Nat /\ w[d].hdr.mxFrame \in Nat
  BY DataIs
<1>2. pc'[d] = pc[d] /\ call'[d] = call[d] /\ w'[d] = w[d] /\ cached'[d] = cached[d] /\ mine'[d] = mine[d]
  BY DEF Others
<1>3. /\ H' = H /\ mxH' = mxH /\ shm'.nBackfill = shm.nBackfill
      /\ \A h : (Follows(h)' <=> Follows(h)) /\ FileView(h)' = FileView(h)
      /\ \A h : h.mxFrame \in 0..mxH => LogView(h)' = LogView(h)
  BY <1>1, PrefixKept, FileKept DEF SameBase
<1>4. w[d].readLock >= 1 => shm'.aReadMark[w[d].readLock] = shm.aReadMark[w[d].readLock]
  BY MarkKept
<1>5. (~InWrite(d) /\ w[d].readLock >= 1 => Follows(w[d].hdr) /\ cached[d] = LogView(w[d].hdr))'
  <2>1. ASSUME ~InWrite(d), w[d].readLock >= 1
        PROVE  Follows(w[d].hdr)' /\ cached[d] = LogView(w[d].hdr)'
    <3>1. Follows(w[d].hdr) /\ cached[d] = LogView(w[d].hdr)
      BY <1>1, <2>1 DEF ReadAt
    <3>2. w[d].hdr.mxFrame \in 0..mxH
      BY <1>1, <3>1 DEF Follows
    <3>3. QED BY <1>2, <1>3, <3>1, <3>2
  <2>2. QED BY <1>2, <2>1 DEF InWrite
<1>6. (~InWrite(d) /\ w[d].readLock = 0 => cached[d] = FileView(w[d].hdr))'
  BY <1>1, <1>2, <1>3 DEF ReadAt, InWrite
<1>7. ((w[d].readLock = 0 /\ ~InWrite(d)) \/ pc[d] = "lock0" => (w[d].hdr = H => shm.nBackfill >= mxH))'
  BY <1>1, <1>2, <1>3 DEF ReadAt, InWrite
<1>8. (w[d].readLock >= 1 => /\ shm.aReadMark[w[d].readLock] <= w[d].hdr.mxFrame
                             /\ shm.aReadMark[w[d].readLock] <= mxH)'
  BY <1>1, <1>2, <1>3, <1>4 DEF ReadAt
<1>9. QED BY <1>5, <1>6, <1>7, <1>8 DEF ReadAt

LEMMA WriteKept ==
  ASSUME Ctl, Heads, Data, NEW c \in Conn, NEW d \in Conn, d # c, Others(c), SameBase,
         SameLog \/ WRITE \in exclMask[c]
  PROVE  WriteAt(d)'
<1>1. WriteAt(d)
  BY DataIs
<1>2. pc'[d] = pc[d] /\ call'[d] = call[d] /\ w'[d] = w[d] /\ cached'[d] = cached[d] /\ mine'[d] = mine[d]
  BY DEF Others
<1>3. CASE WRITE \in exclMask[c]
  BY <1>2, <1>3, WriterAlone DEF WriteAt, InWrite
<1>4. CASE SameLog
  <2>1. /\ H' = H /\ mxH' = mxH /\ shm'.nBackfill = shm.nBackfill /\ Current' = Current
        /\ \A m, k, X : Overlays(m, k, X)' <=> Overlays(m, k, X)
    BY <1>4, LogKept DEF SameBase
  <2>2. (InWrite(d)' <=> InWrite(d)) /\ Pending(d)' = Pending(d) /\ UndoTo(d)' = UndoTo(d)
    BY <1>2 DEF InWrite, Pending, UndoTo
  <2>3. SvptAt(d)' <=> SvptAt(d)
    BY <1>2, <2>1, <2>2 DEF SvptAt
  <2>4. ContentAt(d)' <=> ContentAt(d)
    BY <1>2, <1>4, <2>1 DEF ContentAt, SameLog
  <2>5. Overlays(mine[d], w[d].hdr.mxFrame, Pending(d))' <=> Overlays(mine[d], w[d].hdr.mxFrame, Pending(d))
    BY <1>2, <2>1, <2>2
  <2>6. QED BY <1>1, <1>2, <2>1, <2>2, <2>3, <2>4, <2>5 DEF WriteAt
<1>5. QED BY <1>3, <1>4

\* A step of c that leaves the database as it was.
LEMMA DataStep ==
  ASSUME Ctl, Heads, Data, NEW c \in Conn, Others(c), SameBase, SamePrefix(mxH),
         SameLog \/ WRITE \in exclMask[c], MarksKept(c), ReadsOn(c), w'[c] \in WalObj,
         pc'[c] = "restartinfo" <=> pc[c] = "restartinfo", \E d \in Conn : pc[d] # "closed",
         DataAt(c)'
  PROVE  Data'
<1>1. BackfillInv /\ mxH \in Nat
  BY DataIs
<1>2. /\ H' = H /\ mxH' = mxH /\ shm'.nBackfill = shm.nBackfill
      /\ \A p : F(mxH, p)' = F(mxH, p) /\ F(mxH, p) \in 0..mxH
      /\ \A f \in 1..mxH : \A p : InFile(p, f)' <=> InFile(p, f)
  BY <1>1, PrefixKept, FIs, mxH \in 0..mxH DEF SameBase
<1>3. BackfillInv'
  <2>1. (\A d \in Conn : pc'[d] # "restartinfo") => \A d \in Conn : pc[d] # "restartinfo"
    BY DEF Others
  <2>2. ASSUME NEW p \in 1..H.nPage, F(mxH, p) \in 1..shm.nBackfill PROVE InFile(p, F(mxH, p))'
    <3>1. InFile(p, F(mxH, p)) /\ F(mxH, p) \in 1..mxH
      BY <1>1, <1>2, <2>2 DEF BackfillInv
    <3>2. QED BY <1>2, <3>1
  <2>3. QED BY <1>1, <1>2, <2>1, <2>2 DEF BackfillInv
<1>4. ASSUME NEW d \in Conn PROVE DataAt(d)'
  <2>1. CASE d # c
    BY <2>1, RelyKept, ReadKept, WriteKept, CkKept DEF DataAt
  <2>2. CASE d = c
    BY <2>2
  <2>3. QED BY <2>1, <2>2
<1>5. QED BY <1>3, <1>4 DEF Data

-----------------------------------------------------------------------------
(* Beginning and ending to read: Data is kept *)

LEMMA NotWriting == ASSUME NEW c \in Conn, mine'[c] = None PROVE WriteAt(c)'
BY DEF WriteAt, InWrite

LEMMA NotCheckpointing ==
  ASSUME NEW c \in Conn, pc'[c] \notin {"ckstart"} \cup CkRunPc
  PROVE  CkAt(c)'
BY DEF CkAt, CkRunPc, CkWritePc

\* What the cache of c holds after a step on which it relies no more than before.
LEMMA RelyOwn ==
  ASSUME Ctl, Heads, Data, NEW c \in Conn, H' = H, Current' = Current,
         \/ cached'[c] = None
         \/ call'[c].changed
         \/ /\ cached'[c] = cached[c] /\ w[c].readLock = -1 /\ ~InWrite(c)
            /\ ~call[c].changed /\ w'[c].hdr = w[c].hdr
  PROVE  RelyAt(c)'
<1>1. RelyAt(c)
  BY DataIs
<1>2. QED BY <1>1 DEF RelyAt, InWrite

LEMMA SameAll ==
  ASSUME UNCHANGED <<shm, files>>, NEW c \in Conn
  PROVE  SameBase /\ SameLog /\ SamePrefix(mxH) /\ MarksKept(c)
BY DEF SameBase, SameLog, SamePrefix, MarksKept, H, files

\* A step outside of read transactions, write transactions and checkpoints.
LEMMA CallData ==
  ASSUME Ctl, Heads, Data, NEW c \in Conn, pc[c] \notin {"closed", "restartinfo"}, Others(c),
         UNCHANGED <<shm, files>>, w'[c] \in WalObj, mine'[c] = None, w'[c].readLock = -1,
         pc'[c] \notin {"ckstart", "restartinfo"} \cup CkRunPc,
         pc'[c] = "lock0" => (w'[c].hdr = H => shm.nBackfill >= mxH),
         \/ cached'[c] = None
         \/ call'[c].changed
         \/ /\ cached'[c] = cached[c] /\ w[c].readLock = -1 /\ ~InWrite(c)
            /\ ~call[c].changed /\ w'[c].hdr = w[c].hdr
  PROVE  Data'
<1>1. SameBase /\ SameLog /\ SamePrefix(mxH) /\ MarksKept(c)
  BY SameAll
<1>2. ReadsOn(c)
  BY DEF ReadsOn
<1>3. H' = H /\ mxH' = mxH /\ Current' = Current /\ shm'.nBackfill = shm.nBackfill
  BY <1>1, LogKept DEF SameBase
<1>4. RelyAt(c)'
  BY <1>3, RelyOwn
<1>5. ReadAt(c)'
  BY <1>3 DEF ReadAt
<1>6. DataAt(c)'
  BY <1>4, <1>5, NotWriting, NotCheckpointing DEF DataAt
<1>7. QED BY <1>1, <1>2, <1>6, DataStep

LEMMA BeginReadData == ASSUME Ctl, Heads, Data, NEW c \in Conn, BeginRead(c) PROVE Data'
<1>1. WalTypeOK /\ CtlAt(c) /\ Steady /\ w[c].readLock \in (-1)..(NReader - 1) /\ NReader \in Nat
  BY DataIs DEF Ctl
<1> DEFINE k == [NoCall EXCEPT !.mode = "read"]
<1>2. /\ pc[c] = "idle" /\ w[c].readLock = -1 /\ Calls(c, "hdr0", k)
      /\ UNCHANGED <<shm, files>>
  BY <1>1, BeginReadDoes
<1> HIDE DEF k
<1>3. /\ Others(c) /\ pc'[c] = "hdr0" /\ w'[c] = w[c] /\ cached'[c] = cached[c] /\ mine'[c] = mine[c]
  BY <1>2, OthersKept DEF Calls
<1>4. ~InWrite(c) /\ call[c] = NoCall
  BY <1>1, <1>2 DEF CtlAt, TransAt, ModeAt
<1>5. ~call[c].changed /\ w[c] \in WalObj /\ mine'[c] = None
  BY <1>1, <1>3, <1>4, Types DEF NoCall, InWrite
<1>6. QED BY <1>2, <1>3, <1>4, <1>5, CallData DEF CkRunPc, CkWritePc

\* A step that changes only the step.
LEMMA MoveData ==
  ASSUME Ctl, Heads, Data, NEW c \in Conn, NEW to, Moves(c, to), Quiet,
         pc[c] \notin {"closed", "restartinfo"}, w[c].readLock = -1, ~InWrite(c),
         to \notin {"ckstart", "restartinfo"} \cup CkRunPc,
         to = "lock0" => (w[c].hdr = H => shm.nBackfill >= mxH)
  PROVE  Data'
<1>1. WalTypeOK
  BY DEF Ctl
<1>2. /\ Others(c) /\ pc'[c] = to /\ call'[c] = call[c] /\ w'[c] = w[c] /\ cached'[c] = cached[c]
      /\ mine'[c] = None /\ UNCHANGED <<shm, files>>
  BY OthersKept DEF Moves, Quiet, InWrite
<1>3. w'[c] \in WalObj
  BY <1>1, <1>2, Types
<1>4. call'[c].changed \/ ~call[c].changed
  BY <1>2
<1>5. QED BY <1>2, <1>3, <1>4, CallData

LEMMA ReadHdr0Data == ASSUME Ctl, Heads, Data, NEW c \in Conn, ReadHdr0(c) PROVE Data'
<1>1. WalTypeOK /\ CtlAt(c)
  BY DataIs
<1> DEFINE k == [call[c] EXCEPT !.h1 = H]
<1>2. pc[c] = "hdr0" /\ Calls(c, "hdr1", k) /\ Quiet
  BY <1>1, ReadHdr0Does
<1>3. k.changed = call[c].changed
  BY <1>1 DEF WalTypeOK, Call
<1> HIDE DEF k
<1>4. /\ Others(c) /\ pc'[c] = "hdr1" /\ call'[c] = k /\ w'[c] = w[c] /\ cached'[c] = cached[c]
      /\ mine'[c] = mine[c] /\ UNCHANGED <<shm, files>>
  BY <1>2, OthersKept DEF Calls, Quiet
<1>5. w[c].readLock = -1 /\ ~InWrite(c) /\ w[c] \in WalObj
  BY <1>1, <1>2, Types DEF CtlAt, TransAt, ModeAt, HdrPc, WritePc, RestartPc, FramePc, InWrite
<1>6. QED BY <1>2, <1>3, <1>4, <1>5, CallData DEF InWrite, CkRunPc, CkWritePc

\* The current header is taken.
LEMMA AdoptData ==
  ASSUME Ctl, Heads, Data, NEW c \in Conn, pc[c] \in {"hdr1", "hdragain"}, Quiet, Adopts(c, H)
  PROVE  Data'
<1> DEFINE k == [call[c] EXCEPT !.changed = @ \/ w[c].hdr # H]
           o == [w[c] EXCEPT !.hdr = H]
<1>1. WalTypeOK /\ CtlAt(c) /\ H \in Hdr
  BY DataIs, Types
<1>2. /\ k.changed = (call[c].changed \/ w[c].hdr # H) /\ o.hdr = H /\ o.readLock = w[c].readLock
      /\ o \in WalObj
  BY <1>1, ZenonT(40) DEF WalTypeOK, Call, WalObj
<1> HIDE DEF k, o
<1>3. /\ Others(c) /\ pc'[c] = AfterHdr(c) /\ call'[c] = k /\ w'[c] = o /\ cached'[c] = cached[c]
      /\ mine'[c] = mine[c] /\ UNCHANGED <<shm, files>>
  BY OthersKept DEF Adopts, Quiet, k, o
<1>4. w[c].readLock = -1 /\ ~InWrite(c)
  BY <1>1 DEF CtlAt, TransAt, ModeAt, HdrPc, WritePc, RestartPc, FramePc, InWrite
<1>5. SameBase /\ SameLog /\ SamePrefix(mxH) /\ MarksKept(c)
  BY <1>3, SameAll
<1>6. ReadsOn(c)
  BY <1>2, <1>3, <1>4 DEF ReadsOn
<1>7. H' = H /\ mxH' = mxH /\ Current' = Current /\ shm'.nBackfill = shm.nBackfill
  BY <1>5, LogKept DEF SameBase
<1>8. RelyAt(c)'
  BY <1>2, <1>3, <1>4, <1>7, RelyOwn
<1>9. AfterHdr(c) \in {"nbackfill", "ckstart"}
  BY DEF AfterHdr
<1>10. ReadAt(c)'
  BY <1>2, <1>3, <1>4, <1>9 DEF ReadAt
<1>11. CkAt(c)'
  <2>1. Follows(w[c].hdr)' /\ Growth(w[c].hdr)'
    <3>1. mxH \in Nat /\ H.nPage \in Nat /\ mxH = H.mxFrame
      BY DataIs DEF mxH
    <3>2. Follows(H) /\ Growth(H)
      BY <3>1 DEF Follows, Growth
    <3>3. QED BY <1>2, <1>3, <1>5, <3>2, LogKept
  <2>2. QED BY <1>3, <1>9, <2>1 DEF CkAt, CkRunPc, CkWritePc
<1>12. DataAt(c)'
  BY <1>3, <1>4, <1>8, <1>10, <1>11, NotWriting DEF DataAt, InWrite
<1>13. QED BY <1>2, <1>3, <1>5, <1>6, <1>9, <1>12, DataStep

LEMMA RefusedData ==
  ASSUME Ctl, Heads, Data, NEW c \in Conn, pc[c] \in {"hdrlock", "hdragain"}, Quiet, Refused(c)
  PROVE  Data'
<1>1. WalTypeOK /\ CtlAt(c) /\ w[c] \in WalObj
  BY DataIs, Types
<1>2. w[c].readLock = -1 /\ ~InWrite(c)
  BY <1>1 DEF CtlAt, TransAt, ModeAt, HdrPc, WritePc, RestartPc, FramePc, InWrite
<1>3. CASE Moves(c, "ckend") \/ Moves(c, "hdr0")
  BY <1>2, <1>3, MoveData DEF CkRunPc, CkWritePc
<1>4. CASE Does(c, "idle", NoCall, w[c], None, mine[c])
  <2>1. /\ Others(c) /\ pc'[c] = "idle" /\ w'[c] = w[c] /\ cached'[c] = None
        /\ mine'[c] = None /\ UNCHANGED <<shm, files>>
    BY <1>2, <1>4, OthersKept DEF Quiet, InWrite
  <2>2. QED BY <1>1, <1>2, <2>1, CallData DEF CkRunPc, CkWritePc
<1>5. QED BY <1>3, <1>4 DEF Refused

LEMMA ReadHdr1Data == ASSUME Ctl, Heads, Data, NEW c \in Conn, ReadHdr1(c) PROVE Data'
<1>1. WalTypeOK /\ CtlAt(c)
  BY DataIs
<1>2. pc[c] = "hdr1" /\ Quiet
  BY <1>1, ReadHdr1Does
<1>3. CASE call[c].h1 = shm.hdr[1] /\ call[c].h1.isInit /\ Adopts(c, call[c].h1)
  <2>1. call[c].h1 = H
    BY <1>2, <1>3, SeenIsCurrent
  <2>2. QED BY <1>2, <1>3, <2>1, AdoptData
<1>4. CASE Moves(c, "hdrlock")
  <2>1. w[c].readLock = -1 /\ ~InWrite(c)
    BY <1>1, <1>2 DEF CtlAt, TransAt, ModeAt, HdrPc, WritePc, RestartPc, FramePc, InWrite
  <2>2. QED BY <1>2, <1>4, <2>1, MoveData DEF CkRunPc, CkWritePc
<1>5. QED BY <1>1, <1>3, <1>4, ReadHdr1Does

LEMMA LockHdrData == ASSUME Ctl, Heads, Data, NEW c \in Conn, LockHdr(c) PROVE Data'
<1>1. WalTypeOK /\ CtlAt(c)
  BY DataIs
<1>2. pc[c] = "hdrlock" /\ Quiet
  BY <1>1, LockHdrDoes
<1>3. w[c].readLock = -1 /\ ~InWrite(c)
  BY <1>1, <1>2 DEF CtlAt, TransAt, ModeAt, HdrPc, WritePc, RestartPc, FramePc, InWrite
<1>4. CASE Moves(c, "hdragain")
  BY <1>2, <1>3, <1>4, MoveData DEF CkRunPc, CkWritePc
<1>5. CASE Refused(c)
  BY <1>2, <1>5, RefusedData
<1>6. QED BY <1>1, <1>4, <1>5, LockHdrDoes

LEMMA ReadHdrAgainData == ASSUME Ctl, Heads, Data, NEW c \in Conn, ReadHdrAgain(c) PROVE Data'
<1>1. WalTypeOK /\ CtlAt(c) /\ w[c] \in WalObj
  BY DataIs, Types
<1>2. pc[c] = "hdragain" /\ Quiet
  BY <1>1, ReadHdrAgainDoes
<1>3. w[c].readLock = -1 /\ ~InWrite(c)
  BY <1>1, <1>2 DEF CtlAt, TransAt, ModeAt, HdrPc, WritePc, RestartPc, FramePc, InWrite
<1>4. CASE Adopts(c, H)
  BY <1>2, <1>4, AdoptData
<1>5. CASE Calls(c, "recover", [call[c] EXCEPT !.changed = TRUE])
  <2> DEFINE k == [call[c] EXCEPT !.changed = TRUE]
  <2>1. k.changed
    BY <1>1 DEF WalTypeOK, Call
  <2> HIDE DEF k
  <2>2. /\ Others(c) /\ pc'[c] = "recover" /\ call'[c] = k /\ w'[c] = w[c] /\ cached'[c] = cached[c]
        /\ mine'[c] = None /\ UNCHANGED <<shm, files>>
    BY <1>2, <1>3, <1>5, OthersKept DEF Calls, Quiet, InWrite, k
  <2>3. QED BY <1>1, <1>2, <1>3, <2>1, <2>2, CallData DEF CkRunPc, CkWritePc
<1>6. CASE Refused(c)
  BY <1>2, <1>6, RefusedData
<1>7. QED BY <1>1, <1>4, <1>5, <1>6, ReadHdrAgainDoes

LEMMA CheckBackfillData == ASSUME Ctl, Heads, Data, NEW c \in Conn, CheckBackfill(c) PROVE Data'
<1>1. WalTypeOK /\ CtlAt(c) /\ mxH \in Nat
  BY DataIs
<1>2. pc[c] = "nbackfill" /\ Quiet
  BY <1>1, CheckBackfillDoes
<1>3. w[c].readLock = -1 /\ ~InWrite(c)
  BY <1>1, <1>2 DEF CtlAt, TransAt, ModeAt, HdrPc, WritePc, RestartPc, FramePc, InWrite
<1>4. CASE shm.nBackfill = w[c].hdr.mxFrame /\ Moves(c, "lock0")
  <2>1. w[c].hdr = H => shm.nBackfill >= mxH
    BY <1>1, <1>4 DEF mxH
  <2>2. QED BY <1>2, <1>3, <1>4, <2>1, MoveData DEF CkRunPc, CkWritePc
<1>5. CASE Moves(c, "marks")
  BY <1>2, <1>3, <1>5, MoveData DEF CkRunPc, CkWritePc
<1>6. QED BY <1>1, <1>4, <1>5, CheckBackfillDoes

\* When all of the log has been backfilled the file is the current database.
LEMMA FileIsCurrent ==
  ASSUME Ctl, Heads, Data, NEW c \in Conn, pc[c] # "closed", shm.nBackfill >= mxH
  PROVE  /\ Current = FileView(H)
         /\ \A p \in 1..Size(H) : At(mxH, p) = DbAt(p)
<1>1. mxH \in Nat /\ H.nPage \in Nat /\ shm.nBackfill \in Nat /\ BackfillInv /\ (mxH > 0 => H.nPage > 0)
  BY DataIs, HeadIs
<1>2. ASSUME NEW p \in 1..Size(H) PROVE At(mxH, p) = DbAt(p)
  <2>1. CASE F(mxH, p) = 0
    BY <2>1 DEF At
  <2>2. CASE F(mxH, p) # 0
    <3>1. F(mxH, p) \in 1..mxH
      BY <1>1, <2>2, FIs
    <3>2. F(mxH, p) \in 1..shm.nBackfill /\ p \in 1..H.nPage
      BY <1>1, <3>1 DEF Size
    <3>3. InFile(p, F(mxH, p))
      BY <1>1, <3>2 DEF BackfillInv
    <3>4. QED BY <2>2, <3>3 DEF InFile, At, DbAt
  <2>3. QED BY <2>1, <2>2
<1>3. Current = FileView(H)
  BY <1>2 DEF Current, LogView, FileView, mxH
<1>4. QED BY <1>2, <1>3

\* What a connection reads, by its read lock.
LEMMA ThroughIs ==
  ASSUME NEW o, o \in WalObj
  PROVE  Through(o) = IF o.readLock = 0 THEN FileView(o.hdr) ELSE LogView(o.hdr)
<1>1. DbSize(o) = Size(o.hdr)
  BY DEF DbSize, Size
<1>2. \A p : ReadPage(o, p) = IF o.readLock = 0 THEN DbAt(p) ELSE At(o.hdr.mxFrame, p)
  BY DEF ReadPage, DbAt, At, F
<1>3. QED BY <1>1, <1>2 DEF Through, FileView, LogView

\* A step of a write transaction that does not touch the frames.
LEMMA WriteOwn ==
  ASSUME Ctl, Heads, Data, NEW c \in Conn, SameBase, SameLog,
         pc[c] \in WritePc \cup MarkPc, pc[c] \notin RestartPc \cup {"commit0", "failed"},
         pc'[c] \in WritePc \cup MarkPc, pc'[c] \notin RestartPc \cup {"commit0"},
         mine'[c] = mine[c], cached'[c] = cached[c],
         w'[c].hdr = w[c].hdr, w'[c].svpt = w[c].svpt, w'[c].nCkpt = w[c].nCkpt,
         w'[c].readLock = 0 => w[c].readLock = 0,
         call'[c].list = call[c].list, call'[c].data = call[c].data,
         call'[c].nTruncate = call[c].nTruncate, call'[c].iFrame = call[c].iFrame,
         pc'[c] \in MarkPc => w[c].hdr = H \/ ~InWrite(c),
         pc'[c] \in {"walhdrsync", "frame", "framesync", "index"} =>
           pc[c] \in {"walhdrsync", "frame", "framesync", "index"}
  PROVE  WriteAt(c)'
<1>1. WriteAt(c) /\ CtlAt(c)
  BY DataIs
<1>2. /\ H' = H /\ mxH' = mxH /\ shm'.nBackfill = shm.nBackfill /\ Current' = Current
      /\ \A m, k, X : Overlays(m, k, X)' <=> Overlays(m, k, X)
  BY LogKept DEF SameBase
<1>3. (InWrite(c)' <=> InWrite(c)) /\ UndoTo(c)' = UndoTo(c)
  BY DEF InWrite, UndoTo
<1>4. Pending(c)' = Range(call[c].list) /\ Pending(c) = Range(call[c].list)
  BY DEF Pending, WritePc, MarkPc, FramePc, RestartPc
<1>5. ASSUME InWrite(c) PROVE SvptAt(c)'
  <2>1. SvptAt(c)
    BY <1>1, <1>5 DEF WriteAt
  <2>2. QED BY <1>2, <1>3, <2>1 DEF SvptAt, RestartPc
<1>6. ASSUME InWrite(c) PROVE ContentAt(c)'
  <2>1. ContentAt(c)
    <3>1. pc[c] # "idle"
      BY DEF WritePc, MarkPc, FramePc
    <3>2. QED BY <1>1, <1>6, <3>1 DEF WriteAt
  <2>2. /\ \A i, j \in 1..Len(call[c].list) : i # j => call[c].list[i] # call[c].list[j]
        /\ \A p \in Range(call[c].list) : p <= Len(mine[c]) => mine[c][p] = call[c].data
        /\ call[c].nTruncate # 0 => call[c].nTruncate = Len(mine[c])
    BY <2>1 DEF ContentAt
  <2>3. pc'[c] \in {"walhdrsync", "frame", "framesync", "index"} =>
          \A j \in 1..(call[c].iFrame - w[c].hdr.mxFrame) :
            wal'.frames[w[c].hdr.mxFrame + j].data = call[c].data
    BY <2>1 DEF ContentAt, SameLog
  <2>4. QED BY <2>2, <2>3 DEF ContentAt
<1>7. Overlays(mine[c], w[c].hdr.mxFrame, Pending(c))' <=> Overlays(mine[c], w[c].hdr.mxFrame, Pending(c))
  BY <1>2, <1>4
<1>8. QED BY <1>1, <1>2, <1>3, <1>5, <1>6, <1>7 DEF WriteAt, RestartPc

\* A read transaction begins under the current header.
LEMMA ReadBeginsData ==
  ASSUME Ctl, Heads, Data, NEW c \in Conn, pc[c] \in {"lock0", "lockmark"}, Quiet, w[c].hdr = H,
         NEW i \in Readers, ReadBegins(c, i),
         i = 0 => shm.nBackfill >= mxH /\ call[c].mode = "read",
         i # 0 => shm.aReadMark[i] <= mxH
  PROVE  Data'
<1> DEFINE o == [w[c] EXCEPT !.readLock = i]
<1>1. /\ WalTypeOK /\ CtlAt(c) /\ mxH \in Nat /\ RelyAt(c) /\ w[c] \in WalObj /\ NReader \in Nat
      /\ mxH = H.mxFrame
  BY DataIs, Types DEF mxH
<1>2. o \in WalObj /\ o.hdr = H /\ o.readLock = i /\ o.svpt = w[c].svpt /\ o.nCkpt = w[c].nCkpt
  BY <1>1 DEF WalObj, Readers
<1>3. SameBase /\ SameLog /\ SamePrefix(mxH) /\ MarksKept(c)
  BY SameAll DEF Quiet
<1>4. H' = H /\ mxH' = mxH /\ Current' = Current /\ shm'.nBackfill = shm.nBackfill /\ shm' = shm
      /\ (\A h : (Follows(h)' <=> Follows(h)) /\ LogView(h)' = LogView(h)) /\ FileView(H)' = FileView(H)
  BY <1>3, LogKept, FileKept DEF SameBase, Quiet
<1>5. i \in Nat
  BY <1>1 DEF Readers
<1>6. CASE call[c].mode = "read" /\ Does(c, "idle", NoCall, o, Filled(c, i), mine[c])
  <2> HIDE DEF o
  <2>1. /\ Others(c) /\ pc'[c] = "idle" /\ w'[c] = o /\ cached'[c] = Filled(c, i) /\ mine'[c] = mine[c]
    BY <1>6, OthersKept
  <2>2. w[c].readLock = -1 /\ ~InWrite(c)
    BY <1>1, <1>6 DEF CtlAt, TransAt, HdrPc, WritePc, RestartPc, FramePc, InWrite
  <2>3. Filled(c, i) = IF i = 0 THEN FileView(H) ELSE LogView(H)
    <3>1. Through(o) = IF i = 0 THEN FileView(H) ELSE LogView(H)
      BY <1>2, ThroughIs
    <3>2. CASE call[c].changed \/ cached[c] = None
      BY <3>1, <3>2 DEF Filled, o
    <3>3. CASE ~(call[c].changed \/ cached[c] = None)
      <4>1. Filled(c, i) = Current /\ Current = LogView(H)
        BY <1>1, <2>2, <3>3 DEF Filled, RelyAt, Current
      <4>2. i = 0 => Current = FileView(H)
        BY FileIsCurrent
      <4>3. QED BY <4>1, <4>2
    <3>4. QED BY <3>2, <3>3
  <2>4. Follows(H)
    BY <1>1 DEF Follows
  <2>5. LogView(w[c].hdr)' = LogView(H) /\ FileView(w[c].hdr)' = FileView(H) /\ Follows(w[c].hdr)'
    BY <1>2, <1>4, <2>1, <2>4
  <2>6. ReadAt(c)'
    BY <1>1, <1>2, <1>4, <1>5, <2>1, <2>3, <2>5 DEF ReadAt
  <2>7. RelyAt(c)'
    BY <1>2, <1>5, <2>1 DEF RelyAt
  <2>8. DataAt(c)'
    BY <2>1, <2>2, <2>6, <2>7, NotWriting, NotCheckpointing DEF DataAt, InWrite, CkRunPc, CkWritePc
  <2>9. ReadsOn(c)
    BY <1>1, <1>2, <2>1 DEF ReadsOn
  <2>10. QED BY <1>2, <1>3, <2>1, <2>8, <2>9, DataStep
<1>7. CASE call[c].mode # "read" /\ Does(c, "walhdr", call[c], o, cached[c], mine[c])
  <2> HIDE DEF o
  <2>1. /\ Others(c) /\ pc'[c] = "walhdr" /\ w'[c] = o /\ cached'[c] = cached[c] /\ mine'[c] = mine[c]
        /\ call'[c] = call[c]
    BY <1>7, OthersKept
  <2>2. InWrite(c) /\ i # 0 /\ pc[c] = "lockmark"
    BY <1>1, <1>7 DEF CtlAt, TransAt, ModeAt, MarkPc, InWrite
  <2>3. WriteAt(c)'
    BY <1>2, <1>3, <2>1, <2>2, WriteOwn DEF WritePc, MarkPc, RestartPc, FramePc
  <2>4. ReadAt(c)' /\ RelyAt(c)'
    BY <1>1, <1>2, <1>4, <1>5, <2>1, <2>2 DEF ReadAt, RelyAt, InWrite
  <2>5. DataAt(c)'
    BY <2>1, <2>3, <2>4, NotCheckpointing DEF DataAt, CkRunPc, CkWritePc
  <2>6. ReadsOn(c)
    BY <1>1, <1>2, <2>1 DEF ReadsOn
  <2>7. QED BY <1>2, <1>3, <2>1, <2>2, <2>5, <2>6, DataStep
<1>8. QED BY <1>6, <1>7 DEF ReadBegins

\* A step on the way to a read mark, of a reader or of a writer that has restarted.
LEMMA MarkData ==
  ASSUME Ctl, Heads, Data, NEW c \in Conn, pc[c] \in MarkPc \cup {"lock0"},
         NEW to \in MarkPc \cup {"hdr0"}, NEW k, Calls(c, to, k),
         k.changed = call[c].changed, k.list = call[c].list, k.data = call[c].data,
         k.nTruncate = call[c].nTruncate, k.iFrame = call[c].iFrame,
         SameBase, SameLog, MarksKept(c), to = "hdr0" => call[c].mode = "read"
  PROVE  Data'
<1>1. WalTypeOK /\ CtlAt(c) /\ w[c] \in WalObj /\ RelyAt(c) /\ WriteAt(c)
  BY DataIs, Types
<1>2. /\ Others(c) /\ pc'[c] = to /\ call'[c] = k /\ w'[c] = w[c] /\ cached'[c] = cached[c]
      /\ mine'[c] = mine[c]
  BY OthersKept DEF Calls
<1>3. w[c].readLock = -1
  BY <1>1 DEF CtlAt, TransAt, MarkPc, WritePc, RestartPc, FramePc
<1>4. H' = H /\ Current' = Current /\ SamePrefix(mxH)
  BY LogKept DEF SameLog, SamePrefix
<1>5. RelyAt(c)'
  BY <1>1, <1>2, <1>4 DEF RelyAt, InWrite
<1>6. ReadAt(c)'
  BY <1>2, <1>3 DEF ReadAt, MarkPc
<1>7. WriteAt(c)'
  <2>1. CASE InWrite(c)
    <3>1. pc[c] \in MarkPc /\ to \in MarkPc /\ w[c].hdr = H
      BY <1>1, <2>1 DEF CtlAt, TransAt, ModeAt, WriteAt, MarkPc, InWrite
    <3>2. QED BY <1>2, <1>3, <3>1, WriteOwn DEF MarkPc, WritePc, RestartPc, FramePc
  <2>2. CASE ~InWrite(c)
    BY <1>2, <2>2, NotWriting DEF InWrite
  <2>3. QED BY <2>1, <2>2
<1>8. DataAt(c)'
  BY <1>2, <1>5, <1>6, <1>7, NotCheckpointing DEF DataAt, CkRunPc, CkWritePc, MarkPc
<1>9. ReadsOn(c)
  BY <1>2, <1>3 DEF ReadsOn
<1>10. QED BY <1>1, <1>2, <1>4, <1>8, <1>9, DataStep DEF MarkPc

LEMMA RetriesData ==
  ASSUME Ctl, Heads, Data, NEW c \in Conn, pc[c] \in MarkPc \cup {"lock0"}, Quiet, Retries(c)
  PROVE  Data'
<1>1. SameBase /\ SameLog /\ MarksKept(c)
  BY SameAll DEF Quiet
<1>2. QED BY <1>1, MarkData DEF Retries, Moves, Calls, MarkPc

LEMMA Lock0Data == ASSUME Ctl, Heads, Data, NEW c \in Conn, Lock0(c) PROVE Data'
<1>1. WalTypeOK /\ CtlAt(c) /\ ReadAt(c) /\ 0 \in Readers
  BY DataIs, Slots
<1>2. pc[c] = "lock0" /\ Quiet
  BY <1>1, Lock0Does
<1>3. call[c].mode = "read"
  BY <1>1, <1>2 DEF CtlAt, ModeAt
<1>4. CASE H = w[c].hdr /\ ReadBegins(c, 0)
  <2>1. shm.nBackfill >= mxH
    BY <1>1, <1>2, <1>4 DEF ReadAt
  <2>2. QED BY <1>1, <1>2, <1>3, <1>4, <2>1, ReadBeginsData
<1>5. CASE Retries(c)
  BY <1>2, <1>5, RetriesData
<1>6. CASE Moves(c, "marks")
  <2>1. SameBase /\ SameLog /\ MarksKept(c)
    BY <1>2, SameAll DEF Quiet
  <2>2. QED BY <1>2, <1>6, <2>1, MarkData DEF Moves, Calls, MarkPc
<1>7. QED BY <1>1, <1>4, <1>5, <1>6, Lock0Does

LEMMA ChooseMarkData == ASSUME Ctl, Heads, Data, NEW c \in Conn, ChooseMark(c) PROVE Data'
<1>1. WalTypeOK /\ call[c] \in Call
  BY DataIs, Types
<1>2. pc[c] = "marks" /\ Quiet
  BY <1>1, ChooseMarkDoes
<1>3. PICK best \in 0..w[c].hdr.mxFrame, i \in Readers, to \in {"grab", "lockmark"} :
        Calls(c, to, [call[c] EXCEPT !.mxReadMark = best, !.mxI = i, !.i = 1])
  BY <1>1, ChooseMarkDoes
<1> DEFINE k == [call[c] EXCEPT !.mxReadMark = best, !.mxI = i, !.i = 1]
<1>4. /\ k.changed = call[c].changed /\ k.list = call[c].list /\ k.data = call[c].data
      /\ k.nTruncate = call[c].nTruncate /\ k.iFrame = call[c].iFrame /\ Calls(c, to, k)
  BY <1>1, <1>3 DEF Call
<1> HIDE DEF k
<1>5. SameBase /\ SameLog /\ MarksKept(c)
  BY <1>2, SameAll DEF Quiet
<1>6. QED BY <1>2, <1>4, <1>5, MarkData DEF MarkPc

LEMMA GrabMarkData == ASSUME Ctl, Heads, Data, NEW c \in Conn, GrabMark(c) PROVE Data'
<1>1. WalTypeOK /\ call[c] \in Call
  BY DataIs, Types
<1>2. pc[c] = "grab" /\ Quiet
  BY <1>1, GrabMarkDoes
<1>3. SameBase /\ SameLog /\ MarksKept(c)
  BY <1>2, SameAll DEF Quiet
<1>4. CASE Moves(c, "putmark") \/ Moves(c, "lockmark")
  BY <1>2, <1>3, <1>4, MarkData DEF Moves, Calls, MarkPc
<1>5. CASE Calls(c, "grab", [call[c] EXCEPT !.i = call[c].i + 1])
  <2> DEFINE k == [call[c] EXCEPT !.i = call[c].i + 1]
  <2>1. /\ k.changed = call[c].changed /\ k.list = call[c].list /\ k.data = call[c].data
        /\ k.nTruncate = call[c].nTruncate /\ k.iFrame = call[c].iFrame /\ Calls(c, "grab", k)
    BY <1>1, <1>5 DEF Call
  <2> HIDE DEF k
  <2>2. QED BY <1>2, <1>3, <2>1, MarkData DEF MarkPc
<1>6. CASE Retries(c)
  BY <1>2, <1>6, RetriesData DEF MarkPc
<1>7. QED BY <1>1, <1>4, <1>5, <1>6, GrabMarkDoes

\* Nobody reads at the mark that is moved.
LEMMA PutMarkData == ASSUME Ctl, Heads, Data, NEW c \in Conn, PutMark(c) PROVE Data'
<1>1. WalTypeOK /\ call[c] \in Call /\ CtlAt(c) /\ shm \in Index
  BY DataIs, Types
<1> DEFINE k == [call[c] EXCEPT !.mxI = call[c].i, !.mxReadMark = w[c].hdr.mxFrame]
<1>2. /\ pc[c] = "putmark" /\ UNCHANGED files /\ Calls(c, "lockmark", k)
      /\ Shm(H, shm.hdr[1], shm.nBackfill,
             [shm.aReadMark EXCEPT ![call[c].i] = w[c].hdr.mxFrame], shm.aPgno)
  BY <1>1, PutMarkDoes
<1>3. /\ k.changed = call[c].changed /\ k.list = call[c].list /\ k.data = call[c].data
      /\ k.nTruncate = call[c].nTruncate /\ k.iFrame = call[c].iFrame
  BY <1>1 DEF Call
<1> HIDE DEF k
<1>4. READ(call[c].i) \in exclMask[c]
  BY <1>1, <1>2 DEF CtlAt, LocksAt
<1>5. SameBase /\ SameLog
  BY <1>2 DEF SameBase, SameLog, Shm, files
<1>6. MarksKept(c)
  BY <1>1, <1>2, <1>4 DEF MarksKept, Shm, Index
<1>7. QED BY <1>2, <1>3, <1>5, <1>6, MarkData DEF MarkPc

LEMMA LockMarkData == ASSUME Ctl, Heads, Data, NEW c \in Conn, LockMark(c) PROVE Data'
<1>1. /\ WalTypeOK /\ CtlAt(c) /\ call[c].mxI \in Readers /\ mxH \in Nat /\ call[c].mxReadMark \in Nat
      /\ w[c].hdr.mxFrame \in Nat
  BY DataIs, Types DEF Call
<1>2. pc[c] = "lockmark" /\ Quiet
  BY <1>1, LockMarkDoes
<1>3. CASE /\ shm.aReadMark[call[c].mxI] = call[c].mxReadMark /\ H = w[c].hdr
           /\ ReadBegins(c, call[c].mxI)
  <2>1. call[c].mxI # 0 /\ call[c].mxReadMark <= mxH
    BY <1>1, <1>2, <1>3 DEF CtlAt, MarkStepAt, mxH
  <2>2. QED BY <1>1, <1>2, <1>3, <2>1, ReadBeginsData
<1>4. CASE Retries(c)
  BY <1>2, <1>4, RetriesData DEF MarkPc
<1>5. QED BY <1>1, <1>3, <1>4, LockMarkDoes

LEMMA EndReadData == ASSUME Ctl, Heads, Data, NEW c \in Conn, EndRead(c) PROVE Data'
<1> DEFINE o == [w[c] EXCEPT !.readLock = -1]
<1>1. /\ WalTypeOK /\ CtlAt(c) /\ w[c] \in WalObj /\ ReadAt(c) /\ mxH \in Nat
      /\ w[c].readLock \in (-1)..(NReader - 1) /\ NReader \in Nat
  BY DataIs, Types
<1>2. o.hdr = w[c].hdr /\ o.readLock = -1 /\ o \in WalObj
  BY <1>1 DEF WalObj
<1>3. /\ pc[c] = "idle" /\ w[c].readLock >= 0 /\ ~InWrite(c) /\ Quiet
      /\ Does(c, "idle", call[c], o, cached[c], mine[c])
  BY <1>1, EndReadDoes
<1> HIDE DEF o
<1>4. /\ Others(c) /\ pc'[c] = "idle" /\ call'[c] = call[c] /\ w'[c] = o /\ cached'[c] = cached[c]
      /\ mine'[c] = mine[c]
  BY <1>3, OthersKept
<1>5. SameBase /\ SameLog /\ SamePrefix(mxH) /\ MarksKept(c)
  BY <1>3, SameAll DEF Quiet
<1>6. H' = H /\ Current' = Current
  BY <1>5, LogKept
<1>7. RelyAt(c)'
  <2>1. ASSUME w[c].hdr = H PROVE cached[c] = Current
    <3>1. CASE w[c].readLock >= 1
      BY <1>1, <1>3, <2>1, <3>1 DEF ReadAt, Current
    <3>2. CASE w[c].readLock = 0
      <4>1. cached[c] = FileView(H) /\ shm.nBackfill >= mxH
        BY <1>1, <1>3, <2>1, <3>2 DEF ReadAt
      <4>2. QED BY <1>3, <4>1, FileIsCurrent
    <3>3. QED BY <1>1, <1>3, <3>1, <3>2
  <2>2. QED BY <1>2, <1>4, <1>6, <2>1 DEF RelyAt
<1>8. ReadAt(c)'
  BY <1>2, <1>4 DEF ReadAt
<1>9. DataAt(c)'
  BY <1>3, <1>4, <1>7, <1>8, NotWriting, NotCheckpointing DEF DataAt, InWrite, CkRunPc, CkWritePc
<1>10. ReadsOn(c)
  BY <1>2, <1>4 DEF ReadsOn
<1>11. QED BY <1>2, <1>3, <1>4, <1>5, <1>9, <1>10, DataStep

-----------------------------------------------------------------------------
(* Write transactions: Data is kept *)

LEMMA OverlaysKept ==
  ASSUME SameBase, NEW n \in Nat, SamePrefix(n)
  PROVE  \A k \in 0..n : \A m, X : Overlays(m, k, X)' <=> Overlays(m, k, X)
<1>1. H' = H /\ mxH' = mxH /\ \A k \in 0..n : \A p : F(k, p)' = F(k, p) /\ At(k, p)' = At(k, p)
  BY PrefixKept
<1>2. Size(H)' = Size(H)
  BY <1>1, FileKept DEF SameBase
<1>3. QED BY <1>1, <1>2 DEF Overlays

LEMMA BeginWriteData == ASSUME Ctl, Heads, Data, NEW c \in Conn, BeginWrite(c) PROVE Data'
<1>1. /\ WalTypeOK /\ CtlAt(c) /\ ReadAt(c) /\ mxH \in Nat /\ H.nPage \in Nat /\ w[c] \in WalObj /\ Steady
      /\ w[c].readLock \in (-1)..(NReader - 1) /\ NReader \in Nat /\ mxH = H.mxFrame
  BY DataIs, Types DEF Ctl, mxH
<1>2. /\ pc[c] = "idle" /\ w[c].readLock >= 0 /\ ~InWrite(c) /\ H = w[c].hdr
      /\ Does(c, "idle", call[c], w[c], cached[c], View(c)) /\ UNCHANGED <<shm, files>>
  BY <1>1, BeginWriteDoes
<1>3. /\ Others(c) /\ pc'[c] = "idle" /\ call'[c] = call[c] /\ w'[c] = w[c]
      /\ cached'[c] = cached[c] /\ mine'[c] = View(c)
  BY <1>2, OthersKept
<1>4. SameBase /\ SameLog /\ SamePrefix(mxH) /\ MarksKept(c)
  BY <1>2, SameAll
<1>5. /\ H' = H /\ mxH' = mxH /\ Current' = Current /\ shm'.nBackfill = shm.nBackfill /\ shm' = shm
      /\ \A m, k, X : Overlays(m, k, X)' <=> Overlays(m, k, X)
  BY <1>2, <1>4, LogKept DEF SameBase
<1>6. w[c].readLock = 0 => shm.nBackfill >= mxH /\ Current = FileView(H)
  <2>1. w[c].readLock = 0 => shm.nBackfill >= mxH
    BY <1>1, <1>2 DEF ReadAt
  <2>2. QED BY <1>2, <2>1, FileIsCurrent
<1>7. View(c) = Current /\ cached[c] = Current
  <2>1. View(c) = IF w[c].readLock = 0 THEN FileView(H) ELSE LogView(H)
    BY <1>1, <1>2, ThroughIs DEF View
  <2>2. cached[c] = IF w[c].readLock = 0 THEN FileView(H) ELSE LogView(H)
    BY <1>1, <1>2 DEF ReadAt
  <2>3. QED BY <1>6, <2>1, <2>2 DEF Current
<1>8. Current \in Seq(Int) /\ Len(Current) = Size(H)
  <2>1. w[c].hdr.mxFrame <= Len(wal.frames)
    BY <1>1 DEF CtlAt, InLogAt
  <2>2. View(c) \in Seq(Int) /\ Len(View(c)) = DbSize(w[c])
    BY <1>1, <2>1, ThroughType DEF View
  <2>3. QED BY <1>2, <1>7, <2>2 DEF DbSize, Size
<1>9. Overlays(Current, mxH, {})
  <2>1. Size(H) \in Nat
    BY <1>1 DEF Size, WalTypeOK
  <2>2. \A p \in 1..Size(H) : Current[p] = At(mxH, p)
    BY <1>1 DEF Current, LogView
  <2>3. QED BY <1>8, <2>1, <2>2 DEF Overlays
<1>10. WriteAt(c)'
  <2>1. w[c].svpt = None
    BY <1>1, <1>2 DEF CtlAt, TransAt
  <2>2. SvptAt(c)'
    BY <1>3, <2>1 DEF SvptAt
  <2>3. Overlays(mine[c], w[c].hdr.mxFrame, Pending(c))'
    <3>1. Pending(c)' = {}
      BY <1>3 DEF Pending
    <3>2. QED BY <1>1, <1>2, <1>3, <1>5, <1>7, <1>9, <3>1
  <2>4. QED BY <1>1, <1>2, <1>3, <1>5, <1>6, <1>7, <2>2, <2>3 DEF WriteAt, MarkPc
<1>11. InWrite(c)'
  BY <1>3, <1>7, <1>8, WalAssumption DEF InWrite
<1>12. ReadAt(c)' /\ RelyAt(c)'
  BY <1>1, <1>2, <1>3, <1>5, <1>11 DEF ReadAt, RelyAt
<1>13. DataAt(c)'
  BY <1>3, <1>10, <1>12, NotCheckpointing DEF DataAt, CkRunPc, CkWritePc
<1>14. ReadsOn(c)
  BY <1>3 DEF ReadsOn
<1>15. QED BY <1>1, <1>2, <1>3, <1>4, <1>13, <1>14, DataStep

LEMMA SavepointData == ASSUME Ctl, Heads, Data, NEW c \in Conn, Savepoint(c) PROVE Data'
<1> DEFINE s == [mxFrame |-> w[c].hdr.mxFrame, cksum |-> w[c].hdr.cksum, nCkpt |-> w[c].nCkpt,
                 mine |-> mine[c]]
           o == [w[c] EXCEPT !.svpt = s]
<1>1. /\ WalTypeOK /\ CtlAt(c) /\ ReadAt(c) /\ WriteAt(c) /\ mxH \in Nat /\ w[c] \in WalObj
      /\ w[c].hdr.mxFrame \in Nat /\ w[c].nCkpt \in Nat
  BY DataIs, Types DEF WalObj
<1>2. pc[c] = "idle" /\ InWrite(c) /\ Quiet /\ Does(c, "idle", call[c], o, cached[c], mine[c])
  BY <1>1, SavepointDoes
<1>3. s \in Svpt
  <2>1. mine[c] \in Seq(Int) /\ w[c].hdr.cksum \in Pair
    BY <1>1, <1>2, Types DEF InWrite, Image, WalObj, Hdr
  <2>2. QED BY <1>1, <2>1 DEF Svpt
<1>4. /\ o.hdr = w[c].hdr /\ o.svpt = s /\ o.readLock = w[c].readLock /\ o.nCkpt = w[c].nCkpt
      /\ o \in WalObj /\ s.mxFrame = w[c].hdr.mxFrame /\ s.nCkpt = w[c].nCkpt /\ s.mine = mine[c]
  BY <1>1, <1>3 DEF WalObj
<1> HIDE DEF s, o
<1>5. /\ Others(c) /\ pc'[c] = "idle" /\ call'[c] = call[c] /\ w'[c] = o
      /\ cached'[c] = cached[c] /\ mine'[c] = mine[c]
  BY <1>2, OthersKept
<1>6. SameBase /\ SameLog /\ SamePrefix(mxH) /\ MarksKept(c) /\ shm' = shm
  BY <1>2, SameAll DEF Quiet
<1>7. /\ H' = H /\ mxH' = mxH /\ Current' = Current /\ shm'.nBackfill = shm.nBackfill
      /\ \A m, k, X : Overlays(m, k, X)' <=> Overlays(m, k, X)
  BY <1>6, LogKept DEF SameBase
<1>8. Pending(c) = {} /\ Pending(c)' = {}
  BY <1>2, <1>5 DEF Pending
<1>9. Overlays(mine[c], w[c].hdr.mxFrame, {}) /\ mxH <= w[c].hdr.mxFrame
  BY <1>2, <1>8, <1>1 DEF WriteAt
<1>10. SvptAt(c)'
  <2>1. UndoTo(c)' = w[c].hdr.mxFrame
    BY <1>4, <1>5 DEF UndoTo
  <2>2. Overlays(w[c].svpt.mine, UndoTo(c), {})'
    BY <1>4, <1>5, <1>7, <1>9, <2>1
  <2>3. QED BY <1>1, <1>4, <1>5, <1>7, <1>9, <2>1, <2>2 DEF SvptAt
<1>11. WriteAt(c)'
  <2>1. Overlays(mine[c], w[c].hdr.mxFrame, Pending(c))'
    BY <1>4, <1>5, <1>7, <1>8, <1>9
  <2>2. QED BY <1>1, <1>2, <1>4, <1>5, <1>7, <1>10, <2>1 DEF WriteAt, MarkPc, InWrite
<1>12. ReadAt(c)' /\ RelyAt(c)'
  BY <1>1, <1>2, <1>4, <1>5, <1>6, <1>7 DEF ReadAt, RelyAt, InWrite
<1>13. DataAt(c)'
  BY <1>5, <1>11, <1>12, NotCheckpointing DEF DataAt, CkRunPc, CkWritePc
<1>14. ReadsOn(c)
  BY <1>4, <1>5 DEF ReadsOn
<1>15. QED BY <1>2, <1>4, <1>5, <1>6, <1>13, <1>14, DataStep

LEMMA CleanUpKeeps ==
  ASSUME Ctl, NEW to \in Nat, NEW n \in Nat, n <= to, NEW i \in 1..n, n <= MaxFrame
  PROVE  CleanUp(shm.aPgno, to)[i] = shm.aPgno[i]
<1>1. i \in 1..MaxFrame /\ ~(i > to)
  BY WalAssumption
<1>2. QED BY <1>1 DEF CleanUp

LEMMA InMaxFrame ==
  ASSUME Ctl, NEW c \in Conn, pc[c] # "closed"
  PROVE  /\ mxH <= MaxFrame /\ w[c].hdr.mxFrame <= MaxFrame /\ Len(wal.frames) \in Nat
         /\ mxH <= Len(wal.frames) /\ w[c].hdr.mxFrame <= Len(wal.frames)
<1>1. /\ mxH <= Len(wal.frames) /\ Len(wal.frames) <= MaxFrame /\ w[c].hdr.mxFrame <= Len(wal.frames)
      /\ WalTypeOK
  BY IndexBound DEF Ctl, LogBound, CtlAt, InLogAt
<1>2. mxH \in Nat /\ w[c].hdr.mxFrame \in Nat /\ Len(wal.frames) \in Nat /\ MaxFrame \in Nat
  BY <1>1, Types, HdrIs, WalAssumption DEF mxH, WalTypeOK, Log
<1>3. QED BY <1>1, <1>2

LEMMA SavepointUndoData == ASSUME Ctl, Heads, Data, NEW c \in Conn, SavepointUndo(c) PROVE Data'
<1> DEFINE s == w[c].svpt
           to == UndoTo(c)
           o1 == [w[c] EXCEPT !.hdr = [w[c].hdr EXCEPT !.mxFrame = to, !.cksum = s.cksum], !.svpt = None]
           o2 == [w[c] EXCEPT !.svpt = None]
<1>1. /\ WalTypeOK /\ CtlAt(c) /\ ReadAt(c) /\ WriteAt(c) /\ mxH \in Nat /\ w[c] \in WalObj
      /\ w[c].hdr.mxFrame \in Nat /\ shm \in Index
      /\ w[c].readLock \in (-1)..(NReader - 1) /\ NReader \in Nat
  BY DataIs, Types
<1>2. /\ pc[c] = "idle" /\ InWrite(c) /\ s # None /\ UNCHANGED files
      /\ \/ /\ to < w[c].hdr.mxFrame /\ Does(c, "idle", call[c], o1, cached[c], s.mine)
            /\ Shm(H, shm.hdr[1], shm.nBackfill, shm.aReadMark, CleanUp(shm.aPgno, to))
         \/ /\ ~(to < w[c].hdr.mxFrame) /\ Does(c, "idle", call[c], o2, cached[c], s.mine)
            /\ UNCHANGED shm
  BY <1>1, SavepointUndoDoes
<1>3. s \in Svpt /\ s.mine # None /\ s.mine \in Seq(Int) /\ to \in Nat
  BY <1>1, <1>2, WalAssumption DEF WalObj, Svpt, UndoTo
<1>4. mxH <= to /\ to <= w[c].hdr.mxFrame /\ Overlays(s.mine, to, {})
  BY <1>2, <1>1 DEF WriteAt, SvptAt
<1>5. w[c].hdr \in Hdr /\ s.cksum \in Pair
  BY <1>1, <1>3, Types DEF Svpt
<1>6. /\ o1 \in WalObj /\ o1.hdr.mxFrame = to /\ o1.svpt = None /\ o1.readLock = w[c].readLock
      /\ o2 \in WalObj /\ o2.hdr = w[c].hdr /\ o2.svpt = None /\ o2.readLock = w[c].readLock
  BY <1>1, <1>3, <1>5 DEF WalObj, Hdr
<1>7. PICK o \in WalObj :
        /\ Others(c) /\ pc'[c] = "idle" /\ call'[c] = call[c] /\ w'[c] = o
        /\ cached'[c] = cached[c] /\ mine'[c] = s.mine
        /\ o.hdr.mxFrame = to /\ o.svpt = None /\ o.readLock = w[c].readLock
        /\ o.hdr = w[c].hdr \/ to < w[c].hdr.mxFrame
  <2> HIDE DEF o1, o2, to, s
  <2>1. CASE to < w[c].hdr.mxFrame
    <3>1. Does(c, "idle", call[c], o1, cached[c], s.mine)
      BY <1>2, <2>1
    <3>2. QED BY <1>6, <2>1, <3>1, OthersKept
  <2>2. CASE ~(to < w[c].hdr.mxFrame)
    <3>1. Does(c, "idle", call[c], o2, cached[c], s.mine)
      BY <1>2, <2>2
    <3>2. to = w[c].hdr.mxFrame
      BY <1>1, <1>3, <1>4, <2>2
    <3>3. QED BY <1>6, <3>1, <3>2, OthersKept
  <2>3. QED BY <2>1, <2>2
<1>8. SameBase /\ SamePrefix(to) /\ MarksKept(c)
  <2>1. w[c].hdr.mxFrame <= MaxFrame /\ MaxFrame \in Nat /\ to <= MaxFrame
    BY <1>1, <1>2, <1>3, <1>4, InMaxFrame, WalAssumption
  <2>2. \A i \in 1..to : CleanUp(shm.aPgno, to)[i] = shm.aPgno[i]
    BY <1>3, <2>1, CleanUpKeeps
  <2>3. QED BY <1>2, <2>2 DEF SameBase, SamePrefix, MarksKept, Shm, H, files
<1> HIDE DEF o1, o2, s, to
<1>9. SamePrefix(mxH)
  BY <1>1, <1>3, <1>4, <1>8 DEF SamePrefix
<1>10. /\ H' = H /\ mxH' = mxH /\ Current' = Current /\ shm'.nBackfill = shm.nBackfill
       /\ \A i \in Readers : shm'.aReadMark[i] = shm.aReadMark[i]
       /\ \A m, X : Overlays(m, o.hdr.mxFrame, X)' <=> Overlays(m, o.hdr.mxFrame, X)
  <2>1. o.hdr.mxFrame \in 0..o.hdr.mxFrame /\ o.hdr.mxFrame \in Nat /\ mxH \in 0..mxH
    BY <1>1, <1>3, <1>7
  <2>2. \A i \in Readers : shm'.aReadMark[i] = shm.aReadMark[i]
    BY <1>2 DEF Shm
  <2>3. H' = H /\ mxH' = mxH /\ Current' = Current
    BY <1>1, <1>8, <1>9, <2>1, PrefixKept
  <2>4. \A m, X : Overlays(m, o.hdr.mxFrame, X)' <=> Overlays(m, o.hdr.mxFrame, X)
    BY <1>7, <1>8, <2>1, OverlaysKept
  <2>5. QED BY <1>8, <2>2, <2>3, <2>4 DEF SameBase
<1>11. w[c].readLock = 0 => o.hdr = H
  <2>1. w[c].readLock = 0 => w[c].hdr = H
    BY <1>1, <1>2 DEF WriteAt
  <2>2. w[c].readLock = 0 => ~(to < w[c].hdr.mxFrame)
    BY <1>1, <1>3, <1>4, <2>1 DEF mxH
  <2>3. QED BY <1>7, <2>1, <2>2
<1>12. WriteAt(c)'
  <2>1. SvptAt(c)'
    BY <1>7 DEF SvptAt
  <2>2. Overlays(mine[c], w[c].hdr.mxFrame, Pending(c))'
    <3>1. Pending(c)' = {}
      BY <1>7 DEF Pending
    <3>2. QED BY <1>4, <1>7, <1>10, <3>1
  <2>3. cached[c] = Current /\ (w[c].readLock = 0 => shm.nBackfill >= mxH)
    BY <1>1, <1>2 DEF WriteAt
  <2>4. (cached[c] = Current /\ (w[c].readLock = 0 => shm.nBackfill >= mxH /\ w[c].hdr = H))'
    BY <1>7, <1>10, <1>11, <2>3
  <2>5. pc'[c] = "idle" /\ w'[c].hdr.mxFrame >= mxH'
    BY <1>1, <1>3, <1>4, <1>7, <1>10
  <2>6. QED BY <2>1, <2>2, <2>4, <2>5 DEF WriteAt, MarkPc
<1>13. InWrite(c)'
  BY <1>3, <1>7 DEF InWrite
<1>14. ReadAt(c)' /\ RelyAt(c)'
  <2>1. w[c].readLock >= 1 => shm.aReadMark[w[c].readLock] <= mxH /\ w[c].readLock \in Readers
    BY <1>1 DEF ReadAt, Readers
  <2>2. w[c].readLock >= 1 => shm.aReadMark[w[c].readLock] \in Nat
    BY <1>1, <2>1 DEF Index
  <2>3. w[c].readLock >= 1 => shm.aReadMark[w[c].readLock] <= to
    BY <1>1, <1>3, <1>4, <2>1, <2>2
  <2>4. QED BY <1>7, <1>10, <1>13, <2>1, <2>3 DEF ReadAt, RelyAt
<1>15. DataAt(c)'
  BY <1>7, <1>12, <1>14, NotCheckpointing DEF DataAt, CkRunPc, CkWritePc
<1>16. ReadsOn(c)
  BY <1>4, <1>7 DEF ReadsOn
<1>17. WRITE \in exclMask[c]
  BY <1>1, <1>2 DEF CtlAt, LocksAt
<1>18. QED BY <1>2, <1>7, <1>8, <1>9, <1>15, <1>16, <1>17, DataStep

\* Pages leave the index that no published header counts.
LEMMA RollbackData == ASSUME Ctl, Heads, Data, NEW c \in Conn, Rollback(c) PROVE Data'
<1> DEFINE o == [w[c] EXCEPT !.hdr = H, !.svpt = None]
<1>1. /\ WalTypeOK /\ CtlAt(c) /\ ReadAt(c) /\ WriteAt(c) /\ mxH \in Nat /\ w[c] \in WalObj /\ H \in Hdr
      /\ w[c].readLock \in (-1)..(NReader - 1) /\ NReader \in Nat /\ mxH = H.mxFrame /\ shm \in Index
  BY DataIs, Types DEF mxH
<1>2. /\ pc[c] \in {"idle", "failed"} /\ InWrite(c) /\ UNCHANGED files
      /\ Does(c, "idle", NoCall, o, cached[c], None)
      /\ Shm(H, shm.hdr[1], shm.nBackfill, shm.aReadMark, CleanUp(shm.aPgno, mxH))
  BY <1>1, RollbackDoes
<1>3. o \in WalObj /\ o.hdr = H /\ o.readLock = w[c].readLock
  BY <1>1 DEF WalObj
<1> HIDE DEF o
<1>4. /\ Others(c) /\ pc'[c] = "idle" /\ call'[c] = NoCall /\ w'[c] = o
      /\ cached'[c] = cached[c] /\ mine'[c] = None
  BY <1>2, OthersKept
<1>5. SameBase /\ SamePrefix(mxH) /\ MarksKept(c)
  <2>1. mxH <= MaxFrame
    BY <1>2, InMaxFrame
  <2>2. \A i \in 1..mxH : CleanUp(shm.aPgno, mxH)[i] = shm.aPgno[i]
    BY <1>1, <2>1, CleanUpKeeps
  <2>3. QED BY <1>2, <2>2 DEF SameBase, SamePrefix, MarksKept, Shm, H, files
<1>6. /\ H' = H /\ mxH' = mxH /\ Current' = Current /\ shm'.nBackfill = shm.nBackfill
      /\ shm'.aReadMark = shm.aReadMark /\ mxH \in 0..mxH
      /\ Follows(H)' /\ LogView(H)' = Current /\ FileView(H)' = FileView(H)
  <2>1. mxH \in 0..mxH /\ Follows(H)
    BY <1>1 DEF Follows
  <2>2. QED BY <1>1, <1>2, <1>5, <2>1, PrefixKept, FileKept DEF SameBase, Shm, Current, Follows, mxH
<1>7. w[c].readLock >= 0
  BY <1>1, <1>2 DEF CtlAt, TransAt, FramePc
<1>8. w[c].readLock = 0 => shm.nBackfill >= mxH /\ Current = FileView(H)
  <2>1. w[c].readLock = 0 => shm.nBackfill >= mxH
    BY <1>1, <1>2 DEF WriteAt
  <2>2. QED BY <1>2, <2>1, FileIsCurrent
<1>9. cached[c] = Current
  BY <1>1, <1>2 DEF WriteAt
<1>10. Follows(w[c].hdr)' /\ LogView(w[c].hdr)' = Current /\ FileView(w[c].hdr)' = FileView(H)
  BY <1>3, <1>4, <1>6
<1>11. ReadAt(c)' /\ RelyAt(c)'
  BY <1>1, <1>3, <1>4, <1>6, <1>7, <1>8, <1>9, <1>10 DEF ReadAt, RelyAt
<1>12. DataAt(c)'
  BY <1>4, <1>11, NotWriting, NotCheckpointing DEF DataAt, CkRunPc, CkWritePc
<1>13. ReadsOn(c)
  BY <1>1, <1>3, <1>4 DEF ReadsOn
<1>14. WRITE \in exclMask[c]
  BY <1>1, <1>2 DEF CtlAt, LocksAt
<1>15. QED BY <1>2, <1>3, <1>4, <1>5, <1>12, <1>13, <1>14, DataStep

\* A call to sqlite3WalFrames() begins.
LEMMA StartsData ==
  ASSUME Ctl, Heads, Data, NEW c \in Conn, NEW list \in Seq(Nat \ {0}), NEW m \in Nat, NEW n \in Nat,
         Starts(c, list, m, n)
  PROVE  Data'
<1> DEFINE k == [NoCall EXCEPT !.list = list, !.nTruncate = n, !.data = seed, !.mode = "write"]
           v == Changed(mine[c], Range(list), m, seed)
<1>1. /\ WalTypeOK /\ CtlAt(c) /\ ReadAt(c) /\ WriteAt(c) /\ mxH \in Nat /\ w[c] \in WalObj
      /\ w[c].hdr.mxFrame \in Nat /\ seed \in Nat /\ mine[c] \in Image
  BY DataIs, Types DEF WalTypeOK
<1>2. k.list = list /\ k.nTruncate = n /\ k.data = seed
  BY DEF NoCall
<1>3. /\ pc[c] = "idle" /\ InWrite(c) /\ Distinct(list) /\ UNCHANGED <<shm, files>>
      /\ \A p \in 1..m : p \in Range(list) \/ p <= Len(mine[c])
      /\ n \in {0, m} /\ Does(c, "restart", k, w[c], cached[c], v)
  BY DEF Starts
<1>4. /\ v \in Seq(Int) /\ Len(v) = m /\ v # None
      /\ \A p \in 1..m : v[p] = IF p \in Range(list) THEN seed
                                ELSE IF p <= Len(mine[c]) THEN mine[c][p] ELSE 0
  <2>1. mine[c] \in Seq(Int) /\ m \in Nat
    BY <1>1, <1>3 DEF InWrite, Image
  <2>2. /\ v \in Seq(Int) /\ Len(v) = m
        /\ \A p \in 1..m : v[p] = IF p \in Range(list) THEN seed
                                  ELSE IF p <= Len(mine[c]) THEN mine[c][p] ELSE 0
    BY <1>1, <2>1, ChangedType
  <2> HIDE DEF v
  <2>3. v # None
    BY <2>2, WalAssumption
  <2>4. QED BY <2>2, <2>3
<1> HIDE DEF k, v
<1>5. /\ Others(c) /\ pc'[c] = "restart" /\ call'[c] = k /\ w'[c] = w[c]
      /\ cached'[c] = cached[c] /\ mine'[c] = v
  BY <1>3, OthersKept
<1>6. SameBase /\ SameLog /\ SamePrefix(mxH) /\ MarksKept(c) /\ shm' = shm
  BY <1>3, SameAll
<1>7. /\ H' = H /\ mxH' = mxH /\ Current' = Current /\ shm'.nBackfill = shm.nBackfill
      /\ \A i, j, X : Overlays(i, j, X)' <=> Overlays(i, j, X)
  BY <1>6, LogKept DEF SameBase
<1>8. Overlays(v, w[c].hdr.mxFrame, Range(list))
  <2>1. Overlays(mine[c], w[c].hdr.mxFrame, {})
    BY <1>1, <1>3 DEF WriteAt, Pending
  <2>2. ASSUME NEW p \in (1..m) \ Range(list)
        PROVE  p \in (1..Len(mine[c])) \ {} /\ v[p] = mine[c][p]
    BY <1>3, <1>4
  <2>3. QED BY <1>4, <2>1, <2>2 DEF Overlays
<1>9. ContentAt(c)'
  <2>1. \A i, j \in 1..Len(list) : i # j => list[i] # list[j]
    BY <1>3 DEF Distinct
  <2>2. \A p \in Range(list) : p <= Len(v) => v[p] = seed
    <3>1. \A p \in Range(list) : p \in Nat \ {0}
      BY DEF Range
    <3>2. QED BY <1>4, <3>1
  <2>3. n # 0 => n = Len(v)
    BY <1>3, <1>4
  <2>4. QED BY <1>2, <1>5, <2>1, <2>2, <2>3 DEF ContentAt
<1>10. SvptAt(c)'
  <2>1. SvptAt(c) /\ UndoTo(c)' = UndoTo(c)
    BY <1>1, <1>3, <1>5 DEF WriteAt, UndoTo
  <2>2. QED BY <1>3, <1>5, <1>7, <2>1 DEF SvptAt, RestartPc
<1>11. WriteAt(c)'
  <2>1. Overlays(mine[c], w[c].hdr.mxFrame, Pending(c))'
    <3>1. Pending(c)' = Range(list)
      BY <1>2, <1>5 DEF Pending
    <3>2. QED BY <1>5, <1>7, <1>8, <3>1
  <2>2. QED BY <1>1, <1>3, <1>5, <1>7, <1>9, <1>10, <2>1 DEF WriteAt, MarkPc
<1>12. InWrite(c)'
  BY <1>4, <1>5 DEF InWrite
<1>13. ReadAt(c)' /\ RelyAt(c)'
  BY <1>1, <1>3, <1>5, <1>6, <1>7, <1>12 DEF ReadAt, RelyAt
<1>14. DataAt(c)'
  BY <1>5, <1>11, <1>13, NotCheckpointing DEF DataAt, CkRunPc, CkWritePc
<1>15. ReadsOn(c)
  BY <1>5 DEF ReadsOn
<1>16. QED BY <1>1, <1>3, <1>5, <1>6, <1>14, <1>15, DataStep

LEMMA SpillData == ASSUME Ctl, Heads, Data, NEW c \in Conn, Spill(c) PROVE Data'
<1>1. WalTypeOK /\ Steady
  BY DEF Ctl
<1>2. QED BY <1>1, SpillDoes, StartsData

LEMMA CommitData == ASSUME Ctl, Heads, Data, NEW c \in Conn, Commit(c) PROVE Data'
<1>1. WalTypeOK /\ Steady
  BY DEF Ctl
<1>2. QED BY <1>1, CommitDoes, StartsData

\* A step of a write transaction that moves on and touches nothing.
LEMMA MovesOnData ==
  ASSUME Ctl, Heads, Data, NEW c \in Conn, NEW to, NEW o \in WalObj,
         Does(c, to, call[c], o, cached[c], mine[c]), shm' = shm, db' = db, wal' = wal,
         o.hdr = w[c].hdr, o.svpt = w[c].svpt, o.nCkpt = w[c].nCkpt,
         o.readLock = w[c].readLock \/ (o.readLock = -1 /\ w[c].hdr = H),
         pc[c] \in {"restart"} \cup (FramePc \ {"commit0", "failed"}),
         to \in {"walhdr", "frame", "index", "failed"} \/ (to = "marks" /\ w[c].hdr = H),
         to \in {"frame", "index"} => pc[c] \in {"walhdrsync", "frame", "framesync", "index"}
  PROVE  Data'
<1>1. WalTypeOK /\ CtlAt(c) /\ ReadAt(c) /\ WriteAt(c) /\ mxH \in Nat
  BY DataIs
<1>2. /\ Others(c) /\ pc'[c] = to /\ call'[c] = call[c] /\ w'[c] = o
      /\ cached'[c] = cached[c] /\ mine'[c] = mine[c]
  BY OthersKept
<1>3. SameBase /\ SameLog /\ SamePrefix(mxH) /\ MarksKept(c)
  BY DEF SameBase, SameLog, SamePrefix, MarksKept, H
<1>4. H' = H /\ mxH' = mxH /\ Current' = Current /\ shm'.nBackfill = shm.nBackfill
  BY <1>3, LogKept DEF SameBase
<1>5. InWrite(c)
  BY <1>1 DEF CtlAt, TransAt, ModeAt, WritePc, FramePc
<1>6. o.readLock = 0 => w[c].readLock = 0
  OBVIOUS
<1>7. WriteAt(c)'
  BY <1>2, <1>3, <1>6, WriteOwn DEF WritePc, MarkPc, RestartPc, FramePc
<1>8. ReadAt(c)' /\ RelyAt(c)'
  BY <1>1, <1>2, <1>4, <1>5 DEF ReadAt, RelyAt, InWrite
<1>9. DataAt(c)'
  BY <1>2, <1>7, <1>8, NotCheckpointing DEF DataAt, CkRunPc, CkWritePc
<1>10. ReadsOn(c)
  BY <1>2 DEF ReadsOn
<1>11. QED BY <1>1, <1>2, <1>3, <1>9, <1>10, DataStep DEF FramePc

LEMMA SyncWalHdrData == ASSUME Ctl, Heads, Data, NEW c \in Conn, SyncWalHdr(c) PROVE Data'
<1>1. WalTypeOK /\ w[c] \in WalObj
  BY DataIs, Types
<1>2. QED BY <1>1, SyncWalHdrDoes, MovesOnData DEF Moves, FramePc

LEMMA SyncFramesData == ASSUME Ctl, Heads, Data, NEW c \in Conn, SyncFrames(c) PROVE Data'
<1>1. WalTypeOK /\ w[c] \in WalObj
  BY DataIs, Types
<1>2. QED BY <1>1, SyncFramesDoes, MovesOnData DEF Moves, FramePc

LEMMA FramesFailData == ASSUME Ctl, Heads, Data, NEW c \in Conn, FramesFail(c) PROVE Data'
<1>1. WalTypeOK /\ w[c] \in WalObj /\ Steady
  BY DataIs, Types DEF Ctl
<1>2. QED BY <1>1, FramesFailDoes, MovesOnData DEF Moves, FramePc, files

-----------------------------------------------------------------------------
(* Restarting the log: Data is kept *)

\* The frames and the file, whatever becomes of the header.
LEMMA FramesKept ==
  ASSUME SameLog, db' = db
  PROVE  /\ \A m, p : F(m, p)' = F(m, p) /\ At(m, p)' = At(m, p)
         /\ \A h : LogView(h)' = LogView(h) /\ FileView(h)' = FileView(h) /\ Size(h)' = Size(h)
         /\ \A p, f : InFile(p, f)' <=> InFile(p, f)
<1>1. \A m, p : F(m, p)' = F(m, p) /\ At(m, p)' = At(m, p)
  <2>1. \A m, p : F(m, p)' = F(m, p)
    BY DEF F, SameLog
  <2>2. \A p : DbAt(p)' = DbAt(p)
    BY FileKept
  <2>3. QED BY <2>1, <2>2 DEF At, SameLog
<1>2. \A h : FileView(h)' = FileView(h) /\ Size(h)' = Size(h)
  BY FileKept
<1>3. \A h : LogView(h)' = LogView(h)
  BY <1>1, <1>2 DEF LogView
<1>4. \A p, f : InFile(p, f)' <=> InFile(p, f)
  BY DEF InFile, SameLog
<1>5. QED BY <1>1, <1>2, <1>3, <1>4

\* Without frames there is the file.
LEMMA NoFrames == \A p : F(0, p) = 0 /\ At(0, p) = DbAt(p)
<1>1. \A p : F(0, p) = 0
  BY FIs
<1>2. QED BY <1>1 DEF At

LEMMA SizeIs == ASSUME WalTypeOK PROVE Size(H) \in Nat /\ (H.nPage # 0 => Size(H) = H.nPage)
<1>1. H \in Hdr /\ db \in Seq(Int)
  BY DEF WalTypeOK, Index, H
<1>2. H.nPage \in Nat /\ Len(db) \in Nat
  BY <1>1, HdrIs
<1>3. QED BY <1>2 DEF Size

\* An image that comes from the log when all of it is in the file comes from the file.
LEMMA OverlaysFile ==
  ASSUME Ctl, Heads, Data, NEW c \in Conn, pc[c] # "closed", shm.nBackfill >= mxH,
         NEW m, NEW X, Len(m) \in Nat, Overlays(m, mxH, X)
  PROVE  Overlays(m, 0, X)
<1>1. mxH \in Nat /\ Size(H) \in Nat
  BY DataIs, SizeIs
<1>2. ASSUME NEW p \in (1..Len(m)) \ X PROVE m[p] = At(0, p) /\ p <= Size(H)
  <2>1. m[p] = At(mxH, p) /\ (p > Size(H) => F(mxH, p) > mxH)
    BY <1>2 DEF Overlays
  <2>2. p <= Size(H)
    BY <1>1, <2>1, FIs
  <2>3. At(mxH, p) = DbAt(p)
    BY <1>1, <2>2, FileIsCurrent
  <2>4. QED BY <2>1, <2>2, <2>3, NoFrames
<1>3. QED BY <1>1, <1>2 DEF Overlays

LEMMA RestartLogData == ASSUME Ctl, Heads, Data, NEW c \in Conn, RestartLog(c) PROVE Data'
<1>1. /\ WalTypeOK /\ CtlAt(c) /\ ReadAt(c) /\ WriteAt(c) /\ mxH \in Nat /\ w[c] \in WalObj
      /\ seed \in Nat /\ mine[c] \in Image /\ BackfillInv /\ shm.nBackfill \in Nat /\ w[c].nCkpt \in Nat
      /\ mxH = H.mxFrame
  BY DataIs, Types DEF WalTypeOK, WalObj, mxH
<1>2. pc[c] = "restart" /\ UNCHANGED <<shm, files>>
  BY <1>1, RestartLogDoes
<1>3. InWrite(c) /\ Len(mine[c]) \in Nat /\ WRITE \in exclMask[c]
  BY <1>1, <1>2 DEF CtlAt, TransAt, ModeAt, WritePc, LocksAt, InWrite, Image
<1>4. CASE w[c].readLock # 0 /\ Moves(c, "walhdr")
  BY <1>1, <1>2, <1>4, MovesOnData DEF Moves, files
<1>5. CASE w[c].readLock = 0 /\ Does(c, "marks", call[c], [w[c] EXCEPT !.readLock = -1], cached[c], mine[c])
  <2> DEFINE o == [w[c] EXCEPT !.readLock = -1]
  <2>1. /\ o.hdr = w[c].hdr /\ o.svpt = w[c].svpt /\ o.nCkpt = w[c].nCkpt /\ o.readLock = -1
        /\ o \in WalObj
    BY <1>1, WalAssumption DEF WalObj
  <2> HIDE DEF o
  <2>2. w[c].hdr = H
    BY <1>1, <1>2, <1>3, <1>5 DEF WriteAt
  <2>3. QED BY <1>2, <1>5, <2>1, <2>2, MovesOnData DEF files, o
<1>6. CASE /\ w[c].readLock = 0 /\ shm.nBackfill > 0
           /\ Does(c, "restart1", call[c],
                   [w[c] EXCEPT !.nCkpt = w[c].nCkpt + 1,
                                !.hdr = [w[c].hdr EXCEPT !.mxFrame = 0, !.salt = seed]],
                   cached[c], mine[c])
  <2> DEFINE h == [w[c].hdr EXCEPT !.mxFrame = 0, !.salt = seed]
             o == [w[c] EXCEPT !.nCkpt = w[c].nCkpt + 1, !.hdr = h]
  <2>1. h \in Hdr /\ h.mxFrame = 0 /\ h.nPage = w[c].hdr.nPage
    BY <1>1, Types DEF Hdr
  <2> HIDE DEF h
  <2>2. /\ o.hdr = h /\ o.svpt = w[c].svpt /\ o.nCkpt = w[c].nCkpt + 1 /\ o.readLock = 0
        /\ o \in WalObj
    <3>1. w[c].nCkpt + 1 \in Nat
      BY <1>1
    <3>2. QED BY <1>1, <1>6, <2>1, <3>1 DEF WalObj
  <2> HIDE DEF o
  <2>3. /\ Others(c) /\ pc'[c] = "restart1" /\ call'[c] = call[c] /\ w'[c] = o
        /\ cached'[c] = cached[c] /\ mine'[c] = mine[c]
    BY <1>6, OthersKept DEF o, h
  <2>4. SameBase /\ SameLog /\ SamePrefix(mxH) /\ MarksKept(c) /\ shm' = shm
    BY <1>2, SameAll
  <2>5. /\ H' = H /\ mxH' = mxH /\ Current' = Current /\ shm'.nBackfill = shm.nBackfill
        /\ \A i, j, X : Overlays(i, j, X)' <=> Overlays(i, j, X)
    BY <2>4, LogKept DEF SameBase
  <2>6. w[c].hdr = H /\ shm.nBackfill >= mxH
    BY <1>1, <1>2, <1>3, <1>6 DEF WriteAt
  <2>7. mxH > 0
    <3>1. \A d \in Conn : pc[d] # "restartinfo"
      BY <1>2, <1>3, WriterAlone DEF WritePc, RestartPc
    <3>2. QED BY <1>1, <1>6, <3>1 DEF BackfillInv
  <2>8. Overlays(mine[c], 0, Range(call[c].list))
    <3>1. Overlays(mine[c], mxH, Range(call[c].list))
      BY <1>1, <1>2, <1>3, <2>6 DEF WriteAt, Pending
    <3>2. QED BY <1>2, <1>3, <2>6, <3>1, OverlaysFile
  <2>9. SvptAt(c)'
    <3>1. CASE w[c].svpt = None
      BY <2>2, <2>3, <3>1 DEF SvptAt
    <3>2. CASE w[c].svpt # None
      <4>1. w[c].svpt \in Svpt /\ w[c].svpt.mine \in Seq(Int) /\ Len(w[c].svpt.mine) \in Nat
            /\ UndoTo(c) \in Nat /\ w[c].svpt.nCkpt \in Nat
        BY <1>1, <3>2 DEF WalObj, Svpt, UndoTo
      <4>2. /\ w[c].svpt.nCkpt = w[c].nCkpt /\ UndoTo(c) <= w[c].hdr.mxFrame /\ mxH <= UndoTo(c)
            /\ Overlays(w[c].svpt.mine, UndoTo(c), {})
        BY <1>1, <1>2, <1>3, <1>6, <3>2 DEF WriteAt, SvptAt, RestartPc
      <4>3. UndoTo(c) = mxH
        BY <1>1, <2>6, <4>1, <4>2
      <4>4. Overlays(w[c].svpt.mine, 0, {})
        BY <1>2, <2>6, <4>1, <4>2, <4>3, OverlaysFile
      <4>5. w[c].svpt.nCkpt # w[c].nCkpt + 1 /\ w[c].svpt.nCkpt <= w[c].nCkpt + 1
        BY <4>1, <4>2
      <4>6. UndoTo(c)' = 0
        BY <2>2, <2>3, <4>5 DEF UndoTo
      <4>7. Overlays(w[c].svpt.mine, UndoTo(c), {})'
        BY <2>2, <2>3, <2>5, <4>4, <4>6
      <4>8. QED BY <2>1, <2>2, <2>3, <4>5, <4>6, <4>7 DEF SvptAt, RestartPc
    <3>3. QED BY <3>1, <3>2
  <2>10. ContentAt(c)'
    <3>1. ContentAt(c)
      BY <1>1, <1>2, <1>3 DEF WriteAt
    <3>2. QED BY <1>2, <2>3, <3>1 DEF ContentAt
  <2>11. WriteAt(c)'
    <3>1. Overlays(mine[c], w[c].hdr.mxFrame, Pending(c))'
      <4>1. Pending(c)' = Range(call[c].list)
        BY <2>3 DEF Pending
      <4>2. QED BY <2>1, <2>2, <2>3, <2>5, <2>8, <4>1
    <3>2. QED BY <1>1, <1>2, <1>3, <2>1, <2>2, <2>3, <2>5, <2>6, <2>7, <2>9, <2>10, <3>1 DEF WriteAt, MarkPc
  <2>12. ReadAt(c)' /\ RelyAt(c)'
    BY <1>3, <2>2, <2>3 DEF ReadAt, RelyAt, InWrite
  <2>13. DataAt(c)'
    BY <2>3, <2>11, <2>12, NotCheckpointing DEF DataAt, CkRunPc, CkWritePc
  <2>14. ReadsOn(c)
    BY <2>2, <2>3 DEF ReadsOn
  <2>15. QED BY <1>2, <2>2, <2>3, <2>4, <2>13, <2>14, DataStep
<1>7. QED BY <1>1, <1>4, <1>5, <1>6, RestartLogDoes

LEMMA RestartHdr1Data == ASSUME Ctl, Heads, Data, NEW c \in Conn, RestartHdr1(c) PROVE Data'
<1>1. /\ WalTypeOK /\ CtlAt(c) /\ ReadAt(c) /\ WriteAt(c) /\ mxH \in Nat /\ w[c] \in WalObj
  BY DataIs, Types
<1>2. /\ pc[c] = "restart1" /\ Moves(c, "restart0") /\ UNCHANGED files
      /\ Shm(H, w[c].hdr, shm.nBackfill, shm.aReadMark, shm.aPgno)
  BY <1>1, RestartHdr1Does
<1>3. /\ Others(c) /\ pc'[c] = "restart0" /\ call'[c] = call[c] /\ w'[c] = w[c]
      /\ cached'[c] = cached[c] /\ mine'[c] = mine[c]
  BY <1>2, OthersKept DEF Moves
<1>4. SameBase /\ SameLog /\ SamePrefix(mxH) /\ MarksKept(c)
  BY <1>2 DEF SameBase, SameLog, SamePrefix, MarksKept, Shm, H, files
<1>5. /\ H' = H /\ mxH' = mxH /\ Current' = Current /\ shm'.nBackfill = shm.nBackfill
      /\ \A i, j, X : Overlays(i, j, X)' <=> Overlays(i, j, X)
  BY <1>4, LogKept DEF SameBase
<1>6. InWrite(c) /\ w[c].readLock = 0
  BY <1>1, <1>2 DEF CtlAt, TransAt, ModeAt, WritePc, RestartPc
<1>7. SvptAt(c)' /\ ContentAt(c)'
  <2>1. SvptAt(c) /\ ContentAt(c) /\ UndoTo(c)' = UndoTo(c)
    BY <1>1, <1>2, <1>3, <1>6 DEF WriteAt, UndoTo
  <2>2. Overlays(w[c].svpt.mine, UndoTo(c), {})' <=> Overlays(w[c].svpt.mine, UndoTo(c), {})
    BY <1>3, <1>5, <2>1
  <2>3. SvptAt(c)'
    BY <1>2, <1>3, <1>5, <2>1, <2>2 DEF SvptAt, RestartPc
  <2>4. ContentAt(c)'
    BY <1>2, <1>3, <2>1 DEF ContentAt
  <2>5. QED BY <2>3, <2>4
<1>8. WriteAt(c)'
  <2>1. Pending(c)' = Pending(c)
    BY <1>2, <1>3 DEF Pending
  <2>2. Overlays(mine[c], w[c].hdr.mxFrame, Pending(c))' <=> Overlays(mine[c], w[c].hdr.mxFrame, Pending(c))
    BY <1>3, <1>5, <2>1
  <2>3. QED BY <1>1, <1>2, <1>3, <1>5, <1>6, <1>7, <2>2 DEF WriteAt, MarkPc
<1>9. ReadAt(c)' /\ RelyAt(c)'
  BY <1>3, <1>6 DEF ReadAt, RelyAt, InWrite
<1>10. DataAt(c)'
  BY <1>3, <1>8, <1>9, NotCheckpointing DEF DataAt, CkRunPc, CkWritePc
<1>11. ReadsOn(c)
  BY <1>3 DEF ReadsOn
<1>12. QED BY <1>1, <1>2, <1>3, <1>4, <1>10, <1>11, DataStep


\* Who holds the marks, or all the locks, has no reader beside it.
LEMMA NoReader ==
  ASSUME Ctl, NEW c \in Conn, NEW d \in Conn, d # c
  PROVE  /\ Marked \subseteq exclMask[c] => w[d].readLock < 1
         /\ READ(0) \in exclMask[c] => w[d].readLock # 0
<1>1. CtlAt(d) /\ exclMask[c] \cap sharedMask[d] = {} /\ w[d].readLock \in (-1)..(NReader - 1)
      /\ NReader \in Nat
  BY WalAssumption DEF Ctl, Excluded, WalTypeOK, WalObj
<1>2. w[d].readLock >= 1 => w[d].readLock \in Readers /\ w[d].readLock # 0
  BY <1>1 DEF Readers
<1>3. w[d].readLock >= 1 => READ(w[d].readLock) \in sharedMask[d] /\ READ(w[d].readLock) \in Marked
  BY <1>1, <1>2, Slots DEF CtlAt, LocksAt
<1>4. w[d].readLock = 0 => READ(0) \in sharedMask[d]
  BY <1>1 DEF CtlAt, LocksAt
<1>5. QED BY <1>1, <1>3, <1>4

\* Nothing was ever written beyond the end of a log that starts anew.
LEMMA RestartedOverlays ==
  ASSUME mxH \in Nat, SameLog, db' = db, Size(H)' = Size(H), NEW m, NEW X, Overlays(m, 0, X)
  PROVE  Overlays(m, 0, X)'
<1>1. \A p : F(0, p)' = F(0, p) /\ At(0, p)' = At(0, p) /\ F(0, p) = 0
  BY FramesKept, NoFrames
<1>2. ASSUME NEW p \in (1..Len(m)) \ X PROVE m[p] = At(0, p) /\ ~(p > Size(H))
  <2>1. m[p] = At(0, p) /\ (p > Size(H) => 0 > mxH)
    BY <1>1, <1>2 DEF Overlays
  <2>2. QED BY <2>1
<1>3. QED BY <1>1, <1>2 DEF Overlays

\* The restarted log has no frames, and the file is what the log stood for.
LEMMA RestartHdr0Data == ASSUME Ctl, Heads, Data, NEW c \in Conn, RestartHdr0(c) PROVE Data'
<1> DEFINE h == w[c].hdr
<1>1. /\ WalTypeOK /\ CtlAt(c) /\ HeadAt(c) /\ WriteAt(c) /\ mxH \in Nat /\ H.nPage \in Nat
      /\ w[c] \in WalObj /\ shm.nBackfill \in Nat /\ (mxH > 0 => H.nPage > 0) /\ Heads
  BY DataIs, HeadIs, Types
<1>2. /\ pc[c] = "restart0" /\ Moves(c, "restartinfo") /\ UNCHANGED files
      /\ Shm(h, shm.hdr[1], shm.nBackfill, shm.aReadMark, shm.aPgno)
  BY <1>1, RestartHdr0Does
<1>3. /\ Others(c) /\ pc'[c] = "restartinfo" /\ call'[c] = call[c] /\ w'[c] = w[c]
      /\ cached'[c] = cached[c] /\ mine'[c] = mine[c]
  BY <1>2, OthersKept DEF Moves
<1>4. InWrite(c) /\ w[c].readLock = 0 /\ Marked \subseteq exclMask[c] /\ WRITE \in exclMask[c]
  BY <1>1, <1>2 DEF CtlAt, TransAt, ModeAt, LocksAt, WritePc, RestartPc
<1>5. h.mxFrame = 0 /\ h.nPage = H.nPage /\ mxH > 0 /\ shm.nBackfill >= mxH /\ H.nPage > 0
  BY <1>1, <1>2, <1>4 DEF WriteAt, HeadAt
<1>6. SameLog /\ db' = db /\ H' = h /\ mxH' = 0 /\ shm'.nBackfill = shm.nBackfill
  BY <1>2, <1>5 DEF Shm, SameLog, files, H, mxH
<1>7. /\ \A m, p : F(m, p)' = F(m, p) /\ At(m, p)' = At(m, p)
      /\ \A k : LogView(k)' = LogView(k) /\ FileView(k)' = FileView(k) /\ Size(k)' = Size(k)
      /\ \A p : F(0, p) = 0 /\ At(0, p) = DbAt(p)
  BY <1>6, FramesKept, NoFrames
<1>8. Size(h) = Size(H) /\ Size(H)' = Size(H)
  BY <1>5, <1>6, <1>7 DEF Size
<1>9. Current' = Current
  <2>1. Current' = LogView(h)
    BY <1>6, <1>7 DEF Current
  <2>2. LogView(h) = FileView(H)
    BY <1>5, <1>7, <1>8 DEF LogView, FileView
  <2>3. QED BY <1>2, <1>5, <2>1, <2>2, FileIsCurrent
<1>10. BackfillInv'
  BY <1>3, <1>6, <1>7 DEF BackfillInv
<1>11. ASSUME NEW d \in Conn, d # c PROVE DataAt(d)'
  <2>1. /\ pc'[d] = pc[d] /\ call'[d] = call[d] /\ w'[d] = w[d] /\ cached'[d] = cached[d] /\ mine'[d] = mine[d]
    BY <1>3, <1>11 DEF Others
  <2>2. ReadAt(d) /\ CkAt(d) /\ w[d].hdr.mxFrame \in Nat /\ w[d].readLock < 1
        /\ w[d].readLock \in (-1)..(NReader - 1) /\ NReader \in Nat
    BY <1>4, <1>11, NoReader, DataIs
  <2>3. w[d].hdr # h
    <3>1. FreshAt(c, d)
      BY <1>1 DEF Heads
    <3>2. QED BY <1>2, <1>11, <3>1 DEF FreshAt
  <2>4. ~InWrite(d)
    BY <1>4, <1>11, WriterAlone
  <2>5. RelyAt(d)'
    BY <1>6, <2>1, <2>3 DEF RelyAt
  <2>6. ReadAt(d)'
    BY <1>6, <1>7, <2>1, <2>2, <2>3 DEF ReadAt, InWrite
  <2>7. WriteAt(d)'
    BY <2>1, <2>4, NotWriting DEF InWrite
  <2>8. CkAt(d)'
    <3>1. pc[d] \notin CkRunPc /\ (pc[d] = "ckstart" => shm.nBackfill >= w[d].hdr.mxFrame)
      BY <1>1, <1>5, <2>2 DEF CkAt, Follows
    <3>2. QED BY <1>6, <2>1, <3>1 DEF CkAt, CkRunPc, CkWritePc
  <2>9. QED BY <2>5, <2>6, <2>7, <2>8 DEF DataAt
<1>12. DataAt(c)'
  <2>1. RelyAt(c)' /\ ReadAt(c)'
    BY <1>3, <1>4 DEF RelyAt, ReadAt, InWrite
  <2>2. ContentAt(c)'
    BY <1>1, <1>2, <1>3, <1>4 DEF WriteAt, ContentAt
  <2>3. SvptAt(c)'
    <3>1. CASE w[c].svpt = None
      BY <1>3, <3>1 DEF SvptAt
    <3>2. CASE w[c].svpt # None
      <4>1. UndoTo(c) \in Nat /\ SvptAt(c)
        BY <1>1, <1>4, <3>2 DEF WalObj, Svpt, UndoTo, WriteAt
      <4>2. UndoTo(c) = 0 /\ UndoTo(c)' = 0
        BY <1>3, <1>5, <3>2, <4>1 DEF SvptAt, UndoTo
      <4>3. Overlays(w[c].svpt.mine, 0, {})'
        <5>1. Overlays(w[c].svpt.mine, 0, {})
          BY <3>2, <4>1, <4>2 DEF SvptAt
        <5>2. QED BY <1>1, <1>3, <1>6, <1>8, <5>1, RestartedOverlays
      <4>4. Overlays(w[c].svpt.mine, UndoTo(c), {})'
        BY <1>3, <4>2, <4>3
      <4>5. QED BY <1>3, <1>5, <1>6, <3>2, <4>1, <4>2, <4>4 DEF SvptAt, RestartPc
    <3>3. QED BY <3>1, <3>2
  <2>4. Overlays(mine[c], w[c].hdr.mxFrame, Pending(c))'
    <3>1. Overlays(mine[c], 0, Range(call[c].list))
      BY <1>1, <1>2, <1>4, <1>5 DEF WriteAt, Pending
    <3>2. Overlays(mine[c], 0, Range(call[c].list))'
      BY <1>1, <1>3, <1>6, <1>8, <3>1, RestartedOverlays
    <3>3. Pending(c)' = Range(call[c].list)
      BY <1>3 DEF Pending
    <3>4. QED BY <1>3, <1>5, <3>2, <3>3
  <2>5. WriteAt(c)'
    BY <1>1, <1>2, <1>3, <1>4, <1>5, <1>6, <1>9, <2>2, <2>3, <2>4 DEF WriteAt, MarkPc, InWrite
  <2>6. QED BY <1>3, <2>1, <2>5, NotCheckpointing DEF DataAt, CkRunPc, CkWritePc
<1>13. \A d \in Conn : DataAt(d)'
  BY <1>11, <1>12
<1>14. QED BY <1>10, <1>13 DEF Data

\* nBackfill and the read marks of the new log.
LEMMA RestartInfoData == ASSUME Ctl, Heads, Data, NEW c \in Conn, RestartInfo(c) PROVE Data'
<1> DEFINE o == [w[c] EXCEPT !.readLock = -1]
<1>1. /\ WalTypeOK /\ CtlAt(c) /\ HeadAt(c) /\ WriteAt(c) /\ mxH \in Nat /\ w[c] \in WalObj /\ Steady
  BY DataIs, Types DEF Ctl
<1>2. /\ pc[c] = "restartinfo" /\ (\A d \in Conn : pc[d] # "ckstart") /\ UNCHANGED files
      /\ \E marks : Shm(H, shm.hdr[1], 0, marks, shm.aPgno)
      /\ Does(c, "marks", call[c], o, cached[c], mine[c])
  BY <1>1, RestartInfoDoes
<1>3. o \in WalObj /\ o.hdr = w[c].hdr /\ o.readLock = -1 /\ o.svpt = w[c].svpt /\ o.nCkpt = w[c].nCkpt
  BY <1>1, WalAssumption DEF WalObj
<1> HIDE DEF o
<1>4. /\ Others(c) /\ pc'[c] = "marks" /\ call'[c] = call[c] /\ w'[c] = o
      /\ cached'[c] = cached[c] /\ mine'[c] = mine[c]
  BY <1>2, OthersKept
<1>5. InWrite(c) /\ w[c].readLock = 0 /\ Marked \subseteq exclMask[c] /\ WRITE \in exclMask[c]
  BY <1>1, <1>2 DEF CtlAt, TransAt, ModeAt, LocksAt, WritePc, RestartPc
<1>6. mxH = 0 /\ w[c].hdr = H
  BY <1>1, <1>2, <1>5 DEF WriteAt
<1>7. SameLog /\ db' = db /\ H' = H /\ mxH' = 0 /\ shm'.nBackfill = 0
  BY <1>2, <1>6 DEF Shm, SameLog, files, H, mxH
<1>8. /\ \A m, p : F(m, p)' = F(m, p) /\ At(m, p)' = At(m, p)
      /\ \A k : LogView(k)' = LogView(k) /\ FileView(k)' = FileView(k) /\ Size(k)' = Size(k)
      /\ Size(H)' = Size(H) /\ Current' = Current
  BY <1>7, FramesKept DEF Current
<1>9. \A m, k, X : Overlays(m, k, X)' <=> Overlays(m, k, X)
  BY <1>6, <1>7, <1>8 DEF Overlays
<1>10. BackfillInv'
  BY <1>7 DEF BackfillInv
<1>11. ASSUME NEW d \in Conn, d # c PROVE DataAt(d)'
  <2>1. /\ pc'[d] = pc[d] /\ call'[d] = call[d] /\ w'[d] = w[d] /\ cached'[d] = cached[d] /\ mine'[d] = mine[d]
    BY <1>4, <1>11 DEF Others
  <2>2. ReadAt(d) /\ CkAt(d) /\ w[d].hdr.mxFrame \in Nat /\ w[d].readLock < 1 /\ RelyAt(d)
        /\ w[d].readLock \in (-1)..(NReader - 1) /\ NReader \in Nat
    BY <1>5, <1>11, NoReader, DataIs
  <2>3. ~InWrite(d)
    BY <1>5, <1>11, WriterAlone
  <2>4. RelyAt(d)'
    BY <1>7, <1>8, <2>1, <2>2 DEF RelyAt, InWrite
  <2>5. ReadAt(d)'
    BY <1>7, <1>8, <2>1, <2>2 DEF ReadAt, InWrite
  <2>6. WriteAt(d)'
    BY <2>1, <2>3, NotWriting DEF InWrite
  <2>7. CkAt(d)'
    <3>1. shm.nBackfill \in Nat
      BY DataIs
    <3>2. pc[d] \notin CkRunPc /\ pc[d] # "ckstart"
      BY <1>2, <1>6, <2>2, <3>1 DEF CkAt, Follows
    <3>3. QED BY <2>1, <3>2 DEF CkAt, CkRunPc, CkWritePc
  <2>8. QED BY <2>4, <2>5, <2>6, <2>7 DEF DataAt
<1>12. DataAt(c)'
  <2>1. RelyAt(c)' /\ ReadAt(c)'
    BY <1>3, <1>4, <1>5 DEF RelyAt, ReadAt, InWrite
  <2>2. ContentAt(c)'
    <3>1. ContentAt(c)
      BY <1>1, <1>2, <1>5 DEF WriteAt
    <3>2. QED BY <1>2, <1>4, <3>1 DEF ContentAt
  <2>3. SvptAt(c)'
    <3>1. SvptAt(c) /\ UndoTo(c)' = UndoTo(c)
      BY <1>1, <1>3, <1>4, <1>5 DEF WriteAt, UndoTo
    <3>2. Overlays(w[c].svpt.mine, UndoTo(c), {})' <=> Overlays(w[c].svpt.mine, UndoTo(c), {})
      BY <1>3, <1>4, <1>9, <3>1
    <3>3. QED BY <1>2, <1>3, <1>4, <1>6, <1>7, <3>1, <3>2 DEF SvptAt, RestartPc
  <2>4. Overlays(mine[c], w[c].hdr.mxFrame, Pending(c))'
    <3>1. Overlays(mine[c], w[c].hdr.mxFrame, Range(call[c].list))
      BY <1>1, <1>2, <1>5 DEF WriteAt, Pending
    <3>2. Pending(c)' = Range(call[c].list)
      BY <1>4 DEF Pending
    <3>3. QED BY <1>3, <1>4, <1>9, <3>1, <3>2
  <2>5. WriteAt(c)'
    BY <1>1, <1>2, <1>3, <1>4, <1>5, <1>6, <1>7, <1>8, <2>2, <2>3, <2>4 DEF WriteAt, InWrite
  <2>6. QED BY <1>4, <2>1, <2>5, NotCheckpointing DEF DataAt, CkRunPc, CkWritePc
<1>13. \A d \in Conn : DataAt(d)'
  BY <1>11, <1>12
<1>14. QED BY <1>10, <1>13 DEF Data

-----------------------------------------------------------------------------
(* Writing frames: Data is kept *)

\* A write to the log after the frames that a writer has in the index.
LEMMA WritesFramesData ==
  ASSUME Ctl, Heads, Data, NEW c \in Conn,
         pc[c] \in {"walhdr", "walhdrsync", "frame", "framesync"},
         NEW to \in {"walhdrsync", "frame", "framesync", "index"}, NEW k, NEW o \in WalObj,
         Does(c, to, k, o, cached[c], mine[c]), shm' = shm, db' = db,
         o.hdr.mxFrame = w[c].hdr.mxFrame, o.svpt = w[c].svpt, o.nCkpt = w[c].nCkpt,
         o.readLock = w[c].readLock,
         k.list = call[c].list, k.data = call[c].data, k.nTruncate = call[c].nTruncate,
         SamePrefix(w[c].hdr.mxFrame),
         \A j \in 1..(k.iFrame - w[c].hdr.mxFrame) :
           wal'.frames[w[c].hdr.mxFrame + j].data = call[c].data
  PROVE  Data'
<1> DEFINE mx == w[c].hdr.mxFrame
<1>1. /\ WalTypeOK /\ CtlAt(c) /\ ReadAt(c) /\ WriteAt(c) /\ mxH \in Nat /\ w[c] \in WalObj /\ mx \in Nat
      /\ w[c].readLock \in (-1)..(NReader - 1) /\ NReader \in Nat
  BY DataIs, Types
<1>2. /\ Others(c) /\ pc'[c] = to /\ call'[c] = k /\ w'[c] = o
      /\ cached'[c] = cached[c] /\ mine'[c] = mine[c]
  BY OthersKept
<1>3. InWrite(c) /\ w[c].readLock >= 1 /\ WRITE \in exclMask[c]
  BY <1>1 DEF CtlAt, TransAt, ModeAt, LocksAt, WritePc, FramePc, InWrite
<1>4. mxH <= mx /\ Overlays(mine[c], mx, Range(call[c].list)) /\ ContentAt(c) /\ SvptAt(c)
      /\ cached[c] = Current
  BY <1>1, <1>3 DEF WriteAt, Pending
<1>5. SameBase /\ SamePrefix(mx) /\ SamePrefix(mxH) /\ MarksKept(c)
  <2>1. SamePrefix(mxH)
    BY <1>1, <1>4 DEF SamePrefix
  <2>2. QED BY <2>1 DEF SameBase, MarksKept, H
<1>6. /\ H' = H /\ mxH' = mxH /\ Current' = Current /\ shm'.nBackfill = shm.nBackfill
      /\ \A i \in 0..mx : \A m, X : Overlays(m, i, X)' <=> Overlays(m, i, X)
  BY <1>1, <1>5, PrefixKept, OverlaysKept, mxH \in 0..mxH DEF SameBase
<1>7. SvptAt(c)'
  <2>1. CASE w[c].svpt = None
    BY <1>2, <2>1 DEF SvptAt
  <2>2. CASE w[c].svpt # None
    <3>1. UndoTo(c)' = UndoTo(c) /\ UndoTo(c) \in Nat /\ UndoTo(c) <= mx
      BY <1>1, <1>2, <1>4, <2>2 DEF WalObj, Svpt, UndoTo, SvptAt
    <3>2. Overlays(w[c].svpt.mine, UndoTo(c), {})'
      BY <1>1, <1>2, <1>4, <1>6, <2>2, <3>1 DEF SvptAt
    <3>3. QED BY <1>2, <1>4, <1>6, <2>2, <3>1, <3>2 DEF SvptAt, RestartPc
  <2>3. QED BY <2>1, <2>2
<1>8. ContentAt(c)'
  BY <1>2, <1>4 DEF ContentAt
<1>9. WriteAt(c)'
  <2>1. Overlays(mine[c], w[c].hdr.mxFrame, Pending(c))'
    <3>1. Pending(c)' = Range(call[c].list)
      BY <1>2 DEF Pending
    <3>2. mx \in 0..mx
      BY <1>1
    <3>3. QED BY <1>2, <1>4, <1>6, <3>1, <3>2
  <2>2. QED BY <1>1, <1>2, <1>3, <1>4, <1>6, <1>7, <1>8, <2>1 DEF WriteAt, MarkPc
<1>10. ReadAt(c)' /\ RelyAt(c)'
  BY <1>1, <1>2, <1>3, <1>6 DEF ReadAt, RelyAt, InWrite
<1>11. DataAt(c)'
  BY <1>2, <1>9, <1>10, NotCheckpointing DEF DataAt, CkRunPc, CkWritePc
<1>12. ReadsOn(c)
  BY <1>2 DEF ReadsOn
<1>13. QED BY <1>2, <1>3, <1>5, <1>11, <1>12, DataStep

LEMMA WriteWalHdrData == ASSUME Ctl, Heads, Data, NEW c \in Conn, WriteWalHdr(c) PROVE Data'
<1> DEFINE mx == w[c].hdr.mxFrame
           k == [call[c] EXCEPT !.iFrame = mx]
<1>1. WalTypeOK /\ w[c] \in WalObj /\ mx \in Nat /\ w[c].hdr \in Hdr /\ call[c] \in Call
  BY DataIs, Types
<1>2. pc[c] = "walhdr" /\ shm' = shm /\ db' = db
  BY <1>1, WriteWalHdrDoes
<1>3. /\ k.list = call[c].list /\ k.data = call[c].data /\ k.nTruncate = call[c].nTruncate
      /\ k.iFrame = mx /\ ~\E j \in 1..(k.iFrame - mx) : TRUE
  BY <1>1 DEF Call
<1> HIDE DEF k
<1>4. CASE wal' = wal /\ Calls(c, "frame", k)
  <2>1. SamePrefix(mx)
    BY <1>2, <1>4 DEF SamePrefix
  <2>2. QED BY <1>1, <1>2, <1>3, <1>4, <2>1, WritesFramesData DEF Calls
<1>5. ASSUME NEW salt \in Nat, wal' = [wal EXCEPT !.salt = salt, !.nCkpt = w[c].nCkpt],
             Does(c, "walhdrsync", k, [w[c] EXCEPT !.hdr = [w[c].hdr EXCEPT !.salt = salt, !.cksum = <<0, salt>>]],
                  cached[c], mine[c])
      PROVE  Data'
  <2> DEFINE h == [w[c].hdr EXCEPT !.salt = salt, !.cksum = <<0, salt>>]
             o == [w[c] EXCEPT !.hdr = h]
  <2>1. h \in Hdr /\ h.mxFrame = mx
    BY <1>1 DEF Hdr, Pair
  <2>2. o \in WalObj /\ o.hdr = h /\ o.svpt = w[c].svpt /\ o.nCkpt = w[c].nCkpt /\ o.readLock = w[c].readLock
    BY <1>1, <2>1 DEF WalObj
  <2>3. Does(c, "walhdrsync", k, o, cached[c], mine[c])
    BY <1>5
  <2> HIDE DEF o, h
  <2>4. wal'.frames = wal.frames
    BY <1>1, <1>5 DEF WalTypeOK, Log
  <2>5. SamePrefix(mx)
    BY <1>2, <2>4 DEF SamePrefix
  <2>6. QED BY <1>1, <1>2, <1>3, <2>1, <2>2, <2>3, <2>5, WritesFramesData
<1>6. QED BY <1>1, <1>4, <1>5, WriteWalHdrDoes DEF k

LEMMA WriteFrameData == ASSUME Ctl, Heads, Data, NEW c \in Conn, WriteFrame(c) PROVE Data'
<1> DEFINE mx == w[c].hdr.mxFrame
           n == call[c].iFrame
           x == call[c].data
           k == [call[c] EXCEPT !.iFrame = n + 1]
<1>1. WalTypeOK /\ w[c] \in WalObj /\ mx \in Nat /\ w[c].hdr \in Hdr /\ call[c] \in Call /\ CtlAt(c)
      /\ WriteAt(c) /\ x \in Nat
  BY DataIs, Types DEF Call
<1>2. FrameStepAt(c)
  BY <1>1 DEF CtlAt
<1>3. /\ pc[c] = "frame" /\ shm' = shm /\ db' = db
      /\ Len(wal'.frames) >= n + 1 /\ Len(wal'.frames) \in Nat
      /\ wal'.frames[n + 1].data = x
      /\ \A j \in 1..Len(wal'.frames) : j # n + 1 => wal'.frames[j] = wal.frames[j]
  <2>1. /\ pc[c] = "frame" /\ UNCHANGED <<shm, db>> /\ wal' \in Log
        /\ Len(wal'.frames) >= n + 1 /\ wal'.frames[n + 1].data = x
        /\ \A j \in 1..Len(wal'.frames) : j # n + 1 => wal'.frames[j] = wal.frames[j]
    BY <1>1, <1>2, WriteFrameDoes
  <2>2. wal'.frames \in Seq(Frame)
    BY <2>1 DEF Log
  <2>3. QED BY <2>1, <2>2
<1>4. n \in Nat /\ mx <= n
  BY <1>1, <1>2, <1>3 DEF FrameStepAt, Call
<1>5. k.list = call[c].list /\ k.data = x /\ k.nTruncate = call[c].nTruncate /\ k.iFrame = n + 1
  BY <1>1 DEF Call
<1> HIDE DEF k
<1>6. SamePrefix(mx)
  <2>1. \A i \in 1..mx : i \in 1..Len(wal'.frames) /\ i # n + 1
    BY <1>1, <1>3, <1>4
  <2>2. QED BY <1>3, <2>1 DEF SamePrefix
<1>7. ASSUME NEW j \in 1..(n + 1 - mx) PROVE wal'.frames[mx + j].data = x
  <2>1. ContentAt(c)
    <3>1. InWrite(c)
      BY <1>1, <1>3 DEF CtlAt, TransAt, ModeAt, WritePc, FramePc, InWrite
    <3>2. QED BY <1>1, <1>3, <3>1 DEF WriteAt
  <2>2. CASE j = n + 1 - mx
    <3>1. mx + j = n + 1
      BY <1>1, <1>4, <2>2
    <3>2. QED BY <1>3, <3>1
  <2>3. CASE j # n + 1 - mx
    <3>1. j \in 1..(n - mx) /\ mx + j \in 1..Len(wal'.frames) /\ mx + j # n + 1
      <4>1. j \in 1..(n - mx) /\ mx + j <= n
        BY <1>1, <1>4, <2>3
      <4>2. Len(wal'.frames) >= n + 1 /\ Len(wal'.frames) \in Nat
        BY <1>3
      <4>3. mx + j >= 1 /\ mx + j \in Nat
        BY <1>1, <4>1
      <4>4. QED BY <1>4, <4>1, <4>2, <4>3
    <3>2. wal.frames[mx + j].data = x
      BY <1>3, <2>1, <3>1 DEF ContentAt
    <3>3. QED BY <1>3, <3>1, <3>2
  <2>4. QED BY <2>2, <2>3
<1>8. PICK to \in {"frame", "framesync", "index"}, pg \in Nat :
        Does(c, to, k, [w[c] EXCEPT !.hdr = [w[c].hdr EXCEPT !.cksum = <<x, pg>>]], cached[c], mine[c])
  BY <1>1, <1>2, WriteFrameDoes DEF k
<1> DEFINE h == [w[c].hdr EXCEPT !.cksum = <<x, pg>>]
           o == [w[c] EXCEPT !.hdr = h]
<1>9. h \in Hdr /\ h.mxFrame = mx
  BY <1>1 DEF Hdr, Pair
<1>10. o \in WalObj /\ o.hdr = h /\ o.svpt = w[c].svpt /\ o.nCkpt = w[c].nCkpt /\ o.readLock = w[c].readLock
  BY <1>1, <1>9 DEF WalObj
<1>11. Does(c, to, k, o, cached[c], mine[c])
  BY <1>8
<1> HIDE DEF o, h
<1>12. \A j \in 1..(k.iFrame - mx) : wal'.frames[mx + j].data = call[c].data
  <2>1. k.iFrame - mx = n + 1 - mx
    BY <1>1, <1>4, <1>5
  <2>2. QED BY <1>7, <2>1
<1>13. QED BY <1>1, <1>3, <1>5, <1>6, <1>9, <1>10, <1>11, <1>12, WritesFramesData, SMTT(30)

LEMMA OffsetIn ==
  ASSUME NEW m \in Nat, NEW k \in Nat, NEW i \in Nat, m < i, i <= m + k
  PROVE  i - m \in 1..k /\ i = m + (i - m)
OBVIOUS

LEMMA OffsetBy ==
  ASSUME NEW m \in Nat, NEW k \in Nat
  PROVE  (m + k) - m = k /\ \A i \in 1..k : m + i \in 1..(m + k) /\ m + i > m
OBVIOUS

\* The frames of the call are counted: the image is what the log holds up to them.
LEMMA AppendIndexData == ASSUME Ctl, Heads, Data, NEW c \in Conn, AppendIndex(c) PROVE Data'
<1> SUFFICES ASSUME NEW mx, NEW l, NEW n,
                    mx = w[c].hdr.mxFrame, l = call[c].list, n = mx + Len(l)
             PROVE  Data'
  OBVIOUS
<1>1. /\ WalTypeOK /\ CtlAt(c) /\ ReadAt(c) /\ WriteAt(c) /\ mxH \in Nat /\ w[c] \in WalObj /\ mx \in Nat
      /\ w[c].readLock \in (-1)..(NReader - 1) /\ NReader \in Nat /\ LogBound /\ call[c] \in Call
      /\ mine[c] \in Image /\ call[c].nTruncate \in Nat
  BY DataIs, Types DEF Ctl, Call
<1>2. FrameStepAt(c)
  BY <1>1 DEF CtlAt
<1>3. PICK idx \in [1..MaxFrame -> Nat], h \in Hdr :
        /\ pc[c] = "index" /\ UNCHANGED files /\ n <= MaxFrame
        /\ \A i \in 1..mx : idx[i] = shm.aPgno[i]
        /\ \A i \in 1..Len(l) : idx[mx + i] = l[i]
        /\ h.mxFrame = n
        /\ \/ /\ call[c].nTruncate # 0
              /\ Does(c, "commit0", call[c], [w[c] EXCEPT !.hdr = h], cached[c], mine[c])
              /\ Shm(H, h, shm.nBackfill, shm.aReadMark, idx)
           \/ /\ Does(c, "idle", NoCall, [w[c] EXCEPT !.hdr = h], cached[c], mine[c])
              /\ Shm(H, shm.hdr[1], shm.nBackfill, shm.aReadMark, idx)
  BY <1>1, <1>2, AppendIndexDoes, ZenonT(40)
<1> DEFINE o == [w[c] EXCEPT !.hdr = h]
<1>4. /\ o \in WalObj /\ o.hdr = h /\ o.svpt = w[c].svpt /\ o.nCkpt = w[c].nCkpt
      /\ o.readLock = w[c].readLock
  BY <1>1 DEF WalObj
<1> HIDE DEF o
<1>5. /\ Others(c) /\ w'[c] = o /\ cached'[c] = cached[c] /\ mine'[c] = mine[c]
      /\ (pc'[c] = "commit0" /\ call'[c] = call[c]) \/ pc'[c] = "idle"
  BY <1>3, OthersKept DEF o
<1>6. /\ shm'.hdr[0] = H /\ shm'.nBackfill = shm.nBackfill /\ shm'.aReadMark = shm.aReadMark
      /\ shm'.aPgno = idx
  BY <1>3 DEF Shm
<1>7. l \in Seq(Nat \ {0}) /\ Len(l) \in Nat /\ Len(l) >= 1 /\ n \in Nat /\ mx < n
  <2>1. l \in Seq(Nat \ {0}) /\ Len(l) \in Nat
    BY <1>1 DEF Call
  <2>2. Len(l) >= 1
    BY <1>1, <1>2, <1>3 DEF FrameStepAt, CtlAt, ModeAt, WritePc, FramePc
  <2>3. QED BY <1>1, <2>1, <2>2, SMTT(30)
<1>8. InWrite(c) /\ w[c].readLock >= 1 /\ WRITE \in exclMask[c]
  BY <1>1, <1>3 DEF CtlAt, TransAt, ModeAt, LocksAt, WritePc, FramePc, InWrite
<1>9. mxH <= mx /\ Overlays(mine[c], mx, Range(l)) /\ ContentAt(c) /\ SvptAt(c) /\ cached[c] = Current
  BY <1>1, <1>3, <1>8 DEF WriteAt, Pending
<1>10. SameBase /\ SamePrefix(mx) /\ SamePrefix(mxH) /\ MarksKept(c)
  <2>1. SamePrefix(mx)
    BY <1>3, <1>6 DEF SamePrefix, files
  <2>2. SamePrefix(mxH)
    BY <1>1, <1>9, <2>1 DEF SamePrefix
  <2>3. QED BY <1>3, <1>6, <2>1, <2>2 DEF SameBase, MarksKept, files
<1>11. /\ H' = H /\ mxH' = mxH /\ Current' = Current /\ Size(H)' = Size(H)
       /\ \A i \in 0..mx : \A m, X : Overlays(m, i, X)' <=> Overlays(m, i, X)
       /\ \A p : F(mx, p)' = F(mx, p) /\ At(mx, p)' = At(mx, p) /\ DbAt(p)' = DbAt(p)
  <2>1. mxH \in 0..mxH /\ mx \in 0..mx
    BY <1>1
  <2>2. H' = H /\ mxH' = mxH /\ Current' = Current
    BY <1>1, <1>10, <2>1, PrefixKept
  <2>3. \A i \in 0..mx : \A m, X : Overlays(m, i, X)' <=> Overlays(m, i, X)
    BY <1>1, <1>10, OverlaysKept
  <2>4. \A p : F(mx, p)' = F(mx, p) /\ At(mx, p)' = At(mx, p)
    BY <1>1, <1>10, <2>1, PrefixKept
  <2>5. QED BY <1>10, <2>2, <2>3, <2>4, FileKept DEF SameBase
<1>12. ASSUME NEW p \in 1..Len(mine[c])
       PROVE  mine[c][p] = At(n, p)' /\ (p > Size(H) => F(n, p)' > mxH)
  <2> DEFINE f == F(n, p)'
  <2>1. /\ f \in 0..n /\ (f # 0 => idx[f] = p) /\ \A i \in 1..n : idx[i] = p => i <= f
        /\ F(mx, p)' = LastFrame(idx, mx, p) /\ f = LastFrame(idx, n, p)
    BY <1>6, <1>7, LastFrameIs DEF F
  <2>2. At(n, p)' = IF f = 0 THEN DbAt(p)' ELSE wal'.frames[f].data
    BY DEF At
  <2>3. At(mx, p)' = IF F(mx, p)' = 0 THEN DbAt(p)' ELSE wal'.frames[F(mx, p)'].data
    BY DEF At
  <2>4. wal' = wal
    BY <1>3 DEF files
  <2> HIDE DEF f
  <2>5. CASE f > mx
    <3>1. f - mx \in 1..Len(l) /\ f = mx + (f - mx)
      <4>1. mx \in Nat /\ Len(l) \in Nat /\ f \in Nat /\ f <= mx + Len(l)
        BY <1>1, <1>7, <2>1
      <4>2. QED BY <2>5, <4>1, OffsetIn
    <3>2. f # 0
      BY <1>1, <2>5
    <3>3. idx[mx + (f - mx)] = l[f - mx]
      BY <1>3, <3>1
    <3>4. l[f - mx] = p
      BY <2>1, <3>1, <3>2, <3>3
    <3>5. p \in Range(l)
      BY <1>7, <3>1, <3>4 DEF Range
    <3>6. mine[c][p] = call[c].data
      BY <1>3, <1>9, <3>5 DEF ContentAt
    <3>7. call[c].iFrame - mx = Len(l)
      <4>1. call[c].iFrame = mx + Len(l)
        BY <1>2, <1>3 DEF FrameStepAt
      <4>2. mx \in Nat /\ Len(l) \in Nat
        BY <1>1, <1>7
      <4>3. QED BY <4>1, <4>2, OffsetBy
    <3>8. \A j \in 1..(call[c].iFrame - mx) : wal.frames[mx + j].data = call[c].data
      BY <1>3, <1>9 DEF ContentAt
    <3>9. wal.frames[mx + (f - mx)].data = call[c].data
      BY <3>1, <3>7, <3>8
    <3>10. wal.frames[f].data = call[c].data
      BY <3>1, <3>9
    <3>11. f > mxH
      BY <1>1, <1>9, <2>1, <2>5
    <3>12. QED BY <2>2, <2>4, <3>2, <3>6, <3>10, <3>11 DEF f
  <2>6. CASE ~(f > mx)
    <3>1. LastFrame(idx, mx, p) = f
      <4>1. mx \in 0..n /\ f <= mx
        BY <1>1, <1>7, <2>1, <2>6
      <4>2. LastFrame(idx, n, p) <= mx => LastFrame(idx, mx, p) = LastFrame(idx, n, p)
        BY <1>7, <4>1, LastFrameOfPrefix
      <4>3. QED BY <2>1, <4>1, <4>2
    <3>2. F(mx, p) = f /\ At(mx, p) = At(n, p)'
      BY <1>11, <2>1, <2>2, <2>3, <3>1
    <3>3. p \notin Range(l)
      <4>1. ASSUME NEW i \in 1..Len(l), l[i] = p PROVE FALSE
        <5>1. mx + i \in 1..n /\ mx + i > mx /\ idx[mx + i] = p
          <6>1. mx \in Nat /\ Len(l) \in Nat /\ i \in 1..Len(l)
            BY <1>1, <1>7
          <6>2. idx[mx + i] = p
            BY <1>3, <4>1
          <6>3. mx + i \in 1..(mx + Len(l)) /\ mx + i > mx
            BY <6>1, OffsetBy
          <6>4. QED BY <6>2, <6>3
        <5>2. mx + i <= f
          BY <2>1, <5>1
        <5>3. QED BY <1>1, <2>1, <2>6, <5>1, <5>2
      <4>2. QED BY <1>7, <4>1 DEF Range
    <3>4. mine[c][p] = At(mx, p) /\ (p > Size(H) => F(mx, p) > mxH)
      BY <1>9, <3>3 DEF Overlays
    <3>5. QED BY <3>2, <3>4 DEF f
  <2>7. QED BY <2>5, <2>6
<1>13. Overlays(mine[c], n, {})'
  BY <1>5, <1>11, <1>12 DEF Overlays
<1>14. SvptAt(c)'
  <2>1. CASE w[c].svpt = None
    BY <1>4, <1>5, <2>1 DEF SvptAt
  <2>2. CASE w[c].svpt # None
    <3>1. UndoTo(c)' = UndoTo(c) /\ UndoTo(c) \in Nat /\ UndoTo(c) <= mx
      BY <1>1, <1>4, <1>5, <1>9, <2>2 DEF WalObj, Svpt, UndoTo, SvptAt
    <3>2. Overlays(w[c].svpt.mine, UndoTo(c), {})'
      BY <1>1, <1>4, <1>5, <1>9, <1>11, <2>2, <3>1 DEF SvptAt
    <3>3. UndoTo(c) <= n
      BY <1>1, <1>7, <3>1
    <3>4. mxH <= UndoTo(c) /\ w[c].svpt.nCkpt <= w[c].nCkpt
      BY <1>3, <1>9, <2>2 DEF SvptAt
    <3>5. QED BY <1>3, <1>4, <1>5, <1>8, <1>11, <2>2, <3>1, <3>2, <3>3, <3>4 DEF SvptAt
  <2>3. QED BY <2>1, <2>2
<1>15. mxH < n
  BY <1>1, <1>7, <1>9
<1>16. pc'[c] = "commit0" => ContentAt(c)'
  <2>1. call[c].nTruncate # 0 => call[c].nTruncate = Len(mine[c])
    BY <1>3, <1>9 DEF ContentAt
  <2>2. QED BY <1>3, <1>4, <1>5, <1>11, <1>15, <2>1 DEF ContentAt
<1>17. WriteAt(c)'
  <2>1. Overlays(mine[c], w[c].hdr.mxFrame, Pending(c))'
    <3>1. Pending(c)' = {}
      BY <1>5 DEF Pending
    <3>2. QED BY <1>3, <1>4, <1>5, <1>13, <3>1
  <2>2. n >= mxH
    BY <1>1, <1>7, <1>15
  <2>3. QED BY <1>3, <1>4, <1>5, <1>8, <1>9, <1>11, <1>14, <1>16, <2>1, <2>2 DEF WriteAt, MarkPc
<1>18. ReadAt(c)' /\ RelyAt(c)'
  <2>1. shm.aReadMark[w[c].readLock] <= mx /\ shm.aReadMark[w[c].readLock] <= mxH
    BY <1>1, <1>8 DEF ReadAt
  <2>2. shm.aReadMark[w[c].readLock] \in Nat
    BY <1>1, <1>8, DataIs DEF WalTypeOK, Index
  <2>3. shm.aReadMark[w[c].readLock] <= n
    BY <1>1, <1>7, <2>1, <2>2
  <2>4. QED BY <1>3, <1>4, <1>5, <1>6, <1>8, <1>11, <2>1, <2>3 DEF ReadAt, RelyAt, InWrite
<1>19. DataAt(c)'
  BY <1>5, <1>17, <1>18, NotCheckpointing DEF DataAt, CkRunPc, CkWritePc
<1>20. ReadsOn(c)
  BY <1>1, <1>3, <1>4, <1>5, <1>7, <1>15 DEF ReadsOn
<1>21. QED BY <1>3, <1>4, <1>5, <1>8, <1>10, <1>19, <1>20, DataStep

\* The commit is published: the intended database becomes the current one.
LEMMA CommitHdr0Data == ASSUME Ctl, Heads, Data, NEW c \in Conn, CommitHdr0(c) PROVE Data'
<1> DEFINE h == w[c].hdr
           n == h.mxFrame
           m == mine[c]
           o == [w[c] EXCEPT !.svpt = None]
<1>1. /\ WalTypeOK /\ CtlAt(c) /\ HeadAt(c) /\ ReadAt(c) /\ WriteAt(c) /\ mxH \in Nat /\ H.nPage \in Nat
      /\ w[c] \in WalObj /\ n \in Nat /\ shm.nBackfill \in Nat /\ (mxH > 0 => H.nPage > 0) /\ m \in Image
      /\ w[c].readLock \in (-1)..(NReader - 1) /\ NReader \in Nat /\ mxH = H.mxFrame /\ BackfillInv
      /\ h.nPage \in Nat
  BY DataIs, HeadIs, Types DEF mxH
<1>2. /\ pc[c] = "commit0" /\ UNCHANGED files /\ Does(c, "idle", NoCall, o, m, None)
      /\ Shm(h, shm.hdr[1], shm.nBackfill, shm.aReadMark, shm.aPgno)
  BY <1>1, CommitHdr0Does
<1>3. o.hdr = h /\ o.readLock = w[c].readLock
  BY <1>1 DEF WalObj
<1> HIDE DEF o
<1>4. /\ Others(c) /\ pc'[c] = "idle" /\ call'[c] = NoCall /\ w'[c] = o /\ cached'[c] = m
      /\ mine'[c] = None
  BY <1>2, OthersKept
<1>5. InWrite(c) /\ w[c].readLock >= 1 /\ WRITE \in exclMask[c] /\ call[c].mode = "write"
  BY <1>1, <1>2 DEF CtlAt, TransAt, ModeAt, LocksAt, WritePc, FramePc, InWrite
<1>6. m \in Seq(Int) /\ Len(m) \in Nat
  BY <1>1, <1>5 DEF Image, InWrite
<1>7. /\ ContentAt(c) /\ Overlays(m, n, {}) /\ n > mxH /\ h.nPage = Len(m) /\ Len(m) # 0
      /\ h.cksum[1] = call[c].data
  <2>1. ContentAt(c) /\ Overlays(m, n, {})
    BY <1>1, <1>2, <1>5 DEF WriteAt, Pending
  <2>2. QED BY <1>1, <1>2, <2>1 DEF ContentAt, HeadAt
<1>8. SameLog /\ db' = db /\ H' = h /\ mxH' = n /\ shm'.nBackfill = shm.nBackfill
      /\ shm'.aReadMark = shm.aReadMark
  BY <1>2 DEF Shm, SameLog, files, H, mxH
<1>9. /\ \A i, p : F(i, p)' = F(i, p) /\ At(i, p)' = At(i, p)
      /\ \A k : LogView(k)' = LogView(k) /\ FileView(k)' = FileView(k)
      /\ \A p, f : InFile(p, f)' <=> InFile(p, f)
  BY <1>8, FramesKept
<1>10. LogView(h) = m
  <2>1. Size(h) = Len(m)
    BY <1>7 DEF Size
  <2>2. \A p \in 1..Len(m) : m[p] = At(n, p)
    BY <1>7 DEF Overlays
  <2>3. m = [p \in 1..Len(m) |-> m[p]]
    BY <1>6
  <2>4. QED BY <2>1, <2>2, <2>3 DEF LogView
<1>11. Current' = m
  BY <1>8, <1>9, <1>10 DEF Current
<1>12. \A p \in 1..Len(m) : p > Size(H) => F(n, p) > mxH
  BY <1>7 DEF Overlays
<1>13. shm.nBackfill <= mxH
  <2>1. \A d \in Conn : pc[d] # "restartinfo"
    BY <1>2, <1>5, WriterAlone DEF WritePc, RestartPc
  <2>2. QED BY <1>1, <2>1 DEF BackfillInv
<1>14. BackfillInv'
  <2>1. ASSUME NEW p \in 1..Len(m), F(n, p) \in 1..shm.nBackfill PROVE InFile(p, F(n, p))
    <3>1. F(n, p) <= mxH /\ F(n, p) > 0 /\ F(n, p) \in Nat
      BY <1>1, <1>13, <2>1
    <3>2. F(mxH, p) = F(n, p)
      BY <1>1, <1>7, <3>1, FOfPrefix
    <3>3. ~(p > Size(H)) /\ mxH > 0
      BY <1>1, <1>12, <3>1
    <3>4. p \in 1..H.nPage
      BY <1>1, <3>3 DEF Size
    <3>5. QED BY <1>1, <1>2, <2>1, <3>2, <3>4 DEF BackfillInv
  <2>2. shm.nBackfill <= n
    BY <1>1, <1>7, <1>13
  <2>3. H'.nPage = Len(m)
    BY <1>7, <1>8
  <2>4. QED BY <1>8, <1>9, <2>1, <2>2, <2>3 DEF BackfillInv
<1>15. ASSUME NEW k \in Hdr, Follows(k), Growth(k), k.mxFrame > 0 PROVE Growth(k)'
  <2>1. k.mxFrame \in Nat /\ k.mxFrame <= mxH /\ H.nPage > 0 /\ k.nPage \in Nat
    BY <1>1, <1>15, HdrIs DEF Follows
  <2>2. ASSUME NEW p \in 1..Len(m), p > k.nPage PROVE F(n, p) > k.mxFrame
    <3>1. F(n, p) \in Nat /\ F(mxH, p) \in Nat /\ F(mxH, p) <= F(n, p)
      BY <1>1, <1>7, FIs, FOfPrefix, mxH \in 0..n, SMTT(30)
    <3>2. CASE p <= H.nPage
      BY <1>1, <1>15, <2>1, <2>2, <3>1, <3>2, SMTT(30) DEF Growth
    <3>3. CASE ~(p <= H.nPage)
      <4>1. p > Size(H)
        BY <1>1, <2>1, <3>3 DEF Size
      <4>2. QED BY <1>1, <1>12, <2>1, <3>1, <4>1, SMTT(30)
    <3>4. QED BY <3>2, <3>3
  <2>3. QED BY <1>7, <1>8, <1>9, <2>2 DEF Growth
<1>16. ASSUME NEW k, k.mxFrame \in Nat, Follows(k) PROVE Follows(k)'
  BY <1>1, <1>7, <1>8, <1>16 DEF Follows
<1>17. ASSUME NEW d \in Conn, d # c PROVE DataAt(d)'
  <2>1. /\ pc'[d] = pc[d] /\ call'[d] = call[d] /\ w'[d] = w[d] /\ cached'[d] = cached[d] /\ mine'[d] = mine[d]
    BY <1>4, <1>17 DEF Others
  <2>2. ReadAt(d) /\ CkAt(d) /\ w[d].hdr.mxFrame \in Nat /\ w[d].hdr \in Hdr
        /\ (w[d].readLock >= 1 => w[d].readLock \in Readers)
    BY <1>1, DataIs, Types
  <2>3. w[d].hdr # h /\ ~InWrite(d)
    <3>1. FreshAt(c, d)
      BY DEF Heads
    <3>2. QED BY <1>5, <1>7, <1>17, <3>1, WriterAlone DEF FreshAt
  <2>4. RelyAt(d)'
    BY <1>8, <2>1, <2>3 DEF RelyAt
  <2>5. ReadAt(d)'
    <3>1. w[d].readLock >= 1 => shm.aReadMark[w[d].readLock] <= n
      <4>1. w[d].readLock >= 1 => shm.aReadMark[w[d].readLock] \in Nat /\ shm.aReadMark[w[d].readLock] <= mxH
        BY <1>1, <2>2 DEF ReadAt, WalTypeOK, Index
      <4>2. QED BY <1>1, <1>7, <4>1
    <3>2. Follows(w[d].hdr) => Follows(w[d].hdr)'
      BY <1>16, <2>1, <2>2
    <3>3. (~InWrite(d) /\ w[d].readLock >= 1 => Follows(w[d].hdr) /\ cached[d] = LogView(w[d].hdr))'
      BY <1>9, <2>1, <2>2, <3>2 DEF ReadAt, InWrite
    <3>4. (~InWrite(d) /\ w[d].readLock = 0 => cached[d] = FileView(w[d].hdr))'
      BY <1>9, <2>1, <2>2 DEF ReadAt, InWrite
    <3>5. QED BY <1>8, <2>1, <2>2, <2>3, <3>1, <3>3, <3>4 DEF ReadAt, InWrite
  <2>6. WriteAt(d)'
    BY <2>1, <2>3, NotWriting DEF InWrite
  <2>7. CkAt(d)'
    <3>1. Follows(w[d].hdr) /\ Growth(w[d].hdr) /\ w[d].hdr.mxFrame > 0
            => Follows(w[d].hdr)' /\ Growth(w[d].hdr)'
      BY <1>15, <1>16, <2>1, <2>2
    <3>2. CASE pc[d] \notin CkRunPc \cup {"ckstart"}
      BY <2>1, <3>2, NotCheckpointing
    <3>3. CASE pc[d] = "ckstart"
      <4>1. (Follows(w[d].hdr) /\ Growth(w[d].hdr)) \/ shm.nBackfill >= w[d].hdr.mxFrame
        BY <2>2, <3>3 DEF CkAt
      <4>2. (Follows(w[d].hdr)' /\ Growth(w[d].hdr)') \/ shm.nBackfill >= w[d].hdr.mxFrame
        BY <1>1, <2>2, <3>1, <4>1
      <4>3. QED BY <1>8, <2>1, <3>3, <4>2 DEF CkAt, CkRunPc, CkWritePc
    <3>4. CASE pc[d] \in CkRunPc
      <4>1. /\ Follows(w[d].hdr) /\ Growth(w[d].hdr) /\ shm.nBackfill < w[d].hdr.mxFrame
            /\ call[d].mxSafeFrame <= w[d].hdr.mxFrame
            /\ \A e \in Conn : w[e].readLock \in 1..(call[d].i - 1) => call[d].mxSafeFrame <= w[e].hdr.mxFrame
            /\ \A t \in call[d].todo : t[2] = F(w[d].hdr.mxFrame, t[1])
        BY <2>2, <3>4 DEF CkAt
      <4>2. Follows(w[d].hdr)' /\ Growth(w[d].hdr)'
        BY <1>1, <2>2, <3>1, <4>1
      <4>3. \A e \in Conn : w'[e].readLock = w[e].readLock /\ w'[e].hdr = w[e].hdr
        BY <1>3, <1>4 DEF Others
      <4>4. pc[d] # "ckstart"
        BY <3>4 DEF CkRunPc, CkWritePc
      <4>5. (/\ Follows(w[d].hdr) /\ Growth(w[d].hdr)
             /\ shm.nBackfill < w[d].hdr.mxFrame /\ call[d].mxSafeFrame <= w[d].hdr.mxFrame
             /\ \A e \in Conn : w[e].readLock \in 1..(call[d].i - 1) => call[d].mxSafeFrame <= w[e].hdr.mxFrame
             /\ \A t \in call[d].todo : t[2] = F(w[d].hdr.mxFrame, t[1]))'
        BY <1>8, <1>9, <2>1, <4>1, <4>2, <4>3
      <4>6. (pc[d] \in {"ckmark", "ckput", "cklock0"} =>
               \A p \in Nat : F(w[d].hdr.mxFrame, p) # 0 => <<p, F(w[d].hdr.mxFrame, p)>> \in call[d].todo)'
        BY <1>9, <2>1, <2>2 DEF CkAt
      <4>7. (pc[d] \in CkWritePc =>
               /\ call[d].nBackfill = shm.nBackfill /\ shm.nBackfill < call[d].mxSafeFrame
               /\ \A p \in 1..w[d].hdr.nPage :
                    F(w[d].hdr.mxFrame, p) \in (call[d].nBackfill + 1)..call[d].mxSafeFrame =>
                      \/ pc[d] \in {"cksync", "ckpage"} /\ <<p, F(w[d].hdr.mxFrame, p)>> \in call[d].todo
                      \/ InFile(p, F(w[d].hdr.mxFrame, p)))'
        BY <1>8, <1>9, <2>1, <2>2 DEF CkAt
      <4>8. QED BY <2>1, <4>4, <4>5, <4>6, <4>7 DEF CkAt
    <3>5. QED BY <3>2, <3>3, <3>4
  <2>8. QED BY <2>4, <2>5, <2>6, <2>7 DEF DataAt
<1>18. DataAt(c)'
  <2>1. Follows(h)'
    <3>1. w'[c].hdr = w[c].hdr
      BY <1>3, <1>4
    <3>2. QED BY <1>1, <1>8, <3>1 DEF Follows
  <2>2. shm.aReadMark[w[c].readLock] <= n
    BY <1>1, <1>5 DEF ReadAt
  <2>3. Follows(w[c].hdr)' /\ LogView(w[c].hdr)' = m
    BY <1>3, <1>4, <1>9, <1>10, <2>1
  <2>4. ReadAt(c)'
    BY <1>1, <1>3, <1>4, <1>5, <1>8, <2>2, <2>3 DEF ReadAt
  <2>5. RelyAt(c)'
    BY <1>1, <1>3, <1>4, <1>5 DEF RelyAt
  <2>6. QED BY <1>4, <2>4, <2>5, NotWriting, NotCheckpointing DEF DataAt, CkRunPc, CkWritePc
<1>19. \A d \in Conn : DataAt(d)'
  BY <1>17, <1>18
<1>20. QED BY <1>14, <1>19 DEF Data

-----------------------------------------------------------------------------
(* Checkpoints: Data is kept *)

LEMMA CheckpointsOnly ==
  ASSUME Ctl, NEW c \in Conn, pc[c] \in CkPc
  PROVE  w[c].readLock = -1 /\ ~InWrite(c) /\ call[c].mode \in CkMode
<1>1. CtlAt(c)
  BY DEF Ctl
<1>2. call[c].mode \in CkMode
  BY <1>1 DEF CtlAt, ModeAt
<1>3. QED BY <1>1, <1>2 DEF CtlAt, TransAt, CkPc, CkRunPc, CkWritePc, WritePc, RestartPc, FramePc, CkMode

\* A step of a checkpoint that does not write the database file.
LEMMA CkData ==
  ASSUME Ctl, Heads, Data, NEW c \in Conn, pc[c] \in CkPc, NEW to \in CkPc, NEW k, Calls(c, to, k),
         k.changed = call[c].changed, SameBase, SameLog, MarksKept(c), CkAt(c)'
  PROVE  Data'
<1>1. WalTypeOK /\ w[c] \in WalObj /\ RelyAt(c)
  BY DataIs, Types
<1>2. /\ Others(c) /\ pc'[c] = to /\ call'[c] = k /\ w'[c] = w[c]
      /\ cached'[c] = cached[c] /\ mine'[c] = mine[c]
  BY OthersKept DEF Calls
<1>3. w[c].readLock = -1 /\ ~InWrite(c)
  BY CheckpointsOnly
<1>4. H' = H /\ Current' = Current /\ SamePrefix(mxH)
  BY LogKept DEF SameLog, SamePrefix
<1>5. RelyAt(c)'
  BY <1>1, <1>2, <1>4 DEF RelyAt, InWrite
<1>6. ReadAt(c)'
  BY <1>2, <1>3 DEF ReadAt, CkPc, CkRunPc, CkWritePc
<1>7. WriteAt(c)'
  BY <1>2, <1>3, NotWriting DEF InWrite
<1>8. DataAt(c)'
  BY <1>5, <1>6, <1>7 DEF DataAt
<1>9. ReadsOn(c)
  BY <1>2, <1>3 DEF ReadsOn
<1>10. QED BY <1>1, <1>2, <1>4, <1>8, <1>9, DataStep DEF CkPc, CkRunPc, CkWritePc

\* The checkpoint is over, whatever it has done.
LEMMA CkEndsData ==
  ASSUME Ctl, Heads, Data, NEW c \in Conn, pc[c] \in CkPc, NEW to \in {"ckend", "closing"}, NEW k,
         Calls(c, to, k), k.changed = call[c].changed, UNCHANGED <<shm, files>>
  PROVE  Data'
<1>1. pc'[c] = to
  BY OthersKept DEF Calls
<1>2. CkAt(c)'
  BY <1>1, NotCheckpointing DEF CkRunPc, CkWritePc
<1>3. SameBase /\ SameLog /\ MarksKept(c)
  BY SameAll
<1>4. QED BY <1>2, <1>3, CkData DEF CkPc

LEMMA CheckpointData == ASSUME Ctl, Heads, Data, NEW c \in Conn, Checkpoint(c) PROVE Data'
<1>1. WalTypeOK /\ CtlAt(c) /\ Steady /\ w[c].readLock \in (-1)..(NReader - 1) /\ NReader \in Nat
  BY DataIs DEF Ctl
<1>2. /\ pc[c] = "idle" /\ w[c].readLock = -1 /\ ~InWrite(c) /\ UNCHANGED <<shm, files>>
      /\ \E k : Calls(c, "hdr0", k)
  BY <1>1, CheckpointDoes
<1>3. PICK k : Calls(c, "hdr0", k)
  BY <1>2
<1>4. /\ Others(c) /\ pc'[c] = "hdr0" /\ w'[c] = w[c] /\ cached'[c] = cached[c] /\ mine'[c] = mine[c]
  BY <1>3, OthersKept DEF Calls
<1>5. ~call[c].changed /\ w[c] \in WalObj /\ mine'[c] = None
  BY <1>1, <1>2, <1>4, Types DEF CtlAt, ModeAt, NoCall, InWrite
<1>6. QED BY <1>2, <1>4, <1>5, CallData DEF CkRunPc, CkWritePc

LEMMA CkStartData == ASSUME Ctl, Heads, Data, NEW c \in Conn, CkStart(c) PROVE Data'
<1> DEFINE mx == w[c].hdr.mxFrame
<1>1. /\ WalTypeOK /\ CtlAt(c) /\ CkAt(c) /\ mx \in Nat /\ shm.nBackfill \in Nat /\ call[c] \in Call
  BY DataIs, Types
<1>2. mx <= MaxFrame
  BY InMaxFrame DEF CkStart
<1>3. pc[c] = "ckstart" /\ UNCHANGED <<shm, files>>
  BY <1>1, <1>2, CkStartDoes DEF Quiet
<1>4. SameBase /\ SameLog /\ MarksKept(c)
  BY <1>3, SameAll
<1>5. CASE Moves(c, "ckend")
  BY <1>3, <1>5, CkEndsData DEF Moves, Calls, CkPc
<1>6. ASSUME NEW todo \in SUBSET (Nat \X Nat), shm.nBackfill < mx,
             \A t \in todo : t[2] \in 1..mx /\ t[2] = LastFrame(shm.aPgno, mx, t[1]),
             \A p \in Nat : LastFrame(shm.aPgno, mx, p) # 0 => <<p, LastFrame(shm.aPgno, mx, p)>> \in todo,
             Calls(c, "ckmark", [call[c] EXCEPT !.mxSafeFrame = mx, !.i = 1, !.todo = todo])
      PROVE  Data'
  <2> DEFINE k == [call[c] EXCEPT !.mxSafeFrame = mx, !.i = 1, !.todo = todo]
  <2>1. k.changed = call[c].changed /\ k.mxSafeFrame = mx /\ k.i = 1 /\ k.todo = todo
    BY <1>1 DEF Call
  <2>2. Calls(c, "ckmark", k)
    BY <1>6
  <2> HIDE DEF k
  <2>3. /\ Others(c) /\ pc'[c] = "ckmark" /\ call'[c] = k /\ w'[c] = w[c]
    BY <2>2, OthersKept DEF Calls
  <2>4. Follows(w[c].hdr) /\ Growth(w[c].hdr)
    BY <1>1, <1>3, <1>6 DEF CkAt
  <2>5. Follows(w[c].hdr)' /\ Growth(w[c].hdr)' /\ \A p : F(mx, p)' = F(mx, p)
    BY <1>4, <2>3, <2>4, LogKept
  <2>6. (\A t \in todo : t[2] = F(mx, t[1])) /\ \A p \in Nat : F(mx, p) # 0 => <<p, F(mx, p)>> \in todo
    BY <1>6 DEF F
  <2>7. CkAt(c)'
    BY <1>1, <1>3, <1>6, <2>1, <2>3, <2>5, <2>6 DEF CkAt, CkRunPc, CkWritePc
  <2>8. QED BY <1>3, <1>4, <2>1, <2>2, <2>7, CkData DEF CkPc, CkRunPc
<1>7. QED BY <1>1, <1>2, <1>5, <1>6, CkStartDoes

\* A mark that a reader holds limits what is copied.
LEMMA CkMarkData == ASSUME Ctl, Heads, Data, NEW c \in Conn, CkMark(c) PROVE Data'
<1> DEFINE x == call[c]
<1>1. /\ WalTypeOK /\ CtlAt(c) /\ CkAt(c) /\ shm.nBackfill \in Nat /\ call[c] \in Call
      /\ x.i \in Nat /\ x.mxSafeFrame \in Nat /\ w[c].hdr.mxFrame \in Nat /\ shm \in Index
  BY DataIs, Types
<1>2. CkStepAt(c)
  BY <1>1 DEF CtlAt
<1>3. pc[c] = "ckmark" /\ UNCHANGED <<shm, files>>
  BY <1>1, <1>2, CkMarkDoes DEF Quiet
<1>4. SameBase /\ SameLog /\ MarksKept(c)
  BY <1>3, SameAll
<1>5. /\ \A h : (Follows(h)' <=> Follows(h)) /\ (Growth(h)' <=> Growth(h))
      /\ \A m, p : F(m, p)' = F(m, p)
  BY <1>4, LogKept
<1>6. ASSUME NEW to \in {"ckput", "cklock0"}, Moves(c, to) PROVE Data'
  <2>1. /\ Others(c) /\ pc'[c] = to /\ call'[c] = call[c] /\ w'[c] = w[c]
    BY <1>6, OthersKept DEF Moves
  <2>2. \A d \in Conn : w'[d] = w[d]
    BY <2>1 DEF Others
  <2>3. CkAt(c)'
    BY <1>1, <1>3, <1>5, <2>1, <2>2 DEF CkAt, CkRunPc, CkWritePc
  <2>4. QED BY <1>3, <1>4, <1>6, <2>3, CkData DEF CkPc, CkRunPc, Moves, Calls
<1>7. ASSUME NEW s \in Nat, s <= x.mxSafeFrame, s <= shm.aReadMark[x.i], x.i < NReader,
             Calls(c, "ckmark", [x EXCEPT !.i = x.i + 1, !.mxSafeFrame = s])
      PROVE  Data'
  <2> DEFINE k == [x EXCEPT !.i = x.i + 1, !.mxSafeFrame = s]
  <2>1. k.changed = x.changed /\ k.mxSafeFrame = s /\ k.i = x.i + 1 /\ k.todo = x.todo
    BY <1>1 DEF Call
  <2>2. Calls(c, "ckmark", k)
    BY <1>7
  <2> HIDE DEF k
  <2>3. /\ Others(c) /\ pc'[c] = "ckmark" /\ call'[c] = k /\ w'[c] = w[c]
    BY <2>2, OthersKept DEF Calls
  <2>4. \A d \in Conn : w'[d] = w[d]
    BY <2>3 DEF Others
  <2>5. /\ Follows(w[c].hdr) /\ Growth(w[c].hdr) /\ shm.nBackfill < w[c].hdr.mxFrame
        /\ x.mxSafeFrame <= w[c].hdr.mxFrame
        /\ \A d \in Conn : w[d].readLock \in 1..(x.i - 1) => x.mxSafeFrame <= w[d].hdr.mxFrame
        /\ \A t \in x.todo : t[2] = F(w[c].hdr.mxFrame, t[1])
        /\ \A p \in Nat : F(w[c].hdr.mxFrame, p) # 0 => <<p, F(w[c].hdr.mxFrame, p)>> \in x.todo
    BY <1>1, <1>3 DEF CkAt, CkRunPc
  <2>6. ASSUME NEW d \in Conn, w[d].readLock \in 1..x.i PROVE s <= w[d].hdr.mxFrame
    <3>1. w[d].hdr.mxFrame \in Nat
      BY DataIs
    <3>2. CASE w[d].readLock = x.i
      <4>1. ReadAt(d) /\ w[d].readLock >= 1
        BY <2>6, DataIs
      <4>2. shm.aReadMark[x.i] <= w[d].hdr.mxFrame
        BY <3>2, <4>1 DEF ReadAt
      <4>3. x.i \in Readers
        BY <2>6, <3>2, DataIs
      <4>4. shm.aReadMark[x.i] \in Nat
        BY <1>1, <4>3 DEF Index
      <4>5. QED BY <1>7, <3>1, <4>2, <4>4
    <3>3. CASE w[d].readLock # x.i
      <4>1. w[d].readLock \in 1..(x.i - 1)
        BY <1>1, <2>6, <3>3
      <4>2. x.mxSafeFrame <= w[d].hdr.mxFrame
        BY <2>5, <4>1
      <4>3. QED BY <1>1, <1>7, <3>1, <4>2
    <3>4. QED BY <3>2, <3>3
  <2>7. k.i - 1 = x.i /\ s <= w[c].hdr.mxFrame
    BY <1>1, <1>7, <2>1, <2>5
  <2>8. \A d \in Conn : w[d].readLock \in 1..(k.i - 1) => k.mxSafeFrame <= w[d].hdr.mxFrame
    BY <2>1, <2>6, <2>7
  <2>9. CkAt(c)'
    <3>1. (/\ Follows(w[c].hdr) /\ Growth(w[c].hdr)
           /\ shm.nBackfill < w[c].hdr.mxFrame /\ call[c].mxSafeFrame <= w[c].hdr.mxFrame)'
      BY <1>3, <1>5, <2>1, <2>3, <2>5, <2>7
    <3>2. (\A d \in Conn : w[d].readLock \in 1..(call[c].i - 1) => call[c].mxSafeFrame <= w[d].hdr.mxFrame)'
      BY <2>3, <2>4, <2>8
    <3>3. (/\ \A t \in call[c].todo : t[2] = F(w[c].hdr.mxFrame, t[1])
           /\ \A p \in Nat : F(w[c].hdr.mxFrame, p) # 0 => <<p, F(w[c].hdr.mxFrame, p)>> \in call[c].todo)'
      BY <1>5, <2>1, <2>3, <2>5
    <3>4. QED BY <2>3, <3>1, <3>2, <3>3 DEF CkAt, CkRunPc, CkWritePc
  <2>10. QED BY <1>3, <1>4, <2>1, <2>2, <2>9, CkData DEF CkPc, CkRunPc
<1>8. QED BY <1>1, <1>2, <1>6, <1>7, CkMarkDoes

\* A mark that nobody reads at is moved out of the way.
LEMMA CkPutData == ASSUME Ctl, Heads, Data, NEW c \in Conn, CkPut(c) PROVE Data'
<1> DEFINE x == call[c]
           k == [x EXCEPT !.i = x.i + 1]
<1>1. /\ WalTypeOK /\ CtlAt(c) /\ CkAt(c) /\ shm.nBackfill \in Nat /\ call[c] \in Call
      /\ x.i \in Nat /\ w[c].hdr.mxFrame \in Nat /\ shm \in Index
  BY DataIs, Types
<1>2. CkStepAt(c)
  BY <1>1 DEF CtlAt
<1>3. /\ pc[c] = "ckput" /\ x.i \in 1..(NReader - 1) /\ UNCHANGED files /\ Calls(c, "ckmark", k)
      /\ \E m \in Nat : Shm(H, shm.hdr[1], shm.nBackfill, [shm.aReadMark EXCEPT ![x.i] = m], shm.aPgno)
  BY <1>1, <1>2, CkPutDoes
<1>4. k.changed = x.changed /\ k.mxSafeFrame = x.mxSafeFrame /\ k.i = x.i + 1 /\ k.todo = x.todo
  BY <1>1 DEF Call
<1> HIDE DEF k
<1>5. /\ Others(c) /\ pc'[c] = "ckmark" /\ call'[c] = k /\ w'[c] = w[c]
  BY <1>3, OthersKept DEF Calls
<1>6. READ(x.i) \in exclMask[c]
  BY <1>1, <1>3 DEF CtlAt, LocksAt
<1>7. SameBase /\ SameLog /\ MarksKept(c) /\ shm'.nBackfill = shm.nBackfill
  <2>1. \A i \in Readers : i # x.i => shm'.aReadMark[i] = shm.aReadMark[i]
    BY <1>1, <1>3 DEF Shm, Index
  <2>2. QED BY <1>3, <1>6, <2>1 DEF SameBase, SameLog, MarksKept, Shm, H, files
<1>8. /\ \A h : (Follows(h)' <=> Follows(h)) /\ (Growth(h)' <=> Growth(h))
      /\ \A m, p : F(m, p)' = F(m, p)
  BY <1>7, LogKept
<1>9. \A d \in Conn : w'[d] = w[d]
  BY <1>5 DEF Others
<1>10. ASSUME NEW d \in Conn PROVE w[d].readLock # x.i
  <2>1. CASE d = c
    <3>1. w[c].readLock = -1
      BY <1>3, CheckpointsOnly DEF CkPc, CkRunPc
    <3>2. QED BY <1>1, <2>1, <3>1
  <2>2. CASE d # c
    <3>1. CtlAt(d) /\ exclMask[c] \cap sharedMask[d] = {}
      BY <2>2 DEF Ctl, Excluded
    <3>2. w[d].readLock = x.i => READ(x.i) \in sharedMask[d]
      BY <1>1, <3>1 DEF CtlAt, LocksAt
    <3>3. QED BY <1>6, <3>1, <3>2
  <2>3. QED BY <2>1, <2>2
<1>11. /\ Follows(w[c].hdr) /\ Growth(w[c].hdr) /\ shm.nBackfill < w[c].hdr.mxFrame
       /\ x.mxSafeFrame <= w[c].hdr.mxFrame
       /\ \A d \in Conn : w[d].readLock \in 1..(x.i - 1) => x.mxSafeFrame <= w[d].hdr.mxFrame
       /\ \A t \in x.todo : t[2] = F(w[c].hdr.mxFrame, t[1])
       /\ \A p \in Nat : F(w[c].hdr.mxFrame, p) # 0 => <<p, F(w[c].hdr.mxFrame, p)>> \in x.todo
  BY <1>1, <1>3 DEF CkAt, CkRunPc
<1>12. \A d \in Conn : w[d].readLock \in 1..(x.i + 1 - 1) => x.mxSafeFrame <= w[d].hdr.mxFrame
  <2>1. ASSUME NEW d \in Conn, w[d].readLock \in 1..(x.i + 1 - 1) PROVE w[d].readLock \in 1..(x.i - 1)
    BY <1>1, <1>10, <2>1
  <2>2. QED BY <1>11, <2>1
<1>13. CkAt(c)'
  BY <1>3, <1>4, <1>5, <1>7, <1>8, <1>9, <1>11, <1>12 DEF CkAt, CkRunPc, CkWritePc
<1>14. QED BY <1>3, <1>4, <1>7, <1>13, CkData DEF CkPc, CkRunPc

LEMMA CkLock0Data == ASSUME Ctl, Heads, Data, NEW c \in Conn, CkLock0(c) PROVE Data'
<1> DEFINE x == call[c]
           k == [x EXCEPT !.nBackfill = shm.nBackfill]
<1>1. /\ WalTypeOK /\ CkAt(c) /\ shm.nBackfill \in Nat /\ call[c] \in Call
      /\ w[c].hdr.mxFrame \in Nat /\ w[c].hdr.nPage \in Nat
  BY DataIs, Types
<1>2. pc[c] = "cklock0" /\ UNCHANGED <<shm, files>>
  BY <1>1, CkLock0Does DEF Quiet
<1>3. SameBase /\ SameLog /\ MarksKept(c)
  BY <1>2, SameAll
<1>4. CASE Moves(c, "ckend")
  BY <1>2, <1>4, CkEndsData DEF Moves, Calls, CkPc, CkRunPc
<1>5. CASE shm.nBackfill < x.mxSafeFrame /\ Calls(c, "cksync", k)
  <2>1. /\ k.changed = x.changed /\ k.mxSafeFrame = x.mxSafeFrame /\ k.i = x.i /\ k.todo = x.todo
        /\ k.nBackfill = shm.nBackfill
    BY <1>1 DEF Call
  <2> HIDE DEF k
  <2>2. /\ Others(c) /\ pc'[c] = "cksync" /\ call'[c] = k /\ w'[c] = w[c]
    BY <1>5, OthersKept DEF Calls
  <2>3. \A d \in Conn : w'[d] = w[d]
    BY <2>2 DEF Others
  <2>4. /\ \A h : (Follows(h)' <=> Follows(h)) /\ (Growth(h)' <=> Growth(h))
        /\ \A m, p : F(m, p)' = F(m, p)
    BY <1>3, LogKept
  <2>5. /\ Follows(w[c].hdr) /\ Growth(w[c].hdr) /\ shm.nBackfill < w[c].hdr.mxFrame
        /\ x.mxSafeFrame <= w[c].hdr.mxFrame
        /\ \A d \in Conn : w[d].readLock \in 1..(x.i - 1) => x.mxSafeFrame <= w[d].hdr.mxFrame
        /\ \A t \in x.todo : t[2] = F(w[c].hdr.mxFrame, t[1])
        /\ \A p \in Nat : F(w[c].hdr.mxFrame, p) # 0 => <<p, F(w[c].hdr.mxFrame, p)>> \in x.todo
    BY <1>1, <1>2 DEF CkAt, CkRunPc
  <2>6. \A p \in 1..w[c].hdr.nPage :
          F(w[c].hdr.mxFrame, p) \in (shm.nBackfill + 1)..x.mxSafeFrame =>
            <<p, F(w[c].hdr.mxFrame, p)>> \in x.todo
    BY <1>1, <2>5
  <2>7. CkAt(c)'
    BY <1>2, <1>5, <2>1, <2>2, <2>3, <2>4, <2>5, <2>6 DEF CkAt, CkRunPc, CkWritePc
  <2>8. QED BY <1>2, <1>3, <1>5, <2>1, <2>7, CkData DEF CkPc, CkRunPc, CkWritePc
<1>6. QED BY <1>1, <1>4, <1>5, CkLock0Does

\* A step after which what was copied is still in the file.
LEMMA CkGoesOnData ==
  ASSUME Ctl, Heads, Data, NEW c \in Conn, NEW to, Moves(c, to), shm' = shm, wal' = wal, db' = db,
         \/ pc[c] = "cksync" /\ to = "ckpage"
         \/ pc[c] \in {"cktrunc", "ckdbsync"} /\ to = "ckdone"
         \/ pc[c] = "ckpage" /\ to = "cktrunc" /\ Backfills(c) = {}
  PROVE  Data'
<1> DEFINE x == call[c]
           mx == w[c].hdr.mxFrame
<1>1. /\ WalTypeOK /\ CkAt(c) /\ x \in Call /\ mx \in Nat /\ x.nBackfill \in Nat /\ x.mxSafeFrame \in Nat
      /\ w[c].hdr.nPage \in Nat
  BY DataIs, Types
<1>2. /\ Others(c) /\ pc'[c] = to /\ call'[c] = x /\ w'[c] = w[c]
  BY OthersKept DEF Moves
<1>3. SameBase /\ SameLog /\ MarksKept(c)
  BY DEF SameBase, SameLog, MarksKept, H
<1>4. \A d \in Conn : w'[d] = w[d]
  BY <1>2 DEF Others
<1>5. /\ \A h : (Follows(h)' <=> Follows(h)) /\ (Growth(h)' <=> Growth(h))
      /\ \A m, p : F(m, p)' = F(m, p) /\ (\A f : InFile(p, f)' <=> InFile(p, f))
  BY <1>3, LogKept
<1>6. /\ Follows(w[c].hdr) /\ Growth(w[c].hdr) /\ shm.nBackfill < mx
      /\ x.mxSafeFrame <= mx
      /\ \A d \in Conn : w[d].readLock \in 1..(x.i - 1) => x.mxSafeFrame <= w[d].hdr.mxFrame
      /\ \A t \in x.todo : t[2] = F(mx, t[1])
      /\ x.nBackfill = shm.nBackfill /\ shm.nBackfill < x.mxSafeFrame
  BY <1>1 DEF CkAt, CkRunPc, CkWritePc
<1>7. ASSUME NEW p \in 1..w[c].hdr.nPage, F(mx, p) \in (x.nBackfill + 1)..x.mxSafeFrame
      PROVE  (to = "ckpage" /\ <<p, F(mx, p)>> \in x.todo) \/ InFile(p, F(mx, p))
  <2>1. \/ pc[c] \in {"cksync", "ckpage"} /\ <<p, F(mx, p)>> \in x.todo
        \/ InFile(p, F(mx, p))
    BY <1>1, <1>7 DEF CkAt, CkWritePc
  <2>2. ASSUME pc[c] = "ckpage", Backfills(c) = {}, <<p, F(mx, p)>> \in x.todo PROVE FALSE
    <3>1. <<p, F(mx, p)>> \in Backfills(c)
      BY <1>1, <1>7, <2>2 DEF Backfills
    <3>2. QED BY <2>2, <3>1
  <2>3. QED BY <2>1, <2>2
<1>8. (\A p \in 1..w[c].hdr.nPage :
        F(w[c].hdr.mxFrame, p) \in (call[c].nBackfill + 1)..call[c].mxSafeFrame =>
          \/ pc[c] \in {"cksync", "ckpage"} /\ <<p, F(w[c].hdr.mxFrame, p)>> \in call[c].todo
          \/ InFile(p, F(w[c].hdr.mxFrame, p)))'
  BY <1>2, <1>5, <1>7
<1>9. CkAt(c)'
  BY <1>2, <1>4, <1>5, <1>6, <1>8 DEF CkAt, CkRunPc, CkWritePc
<1>10. QED BY <1>3, <1>9, CkData DEF CkPc, CkRunPc, CkWritePc, Moves, Calls

LEMMA CkSyncData == ASSUME Ctl, Heads, Data, NEW c \in Conn, CkSync(c) PROVE Data'
<1>1. WalTypeOK
  BY DEF Ctl
<1>2. QED BY <1>1, CkSyncDoes, CkGoesOnData

LEMMA CkDbSyncData == ASSUME Ctl, Heads, Data, NEW c \in Conn, CkDbSync(c) PROVE Data'
<1>1. WalTypeOK
  BY DEF Ctl
<1>2. QED BY <1>1, CkDbSyncDoes, CkGoesOnData

LEMMA CkFailsData == ASSUME Ctl, Heads, Data, NEW c \in Conn, CkFails(c) PROVE Data'
<1>1. WalTypeOK /\ Steady /\ call[c] \in Call
  BY Types DEF Ctl
<1>2. [call[c] EXCEPT !.mode = "passive"].changed = call[c].changed
  BY <1>1 DEF Call
<1>3. pc[c] \in CkPc
  BY <1>1, CkFailsDoes DEF CkPc, CkRunPc, CkWritePc
<1>4. UNCHANGED <<shm, files>>
  BY <1>1, CkFailsDoes
<1>5. CASE Calls(c, "closing", [call[c] EXCEPT !.mode = "passive"])
  BY <1>2, <1>3, <1>4, <1>5, CkEndsData
<1>6. CASE Moves(c, "ckend")
  BY <1>3, <1>4, <1>6, CkEndsData DEF Moves, Calls
<1>7. QED BY <1>1, <1>5, <1>6, CkFailsDoes

\* A header that the cache does not know of is forgotten.
LEMMA CkEndData == ASSUME Ctl, Heads, Data, NEW c \in Conn, CkEnd(c) PROVE Data'
<1> DEFINE o == [w[c] EXCEPT !.hdr = ZeroHdr]
<1>1. WalTypeOK /\ w[c] \in WalObj /\ HeadAt(c)
  BY DataIs, Types
<1>2. pc[c] = "ckend" /\ UNCHANGED <<shm, files>>
  BY <1>1, CkEndDoes DEF Quiet
<1>3. w[c].readLock = -1 /\ ~InWrite(c)
  BY <1>2, CheckpointsOnly DEF CkPc
<1>4. CASE ~call[c].changed /\ Returns(c)
  <2>1. /\ Others(c) /\ pc'[c] = "idle" /\ w'[c] = w[c] /\ cached'[c] = cached[c] /\ mine'[c] = mine[c]
    BY <1>4, OthersKept DEF Returns
  <2>2. QED BY <1>1, <1>2, <1>3, <1>4, <2>1, CallData DEF CkRunPc, CkWritePc, InWrite
<1>5. CASE Does(c, "idle", NoCall, o, cached[c], mine[c])
  <2>1. o \in WalObj /\ o.hdr = ZeroHdr /\ o.readLock = w[c].readLock
    BY <1>1, Blanks DEF WalObj
  <2> HIDE DEF o
  <2>2. /\ Others(c) /\ pc'[c] = "idle" /\ w'[c] = o /\ cached'[c] = cached[c] /\ mine'[c] = mine[c]
    BY <1>5, OthersKept
  <2>3. SameBase /\ SameLog /\ SamePrefix(mxH) /\ MarksKept(c)
    BY <1>2, SameAll
  <2>4. H' = H
    BY <2>3, LogKept
  <2>5. RelyAt(c)'
    <3>1. H = ZeroHdr => cached[c] = None
      BY <1>1 DEF HeadAt, BlankAt, ZeroHdr
    <3>2. QED BY <2>1, <2>2, <2>4, <3>1 DEF RelyAt
  <2>6. ReadAt(c)'
    BY <1>3, <2>1, <2>2 DEF ReadAt
  <2>7. DataAt(c)'
    BY <1>3, <2>2, <2>5, <2>6, NotWriting, NotCheckpointing DEF DataAt, InWrite, CkRunPc, CkWritePc
  <2>8. ReadsOn(c)
    BY <1>3, <2>1, <2>2 DEF ReadsOn
  <2>9. QED BY <1>2, <2>1, <2>2, <2>3, <2>7, <2>8, DataStep
<1>6. QED BY <1>1, <1>4, <1>5, CkEndDoes

-----------------------------------------------------------------------------
(* The checkpoint writes the database file: Data is kept *)

LEMMA CheckpointerAlone ==
  ASSUME Ctl, NEW c \in Conn, pc[c] \in CkPc, NEW d \in Conn, d # c
  PROVE  pc[d] \notin {"ckstart"} \cup CkRunPc
<1>1. CtlAt(c) /\ CtlAt(d) /\ exclMask[c] \cap exclMask[d] = {}
  BY DEF Ctl, Excluded
<1>2. CKPT \in exclMask[c]
  BY <1>1 DEF CtlAt, ModeAt, LocksAt, CkPc, CkRunPc, CkWritePc
<1>3. pc[d] \in CkPc => CKPT \in exclMask[d]
  BY <1>1 DEF CtlAt, ModeAt, LocksAt, CkPc, CkRunPc, CkWritePc
<1>4. QED BY <1>1, <1>2, <1>3 DEF CkPc

\* What a checkpoint knows while it writes.
LEMMA CkIs ==
  ASSUME Ctl, Heads, Data, NEW c \in Conn, pc[c] \in CkWritePc
  PROVE  LET mx == w[c].hdr.mxFrame
             safe == call[c].mxSafeFrame
         IN /\ Follows(w[c].hdr) /\ Growth(w[c].hdr) /\ shm.nBackfill < mx /\ safe <= mx /\ mx <= mxH
            /\ call[c].nBackfill = shm.nBackfill /\ shm.nBackfill < safe /\ safe > 0 /\ H.nPage > 0
            /\ \A d \in Conn : w[d].readLock >= 1 => safe <= w[d].hdr.mxFrame
            /\ \A t \in call[c].todo : t[2] = F(mx, t[1])
            /\ \A d \in Conn : w[d].readLock # 0
            /\ \A d \in Conn \ {c} : pc[d] \notin {"ckstart"} \cup CkRunPc
            /\ w[c].readLock = -1 /\ ~InWrite(c)
            /\ \A p \in 1..w[c].hdr.nPage :
                 F(mx, p) \in (shm.nBackfill + 1)..safe =>
                   \/ pc[c] \in {"cksync", "ckpage"} /\ <<p, F(mx, p)>> \in call[c].todo
                   \/ InFile(p, F(mx, p))
<1> DEFINE mx == w[c].hdr.mxFrame
           safe == call[c].mxSafeFrame
<1>1. /\ CtlAt(c) /\ CkAt(c) /\ mx \in Nat /\ safe \in Nat /\ shm.nBackfill \in Nat /\ mxH \in Nat
      /\ (mxH > 0 => H.nPage > 0) /\ NReader \in Nat
  BY DataIs, HeadIs
<1>2. /\ Follows(w[c].hdr) /\ Growth(w[c].hdr) /\ shm.nBackfill < mx /\ safe <= mx
      /\ \A d \in Conn : w[d].readLock \in 1..(call[c].i - 1) => safe <= w[d].hdr.mxFrame
      /\ \A t \in call[c].todo : t[2] = F(mx, t[1])
  BY <1>1 DEF CkAt, CkRunPc
<1>3. /\ call[c].nBackfill = shm.nBackfill /\ shm.nBackfill < safe
      /\ \A p \in 1..w[c].hdr.nPage :
           F(mx, p) \in (shm.nBackfill + 1)..safe =>
             \/ pc[c] \in {"cksync", "ckpage"} /\ <<p, F(mx, p)>> \in call[c].todo
             \/ InFile(p, F(mx, p))
  BY <1>1 DEF CkAt
<1>4. mx <= mxH /\ safe > 0 /\ H.nPage > 0
  BY <1>1, <1>2, <1>3 DEF Follows
<1>5. call[c].i = NReader /\ READ(0) \in exclMask[c]
  BY <1>1 DEF CtlAt, CkStepAt, LocksAt, CkRunPc, CkWritePc
<1>6. \A d \in Conn : w[d].readLock >= 1 => safe <= w[d].hdr.mxFrame
  BY <1>2, <1>5, DataIs
<1>7. w[c].readLock = -1 /\ ~InWrite(c)
  BY CheckpointsOnly DEF CkPc, CkRunPc
<1>8. \A d \in Conn : w[d].readLock # 0
  BY <1>5, <1>7, NoReader
<1>9. \A d \in Conn \ {c} : pc[d] \notin {"ckstart"} \cup CkRunPc
  BY CheckpointerAlone DEF CkPc, CkRunPc
<1>10. QED BY <1>2, <1>3, <1>4, <1>6, <1>7, <1>8, <1>9

\* A step that changes no page of a database that somebody reads or will read.
LEMMA FileStep ==
  ASSUME Ctl, Heads, Data, NEW c \in Conn, pc[c] \in CkWritePc, NEW to \in CkWritePc,
         NEW k, Calls(c, to, k), k.changed = call[c].changed, shm' = shm, wal' = wal,
         \A m \in Nat, p \in Nat \ {0} :
           m >= call[c].mxSafeFrame /\ (call[c].mxSafeFrame = mxH => p <= H.nPage \/ F(m, p) # 0)
             => At(m, p)' = At(m, p),
         \A p \in 1..H.nPage : F(mxH, p) \in 1..shm.nBackfill /\ InFile(p, F(mxH, p))
                                 => InFile(p, F(mxH, p))',
         CkAt(c)'
  PROVE  Data'
<1> DEFINE safe == call[c].mxSafeFrame
<1>1. /\ WalTypeOK /\ RelyAt(c) /\ mxH \in Nat /\ H.nPage \in Nat /\ safe \in Nat /\ BackfillInv
      /\ w[c].hdr.mxFrame \in Nat
  BY DataIs
<1>2. /\ safe <= mxH /\ safe > 0 /\ H.nPage > 0
      /\ \A d \in Conn : w[d].readLock >= 1 => safe <= w[d].hdr.mxFrame
      /\ \A d \in Conn : w[d].readLock # 0
      /\ \A d \in Conn \ {c} : pc[d] \notin {"ckstart"} \cup CkRunPc
      /\ w[c].readLock = -1 /\ ~InWrite(c)
  BY <1>1, CkIs
<1>3. /\ Others(c) /\ pc'[c] = to /\ call'[c] = k /\ w'[c] = w[c]
      /\ cached'[c] = cached[c] /\ mine'[c] = mine[c]
  BY OthersKept DEF Calls
<1>4. /\ H' = H /\ mxH' = mxH /\ shm'.nBackfill = shm.nBackfill /\ shm'.aReadMark = shm.aReadMark
      /\ \A m, p : F(m, p)' = F(m, p)
  BY DEF H, mxH, F
<1>5. Size(H) = H.nPage /\ Size(H)' = H.nPage
  BY <1>2, <1>4 DEF Size
<1>6. Current' = Current
  <2>1. \A p \in 1..H.nPage : At(mxH, p)' = At(mxH, p)
    <3>1. \A p \in 1..H.nPage : p \in Nat \ {0} /\ p <= H.nPage /\ mxH >= safe
      BY <1>1, <1>2
    <3>2. QED BY <1>1, <1>4, <3>1
  <2>2. QED BY <1>4, <1>5, <2>1 DEF Current, LogView, mxH
<1>7. BackfillInv'
  BY <1>1, <1>3, <1>4 DEF BackfillInv, Others, CkWritePc
<1>8. ASSUME NEW m, NEW i \in Nat, i >= mxH, NEW X, Len(m) \in Nat, Overlays(m, i, X) PROVE Overlays(m, i, X)'
  <2>1. ASSUME NEW p \in (1..Len(m)) \ X PROVE At(i, p)' = At(i, p)
    <3>1. p > H.nPage => F(i, p) # 0
      BY <1>1, <1>5, <1>8, <2>1 DEF Overlays
    <3>2. p \in Nat \ {0} /\ i >= safe
      BY <1>1, <1>2, <1>8, <2>1
    <3>3. QED BY <1>1, <3>1, <3>2
  <2>2. QED BY <1>4, <1>5, <1>8, <2>1 DEF Overlays
<1>9. ASSUME NEW d \in Conn, d # c PROVE DataAt(d)'
  <2>1. /\ pc'[d] = pc[d] /\ call'[d] = call[d] /\ w'[d] = w[d] /\ cached'[d] = cached[d] /\ mine'[d] = mine[d]
    BY <1>3, <1>9 DEF Others
  <2>2. /\ RelyAt(d) /\ ReadAt(d) /\ WriteAt(d) /\ CtlAt(d) /\ HeadAt(d)
        /\ w[d].hdr.mxFrame \in Nat /\ w[d].hdr.nPage \in Nat /\ w[d] \in WalObj
    BY <1>1, DataIs, Types
  <2>3. RelyAt(d)'
    BY <1>4, <1>6, <2>1, <2>2 DEF RelyAt, InWrite
  <2>4. ReadAt(d)'
    <3>1. ASSUME ~InWrite(d), w[d].readLock >= 1
          PROVE  Follows(w[d].hdr)' /\ cached[d] = LogView(w[d].hdr)'
      <4> DEFINE h == w[d].hdr
      <4>1. Follows(h) /\ cached[d] = LogView(h) /\ h.mxFrame >= safe /\ h.mxFrame \in Nat
        BY <1>2, <2>2, <3>1 DEF ReadAt
      <4>2. h.nPage > 0
        <5>1. h.mxFrame > 0
          BY <1>1, <1>2, <4>1
        <5>2. QED BY <2>2, <3>1, <5>1 DEF HeadAt
      <4>3. Size(h) = h.nPage /\ Size(h)' = h.nPage
        BY <2>1, <4>2 DEF Size
      <4>4. safe = mxH => h = H
        BY <1>1, <4>1 DEF Follows
      <4>5. \A p \in 1..h.nPage : At(h.mxFrame, p)' = At(h.mxFrame, p)
        <5>1. \A p \in 1..h.nPage : p \in Nat \ {0} /\ (safe = mxH => p <= H.nPage)
          BY <2>2, <4>4
        <5>2. QED BY <2>1, <4>1, <5>1
      <4>6. LogView(h)' = LogView(h)
        BY <2>1, <4>3, <4>5 DEF LogView
      <4>7. QED BY <1>4, <2>1, <4>1, <4>6 DEF Follows
    <3>2. (~InWrite(d) /\ w[d].readLock >= 1 => Follows(w[d].hdr) /\ cached[d] = LogView(w[d].hdr))'
      BY <2>1, <3>1 DEF InWrite
    <3>3. QED BY <1>2, <1>4, <2>1, <2>2, <3>2 DEF ReadAt, InWrite
  <2>5. WriteAt(d)'
    <3>1. CASE ~InWrite(d)
      BY <2>1, <3>1, NotWriting DEF InWrite
    <3>2. CASE InWrite(d)
      <4>1. pc[d] \notin RestartPc /\ w[d].hdr.mxFrame >= mxH
        BY <1>2, <2>2, <3>2 DEF WriteAt, CtlAt, TransAt, RestartPc
      <4>2. ContentAt(d)' <=> ContentAt(d)
        BY <1>4, <2>1 DEF ContentAt
      <4>3. mine[d] \in Seq(Int)
        BY <1>1, <3>2, Types DEF Image, InWrite
      <4>4. pc[d] # "failed" => Overlays(mine[d], w[d].hdr.mxFrame, Pending(d))'
        <5>1. pc[d] # "failed" => Overlays(mine[d], w[d].hdr.mxFrame, Pending(d))
          BY <2>2, <3>2 DEF WriteAt
        <5>2. Pending(d)' = Pending(d)
          BY <2>1 DEF Pending
        <5>3. Len(mine[d]) \in Nat
          BY <4>3
        <5>4. QED BY <1>8, <2>1, <2>2, <4>1, <5>1, <5>2, <5>3
      <4>5. SvptAt(d)'
        <5>1. CASE w[d].svpt = None
          BY <2>1, <5>1 DEF SvptAt
        <5>2. CASE w[d].svpt # None
          <6>1. SvptAt(d) /\ UndoTo(d) \in Nat /\ UndoTo(d) >= mxH /\ Len(w[d].svpt.mine) \in Nat
            BY <1>1, <2>2, <3>2, <4>1, <5>2 DEF WriteAt, SvptAt, WalObj, Svpt, UndoTo, RestartPc
          <6>2. UndoTo(d)' = UndoTo(d)
            BY <2>1 DEF UndoTo
          <6>3. Overlays(w[d].svpt.mine, UndoTo(d), {})'
            BY <1>8, <2>1, <5>2, <6>1, <6>2 DEF SvptAt
          <6>4. QED BY <1>4, <2>1, <6>1, <6>2, <6>3 DEF SvptAt
        <5>3. QED BY <5>1, <5>2
      <4>6. QED BY <1>2, <1>4, <1>6, <2>1, <2>2, <4>1, <4>2, <4>4, <4>5 DEF WriteAt, InWrite, RestartPc
    <3>3. QED BY <3>1, <3>2
  <2>6. CkAt(d)'
    BY <1>2, <1>9, <2>1, NotCheckpointing
  <2>7. QED BY <2>3, <2>4, <2>5, <2>6 DEF DataAt
<1>10. DataAt(c)'
  <2>1. RelyAt(c)'
    BY <1>1, <1>3, <1>4, <1>6 DEF RelyAt, InWrite
  <2>2. ReadAt(c)'
    BY <1>2, <1>3 DEF ReadAt, CkWritePc
  <2>3. WriteAt(c)'
    BY <1>2, <1>3, NotWriting DEF InWrite
  <2>4. QED BY <2>1, <2>2, <2>3 DEF DataAt
<1>11. \A d \in Conn : DataAt(d)'
  BY <1>9, <1>10
<1>12. QED BY <1>7, <1>11 DEF Data

\* A page goes from the log into the file.
LEMMA CkPageData == ASSUME Ctl, Heads, Data, NEW c \in Conn, CkPage(c) PROVE Data'
<1> DEFINE x == call[c]
           mx == w[c].hdr.mxFrame
           safe == x.mxSafeFrame
<1>1. /\ WalTypeOK /\ CtlAt(c) /\ CkAt(c) /\ x \in Call /\ mx \in Nat /\ safe \in Nat /\ shm.nBackfill \in Nat
      /\ w[c].hdr.nPage \in Nat /\ mxH \in Nat /\ db \in Seq(Int) /\ H.nPage \in Nat
  BY DataIs, Types DEF WalTypeOK
<1>2. CkStepAt(c) /\ InLogAt(c)
  BY <1>1 DEF CtlAt
<1>3. pc[c] = "ckpage" /\ UNCHANGED <<shm, wal>>
  BY <1>1, <1>2, CkPageDoes
<1>4. CASE Backfills(c) = {} /\ db' = db /\ Moves(c, "cktrunc")
  BY <1>3, <1>4, CkGoesOnData
<1>5. ASSUME NEW t \in Backfills(c), db' \in Seq(Int), Len(db') >= Len(db), Len(db') >= t[1],
             \A p \in Nat \ {0} : (IF p <= Len(db') THEN db'[p] ELSE 0)
                                    = IF p = t[1] THEN wal.frames[t[2]].data
                                      ELSE IF p <= Len(db) THEN db[p] ELSE 0,
             Calls(c, "ckpage", [x EXCEPT !.todo = x.todo \ {t}])
      PROVE  Data'
  <2> DEFINE k == [x EXCEPT !.todo = x.todo \ {t}]
  <2>1. /\ k.changed = x.changed /\ k.mxSafeFrame = safe /\ k.i = x.i /\ k.todo = x.todo \ {t}
        /\ k.nBackfill = x.nBackfill
    BY <1>1 DEF Call
  <2>2. Calls(c, "ckpage", k)
    BY <1>5
  <2> HIDE DEF k
  <2>3. /\ Others(c) /\ pc'[c] = "ckpage" /\ call'[c] = k /\ w'[c] = w[c]
    BY <2>2, OthersKept DEF Calls
  <2>4. \A d \in Conn : w'[d] = w[d]
    BY <2>3 DEF Others
  <2>5. /\ Follows(w[c].hdr) /\ Growth(w[c].hdr) /\ shm.nBackfill < mx /\ safe <= mx /\ mx <= mxH
        /\ x.nBackfill = shm.nBackfill /\ shm.nBackfill < safe /\ safe > 0
        /\ \A d \in Conn : w[d].readLock \in 1..(x.i - 1) => safe <= w[d].hdr.mxFrame
        /\ \A z \in x.todo : z[2] = F(mx, z[1])
        /\ \A p \in 1..w[c].hdr.nPage :
             F(mx, p) \in (shm.nBackfill + 1)..safe => <<p, F(mx, p)>> \in x.todo \/ InFile(p, F(mx, p))
    <3>1. \A d \in Conn : w[d].readLock \in 1..(x.i - 1) => safe <= w[d].hdr.mxFrame
      BY <1>1, <1>3 DEF CkAt, CkRunPc, CkWritePc
    <3>2. pc[c] \in CkWritePc
      BY <1>3 DEF CkWritePc
    <3>3. QED BY <3>1, <3>2, CkIs
  <2>6. /\ t \in x.todo /\ t[2] = F(mx, t[1]) /\ t = <<t[1], t[2]>> /\ t[1] \in Nat /\ t[2] \in Nat
        /\ shm.nBackfill < t[2] /\ t[2] <= safe
    BY <1>1, <1>5, <2>5 DEF Backfills, Call
  <2>7. /\ H' = H /\ mxH' = mxH /\ \A m, p : F(m, p)' = F(m, p)
    BY <1>3 DEF H, mxH, F
  <2>8. \A p \in Nat \ {0} : p # t[1] => DbAt(p)' = DbAt(p)
    BY <1>5 DEF DbAt
  <2>9. ASSUME NEW m \in Nat, NEW p \in Nat \ {0}, m >= safe PROVE At(m, p)' = At(m, p)
    <3>1. CASE F(m, p) # 0
      BY <1>3, <2>7, <3>1 DEF At
    <3>2. CASE F(m, p) = 0
      <4>1. p # t[1]
        <5>1. ASSUME p = t[1] PROVE FALSE
          <6>1. t[2] \in 1..mx /\ shm.aPgno[t[2]] = t[1]
            BY <1>1, <2>6, FIs, SMTT(30)
          <6>2. t[2] \in 1..m
            BY <1>1, <2>6, <2>9
          <6>3. t[2] <= F(m, t[1])
            BY <6>1, <6>2, FIs
          <6>4. QED BY <3>2, <5>1, <6>2, <6>3
        <5>2. QED BY <5>1
      <4>2. QED BY <2>7, <2>8, <3>2, <4>1 DEF At
    <3>3. QED BY <3>1, <3>2
  <2>10. ASSUME NEW p \in Nat \ {0}, NEW f, InFile(p, f), p # t[1] PROVE InFile(p, f)'
    <3>1. p <= Len(db) /\ db[p] = wal.frames[f].data /\ Len(db) \in Nat /\ Len(db') \in Nat
      BY <1>1, <1>5, <2>10, SMTT(30) DEF InFile
    <3>2. p <= Len(db') /\ db'[p] = db[p]
      BY <1>5, <2>10, <3>1
    <3>3. QED BY <1>3, <3>1, <3>2 DEF InFile
  <2>11. t[1] # 0 => InFile(t[1], t[2])'
    <3>1. t[1] # 0 => db'[t[1]] = wal.frames[t[2]].data
      BY <1>5, <2>6
    <3>2. QED BY <1>3, <1>5, <3>1 DEF InFile
  <2>12. ASSUME NEW p \in 1..H.nPage, F(mxH, p) \in 1..shm.nBackfill, InFile(p, F(mxH, p))
         PROVE  InFile(p, F(mxH, p))'
    <3>1. p # t[1]
      <4>1. F(mx, p) <= F(mxH, p) /\ F(mx, p) \in Nat
        BY <1>1, <2>5, FOfPrefix, FIs, mx \in 0..mxH
      <4>2. QED BY <1>1, <2>6, <2>12, <4>1
    <3>2. p \in Nat \ {0}
      BY <1>1
    <3>3. InFile(p, F(mxH, p))' <=> (p <= Len(db') /\ db'[p] = wal'.frames[F(mxH, p)].data)
      BY <2>7 DEF InFile
    <3>4. p <= Len(db) /\ db[p] = wal.frames[F(mxH, p)].data /\ Len(db) \in Nat /\ Len(db') \in Nat
      BY <1>1, <1>5, <2>12, SMTT(30) DEF InFile
    <3>5. p <= Len(db') /\ db'[p] = db[p]
      BY <1>5, <3>1, <3>2, <3>4
    <3>6. QED BY <1>3, <3>3, <3>4, <3>5
  <2>13. ASSUME NEW p \in 1..w[c].hdr.nPage, F(mx, p) \in (shm.nBackfill + 1)..safe
         PROVE  <<p, F(mx, p)>> \in k.todo \/ (p <= Len(db') /\ db'[p] = wal.frames[F(mx, p)].data)
    <3>1. p \in Nat \ {0} /\ Len(db) \in Nat /\ Len(db') \in Nat
      BY <1>1, <1>5
    <3>2. CASE p = t[1]
      BY <1>5, <2>6, <3>1, <3>2
    <3>3. CASE p # t[1]
      <4>1. <<p, F(mx, p)>> # t
        BY <2>6, <3>3
      <4>2. <<p, F(mx, p)>> \in x.todo \/ (p <= Len(db) /\ db[p] = wal.frames[F(mx, p)].data)
        BY <2>5, <2>13 DEF InFile
      <4>3. p <= Len(db) => p <= Len(db') /\ db'[p] = db[p]
        BY <1>5, <3>1, <3>3
      <4>4. QED BY <2>1, <4>1, <4>2, <4>3
    <3>4. QED BY <3>2, <3>3
  <2>14. CkAt(c)'
    <3>1. shm'.nBackfill = shm.nBackfill /\ \A h : (Follows(h)' <=> Follows(h)) /\ (Growth(h)' <=> Growth(h))
      BY <1>3, <2>7 DEF Follows, Growth
    <3>2. (\A p \in 1..w[c].hdr.nPage :
             F(w[c].hdr.mxFrame, p) \in (call[c].nBackfill + 1)..call[c].mxSafeFrame =>
               \/ pc[c] \in {"cksync", "ckpage"} /\ <<p, F(w[c].hdr.mxFrame, p)>> \in call[c].todo
               \/ InFile(p, F(w[c].hdr.mxFrame, p)))'
      BY <1>3, <2>1, <2>3, <2>5, <2>7, <2>13 DEF InFile
    <3>3. QED BY <2>1, <2>3, <2>4, <2>5, <2>7, <3>1, <3>2 DEF CkAt, CkRunPc, CkWritePc
  <2>15. pc[c] \in CkWritePc /\ "ckpage" \in CkWritePc
    BY <1>3 DEF CkWritePc
  <2> HIDE DEF x, mx, safe
  <2>16. QED BY <1>3, <2>1, <2>2, <2>9, <2>12, <2>14, <2>15, FileStep DEF x, mx, safe
<1>6. QED BY <1>1, <1>2, <1>4, <1>5, CkPageDoes

\* The file is cut to the size of the database that all of the log makes.
LEMMA CkTruncData == ASSUME Ctl, Heads, Data, NEW c \in Conn, CkTrunc(c) PROVE Data'
<1> DEFINE x == call[c]
           n == w[c].hdr.nPage
<1>1. /\ WalTypeOK /\ CkAt(c) /\ x \in Call /\ mxH \in Nat /\ db \in Seq(Int) /\ H.nPage \in Nat
      /\ w[c].hdr.mxFrame \in Nat /\ x.mxSafeFrame \in Nat /\ shm.nBackfill \in Nat
  BY DataIs, Types DEF WalTypeOK
<1>2. pc[c] = "cktrunc" /\ UNCHANGED <<shm, wal>>
  BY <1>1, CkTruncDoes
<1>3. CASE db' = db /\ Moves(c, "ckdone")
  BY <1>2, <1>3, CkGoesOnData
<1>4. CASE /\ x.mxSafeFrame = mxH /\ db' \in Seq(Int) /\ Len(db') = n
           /\ \A p \in 1..n : db'[p] = IF p <= Len(db) THEN db[p] ELSE 0
           /\ Moves(c, "ckdbsync")
  <2>1. pc[c] \in CkWritePc /\ "ckdbsync" \in CkWritePc
    BY <1>2 DEF CkWritePc
  <2>2. /\ Follows(w[c].hdr) /\ Growth(w[c].hdr) /\ shm.nBackfill < w[c].hdr.mxFrame
        /\ x.mxSafeFrame <= w[c].hdr.mxFrame /\ w[c].hdr.mxFrame <= mxH
        /\ x.nBackfill = shm.nBackfill /\ shm.nBackfill < x.mxSafeFrame
        /\ \A z \in x.todo : z[2] = F(w[c].hdr.mxFrame, z[1])
        /\ \A p \in 1..n : F(w[c].hdr.mxFrame, p) \in (shm.nBackfill + 1)..x.mxSafeFrame
                             => InFile(p, F(w[c].hdr.mxFrame, p))
    BY <1>2, <2>1, CkIs
  <2>3. \A d \in Conn : w[d].readLock \in 1..(x.i - 1) => x.mxSafeFrame <= w[d].hdr.mxFrame
    BY <1>1, <1>2 DEF CkAt, CkRunPc, CkWritePc
  <2>4. w[c].hdr = H /\ n = H.nPage
    BY <1>1, <1>4, <2>2 DEF Follows
  <2>5. /\ Others(c) /\ pc'[c] = "ckdbsync" /\ call'[c] = x /\ w'[c] = w[c]
    BY <1>4, OthersKept DEF Moves
  <2>6. \A d \in Conn : w'[d] = w[d]
    BY <2>5 DEF Others
  <2>7. /\ H' = H /\ mxH' = mxH /\ (\A m, p : F(m, p)' = F(m, p)) /\ shm'.nBackfill = shm.nBackfill
        /\ \A h : (Follows(h)' <=> Follows(h)) /\ (Growth(h)' <=> Growth(h))
    <3>1. H' = H /\ mxH' = mxH /\ (\A m, p : F(m, p)' = F(m, p)) /\ shm'.nBackfill = shm.nBackfill
      BY <1>2 DEF H, mxH, F
    <3>2. QED BY <3>1 DEF Follows, Growth
  <2>8. \A p \in 1..H.nPage : DbAt(p)' = DbAt(p)
    BY <1>1, <1>4, <2>4 DEF DbAt
  <2>9. ASSUME NEW m \in Nat, NEW p \in Nat \ {0}, p <= H.nPage \/ F(m, p) # 0 PROVE At(m, p)' = At(m, p)
    <3>1. CASE F(m, p) # 0
      BY <1>2, <2>7, <3>1 DEF At
    <3>2. CASE F(m, p) = 0
      <4>1. p \in 1..H.nPage
        BY <1>1, <2>9, <3>2
      <4>2. QED BY <2>7, <2>8, <3>2, <4>1 DEF At
    <3>3. QED BY <3>1, <3>2
  <2>10. ASSUME NEW p \in 1..H.nPage, NEW f, p <= Len(db), db[p] = wal.frames[f].data
         PROVE  p <= Len(db') /\ db'[p] = wal'.frames[f].data
    BY <1>1, <1>2, <1>4, <2>4, <2>10
  <2>11. \A p \in 1..H.nPage : F(mxH, p) \in 1..shm.nBackfill /\ InFile(p, F(mxH, p)) => InFile(p, F(mxH, p))'
    BY <2>7, <2>10 DEF InFile
  <2>12. CkAt(c)'
    <3>1. (\A p \in 1..w[c].hdr.nPage :
             F(w[c].hdr.mxFrame, p) \in (call[c].nBackfill + 1)..call[c].mxSafeFrame =>
               \/ pc[c] \in {"cksync", "ckpage"} /\ <<p, F(w[c].hdr.mxFrame, p)>> \in call[c].todo
               \/ InFile(p, F(w[c].hdr.mxFrame, p)))'
      BY <2>2, <2>4, <2>5, <2>7, <2>10 DEF InFile
    <3>2. QED BY <2>2, <2>3, <2>5, <2>6, <2>7, <3>1 DEF CkAt, CkRunPc, CkWritePc
  <2>13. Calls(c, "ckdbsync", x)
    BY <1>4 DEF Moves, Calls
  <2>14. \A m \in Nat, p \in Nat \ {0} :
           m >= x.mxSafeFrame /\ (x.mxSafeFrame = mxH => p <= H.nPage \/ F(m, p) # 0) => At(m, p)' = At(m, p)
    BY <1>4, <2>9
  <2> HIDE DEF n
  <2>15. QED BY <1>2, <2>1, <2>11, <2>12, <2>13, <2>14, FileStep
<1>5. QED BY <1>1, <1>3, <1>4, CkTruncDoes

\* What was copied is marked as copied.
LEMMA CkDoneData == ASSUME Ctl, Heads, Data, NEW c \in Conn, CkDone(c) PROVE Data'
<1> DEFINE mx == w[c].hdr.mxFrame
           safe == call[c].mxSafeFrame
<1>1. /\ WalTypeOK /\ RelyAt(c) /\ mxH \in Nat /\ H.nPage \in Nat /\ safe \in Nat /\ BackfillInv
      /\ mx \in Nat /\ shm.nBackfill \in Nat /\ w[c].hdr.nPage \in Nat
  BY DataIs
<1>2. /\ pc[c] = "ckdone" /\ Moves(c, "ckend") /\ UNCHANGED files
      /\ Shm(H, shm.hdr[1], safe, shm.aReadMark, shm.aPgno)
  BY <1>1, CkDoneDoes
<1>3. /\ Follows(w[c].hdr) /\ Growth(w[c].hdr) /\ safe <= mx /\ mx <= mxH /\ shm.nBackfill < safe
      /\ \A d \in Conn \ {c} : pc[d] \notin {"ckstart"} \cup CkRunPc
      /\ w[c].readLock = -1 /\ ~InWrite(c)
      /\ \A p \in 1..w[c].hdr.nPage : F(mx, p) \in (shm.nBackfill + 1)..safe => InFile(p, F(mx, p))
  BY <1>2, CkIs DEF CkWritePc
<1>4. /\ Others(c) /\ pc'[c] = "ckend" /\ call'[c] = call[c] /\ w'[c] = w[c]
      /\ cached'[c] = cached[c] /\ mine'[c] = mine[c]
  BY <1>2, OthersKept DEF Moves
<1>5. SameLog /\ db' = db /\ H' = H /\ mxH' = mxH /\ shm'.nBackfill = safe /\ shm'.aReadMark = shm.aReadMark
  BY <1>2 DEF Shm, SameLog, files, H, mxH
<1>6. /\ \A m, p : F(m, p)' = F(m, p) /\ At(m, p)' = At(m, p)
      /\ \A k : LogView(k)' = LogView(k) /\ FileView(k)' = FileView(k) /\ Size(k)' = Size(k)
      /\ \A p, f : InFile(p, f)' <=> InFile(p, f)
  BY <1>5, FramesKept
<1>7. Current' = Current /\ Size(H)' = Size(H) /\ \A k : Follows(k)' <=> Follows(k)
  BY <1>5, <1>6 DEF Current, Follows
<1>8. \A m, k, X : Overlays(m, k, X)' <=> Overlays(m, k, X)
  BY <1>5, <1>6, <1>7 DEF Overlays
<1>9. BackfillInv'
  <2>1. ASSUME NEW p \in 1..H.nPage, F(mxH, p) \in 1..safe PROVE InFile(p, F(mxH, p))
    <3>1. F(mx, p) = F(mxH, p)
      BY <1>1, <1>3, <2>1, FOfPrefix, mx \in 0..mxH
    <3>2. CASE F(mxH, p) <= shm.nBackfill
      BY <1>1, <1>2, <2>1, <3>2 DEF BackfillInv
    <3>3. CASE ~(F(mxH, p) <= shm.nBackfill)
      <4>1. p <= w[c].hdr.nPage
        BY <1>1, <1>3, <2>1 DEF Growth
      <4>2. p \in 1..w[c].hdr.nPage /\ F(mx, p) \in (shm.nBackfill + 1)..safe
        BY <1>1, <2>1, <3>1, <3>3, <4>1
      <4>3. QED BY <1>3, <3>1, <4>2
    <3>4. QED BY <3>2, <3>3
  <2>2. safe <= mxH
    BY <1>1, <1>3
  <2>3. QED BY <1>5, <1>6, <2>1, <2>2 DEF BackfillInv
<1>10. shm.nBackfill >= mxH => safe >= mxH
  BY <1>1, <1>3
<1>11. ASSUME NEW d \in Conn, d # c PROVE DataAt(d)'
  <2>1. /\ pc'[d] = pc[d] /\ call'[d] = call[d] /\ w'[d] = w[d] /\ cached'[d] = cached[d] /\ mine'[d] = mine[d]
    BY <1>4, <1>11 DEF Others
  <2>2. RelyAt(d) /\ ReadAt(d) /\ WriteAt(d)
    BY DataIs
  <2>3. RelyAt(d)'
    BY <1>5, <1>7, <2>1, <2>2 DEF RelyAt, InWrite
  <2>4. ReadAt(d)'
    BY <1>5, <1>6, <1>7, <1>10, <2>1, <2>2 DEF ReadAt, InWrite
  <2>5. WriteAt(d)'
    <3>1. /\ (InWrite(d)' <=> InWrite(d)) /\ Pending(d)' = Pending(d) /\ UndoTo(d)' = UndoTo(d)
          /\ (SvptAt(d)' <=> SvptAt(d)) /\ (ContentAt(d)' <=> ContentAt(d))
      <4>1. (InWrite(d)' <=> InWrite(d)) /\ Pending(d)' = Pending(d) /\ UndoTo(d)' = UndoTo(d)
        BY <2>1 DEF InWrite, Pending, UndoTo
      <4>2. SvptAt(d)' <=> SvptAt(d)
        BY <1>5, <1>8, <2>1, <4>1 DEF SvptAt
      <4>3. ContentAt(d)' <=> ContentAt(d)
        BY <1>5, <2>1 DEF ContentAt, SameLog
      <4>4. QED BY <4>1, <4>2, <4>3
    <3>2. Overlays(mine[d], w[d].hdr.mxFrame, Pending(d))' <=> Overlays(mine[d], w[d].hdr.mxFrame, Pending(d))
      BY <1>8, <2>1, <3>1
    <3>3. QED BY <1>5, <1>7, <1>10, <2>1, <2>2, <3>1, <3>2 DEF WriteAt
  <2>6. CkAt(d)'
    BY <1>3, <1>11, <2>1, NotCheckpointing
  <2>7. QED BY <2>3, <2>4, <2>5, <2>6 DEF DataAt
<1>12. DataAt(c)'
  <2>1. RelyAt(c)'
    BY <1>1, <1>4, <1>5, <1>7 DEF RelyAt, InWrite
  <2>2. ReadAt(c)'
    BY <1>3, <1>4 DEF ReadAt
  <2>3. QED BY <1>3, <1>4, <2>1, <2>2, NotWriting, NotCheckpointing DEF DataAt, InWrite, CkRunPc, CkWritePc
<1>13. \A d \in Conn : DataAt(d)'
  BY <1>11, <1>12
<1>14. QED BY <1>9, <1>13 DEF Data

-----------------------------------------------------------------------------
(* Opening, recovery and closing: Data is kept *)

\* Whose cache is empty and who reads nothing relies on nothing.
LEMMA BlankDataAt ==
  ASSUME NEW d \in Conn, cached'[d] = None, mine'[d] = None, w'[d].readLock = -1,
         pc'[d] \notin {"lock0", "ckstart"} \cup CkRunPc
  PROVE  DataAt(d)'
<1>1. RelyAt(d)' /\ ReadAt(d)'
  BY DEF RelyAt, ReadAt
<1>2. QED BY <1>1, NotWriting, NotCheckpointing DEF DataAt

\* Nobody relies on anything, and nothing is backfilled.
LEMMA BlankData ==
  ASSUME shm'.nBackfill = 0, H' \in Hdr,
         \A d \in Conn : /\ cached'[d] = None /\ mine'[d] = None /\ w'[d].readLock = -1
                         /\ pc'[d] \notin {"lock0", "ckstart"} \cup CkRunPc
  PROVE  Data'
<1>1. mxH' \in Nat
  BY HdrIs DEF mxH
<1>2. BackfillInv'
  BY <1>1 DEF BackfillInv
<1>3. \A d \in Conn : DataAt(d)'
  BY BlankDataAt
<1>4. QED BY <1>2, <1>3 DEF Data

LEMMA ClosedIsBlank ==
  ASSUME Ctl, NEW d \in Conn, pc[d] = "closed"
  PROVE  cached[d] = None /\ mine[d] = None /\ w[d].readLock = -1
BY DEF Ctl, CtlAt, TransAt, FreshWal

\* A connection opens, or closes while others go on.
LEMMA ComesAndGoesData ==
  ASSUME Ctl, Heads, Data, NEW c \in Conn, Others(c), UNCHANGED <<shm, files>>,
         cached'[c] = None, mine'[c] = None, w'[c] = FreshWal, pc'[c] \in {"idle", "closed"},
         pc[c] # "restartinfo", \E d \in Conn : pc[d] # "closed"
  PROVE  Data'
<1>1. SameBase /\ SameLog /\ SamePrefix(mxH) /\ MarksKept(c)
  BY SameAll
<1>2. FreshWal.readLock = -1 /\ FreshWal \in WalObj
  BY Blanks DEF FreshWal
<1>3. DataAt(c)'
  BY <1>2, BlankDataAt DEF CkRunPc, CkWritePc
<1>4. ReadsOn(c)
  BY <1>2 DEF ReadsOn
<1>5. QED BY <1>1, <1>2, <1>3, <1>4, DataStep

LEMMA OpenData == ASSUME Ctl, Heads, Data, NEW c \in Conn, Open(c) PROVE Data'
<1>1. WalTypeOK
  BY DEF Ctl
<1>2. /\ pc[c] = "closed" /\ Does(c, "idle", call[c], FreshWal, cached[c], mine[c]) /\ UNCHANGED files
      /\ shm' = IF \A d \in Conn : pc[d] = "closed" THEN ZeroShm ELSE shm
  BY <1>1, OpenDoes
<1>3. /\ Others(c) /\ pc'[c] = "idle" /\ w'[c] = FreshWal /\ cached'[c] = None /\ mine'[c] = None
  BY <1>2, OthersKept, ClosedIsBlank
<1>4. CASE \A d \in Conn : pc[d] = "closed"
  <2>1. shm'.nBackfill = 0 /\ H' = ZeroHdr /\ ZeroHdr \in Hdr
    BY <1>2, <1>4, Blanks DEF ZeroShm, H
  <2>2. ASSUME NEW d \in Conn
        PROVE  /\ cached'[d] = None /\ mine'[d] = None /\ w'[d].readLock = -1
               /\ pc'[d] \in {"idle", "closed"}
    <3>1. CASE d = c
      BY <1>3, <3>1 DEF FreshWal
    <3>2. CASE d # c
      BY <1>3, <1>4, <3>2, ClosedIsBlank DEF Others
    <3>3. QED BY <3>1, <3>2
  <2>3. QED BY <2>1, <2>2, BlankData DEF CkRunPc, CkWritePc
<1>5. CASE ~(\A d \in Conn : pc[d] = "closed")
  BY <1>2, <1>3, <1>5, ComesAndGoesData
<1>6. QED BY <1>4, <1>5

LEMMA CloseData == ASSUME Ctl, Heads, Data, NEW c \in Conn, Close(c) PROVE Data'
<1> DEFINE k == [NoCall EXCEPT !.mode = "close"]
<1>1. WalTypeOK /\ Steady /\ CtlAt(c) /\ w[c].readLock \in (-1)..(NReader - 1) /\ NReader \in Nat
  BY DataIs DEF Ctl
<1>2. /\ pc[c] = "idle" /\ w[c].readLock = -1 /\ ~InWrite(c) /\ UNCHANGED <<shm, files>>
      /\ Goes(c) \/ Calls(c, "hdr0", k)
  BY <1>1, CloseDoes
<1>3. CASE Goes(c)
  <2>1. /\ Others(c) /\ pc'[c] = "closed" /\ w'[c] = FreshWal /\ cached'[c] = None /\ mine'[c] = None
    BY <1>1, <1>3, GoesIs, OthersKept
  <2>2. QED BY <1>2, <2>1, ComesAndGoesData
<1>4. CASE Calls(c, "hdr0", k)
  <2>1. /\ Others(c) /\ pc'[c] = "hdr0" /\ w'[c] = w[c] /\ cached'[c] = cached[c] /\ mine'[c] = mine[c]
    BY <1>4, OthersKept DEF Calls
  <2>2. ~call[c].changed /\ w[c] \in WalObj /\ mine'[c] = None
    BY <1>1, <1>2, <2>1, Types DEF CtlAt, ModeAt, NoCall, InWrite
  <2>3. QED BY <1>2, <2>1, <2>2, CallData DEF CkRunPc, CkWritePc
<1>5. QED BY <1>2, <1>3, <1>4

LEMMA FinishCloseData == ASSUME Ctl, Heads, Data, NEW c \in Conn, FinishClose(c) PROVE Data'
<1>1. WalTypeOK /\ Goes(c) /\ UNCHANGED <<shm, db, dbDisk>>
  BY FinishCloseDoes DEF Ctl
<1>2. /\ Others(c) /\ pc'[c] = "closed" /\ w'[c] = FreshWal /\ cached'[c] = None /\ mine'[c] = None
  BY <1>1, GoesIs, OthersKept
<1>3. CASE pc[c] = "closing" /\ UNCHANGED <<wal, walDisk>>
  BY <1>1, <1>2, <1>3, ComesAndGoesData DEF files
<1>4. CASE pc[c] = "ckend" /\ call[c].mode = "close"
  <2>1. \A d \in Conn : d # c => pc[d] = "closed"
    BY <1>4 DEF Ctl, ClosesAlone
  <2>2. shm.nBackfill <= mxH
    BY <1>4, <2>1 DEF Data, BackfillInv
  <2>3. ASSUME NEW d \in Conn
        PROVE  /\ cached'[d] = None /\ mine'[d] = None /\ w'[d].readLock = -1 /\ pc'[d] = "closed"
    <3>1. CASE d = c
      BY <1>2, <3>1 DEF FreshWal
    <3>2. CASE d # c
      BY <1>2, <2>1, <3>2, ClosedIsBlank DEF Others
    <3>3. QED BY <3>1, <3>2
  <2>4. BackfillInv'
    BY <1>1, <2>2, <2>3 DEF BackfillInv, H, mxH
  <2>5. \A d \in Conn : DataAt(d)'
    BY <2>3, BlankDataAt DEF CkRunPc, CkWritePc
  <2>6. QED BY <2>4, <2>5 DEF Data
<1>5. QED BY <1>1, <1>3, <1>4, FinishCloseDoes

\* Before the wal-index is rebuilt nobody has read anything.
LEMMA NobodyReads ==
  ASSUME Heads, ~H.isInit, NEW d \in Conn
  PROVE  /\ cached[d] = None /\ mine[d] = None /\ w[d].readLock = -1
         /\ pc[d] \notin {"lock0", "ckstart"} \cup CkRunPc
BY DEF Heads, HeadAt, BlankAt, BlankPc, CkRunPc, CkWritePc

LEMMA RecoverData == ASSUME Ctl, Heads, Data, NEW c \in Conn, Recover(c) PROVE Data'
<1>1. WalTypeOK /\ HeadAt(c) /\ w[c] \in WalObj
  BY DataIs, Types
<1>2. PICK h \in Hdr, n \in Nat, idx \in [1..MaxFrame -> Nat] :
        /\ pc[c] = "recover"
        /\ Does(c, "recover0", call[c], [w[c] EXCEPT !.hdr = h, !.nCkpt = n], cached[c], mine[c])
        /\ Shm(H, h, shm.nBackfill, shm.aReadMark, idx)
  BY <1>1, RecoverDoes
<1> DEFINE o == [w[c] EXCEPT !.hdr = h, !.nCkpt = n]
<1>3. o.readLock = w[c].readLock
  BY <1>1 DEF WalObj
<1> HIDE DEF o
<1>4. /\ Others(c) /\ pc'[c] = "recover0" /\ w'[c] = o /\ cached'[c] = cached[c] /\ mine'[c] = mine[c]
  BY <1>2, OthersKept DEF o
<1>5. ~H.isInit /\ shm.nBackfill = 0
  BY <1>1, <1>2 DEF HeadAt, RecoverPc
<1>6. shm'.nBackfill = 0 /\ H' = H /\ H \in Hdr
  BY <1>1, <1>2, <1>5, Types DEF Shm, H
<1>7. ASSUME NEW d \in Conn
      PROVE  /\ cached'[d] = None /\ mine'[d] = None /\ w'[d].readLock = -1
             /\ pc'[d] \notin {"lock0", "ckstart"} \cup CkRunPc
  BY <1>3, <1>4, <1>5, NobodyReads DEF Others, CkRunPc, CkWritePc
<1>8. QED BY <1>6, <1>7, BlankData

LEMMA RecoverHdr0Data == ASSUME Ctl, Heads, Data, NEW c \in Conn, RecoverHdr0(c) PROVE Data'
<1>1. WalTypeOK /\ HeadAt(c) /\ w[c].hdr \in Hdr
  BY DataIs, Types
<1>2. /\ pc[c] = "recover0" /\ Moves(c, "recoverinfo")
      /\ Shm(w[c].hdr, shm.hdr[1], shm.nBackfill, shm.aReadMark, shm.aPgno)
  BY <1>1, RecoverHdr0Does
<1>3. /\ Others(c) /\ pc'[c] = "recoverinfo" /\ w'[c] = w[c] /\ cached'[c] = cached[c] /\ mine'[c] = mine[c]
  BY <1>2, OthersKept DEF Moves
<1>4. ~H.isInit /\ shm.nBackfill = 0
  BY <1>1, <1>2 DEF HeadAt, RecoverPc
<1>5. shm'.nBackfill = 0 /\ H' \in Hdr
  BY <1>1, <1>2, <1>4 DEF Shm, H
<1>6. ASSUME NEW d \in Conn
      PROVE  /\ cached'[d] = None /\ mine'[d] = None /\ w'[d].readLock = -1
             /\ pc'[d] \notin {"lock0", "ckstart"} \cup CkRunPc
  BY <1>3, <1>4, NobodyReads DEF Others, CkRunPc, CkWritePc
<1>7. QED BY <1>5, <1>6, BlankData

\* The read marks are new; nobody reads at them.
LEMMA RecoverInfoData == ASSUME Ctl, Heads, Data, NEW c \in Conn, RecoverInfo(c) PROVE Data'
<1>1. WalTypeOK /\ CtlAt(c) /\ HeadAt(c) /\ RelyAt(c) /\ mxH \in Nat /\ w[c] \in WalObj /\ H \in Hdr
  BY DataIs, Types
<1>2. PICK marks : /\ pc[c] = "recoverinfo" /\ Moves(c, AfterHdr(c))
                   /\ Shm(H, shm.hdr[1], 0, marks, shm.aPgno) /\ UNCHANGED files
  BY <1>1, RecoverInfoDoes
<1>3. /\ Others(c) /\ pc'[c] = AfterHdr(c) /\ call'[c] = call[c] /\ w'[c] = w[c]
      /\ cached'[c] = cached[c] /\ mine'[c] = mine[c]
  BY <1>2, OthersKept DEF Moves
<1>4. w[c].hdr = H /\ shm.nBackfill = 0
  BY <1>1, <1>2 DEF HeadAt, RecoverPc
<1>5. Slot \subseteq exclMask[c] /\ w[c].readLock = -1 /\ ~InWrite(c)
  BY <1>1, <1>2 DEF CtlAt, ModeAt, TransAt, MarkStepAt, CkStepAt, LocksAt, InWrite,
                    FrameStepAt, InLogAt, HdrPc, RecoverPc, MarkPc, WritePc, RestartPc, FramePc, CkPc,
                    CkRunPc, CkWritePc, CkMode
<1>6. MarksKept(c)
  BY <1>5, Slots DEF MarksKept
<1>7. SameBase /\ SameLog /\ SamePrefix(mxH)
  BY <1>2, <1>4 DEF Shm, SameBase, SameLog, SamePrefix, files
<1>8. H' = H /\ mxH' = mxH /\ Current' = Current /\ \A h : (Follows(h)' <=> Follows(h)) /\ (Growth(h)' <=> Growth(h))
  BY <1>7, LogKept
<1>9. AfterHdr(c) \in {"nbackfill", "ckstart"}
  BY DEF AfterHdr
<1>10. RelyAt(c)'
  BY <1>1, <1>3, <1>8 DEF RelyAt, InWrite
<1>11. ReadAt(c)'
  BY <1>3, <1>5, <1>9 DEF ReadAt
<1>12. CkAt(c)'
  <2>1. Follows(H) /\ Growth(H)
    BY <1>1, HdrIs DEF Follows, Growth, mxH
  <2>2. QED BY <1>3, <1>4, <1>8, <1>9, <2>1 DEF CkAt, CkRunPc, CkWritePc
<1>13. DataAt(c)'
  BY <1>3, <1>5, <1>10, <1>11, <1>12, NotWriting DEF DataAt, InWrite
<1>14. ReadsOn(c)
  BY <1>3, <1>5 DEF ReadsOn
<1>15. QED BY <1>1, <1>2, <1>3, <1>6, <1>7, <1>9, <1>13, <1>14, DataStep

LEMMA PowerLossData == ASSUME Ctl, Heads, Data, PowerLoss PROVE Data'
<1>1. WalTypeOK /\ Steady /\ LogBound
  BY DEF Ctl
<1>2. /\ shm' = ZeroShm /\ pc' = [c \in Conn |-> "closed"] /\ w' = [c \in Conn |-> FreshWal]
      /\ cached' = [c \in Conn |-> None] /\ mine' = [c \in Conn |-> None]
  BY <1>1, PowerLossDoes
<1>3. shm'.nBackfill = 0 /\ H' = ZeroHdr /\ ZeroHdr \in Hdr
  BY <1>2, Blanks DEF ZeroShm, H
<1>4. QED BY <1>2, <1>3, BlankData DEF FreshWal, CkRunPc, CkWritePc

-----------------------------------------------------------------------------
(* Results *)

LEMMA DataInit == ASSUME Init, Steady PROVE Data
<1>1. WalTypeOK
  BY CtlInit DEF Ctl
<1>2. \A d \in Conn : /\ pc[d] \in {"idle", "closed"} /\ w[d] = FreshWal
                      /\ cached[d] = None /\ mine[d] = None
  BY DEF Init
<1>3. shm.nBackfill = 0 /\ mxH \in Nat
  <2>1. shm.nBackfill = 0
    BY DEF Init, ZeroShm, WarmShm
  <2>2. H \in Hdr
    BY <1>1 DEF WalTypeOK, Index, H
  <2>3. QED BY <2>1, <2>2, HdrIs DEF mxH
<1>4. BackfillInv
  BY <1>3 DEF BackfillInv
<1>5. ASSUME NEW d \in Conn PROVE DataAt(d)
  <2>1. RelyAt(d) /\ ReadAt(d) /\ WriteAt(d)
    BY <1>2 DEF RelyAt, ReadAt, WriteAt, InWrite, FreshWal
  <2>2. CkAt(d)
    BY <1>2 DEF CkAt, CkRunPc, CkWritePc
  <2>3. QED BY <2>1, <2>2 DEF DataAt
<1>6. QED BY <1>4, <1>5 DEF Data

LEMMA Stutter == ASSUME Data, UNCHANGED vars PROVE Data'
<1>1. /\ pc' = pc /\ call' = call /\ w' = w /\ shm' = shm /\ wal' = wal /\ db' = db
      /\ cached' = cached /\ mine' = mine
  BY DEF vars, files, ghosts
<1>2. /\ SameBase /\ SameLog
  BY <1>1 DEF SameBase, SameLog, H
<1>3. /\ H' = H /\ mxH' = mxH /\ Current' = Current
      /\ \A m, p : F(m, p)' = F(m, p)
      /\ \A h : (Follows(h)' <=> Follows(h)) /\ LogView(h)' = LogView(h) /\ (Growth(h)' <=> Growth(h))
      /\ \A h : FileView(h)' = FileView(h)
      /\ \A p, f : InFile(p, f)' <=> InFile(p, f)
      /\ \A m, k, X : Overlays(m, k, X)' <=> Overlays(m, k, X)
  BY <1>2, LogKept, FileKept DEF SameBase
<1>4. BackfillInv'
  BY <1>1, <1>3 DEF Data, BackfillInv
<1>5. ASSUME NEW d \in Conn PROVE DataAt(d)'
  <2>1. RelyAt(d) /\ ReadAt(d) /\ WriteAt(d) /\ CkAt(d)
    BY DEF Data, DataAt
  <2>2. RelyAt(d)' /\ ReadAt(d)'
    BY <1>1, <1>3, <2>1 DEF RelyAt, ReadAt, InWrite
  <2>3. /\ (InWrite(d)' <=> InWrite(d)) /\ Pending(d)' = Pending(d) /\ UndoTo(d)' = UndoTo(d)
        /\ (ContentAt(d)' <=> ContentAt(d))
    BY <1>1, <1>3 DEF InWrite, Pending, UndoTo, ContentAt
  <2>4. SvptAt(d)' <=> SvptAt(d)
    BY <1>1, <1>3, <2>3 DEF SvptAt
  <2>5. Overlays(mine[d], w[d].hdr.mxFrame, Pending(d))' <=> Overlays(mine[d], w[d].hdr.mxFrame, Pending(d))
    BY <1>1, <1>3, <2>3
  <2>6. WriteAt(d)'
    BY <1>1, <1>3, <2>1, <2>3, <2>4, <2>5 DEF WriteAt
  <2>7. CkAt(d)'
    BY <1>1, <1>3, <2>1 DEF CkAt
  <2>8. QED BY <2>2, <2>6, <2>7 DEF DataAt
<1>6. QED BY <1>4, <1>5 DEF Data

LEMMA DataNext == ASSUME Ctl, Heads, Data, [Next]_vars PROVE Data'
<1>1. CASE UNCHANGED vars
  BY <1>1, Stutter
<1>2. CASE PowerLoss
  BY <1>2, PowerLossData
<1>3. ASSUME NEW c \in Conn,
             \/ Open(c) \/ BeginRead(c) \/ ReadHdr0(c) \/ ReadHdr1(c) \/ LockHdr(c)
             \/ ReadHdrAgain(c) \/ Recover(c) \/ RecoverHdr0(c) \/ RecoverInfo(c)
             \/ CheckBackfill(c) \/ Lock0(c) \/ ChooseMark(c) \/ GrabMark(c) \/ PutMark(c)
             \/ LockMark(c) \/ EndRead(c) \/ BeginWrite(c) \/ Savepoint(c) \/ SavepointUndo(c)
      PROVE  Data'
  BY <1>3, OpenData, BeginReadData, ReadHdr0Data, ReadHdr1Data, LockHdrData, ReadHdrAgainData,
     RecoverData, RecoverHdr0Data, RecoverInfoData, CheckBackfillData, Lock0Data, ChooseMarkData,
     GrabMarkData, PutMarkData, LockMarkData, EndReadData, BeginWriteData, SavepointData, SavepointUndoData
<1>4. ASSUME NEW c \in Conn,
             \/ Spill(c) \/ Commit(c)
             \/ RestartLog(c) \/ RestartHdr1(c) \/ RestartHdr0(c) \/ RestartInfo(c)
             \/ WriteWalHdr(c) \/ SyncWalHdr(c) \/ WriteFrame(c) \/ SyncFrames(c)
             \/ AppendIndex(c) \/ CommitHdr0(c) \/ FramesFail(c) \/ Rollback(c)
      PROVE  Data'
  BY <1>4, SpillData, CommitData, RestartLogData, RestartHdr1Data, RestartHdr0Data, RestartInfoData,
     WriteWalHdrData, SyncWalHdrData, WriteFrameData, SyncFramesData, AppendIndexData, CommitHdr0Data,
     FramesFailData, RollbackData
<1>5. ASSUME NEW c \in Conn,
             \/ Checkpoint(c) \/ CkStart(c) \/ CkMark(c) \/ CkPut(c) \/ CkLock0(c) \/ CkSync(c)
             \/ CkPage(c) \/ CkTrunc(c) \/ CkDbSync(c) \/ CkDone(c) \/ CkEnd(c) \/ CkFails(c)
             \/ Close(c) \/ FinishClose(c) \/ Kill(c)
      PROVE  Data'
  BY <1>5, CheckpointData, CkStartData, CkMarkData, CkPutData, CkLock0Data, CkSyncData, CkPageData,
     CkTruncData, CkDbSyncData, CkDoneData, CkEndData, CkFailsData, CloseData, FinishCloseData,
     NoKill DEF Ctl
<1>6. QED BY <1>1, <1>2, <1>3, <1>4, <1>5 DEF Next

\* The log, the wal-index and the database file always agree: every header that a
\* connection has is one that was published, everything that a reader, a writer, a
\* savepoint or a checkpointer relies on is in the log or in the file, and nothing that a
\* reader may still need is overwritten or cut off (wal.c, all of its operations, as long
\* as no process dies and a restart waits for a checkpointer that is about to read
\* nBackfill).
THEOREM LogAgrees == Spec /\ Steady => []WalInv
<1>1. Init /\ Steady => WalInv
  BY CtlInit, HeadsInit, DataInit DEF WalInv
<1>2. WalInv /\ [Next]_vars => WalInv'
  BY CtlNext, HeadsNext, DataNext DEF WalInv
<1>3. QED BY <1>1, <1>2, PTL DEF Spec

LEMMA ReaderIsFresh ==
  ASSUME WalInv, NEW c \in Conn, InRead(c), ~InWrite(c)
  PROVE  cached[c] = View(c)
<1>1. ReadAt(c) /\ w[c] \in WalObj /\ w[c].readLock \in (-1)..(NReader - 1) /\ NReader \in Nat
  BY DataIs, Types DEF WalInv
<1>2. CASE w[c].readLock = 0
  BY <1>1, <1>2, ThroughIs DEF ReadAt, View
<1>3. CASE w[c].readLock # 0
  <2>1. w[c].readLock >= 1
    BY <1>1, <1>3 DEF InRead
  <2>2. QED BY <1>1, <1>3, <2>1, ThroughIs DEF ReadAt, View
<1>4. QED BY <1>2, <1>3

\* walTryBeginRead(), walCheckpoint(), walRestartLog(): whatever the others do to the log,
\* to the wal-index and to the database file, the pager's cache of a reader stands for
\* what it would read now (what walTryBeginRead() and pagerBeginReadTransaction() rely on
\* when they keep the cache of an earlier transaction).
THEOREM ReadersCacheFresh == Spec /\ Steady => []CacheFresh
<1>1. WalInv => CacheFresh
  BY ReaderIsFresh DEF CacheFresh
<1>2. QED BY <1>1, LogAgrees, PTL

\* The doc of WalCkptInfo: "The nBackfill number is never greater than
\* WalIndexHdr.mxFrame", outside of a restart or a recovery of the log.
THEOREM BackfillNeverAhead == Spec /\ Steady => []BackfillWithinLog
<1>1. WalInv => BackfillWithinLog
  <2> SUFFICES ASSUME WalInv, \A c \in Conn : ~Holds(c, WRITE) PROVE shm.nBackfill <= mxH
    BY DEF BackfillWithinLog, H, mxH
  <2>1. ASSUME NEW c \in Conn PROVE pc[c] # "restartinfo"
    <3>1. CtlAt(c) /\ WRITE \notin exclMask[c]
      BY DEF WalInv, Ctl, Holds
    <3>2. QED BY <3>1 DEF CtlAt, LocksAt, ModeAt, TransAt, WritePc, RestartPc
  <2>2. QED BY <2>1 DEF WalInv, Data, BackfillInv
<1>2. QED BY <1>1, LogAgrees, PTL

\* A reader: neither at the start nor at the end of its transaction, and not a writer.
Reads(c) == InRead(c) /\ ~InWrite(c)

\* What a reader would read of any page is the same before and after a step, whosever it is.
SnapshotKept == \A c \in Conn : Reads(c) /\ Reads(c)' => View(c)' = View(c)

\* Who writes the cache of whom.
CacheStep(e) ==
  \/ cached' = cached
  \/ pc[e] # "idle" /\ \E v : cached' = [cached EXCEPT ![e] = v]
  \/ pc' = [pc EXCEPT ![e] = "closed"] /\ cached' = [cached EXCEPT ![e] = None]

LEMMA CacheSteps ==
  ASSUME NEW e \in Conn
  PROVE  /\ Open(e) \/ BeginRead(e) \/ ReadHdr0(e) \/ ReadHdr1(e) \/ LockHdr(e) => CacheStep(e)
         /\ ReadHdrAgain(e) \/ Recover(e) \/ RecoverHdr0(e) \/ RecoverInfo(e) => CacheStep(e)
         /\ CheckBackfill(e) \/ Lock0(e) \/ ChooseMark(e) \/ GrabMark(e) \/ PutMark(e) => CacheStep(e)
         /\ LockMark(e) \/ EndRead(e) \/ BeginWrite(e) \/ Savepoint(e) \/ SavepointUndo(e) => CacheStep(e)
         /\ Spill(e) \/ Commit(e) \/ RestartLog(e) \/ RestartHdr1(e) \/ RestartHdr0(e) => CacheStep(e)
         /\ RestartInfo(e) \/ WriteWalHdr(e) \/ SyncWalHdr(e) \/ WriteFrame(e) \/ SyncFrames(e) => CacheStep(e)
         /\ AppendIndex(e) \/ CommitHdr0(e) \/ FramesFail(e) \/ Rollback(e) => CacheStep(e)
         /\ Checkpoint(e) \/ CkStart(e) \/ CkMark(e) \/ CkPut(e) \/ CkLock0(e) \/ CkSync(e) => CacheStep(e)
         /\ CkPage(e) \/ CkTrunc(e) \/ CkDbSync(e) \/ CkDone(e) \/ CkEnd(e) \/ CkFails(e) => CacheStep(e)
         /\ Close(e) \/ FinishClose(e) \/ Kill(e) => CacheStep(e)
<1>1. Open(e) \/ BeginRead(e) \/ ReadHdr0(e) \/ ReadHdr1(e) \/ LockHdr(e) => CacheStep(e)
  <2>1. Open(e) \/ BeginRead(e) \/ ReadHdr0(e) \/ ReadHdr1(e) => CacheStep(e)
    BY DEF Open, BeginRead, ReadHdr0, ReadHdr1, ghosts, CacheStep
  <2>2. LockHdr(e) => CacheStep(e)
    BY DEF LockHdr, HdrBusy, CacheStep
  <2>3. QED BY <2>1, <2>2
<1>2. ReadHdrAgain(e) \/ Recover(e) \/ RecoverHdr0(e) \/ RecoverInfo(e) => CacheStep(e)
  <2>1. ReadHdrAgain(e) => CacheStep(e)
    BY DEF ReadHdrAgain, HdrBusy, CacheStep
  <2>2. Recover(e) \/ RecoverHdr0(e) \/ RecoverInfo(e) => CacheStep(e)
    BY DEF Recover, RecoverHdr0, RecoverInfo, ghosts, CacheStep
  <2>3. QED BY <2>1, <2>2
<1>3. CheckBackfill(e) \/ Lock0(e) \/ ChooseMark(e) \/ GrabMark(e) \/ PutMark(e) => CacheStep(e)
  <2>1. Lock0(e) => CacheStep(e)
    BY DEF Lock0, ReadBegun, CacheStep
  <2>2. CheckBackfill(e) \/ ChooseMark(e) \/ GrabMark(e) \/ PutMark(e) => CacheStep(e)
    BY DEF CheckBackfill, ChooseMark, GrabMark, PutMark, ghosts, CacheStep
  <2>3. QED BY <2>1, <2>2
<1>4. LockMark(e) \/ EndRead(e) \/ BeginWrite(e) \/ Savepoint(e) \/ SavepointUndo(e) => CacheStep(e)
  <2>1. LockMark(e) => CacheStep(e)
    BY DEF LockMark, ReadBegun, CacheStep
  <2>2. EndRead(e) \/ BeginWrite(e) \/ Savepoint(e) \/ SavepointUndo(e) => CacheStep(e)
    BY DEF EndRead, BeginWrite, Savepoint, SavepointUndo, ghosts, CacheStep
  <2>3. QED BY <2>1, <2>2
<1>5. Spill(e) \/ Commit(e) \/ RestartLog(e) \/ RestartHdr1(e) \/ RestartHdr0(e) => CacheStep(e)
  BY DEF Spill, Commit, StartFrames, RestartLog, RestartHdr1, RestartHdr0, ghosts, CacheStep
<1>6. RestartInfo(e) \/ WriteWalHdr(e) \/ SyncWalHdr(e) \/ WriteFrame(e) \/ SyncFrames(e) => CacheStep(e)
  BY DEF RestartInfo, WriteWalHdr, SyncWalHdr, WriteFrame, SyncFrames, ghosts, CacheStep
<1>7. AppendIndex(e) \/ CommitHdr0(e) \/ FramesFail(e) \/ Rollback(e) => CacheStep(e)
  BY DEF AppendIndex, CommitHdr0, FramesFail, Rollback, ghosts, CacheStep
<1>8. Checkpoint(e) \/ CkStart(e) \/ CkMark(e) \/ CkPut(e) \/ CkLock0(e) \/ CkSync(e) => CacheStep(e)
  BY DEF Checkpoint, CkStart, CkMark, CkPut, CkLock0, CkSync, ghosts, CacheStep
<1>9. CkPage(e) \/ CkTrunc(e) \/ CkDbSync(e) \/ CkDone(e) \/ CkEnd(e) \/ CkFails(e) => CacheStep(e)
  BY DEF CkPage, CkTrunc, CkDbSync, CkDone, CkEnd, CkFails, ghosts, CacheStep
<1>10. Close(e) \/ FinishClose(e) \/ Kill(e) => CacheStep(e)
  BY DEF Close, FinishClose, Kill, Gone, Goto, CacheStep
<1>11. QED BY <1>1, <1>2, <1>3, <1>4, <1>5, <1>6, <1>7, <1>8, <1>9, <1>10

LEMMA SnapshotStep == ASSUME WalTypeOK, CacheFresh, CacheFresh', [Next]_vars PROVE SnapshotKept
<1> SUFFICES ASSUME NEW c \in Conn, Reads(c), Reads(c)' PROVE View(c)' = View(c)
  BY DEF SnapshotKept
<1>1. cached[c] = View(c) /\ cached'[c] = View(c)'
  BY DEF CacheFresh, Reads
<1>2. cached'[c] = cached[c]
  <2>1. pc \in [Conn -> WalPc] /\ cached \in [Conn -> Image]
    BY DEF WalTypeOK
  <2>2. pc[c] = "idle" /\ pc'[c] = "idle"
    BY DEF Reads, InRead
  <2>3. CASE UNCHANGED vars
    BY <2>3 DEF vars, ghosts
  <2>4. CASE PowerLoss
    BY <2>2, <2>4 DEF PowerLoss
  <2>5. ASSUME NEW e \in Conn, CacheStep(e) PROVE cached'[c] = cached[c]
    BY <2>1, <2>2, <2>5 DEF CacheStep
  <2>6. (\E e \in Conn : CacheStep(e)) \/ PowerLoss \/ UNCHANGED vars
    BY CacheSteps DEF Next
  <2>7. QED BY <2>3, <2>4, <2>5, <2>6
<1>3. QED BY <1>1, <1>2

\* sqlite3WalBeginReadTransaction(), sqlite3WalRead(): from one step to the next, a
\* reader sees the same database, page by page, whatever commits, restarts of the log and
\* checkpoints the others run.
THEOREM SnapshotIsKept == Spec /\ Steady => [][SnapshotKept]_vars
<1>1. WalTypeOK /\ CacheFresh /\ CacheFresh' /\ [Next]_vars => [SnapshotKept]_vars
  BY SnapshotStep
<1>2. WalInv => WalTypeOK
  BY DEF WalInv, Ctl
<1>3. QED BY <1>1, <1>2, LogAgrees, ReadersCacheFresh, PTL DEF Spec

=============================================================================
