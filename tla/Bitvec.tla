------------------------------- MODULE Bitvec -------------------------------
(***************************************************************************)
(* The bit-vector of bitvec.c, a set of page numbers as a bitmap, a hash   *)
(* table, or an array of smaller vectors; and the transaction that keeps   *)
(* in one, pInJournal, which pages its rollback journal holds.             *)
(*                                                                         *)
(* A vector is a record with the three representations side by side, of    *)
(* which one is in use.  An operation that allocates takes F, the numbers  *)
(* of the allocations of the step that fail, and n, how many were made.    *)
(* Content is a count of changes: 0 is what a page held at first.          *)
(***************************************************************************)
EXTENDS Integers, Sequences, SequencesExt, TLC

CONSTANTS BITVEC_NBIT,  \* bits of a bitmap
          BITVEC_NINT,  \* slots of a hash table
          BITVEC_NPTR,  \* sub-vectors of an array
          BvSetups      \* configurations: [iSize, leaves, writes, allocs, faults, sets, clears]

ASSUME BitvecAssumption ==
  BITVEC_NBIT \in Nat \ {0} /\ BITVEC_NPTR \in Nat \ {0, 1} /\ BITVEC_NINT \in Nat \ {0, 1}

VARIABLES bv,           \* [pInJournal, jrnl, image, marked, lost, ignored, open]
          bvEnv         \* what is left of the bounds

bvVars == <<bv, bvEnv>>

BITVEC_MXHASH  == BITVEC_NINT \div 2
BITVEC_HASH(x) == x % BITVEC_NINT
Slots          == 0..(BITVEC_NINT - 1)
EmptyHash      == [h \in Slots |-> 0]

BitvecCreate(iSize) ==
  [iSize |-> iSize, nSet |-> 0, iDivisor |-> 0, aBitmap |-> {}, aHash |-> EmptyHash, apSub |-> <<>>]

-----------------------------------------------------------------------------
(* bitvec.c *)

\* From the slot of its hash on, the first that holds i or nothing.
Probe(aHash, i) ==
  LET at(k) == (BITVEC_HASH(i - 1) + k) % BITVEC_NINT
      k0 == CHOOSE k \in Slots : /\ aHash[at(k)] \in {0, i}
                                 /\ \A j \in 0..(k - 1) : aHash[at(j)] \notin {0, i}
  IN at(k0)

\* The sub-vector a bit is in, and its number there
Bin(p, i)    == (i - 1) \div p.iDivisor
Within(p, i) == ((i - 1) % p.iDivisor) + 1

InHash(p, i) == [p EXCEPT !.nSet = @ + 1, !.aHash[Probe(p.aHash, i)] = i]
HashValues(aHash) == SelectSeq([k \in 1..BITVEC_NINT |-> aHash[k - 1]], LAMBDA x : x # 0)

RECURSIVE BitvecTest(_, _)
BitvecTest(p, i) ==
  IF i \notin 1..p.iSize THEN FALSE
  ELSE IF p.iDivisor # 0
  THEN Bin(p, i) \in DOMAIN p.apSub /\ BitvecTest(p.apSub[Bin(p, i)], Within(p, i))
  ELSE IF p.iSize <= BITVEC_NBIT THEN i \in p.aBitmap
  ELSE p.aHash[Probe(p.aHash, i)] = i

\* The slot is taken, and the table is half full, or it is full but for one slot.
MustRehash(p, i) ==
  /\ p.nSet >= BITVEC_MXHASH
  /\ p.aHash[BITVEC_HASH(i - 1)] # 0 \/ p.nSet >= BITVEC_NINT - 1

\* The result is [p, ok, n].
RECURSIVE BitvecSet(_, _, _, _)

SetIn(p, i, n, F) ==
  LET bin == Bin(p, i)
      new == bin \notin DOMAIN p.apSub
  IN IF new /\ n + 1 \in F THEN [p |-> p, ok |-> FALSE, n |-> n + 1]
     ELSE LET r == BitvecSet(IF new THEN BitvecCreate(p.iDivisor) ELSE p.apSub[bin],
                             Within(p, i), IF new THEN n + 1 ELSE n, F)
          IN [r EXCEPT !.p = [p EXCEPT !.apSub = (bin :> r.p) @@ @]]

\* Every value is set again, also after one of them could not be.
Rehash(p, i, n, F) ==
  IF n + 1 \in F THEN [p |-> p, ok |-> FALSE, n |-> n + 1]
  ELSE LET split == [p EXCEPT !.aHash = EmptyHash,
                              !.iDivisor = (p.iSize + BITVEC_NPTR - 1) \div BITVEC_NPTR]
           Again(acc, v) == LET r == BitvecSet(acc.p, v, acc.n, F)
                            IN [r EXCEPT !.ok = @ /\ acc.ok]
       IN FoldLeft(Again, [p |-> split, ok |-> TRUE, n |-> n + 1], <<i>> \o HashValues(p.aHash))

BitvecSet(p, i, n, F) ==
  LET done(q) == [p |-> q, ok |-> TRUE, n |-> n] IN
  IF p.iSize <= BITVEC_NBIT THEN done([p EXCEPT !.aBitmap = @ \cup {i}])
  ELSE IF p.iDivisor # 0 THEN SetIn(p, i, n, F)
  ELSE IF p.aHash[Probe(p.aHash, i)] = i THEN done(p)
  ELSE IF MustRehash(p, i) THEN Rehash(p, i, n, F)
  ELSE done(InHash(p, i))

\* Mutant: the value leaves a hole in the table.
HashWithoutHole(p, i) ==
  [p EXCEPT !.aHash = [h \in Slots |-> IF p.aHash[h] = i THEN 0 ELSE p.aHash[h]],
            !.nSet = @ - (IF i \in ToSet(HashValues(p.aHash)) THEN 1 ELSE 0)]

\* The table is built again from the values that stay.
HashWithout(p, i) ==
  FoldLeft(LAMBDA q, v : InHash(q, v), [p EXCEPT !.aHash = EmptyHash, !.nSet = 0],
           SelectSeq(HashValues(p.aHash), LAMBDA x : x # i))

RECURSIVE BitvecClear(_, _)
BitvecClear(p, i) ==
  IF p.iDivisor # 0
  THEN IF Bin(p, i) \notin DOMAIN p.apSub THEN p
       ELSE [p EXCEPT !.apSub[Bin(p, i)] = BitvecClear(@, Within(p, i))]
  ELSE IF p.iSize <= BITVEC_NBIT THEN [p EXCEPT !.aBitmap = @ \ {i}]
  ELSE HashWithout(p, i)

-----------------------------------------------------------------------------
(* pInJournal *)

BvInit ==
  /\ bvEnv \in BvSetups
  /\ bv = [pInJournal |-> BitvecCreate(bvEnv.iSize),
           jrnl   |-> <<>>,                             \* [pg, val]
           image  |-> [p \in 1..bvEnv.iSize |-> 0],
           marked |-> {},                               \* what pInJournal stands for
           lost   |-> FALSE,                            \* a bit could not be set
           ignored |-> FALSE,                           \* and its page was used all the same
           open   |-> TRUE]                             \* the transaction

Spent(k) == bvEnv[k] > 0 /\ bvEnv' = [bvEnv EXCEPT ![k] = @ - 1]

\* One allocation fails, or all from one on; MaxAlloc bounds what one step allocates.
MaxAlloc == 6
Failures == {{}} \cup (IF bvEnv.faults THEN {{k} : k \in 1..MaxAlloc} \cup {k..MaxAlloc : k \in 1..MaxAlloc}
                    ELSE {})

\* pager_playback(): every record, in order
Played(s) == FoldLeft(LAMBDA img, r : [img EXCEPT ![r.pg] = r.val], s.image, s.jrnl)

\* pager_end_transaction() frees the vector.
BvRolledBack(s) == [s EXCEPT !.image = Played(s), !.jrnl = <<>>, !.marked = {}, !.lost = FALSE,
                           !.pInJournal = BitvecCreate(bvEnv.iSize), !.open = FALSE]

Noted(s, p, r) == [s EXCEPT !.pInJournal = r.p, !.marked = @ \cup {p}, !.lost = @ \/ ~r.ok]

\* pager_write(): the record of the page, then its bit
BvJournalPage(s, p, n, F) ==
  IF BitvecTest(s.pInJournal, p) THEN [s |-> s, ok |-> TRUE]
  ELSE LET r == BitvecSet(s.pInJournal, p, n, F)
       IN [s |-> Noted([s EXCEPT !.jrnl = Append(@, [pg |-> p, val |-> s.image[p]])], p, r), ok |-> r.ok]


\* sqlite3PagerWrite() and the change that follows it.  When memory runs out, a statement
\* without a statement journal takes the transaction with it (vdbeaux.c:2491-2499).
Changed(s, p, n, F) ==
  LET w == BvJournalPage(s, p, n, F)
  IN IF w.ok THEN [w.s EXCEPT !.image[p] = @ + 1] ELSE BvRolledBack(w.s)

BvWrite(p, F) ==
  /\ bv.open /\ p \notin bvEnv.leaves /\ Spent("writes")
  /\ bv' = Changed(bv, p, 0, F)

\* sqlite3PagerAcquire() without content, for a leaf of the free list that is about to be
\* written: its old content need not be restored, so that its bit is set without a record.
\* The bit that cannot be set is no error.
AllocateLeaf(p, F) ==
  LET r == BitvecSet(bv.pInJournal, p, 0, F)
  IN /\ bv.open /\ p \in bvEnv.leaves /\ bv.image[p] = 0 /\ Spent("allocs")
     /\ bv' = Changed([Noted(bv, p, r) EXCEPT !.ignored = @ \/ ~r.ok], p, r.n, F)

BvRollback == bv.open /\ bv.jrnl # <<>> /\ bv' = BvRolledBack(bv) /\ UNCHANGED bvEnv

\* sqlite3BitvecBuiltinTest(): bits are set and cleared, as in sqlite3PagerMovepage()
SetBit(i) ==
  /\ bv.open /\ Spent("sets")
  /\ bv' = Noted(bv, i, BitvecSet(bv.pInJournal, i, 0, {}))

ClearBit(i) ==
  /\ bv.open /\ Spent("clears")
  /\ bv' = [bv EXCEPT !.pInJournal = BitvecClear(@, i), !.marked = @ \ {i}]

BvNext ==
  \/ \E p \in 1..bvEnv.iSize :
       \/ \E F \in Failures : BvWrite(p, F) \/ AllocateLeaf(p, F)
       \/ SetBit(p) \/ ClearBit(p)
  \/ BvRollback

BvSpec == BvInit /\ [][BvNext]_bvVars
-----------------------------------------------------------------------------
\* Whatever representation a vector has come to, it holds the bits that were set and not
\* cleared since; a failed allocation loses bits and invents none (bitvec.c:86-93).
BitvecIsSet ==
  \A i \in 1..bvEnv.iSize :
    /\ BitvecTest(bv.pInJournal, i) => i \in bv.marked
    /\ i \in bv.marked => BitvecTest(bv.pInJournal, i) \/ bv.lost

\* Played back in order, the journal brings every page back whose content matters, however
\* many allocations failed: a page that may have changed is not written to it again.  The
\* comment of sqlite3PagerAcquire() says so of the bits that it does not get set: the failure
\* is "benign", and means "extra work to journal a page that does not need to be journaled"
\* (pager.c:5655-5657).
JournalRestores == \A p \in (1..bvEnv.iSize) \ bvEnv.leaves : Played(bv)[p] = 0

=============================================================================
