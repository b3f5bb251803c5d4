------------------------------ MODULE Journal ------------------------------
(***************************************************************************)
(* The rollback journal as a file: what a crash can make of a file that is *)
(* not synced, and what pager_playback() reads out of a journal.           *)
(*                                                                         *)
(* A journal is a sequence of items of the size of one page record; a      *)
(* header starts on a sector boundary and fills one sector of HdrSz items. *)
(* The random cksumInit of a header is a nonce that no other header has:   *)
(* a record passes the checksum exactly if it was written under it.        *)
(***************************************************************************)
EXTENDS Integers, Sequences

CONSTANT HdrSz    \* sector (= journal header) size, in journal records

ASSUME HdrSzAssumption == HdrSz \in Nat \ {0}

-----------------------------------------------------------------------------
(* Files *)

Junk == -1                                  \* a page a power loss has garbled

EmptyFile == [os |-> <<>>, disk |-> <<>>, cut |-> FALSE]

Zero      == [t |-> "zero"]
Pad       == [t |-> "pad"]                  \* the unused rest of a sector
Garbage   == [t |-> "garbage"]
Rec(p, v, nonce) == [t |-> "rec", pg |-> p, data |-> v, nonce |-> nonce]
Hdr(magic, nRec, nonce, orig) ==
  [t |-> "hdr", magic |-> magic, nRec |-> nRec, nonce |-> nonce, orig |-> orig]

\* Write the items "vals" at offset o of file content s.
Overwrite(s, o, vals) ==
  LET last == o + Len(vals)
      n    == IF Len(s) > last THEN Len(s) ELSE last
  IN [i \in 1..n |-> IF o < i /\ i <= last THEN vals[i - o]
                     ELSE IF i <= Len(s) THEN s[i] ELSE Pad]

\* The database file with n pages.
Resize(f, n) == [p \in 1..n |-> IF p <= Len(f) THEN f[p] ELSE 0]

SetPage(f, p, v) == [Resize(f, IF p > Len(f) THEN p ELSE Len(f)) EXCEPT ![p] = v]

\* What a power loss makes of a file: every item that was not synced is the old
\* one, the new one or garbage; the size is the old or the new one.  What nobody
\* will read need not be told apart.
Survivors(disk, os, garbage, unread) ==
  LET max   == IF Len(disk) > Len(os) THEN Len(disk) ELSE Len(os)
      Old(i) == IF i <= Len(disk) THEN disk[i] ELSE garbage
      New(i) == IF i <= Len(os) THEN os[i] ELSE garbage
      Lost  == {i \in 1..max : Old(i) # New(i) /\ New(i) # unread}
      Fate  == [Lost -> {"old", "new", "garbage"}]
      After(n, fate) == [i \in 1..n |->
        IF i \notin Lost \/ fate[i] = "new" THEN New(i)
        ELSE IF fate[i] = "old" THEN Old(i) ELSE garbage]
  IN {After(n, fate) : n \in {Len(disk), Len(os)}, fate \in Fate}

\* A truncated journal is gone as a whole or back as a whole.
JournalSurvivors(f) ==
  IF f.cut THEN {f.disk} \cup Survivors(<<>>, f.os, Garbage, Pad)
           ELSE Survivors(f.disk, f.os, Garbage, Pad)

Sync(f) == [os |-> f.os, disk |-> f.os, cut |-> FALSE]

-----------------------------------------------------------------------------
(* The journal's format *)

\* journalHdrOffset(): the next sector boundary.
HdrOffset(o) == ((o + HdrSz - 1) \div HdrSz) * HdrSz

HasMagic(item) == item.t = "hdr" /\ item.magic

\* Number of records after offset "first", at most n, that pass the checksum; a
\* page beyond the database's old size "orig" is passed over before it is checked.
Good(s, first, n, nonce, orig) ==
  LET ok == {k \in 0..n : \A i \in 1..k :
               /\ first + i <= Len(s)
               /\ s[first + i].t = "rec"
               /\ s[first + i].nonce = nonce \/ s[first + i].pg > orig}
  IN CHOOSE k \in ok : \A j \in ok : j <= k

\* The segments pager_playback() finds: a header, then the records it covers.
\* Rolling back its own transaction (not isHot), a pager trusts the header at
\* journalHdr without its magic and counts that segment's records by file size.
Segments(s, isHot, journalHdr) ==
  LET n == Len(s)
      From[o \in 0..n] ==
        LET a     == HdrOffset(o)
            first == a + HdrSz
            h     == s[a + 1]
            cnt   == IF h.nRec = 0 /\ ~isHot /\ journalHdr = a THEN n - first ELSE h.nRec
            good  == Good(s, first, cnt, h.nonce, s[1].orig)
            seg   == [first |-> first, nRec |-> cnt, good |-> good, orig |-> h.orig]
        IN IF \/ first > n
              \/ h.t # "hdr"
              \/ ~h.magic /\ (isHot \/ a # journalHdr)
           THEN {}
           ELSE {seg} \cup (IF good < cnt THEN {} ELSE From[first + cnt])
  IN From[0]

Offsets(segs) == UNION {s.first..(s.first + s.good - 1) : s \in segs}

OrigSize(segs) == (CHOOSE s \in segs : s.first = HdrSz).orig

\* The database that a rollback of journal content s makes of file f.
RolledBack(f, s) ==
  LET segs == Segments(s, TRUE, 0)
      n    == OrigSize(segs)
      For(p) == {o \in Offsets(segs) : s[o + 1].pg = p}
      Last(S) == CHOOSE o \in S : \A x \in S : x <= o
  IN IF segs = {} THEN f
     ELSE [p \in 1..n |-> IF For(p) = {} THEN Resize(f, n)[p]
                                         ELSE s[Last(For(p)) + 1].data]
=============================================================================
