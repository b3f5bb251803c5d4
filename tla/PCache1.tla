------------------------------- MODULE PCache1 -------------------------------
(***************************************************************************)
(* The default page cache (pcache1.c) with one PGroup for all the caches   *)
(* ("mode 2"): the caches of several connections, each used by one thread, *)
(* share a budget of pages and recycle each other's unpinned ones.         *)
(*                                                                         *)
(* A call runs under the mutex of the group, except that pcache1AllocPage()*)
(* and pcache1ResizeHash() let go of it while they allocate memory.  A     *)
(* buffer is the page <<cache, key>> it holds.                             *)
(***************************************************************************)
EXTENDS Integers, Sequences, FiniteSets

CONSTANTS
  PcCache,              \* the caches
  PcKeys,               \* page numbers, 1..n
  NMin,                 \* the pages every purgeable cache is promised (10 in the code)
  MinHash,              \* slots of the first hash table (256 in the code)
  PcSizes,              \* values of the cache-size pragma
  PcSetups              \* the configurations to consider, see PcSetupType

\* A configuration: which caches are purgeable, the sizes of their pages, and how many
\* fetches, changes of size, closes and failing allocations may happen.
PcSetupType == [purgeable : SUBSET PcCache, sz : [PcCache -> Nat], fetches : Nat, sizes : Nat,
                closes : Nat, faults : Nat]

ASSUME PcAssumption ==
  /\ IsFiniteSet(PcCache) /\ PcKeys \subseteq Nat /\ PcSizes \subseteq Nat
  /\ NMin \in Nat /\ MinHash \in Nat \ {0}
  /\ PcSetups \subseteq PcSetupType

VARIABLES
  grp,                  \* PGroup: nMaxPage, nMinPage, nCurrentPage, and the LRU list, head first
  pc1,                  \* PcCache -> PCache1: nMax, nPage, nRecyclable, nHash, iMaxKey, pages
  fetch,                \* PcCache -> a pcache1Fetch() that has let go of the mutex
  held,                 \* PcCache -> the pages its pager has pinned
  pcEnv

pcVars == <<grp, pc1, fetch, held, pcEnv>>

NoFetch == [st |-> "idle", key |-> 0]
NoCache == [open |-> FALSE, nMax |-> 0, nPage |-> 0, nRecyclable |-> 0, nHash |-> 0,
            iMaxKey |-> 0, pages |-> {}]

PcInit ==
  /\ pcEnv \in PcSetups
  /\ grp = [nMaxPage |-> 0, nMinPage |-> 0, nCurrentPage |-> 0, lru |-> <<>>]
  /\ pc1 = [c \in PcCache |-> NoCache]
  /\ fetch = [c \in PcCache |-> NoFetch] /\ held = [c \in PcCache |-> {}]

PcSpend(k) == pcEnv[k] > 0 /\ pcEnv' = [pcEnv EXCEPT ![k] = @ - 1]
Purgeable(c) == c \in pcEnv.purgeable
Purge(c) == IF Purgeable(c) THEN 1 ELSE 0
LruTail(g) == g.lru[Len(g.lru)]
InLru(g) == {g.lru[i] : i \in DOMAIN g.lru}

\* nPinned >= PGroup.mxPinned; the limit is an unsigned int, huge where the sum is negative.
TooManyPinned(g, nPinned) ==
  LET mxPinned == g.nMaxPage + NMin - g.nMinPage IN mxPinned >= 0 /\ nPinned >= mxPinned

-----------------------------------------------------------------------------
(* The helpers act on a pair [g, k] of the group and its caches, for a set of pages. *)

Of(c, P) == {pg \in P : pg[1] = c}

\* A list without the members of P
Without(s, P) ==
  LET rest[i \in 0..Len(s)] ==
        IF i = 0 THEN <<>>
        ELSE IF s[i] \in P THEN rest[i - 1] ELSE Append(rest[i - 1], s[i])
  IN rest[Len(s)]

\* pcache1PinPage(): off the LRU list, if they are there
PinPage(s, P) ==
  [g |-> [s.g EXCEPT !.lru = Without(@, P)],
   k |-> [c \in PcCache |->
            [s.k[c] EXCEPT !.nRecyclable = @ - Cardinality(Of(c, P) \cap InLru(s.g))]]]

\* Mutant: a page is looked for in the table of the cache that takes it over.
RemoveFromHashOwn(s, P) ==
  [s EXCEPT !.k = [c \in PcCache |->
     [s.k[c] EXCEPT !.pages = @ \ {pg[2] : pg \in P}, !.nPage = @ - Cardinality(Of(c, P))]]]

\* pcache1RemoveFromHash()
RemoveFromHash(s, P) ==
  [s EXCEPT !.k = [c \in PcCache |->
     [s.k[c] EXCEPT !.pages = @ \ {pg[2] : pg \in Of(c, P)}, !.nPage = @ - Cardinality(Of(c, P))]]]

\* pcache1FreePage()
FreePage(s, P) ==
  [s EXCEPT !.g.nCurrentPage = @ - Cardinality({pg \in P : Purgeable(pg[1])})]

Freed(s, P) == FreePage(RemoveFromHash(PinPage(s, P), P), P)

\* pcache1EnforceMaxPage(): from the tail of the list, until the group is within max
EnforceMaxPage(s, max) ==
  LET over == s.g.nCurrentPage - max
      n    == IF over <= 0 THEN 0 ELSE IF over > Len(s.g.lru) THEN Len(s.g.lru) ELSE over
  IN Freed(s, {s.g.lru[i] : i \in (Len(s.g.lru) - n + 1)..Len(s.g.lru)})

Group == [g |-> grp, k |-> pc1]
Store(s) == grp' = s.g /\ pc1' = s.k

\* A thread uses its cache for one call at a time.
Idle(c) == pc1[c].open /\ fetch[c].st = "idle"

-----------------------------------------------------------------------------
(* Life of a cache *)

\* pcache1Create() and the pcache1Cachesize() that sqlite3PcacheFetch() makes with it
PcCreate(c, n) ==
  LET s == [g |-> [grp EXCEPT !.nMinPage = @ + NMin * Purge(c), !.nMaxPage = @ + n * Purge(c)],
            k |-> [pc1 EXCEPT ![c] = [NoCache EXCEPT !.open = TRUE, !.nMax = n * Purge(c)]]]
  IN /\ ~pc1[c].open
     /\ Store(IF Purgeable(c) THEN EnforceMaxPage(s, s.g.nMaxPage) ELSE s)
     /\ UNCHANGED <<fetch, held, pcEnv>>

PcCachesize(c, n) ==
  LET s == [g |-> [grp EXCEPT !.nMaxPage = @ + n - pc1[c].nMax],
            k |-> [pc1 EXCEPT ![c].nMax = n]]
  IN /\ Idle(c) /\ Purgeable(c) /\ n # pc1[c].nMax
     /\ PcSpend("sizes")
     /\ Store(EnforceMaxPage(s, s.g.nMaxPage))
     /\ UNCHANGED <<fetch, held>>

PcShrink(c) ==
  /\ Idle(c) /\ Purgeable(c)
  /\ PcSpend("sizes")
  /\ Store(EnforceMaxPage(Group, 0))
  /\ UNCHANGED <<fetch, held>>

All(c) == {<<c, k>> : k \in pc1[c].pages}

PcDestroy(c) ==
  LET t == Freed(Group, All(c))
      s == [g |-> [t.g EXCEPT !.nMaxPage = @ - pc1[c].nMax, !.nMinPage = @ - NMin * Purge(c)],
            k |-> [t.k EXCEPT ![c] = NoCache]]
  IN /\ Idle(c)
     /\ PcSpend("closes")
     /\ Store(EnforceMaxPage(s, s.g.nMaxPage))
     /\ held' = [held EXCEPT ![c] = {}]
     /\ UNCHANGED fetch

-----------------------------------------------------------------------------
(* pcache1Fetch() *)

\* The page becomes one of the cache, pinned.
Entered(s, c, k) ==
  [s EXCEPT !.k[c].nPage = @ + 1, !.k[c].pages = @ \cup {k},
            !.k[c].iMaxKey = IF k > @ THEN k ELSE @]

FetchHit(c, k) ==
  /\ Idle(c) /\ k \in pc1[c].pages \ held[c]
  /\ PcSpend("fetches")
  /\ Store(PinPage(Group, {<<c, k>>}))
  /\ held' = [held EXCEPT ![c] = @ \cup {k}]
  /\ UNCHANGED fetch

\* With createFlag 1 the page is refused when too many are pinned already.
NPinned(c) == pc1[c].nPage - pc1[c].nRecyclable
Refused(c) == TooManyPinned(grp, NPinned(c)) \/ NPinned(c) >= (pc1[c].nMax * 9) \div 10

\* The rest of a fetch from where the mutex is held with room in the hash table: a page is
\* recycled when a limit is reached or memory is short, or else a new one is asked for.
Wants(c, short) ==
  /\ Purgeable(c) /\ grp.lru # <<>>
  /\ \/ pc1[c].nPage + 1 >= pc1[c].nMax
     \/ grp.nCurrentPage >= grp.nMaxPage
     \/ short

Obtain(c, k, s0, short) ==
  LET pg == LruTail(s0.g)
      s  == PinPage(RemoveFromHash(s0, {pg}), {pg})
  IN IF ~Wants(c, short)
     THEN Store(s0) /\ fetch' = [fetch EXCEPT ![c] = [st |-> "alloc", key |-> k]] /\ UNCHANGED held
     ELSE IF pcEnv.sz[pg[1]] # pcEnv.sz[c]
     THEN /\ Store(FreePage(s, {pg}))
          /\ fetch' = [fetch EXCEPT ![c] = [st |-> "alloc", key |-> k]] /\ UNCHANGED held
     ELSE /\ Store(Entered([s EXCEPT !.g.nCurrentPage = @ - (Purge(pg[1]) - Purge(c))], c, k))
          /\ fetch' = [fetch EXCEPT ![c] = NoFetch]
          /\ held' = [held EXCEPT ![c] = @ \cup {k}]

\* flag 2 asks for the page whatever the limits are.
FetchMiss(c, k, flag, short) ==
  /\ Idle(c) /\ k \notin pc1[c].pages
  /\ Purgeable(c) \/ flag = 2
  /\ flag = 1 => ~Refused(c) /\ ~short
  /\ PcSpend("fetches")
  /\ IF pc1[c].nPage >= pc1[c].nHash
     THEN /\ fetch' = [fetch EXCEPT ![c] = [st |-> "hash", key |-> k]]
          /\ UNCHANGED <<grp, pc1, held>>
     ELSE Obtain(c, k, Group, short)

\* pcache1ResizeHash() is back with memory, or without: the old table will do if there is one.
FetchResized(c, short) ==
  LET twice == 2 * pc1[c].nHash IN
  /\ fetch[c].st = "hash"
  /\ Obtain(c, fetch[c].key,
            [Group EXCEPT !.k[c].nHash = IF twice < MinHash THEN MinHash ELSE twice], short)
  /\ UNCHANGED pcEnv

FetchNotResized(c, short) ==
  /\ fetch[c].st = "hash"
  /\ PcSpend("faults")
  /\ IF pc1[c].nHash = 0
     THEN fetch' = [fetch EXCEPT ![c] = NoFetch] /\ UNCHANGED <<grp, pc1, held>>
     ELSE Obtain(c, fetch[c].key, Group, short)

\* pcache1AllocPage() is back.
FetchAllocated(c) ==
  /\ fetch[c].st = "alloc"
  /\ Store(Entered([Group EXCEPT !.g.nCurrentPage = @ + Purge(c)], c, fetch[c].key))
  /\ held' = [held EXCEPT ![c] = @ \cup {fetch[c].key}]
  /\ fetch' = [fetch EXCEPT ![c] = NoFetch]
  /\ UNCHANGED pcEnv

FetchNoMemory(c) ==
  /\ fetch[c].st = "alloc"
  /\ PcSpend("faults")
  /\ fetch' = [fetch EXCEPT ![c] = NoFetch]
  /\ UNCHANGED <<grp, pc1, held>>

-----------------------------------------------------------------------------
(* Using and giving back pages *)

\* Mutant: a page goes to the list whatever the group holds.
PcUnpinKeeps(c, k, reuseUnlikely) ==
  /\ Idle(c) /\ k \in held[c] /\ (Purgeable(c) \/ reuseUnlikely)
  /\ held' = [held EXCEPT ![c] = @ \ {k}]
  /\ Store(IF reuseUnlikely
           THEN Freed(Group, {<<c, k>>})
           ELSE [Group EXCEPT !.g.lru = <<<<c, k>>>> \o @, !.k[c].nRecyclable = @ + 1])
  /\ UNCHANGED <<fetch, pcEnv>>

\* pcache1Unpin(): freed if it is no longer wanted or the group is over its budget, else at the
\* head of the list.  Pages of a cache that is not purgeable are only dropped.
PcUnpin(c, k, reuseUnlikely) ==
  /\ Idle(c) /\ k \in held[c] /\ (Purgeable(c) \/ reuseUnlikely)
  /\ held' = [held EXCEPT ![c] = @ \ {k}]
  /\ Store(IF reuseUnlikely \/ grp.nCurrentPage > grp.nMaxPage
           THEN Freed(Group, {<<c, k>>})
           ELSE [Group EXCEPT !.g.lru = <<<<c, k>>>> \o @, !.k[c].nRecyclable = @ + 1])
  /\ UNCHANGED <<fetch, pcEnv>>

\* pcache1Rekey(); sqlite3PcacheMove() has dropped a page of the new number.
PcRekey(c, old, new) ==
  /\ Idle(c) /\ old \in held[c] /\ new \notin pc1[c].pages
  /\ PcSpend("sizes")
  /\ pc1' = [pc1 EXCEPT ![c].pages = (@ \ {old}) \cup {new},
                        ![c].iMaxKey = IF new > @ THEN new ELSE @]
  /\ held' = [held EXCEPT ![c] = (@ \ {old}) \cup {new}]
  /\ UNCHANGED <<grp, fetch>>

\* pcache1Truncate()
PcTruncate(c, limit) ==
  LET s == Freed(Group, {pg \in All(c) : pg[2] >= limit}) IN
  /\ Idle(c)
  /\ PcSpend("sizes")
  /\ IF limit <= pc1[c].iMaxKey
     THEN /\ Store([s EXCEPT !.k[c].iMaxKey = limit - 1])
          /\ held' = [held EXCEPT ![c] = {k \in @ : k < limit}]
     ELSE UNCHANGED <<grp, pc1, held>>
  /\ UNCHANGED fetch

\* sqlite3PcacheReleaseMemory(): from the tail of the list
PcReleaseMemory ==
  /\ grp.lru # <<>>
  /\ PcSpend("sizes")
  /\ Store(Freed(Group, {LruTail(grp)}))
  /\ UNCHANGED <<fetch, held>>

PcNext ==
  \/ PcReleaseMemory
  \/ \E c \in PcCache :
       \/ PcShrink(c) \/ PcDestroy(c) \/ FetchAllocated(c) \/ FetchNoMemory(c)
       \/ \E n \in PcSizes : PcCreate(c, n) \/ PcCachesize(c, n)
       \/ \E short \in BOOLEAN : FetchResized(c, short) \/ FetchNotResized(c, short)
       \/ \E k \in PcKeys :
            \/ FetchHit(c, k) \/ PcTruncate(c, k)
            \/ \E b \in BOOLEAN :
                 \/ PcUnpin(c, k, b)
                 \/ \E flag \in {1, 2} : FetchMiss(c, k, flag, b)
            \/ \E new \in PcKeys : PcRekey(c, k, new)

PcSpec == PcInit /\ [][PcNext]_pcVars

-----------------------------------------------------------------------------
\* A cache never loses a page its pager has pinned to another cache, and every page that is
\* not pinned can be recycled: it is in the list once, and counted.
PinnedNotRecycled ==
  \A c \in PcCache :
    /\ {k \in PcKeys : <<c, k>> \in InLru(grp)} = pc1[c].pages \ held[c]
    /\ held[c] \subseteq pc1[c].pages
    /\ pc1[c].nRecyclable = Cardinality({i \in DOMAIN grp.lru : grp.lru[i][1] = c})

\* Pages that could be recycled keep the group over its budget only by as many as other
\* threads were allocating when the mutex was free.
OverBudgetByRacesOnly ==
  grp.lru # <<>> => grp.nCurrentPage < grp.nMaxPage + Cardinality(PcCache)
=============================================================================
