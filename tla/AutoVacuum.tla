----------------------------- MODULE AutoVacuum -----------------------------
(***************************************************************************)
(* The pages of a database file (btree.c): the free list of trunk and leaf *)
(* pages, the pointer map by which an auto-vacuum database finds who       *)
(* points to a page, tables that are created and dropped, and the vacuum   *)
(* that moves the last pages into free ones, step by step or at commit.    *)
(*                                                                         *)
(* A b-tree is what its pages point to: ptr holds <<page, child, type>>.   *)
(* Cells, keys and balancing are left out; pages come and go under any     *)
(* page that may have them.  One connection writes, under its mutex.       *)
(***************************************************************************)
EXTENDS Integers, Sequences, FiniteSets

CONSTANTS
  TrunkCap,             \* leaves put on a trunk page (usableSize/4 - 8)
  MaxPg,                \* bound on the pages of the file
  MaxFinal,             \* bound on the sizes for which the final size is checked
  NTable,               \* bound on the tables
  AvSetups              \* configurations: [auto, nEntry, pending] and budgets

ASSUME AvAssumption == TrunkCap \in Nat /\ MaxPg \in Nat \ {0} /\ NTable \in Nat

VARIABLES
  db,                   \* the file
  tree,                 \* what the tables hold: <<parent, child, type>> by content, not by page
  op,                   \* an operation of several steps: [kind, ...]
  avEnv

avVars == <<db, tree, op, avEnv>>

Tables == 1..NTable
NoPage == [id |-> 0, tab |-> 0]
Idle   == [kind |-> "idle"]

AvInit ==
  /\ avEnv \in AvSetups
  /\ db = [nPage |-> 1, nFree |-> 0, trunks |-> <<>>, ptr |-> {}, maxRoot |-> 1, rc |-> "ok",
           root |-> [t \in Tables |-> 0],
           map |-> [p \in 1..MaxPg |-> <<"none", 0>>],
           page |-> [p \in 1..MaxPg |-> IF p = 1 THEN [id |-> 1, tab |-> 0] ELSE NoPage]]
  /\ tree = {} /\ op = Idle

AvSpend(k) == avEnv[k] > 0 /\ avEnv' = [avEnv EXCEPT ![k] = @ - 1]

-----------------------------------------------------------------------------
(* The pointer map *)

\* PENDING_BYTE_PAGE, and the entries of a pointer-map page (usableSize/5)
Pending == avEnv.pending
NEntry  == avEnv.nEntry

PtrmapPageno(pgno) ==
  IF pgno < 2 THEN 0
  ELSE LET ret == ((pgno - 2) \div (NEntry + 1)) * (NEntry + 1) + 2
       IN IF ret = Pending THEN ret + 1 ELSE ret

\* PTRMAP_ISPAGE
IsPtrmap(pgno) == PtrmapPageno(pgno) = pgno

\* Pages that never hold anything else, in an auto-vacuum database
Reserved(pgno) == pgno = Pending \/ (avEnv.auto # "none" /\ IsPtrmap(pgno))

PtrmapPut(d, key, type, parent) ==
  IF avEnv.auto = "none" THEN d ELSE [d EXCEPT !.map[key] = <<type, parent>>]

\* The greatest page up to p, and the least from p, that is not reserved
PageDown(p) == CHOOSE q \in 1..p : ~Reserved(q) /\ \A r \in (q + 1)..p : Reserved(r)
PageUp(p) == CHOOSE q \in p..(p + 3) : ~Reserved(q) /\ \A r \in p..(q - 1) : Reserved(r)

-----------------------------------------------------------------------------
(* The free list *)

Without(s, i) == SubSeq(s, 1, i - 1) \o SubSeq(s, i + 1, Len(s))

\* Leaf i is taken, and the last one put in its place.
LeafTaken(leaves, i) ==
  LET n == Len(leaves) IN SubSeq([leaves EXCEPT ![i] = leaves[n]], 1, n - 1)

Abs(n) == IF n < 0 THEN -n ELSE n

\* The first of the leaves that are closest to nearby
Closest(leaves, nearby) ==
  IF nearby = 0 THEN 1
  ELSE CHOOSE i \in DOMAIN leaves :
         /\ \A j \in DOMAIN leaves : Abs(leaves[i] - nearby) <= Abs(leaves[j] - nearby)
         /\ \A j \in 1..(i - 1) : Abs(leaves[j] - nearby) > Abs(leaves[i] - nearby)

FromTrunk(d, i) == [d |-> [d EXCEPT !.trunks = Without(@, i)], pg |-> d.trunks[i].pg]

FromLeaf(d, i, k) ==
  [d |-> [d EXCEPT !.trunks[i].leaves = LeafTaken(@, k)], pg |-> d.trunks[i].leaves[k]]

\* Its first leaf becomes the trunk of the others.
FromTrunkWithLeaves(d, i) ==
  LET t == d.trunks[i] IN
  [d |-> [d EXCEPT !.trunks[i] = [pg |-> Head(t.leaves), leaves |-> Tail(t.leaves)]], pg |-> t.pg]

\* allocateBtreePage() from the list: with searchList set, the page nearby itself ...
TakeExact(d, nearby) ==
  LET i == CHOOSE i \in DOMAIN d.trunks :
             \/ d.trunks[i].pg = nearby
             \/ \E k \in DOMAIN d.trunks[i].leaves : d.trunks[i].leaves[k] = nearby
      t == d.trunks[i]
  IN IF t.pg # nearby THEN FromLeaf(d, i, Closest(t.leaves, nearby))
     ELSE IF t.leaves = <<>> THEN FromTrunk(d, i) ELSE FromTrunkWithLeaves(d, i)

\* ... otherwise the first trunk, or its leaf that is closest.
TakeFirst(d, nearby) ==
  LET t == d.trunks[1]
  IN IF t.leaves = <<>> THEN FromTrunk(d, 1) ELSE FromLeaf(d, 1, Closest(t.leaves, nearby))

\* A new page at the end, behind a pointer-map page and the locking page if they are due.
AppendPage(d) == LET p == PageUp(d.nPage + 1) IN [d |-> [d EXCEPT !.nPage = p], pg |-> p]

\* allocateBtreePage()
AllocateBtreePage(d, nearby, exact) ==
  IF d.nFree = 0 THEN AppendPage(d)
  ELSE LET e == [d EXCEPT !.nFree = @ - 1]
       IN IF exact /\ nearby <= d.nPage /\ d.map[nearby][1] = "free"
          THEN TakeExact(e, nearby) ELSE TakeFirst(e, nearby)

\* freePage2()
FreePage(d, pg) ==
  LET e == PtrmapPut([d EXCEPT !.nFree = @ + 1, !.page[pg] = NoPage], pg, "free", 0)
  IN IF d.nFree # 0 /\ Len(d.trunks[1].leaves) < TrunkCap
     THEN [e EXCEPT !.trunks[1].leaves = Append(@, pg)]
     ELSE [e EXCEPT !.trunks = <<[pg |-> pg, leaves |-> <<>>]>> \o @]

-----------------------------------------------------------------------------
(* Moving a page *)

ChildrenOf(d, p) == {x \in d.ptr : x[1] = p}

\* setChildPtrmaps(), or the entry of the next overflow page
SetChildPtrmaps(d, p) ==
  [d EXCEPT !.map = [c \in DOMAIN @ |->
     IF \E x \in ChildrenOf(d, p) : x[2] = c
     THEN <<(CHOOSE x \in ChildrenOf(d, p) : x[2] = c)[3], p>> ELSE @[c]]]

\* sqlite3PagerMovepage(): what p holds, its pointers included, is now page q.
Moved(d, p, q) ==
  [d EXCEPT !.page = [@ EXCEPT ![q] = d.page[p], ![p] = NoPage],
            !.ptr = {<<IF x[1] = p THEN q ELSE x[1], x[2], x[3]>> : x \in @}]

\* modifyPagePointer() in the page that the pointer map names
ModifyPagePointer(d, par, from, to, type) ==
  IF <<par, from, type>> \notin d.ptr THEN [d EXCEPT !.rc = "corrupt"]
  ELSE [d EXCEPT !.ptr = (@ \ {<<par, from, type>>}) \cup {<<par, to, type>>}]

\* Mutant: the children of a page that is moved keep the old parent in the map.
RelocatePageAlone(d, p, type, par, q) ==
  LET e == Moved(d, p, q) IN
  IF type = "root" THEN e
  ELSE PtrmapPut(ModifyPagePointer(e, par, p, q, type), q, type, par)

\* relocatePage()
RelocatePage(d, p, type, par, q) ==
  LET e == SetChildPtrmaps(Moved(d, p, q), q) IN
  IF type = "root" THEN e
  ELSE PtrmapPut(ModifyPagePointer(e, par, p, q, type), q, type, par)

-----------------------------------------------------------------------------
(* Growing and shrinking trees *)

Quiet == op.kind = "idle" /\ db.rc = "ok"
NewId == 10 * avEnv.creates + avEnv.allocs + 2
Hold(d, pg, t) == [d EXCEPT !.page[pg] = [id |-> NewId, tab |-> t]]

IsOverflow(p) == \E x \in db.ptr : x[2] = p /\ x[3] \in {"overflow1", "overflow2"}

\* What a page may point to: children and first overflow pages, or the next overflow page
MayHave(p, type) ==
  IF IsOverflow(p) THEN type = "overflow2" /\ ChildrenOf(db, p) = {} ELSE type # "overflow2"

\* A page is added below page par, close to it or anywhere.
AddPage(par, type, nearby) ==
  LET a == AllocateBtreePage(db, nearby, FALSE) IN
  /\ Quiet /\ db.page[par] # NoPage /\ MayHave(par, type)
  /\ nearby = 0 \/ db.nFree > 0                \* else it is ignored
  /\ AvSpend("allocs")
  /\ a.pg <= MaxPg
  /\ db' = PtrmapPut([Hold(a.d, a.pg, db.page[par].tab) EXCEPT !.ptr = @ \cup {<<par, a.pg, type>>}],
                     a.pg, type, par)
  /\ tree' = tree \cup {<<db.page[par].id, NewId, type>>}
  /\ UNCHANGED op

Unlinked(d, p) == [d EXCEPT !.ptr = {x \in @ : x[2] # p}]
Forget(id) == {x \in tree : x[2] # id}

\* A page that points to nothing is given back.
RemovePage(p) ==
  /\ Quiet /\ \E x \in db.ptr : x[2] = p
  /\ ChildrenOf(db, p) = {}
  /\ AvSpend("frees")
  /\ db' = FreePage(Unlinked(db, p), p)
  /\ tree' = Forget(db.page[p].id)
  /\ UNCHANGED op

-----------------------------------------------------------------------------
(* Tables *)

\* The page after the last root is made free for the new one.
RootPlaced(d, root) ==
  LET a == AllocateBtreePage(d, root, TRUE)
      m == d.map[root]
  IN IF a.pg = root THEN a.d
     ELSE IF m[1] \in {"root", "free"} THEN [a.d EXCEPT !.rc = "corrupt"]
     ELSE RelocatePage(a.d, root, m[1], m[2], a.pg)

\* btreeCreateTable()
CreateTable(t) ==
  LET auto == avEnv.auto # "none"
      any  == AllocateBtreePage(db, 1, FALSE)
      root == IF auto THEN PageUp(db.maxRoot + 1) ELSE any.pg
      d    == IF auto THEN PtrmapPut(RootPlaced(db, root), root, "root", 0) ELSE any.d
  IN /\ Quiet /\ db.root[t] = 0
     /\ AvSpend("creates")
     /\ d.nPage <= MaxPg
     /\ db' = [Hold(d, root, t) EXCEPT !.root[t] = root, !.maxRoot = IF auto THEN root ELSE @]
     /\ tree' = tree \cup {<<t, NewId, "root">>}
     /\ UNCHANGED op

\* sqlite3BtreeClearTable(), for itself or for btreeDropTable() ...
ClearTable(t, drop) ==
  /\ Quiet /\ db.root[t] # 0
  /\ AvSpend("drops")
  /\ op' = [kind |-> "clear", tab |-> t, drop |-> drop]
  /\ UNCHANGED <<db, tree>>

Doomed == {p \in 1..db.nPage : db.page[p].tab = op.tab /\ p # db.root[op.tab]
                               /\ db.page[p] # NoPage}

\* ... frees the pages of the tree, children first; overflow pages come before or after.
ClearDatabasePage(p) ==
  /\ op.kind = "clear" /\ p \in Doomed
  /\ \A x \in ChildrenOf(db, p) : x[3] # "btree"
  /\ db' = FreePage([db EXCEPT !.ptr = {x \in @ : x[1] # p /\ x[2] # p}], p)
  /\ tree' = {x \in tree : x[1] # db.page[p].id /\ x[2] # db.page[p].id}
  /\ UNCHANGED <<op, avEnv>>

ClearTableEnd ==
  /\ op.kind = "clear" /\ Doomed = {} /\ ~op.drop
  /\ op' = Idle
  /\ UNCHANGED <<db, tree, avEnv>>

\* Mutant: the page of the table is freed where it is.
RootDroppedHere(d, t) ==
  [FreePage(d, d.root[t]) EXCEPT !.root[t] = 0, !.maxRoot = PageDown(@ - 1)]

\* In an auto-vacuum database the last root takes the place of the one that goes; the caller
\* tells the schema.
RootDropped(d, t) ==
  LET iTable == d.root[t]
      last   == d.maxRoot
      e      == IF iTable = last THEN FreePage(d, iTable)
                ELSE FreePage(RelocatePage(d, last, "root", 0, iTable), last)
  IN [e EXCEPT !.root = [u \in Tables |-> IF u = t THEN 0 ELSE IF @[u] = last THEN iTable ELSE @[u]],
               !.maxRoot = PageDown(last - 1)]

\* btreeDropTable()
DropTableEnd ==
  LET t == op.tab IN
  /\ op.kind = "clear" /\ Doomed = {} /\ op.drop
  /\ db' = IF avEnv.auto # "none" THEN RootDropped(db, t)
           ELSE [FreePage(db, db.root[t]) EXCEPT !.root[t] = 0]
  /\ tree' = Forget(db.page[db.root[t]].id)
  /\ op' = Idle
  /\ UNCHANGED avEnv

-----------------------------------------------------------------------------
(* Vacuum *)

\* incrVacuumStep() with nFin 0, called by sqlite3BtreeIncrVacuum()
IncrVacuum ==
  LET last == db.nPage
      m    == db.map[last]
      a    == AllocateBtreePage(db, IF m[1] = "free" THEN last ELSE 0, m[1] = "free")
      d    == IF m[1] = "root" THEN [db EXCEPT !.rc = "corrupt"]
              ELSE IF m[1] = "free" THEN a.d
              ELSE RelocatePage(a.d, last, m[1], m[2], a.pg)
  IN /\ Quiet /\ avEnv.auto # "none" /\ db.nFree > 0
     /\ AvSpend("vacuums")
     /\ db' = [d EXCEPT !.nPage = PageDown(last - 1)]
     /\ UNCHANGED <<tree, op>>

\* Mutant: a pointer-map page that goes is not counted.
FinalSizeNoMap(nOrig, nFree) == PageDown(nOrig - nFree)

\* The size a file of nOrig pages will have without its nFree free ones and the pointer-map
\* pages that were for them
FinalSize(nOrig, nFree) ==
  LET nPtrmap == (nFree - nOrig + PtrmapPageno(nOrig) + NEntry) \div NEntry
      n       == nOrig - nFree - nPtrmap
  IN PageDown(IF nOrig > Pending /\ Pending > 0 /\ n < Pending THEN n - 1 ELSE n)

\* autoVacuumCommit()
AutoVacuumCommit ==
  /\ Quiet /\ avEnv.auto = "full"
  /\ AvSpend("vacuums")
  /\ op' = [kind |-> "vacuum", nFin |-> FinalSize(db.nPage, db.nFree), iFree |-> db.nPage,
            nFree |-> db.nFree]
  /\ UNCHANGED <<db, tree>>

\* incrVacuumStep() for the page iFree: it is moved to a free page that will stay; free pages
\* that will not stay are taken off the list and forgotten.
VacuumStep ==
  LET m    == db.map[op.iFree]
      a    == AllocateBtreePage(db, 0, FALSE)
      next == [op EXCEPT !.iFree = @ - 1]
  IN /\ op.kind = "vacuum" /\ op.iFree > op.nFin /\ db.rc = "ok"
     /\ IF Reserved(op.iFree) THEN op' = next /\ UNCHANGED db
        ELSE IF db.nFree = 0 THEN op' = [op EXCEPT !.iFree = op.nFin] /\ UNCHANGED db
        ELSE IF m[1] = "root" THEN db' = [db EXCEPT !.rc = "corrupt"] /\ UNCHANGED op
        ELSE IF m[1] = "free" THEN op' = next /\ UNCHANGED db
        ELSE IF a.pg > op.nFin THEN db' = a.d /\ UNCHANGED op
        ELSE db' = RelocatePage(a.d, op.iFree, m[1], m[2], a.pg) /\ op' = next
     /\ UNCHANGED <<tree, avEnv>>

VacuumEnd ==
  /\ op.kind = "vacuum" /\ op.iFree = op.nFin
  /\ db' = IF op.nFree = 0 THEN db
           ELSE [db EXCEPT !.trunks = <<>>, !.nFree = 0, !.nPage = op.nFin]
  /\ op' = Idle
  /\ UNCHANGED <<tree, avEnv>>

AvNext ==
  \/ ClearTableEnd \/ DropTableEnd \/ IncrVacuum \/ AutoVacuumCommit \/ VacuumStep \/ VacuumEnd
  \/ \E t \in Tables : CreateTable(t) \/ \E drop \in BOOLEAN : ClearTable(t, drop)
  \/ \E p \in 1..MaxPg :
       \/ RemovePage(p) \/ ClearDatabasePage(p)
       \/ \E type \in {"btree", "overflow1", "overflow2"}, nearby \in {0, p} :
            AddPage(p, type, nearby)

AvSpec == AvInit /\ [][AvNext]_avVars

-----------------------------------------------------------------------------
FreePages == {db.trunks[i].pg : i \in DOMAIN db.trunks}
             \cup UNION {{db.trunks[i].leaves[k] : k \in DOMAIN db.trunks[i].leaves} : i \in DOMAIN db.trunks}
Roots == {db.root[t] : t \in Tables} \ {0}

\* What PRAGMA integrity_check asserts, after any sequence of allocations, drops and vacuums:
\* every page is used once or free once, no operation finds the file corrupt, and the pointer
\* map names for every page the one page that points to it.
IntegrityCheck ==
  op.kind = "idle" =>
    LET Used == {p \in 1..MaxPg : db.page[p] # NoPage}
        Real == {p \in 1..db.nPage : ~Reserved(p)}
    IN /\ db.rc = "ok"
       /\ Used \cup FreePages = Real /\ Used \cap FreePages = {}
       /\ db.nFree = Cardinality(FreePages)
       /\ \A p \in Used \ ({1} \cup Roots) : Cardinality({x \in db.ptr : x[2] = p}) = 1
       /\ \A x \in db.ptr : x[1] \in Used /\ x[2] \in Used
       /\ avEnv.auto # "none" =>
            /\ \A x \in db.ptr : db.map[x[2]] = <<x[3], x[1]>>
            /\ \A p \in FreePages : db.map[p] = <<"free", 0>>
            /\ \A p \in Roots : db.map[p] = <<"root", 0>>

\* The size computed for the end of the vacuum leaves room for exactly the pages in use, for
\* every size of the file and every place of the locking page.
FinalSizeExact ==
  db.nPage = 1 /\ tree = {} /\ avEnv.auto = "full" =>
    \A nOrig \in {p \in 1..MaxFinal : ~Reserved(p)} :
      LET Real(n) == {p \in 1..n : ~Reserved(p)} IN
      \A nFree \in 0..(Cardinality(Real(nOrig)) - 1) :
        /\ Cardinality(Real(FinalSize(nOrig, nFree))) = Cardinality(Real(nOrig)) - nFree
        /\ ~Reserved(FinalSize(nOrig, nFree))

\* Moving pages changes no table: by content, the trees are what was put into them; and in an
\* auto-vacuum database the roots, which no vacuum may move, are the first pages.
VacuumKeepsTrees ==
  op.kind = "idle" /\ db.rc = "ok" =>
    /\ tree = {<<db.page[x[1]].id, db.page[x[2]].id, x[3]>> : x \in db.ptr}
              \cup {<<t, db.page[db.root[t]].id, "root">> : t \in {u \in Tables : db.root[u] # 0}}
    /\ avEnv.auto # "none" => Roots = {p \in 2..db.maxRoot : ~Reserved(p)}
=============================================================================
