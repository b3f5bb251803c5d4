------------------------ MODULE MasterJournalProofs ------------------------
(***************************************************************************)
(* A transaction over several databases is atomic in delete mode, for any  *)
(* number of databases and transactions, whichever calls fail and whenever *)
(* processes die; power losses stay with TLC.                              *)
(*                                                                         *)
(* Old(d) and New(d) say of a database of the last transaction which of    *)
(* its two versions a rollback yields; MjInv says, step by step of the     *)
(* commit, which one it is, and that whoever deletes a master journal has  *)
(* made sure that no journal names it any more.                            *)
(***************************************************************************)
EXTENDS MasterJournal, TLAPS, FiniteSetTheorems, WellFoundedInduction

USE DEF Half, Free

Journals == [on : BOOLEAN, back : Nat \cup {Half, Free}, mj : Nat, fresh : BOOLEAN]
RbSteps  == {"none", "access", "play", "end", "openmaster", "child"}
WrSteps  == {"idle", "open", "syncmaster", "phaseone", "jsync", "dbwrite", "dbsync",
             "delmaster", "dirsync", "phasetwo", "rollback"}
\* The committing process is at work on its databases.
Active   == wr.pc \notin {"idle", "rollback"}
Shares   == [mode : {"delete"}, tx : Nat, faults : Nat, kills : Nat, power : {0}]

MjTypeOK ==
  /\ file \in [Db -> Nat \cup {Half}]
  /\ jrnl \in [Db -> Journals]
  /\ mOn \subseteq 1..wr.t
  /\ kids \in [1..(wr.t + mjEnv.tx) -> SUBSET Db]
  /\ wr \in [pc : WrSteps, t : Nat, T : SUBSET Db, todo : SUBSET Db]
  /\ rb \in [Db -> [pc : RbSteps, mj : Nat, res : BOOLEAN, live : BOOLEAN, todo : SUBSET Db]]
  /\ base \in [Db -> Nat \cup {Half}]
  /\ scope \in SUBSET Db
  /\ acked \in BOOLEAN
  /\ mjEnv \in Shares

\* A rollback restores what was there before the transaction, or the new version.
OldIs(d) == IF jrnl[d].on THEN jrnl[d].back = base[d] /\ (jrnl[d].mj = 0 \/ jrnl[d].mj \in mOn)
                          ELSE file[d] = base[d]
NewIs(d) == /\ file[d] = wr.t
            /\ jrnl[d].on => jrnl[d].mj # 0 /\ jrnl[d].mj \notin mOn

\* A journal in use is valid, and the master journal that it names lists it.
JournalAt(d) ==
  /\ jrnl[d].on => jrnl[d].back # Free
  /\ ~jrnl[d].on => jrnl[d].mj = 0
  /\ jrnl[d].mj # 0 => jrnl[d].mj \in 1..wr.t /\ d \in kids[jrnl[d].mj]

\* What a rollback has read stays true, and what it has checked of the other journals.
RollbackAt(d) ==
  LET r == rb[d] IN
  /\ r.pc \in {"access", "play", "end"} => jrnl[d].on
  /\ r.pc \in {"play", "end"} => /\ r.mj = jrnl[d].mj
                                 /\ r.res = (r.mj = 0 \/ r.mj \in mOn)
  /\ r.pc = "play" => r.res
  /\ r.pc = "end" /\ r.res => file[d] = jrnl[d].back
  /\ r.pc \in {"none", "access"} => r.mj = 0
  /\ r.pc \in {"openmaster", "child"} => r.mj \in 1..wr.t
  /\ r.pc = "child" => \A e \in kids[r.mj] \ r.todo : ~Names(e, r.mj)
  /\ Active /\ r.mj # 0 => r.mj # wr.t
  /\ Active => d \notin wr.T \/ r.pc = "none"

\* The databases of the transaction, by the step of the commit.
Done(d) == file[d] = wr.t /\ (wr.t \in mOn => jrnl[d].mj = wr.t)
Undone(d) == jrnl[d].on /\ OldIs(d) /\ (wr.t \notin mOn => jrnl[d].mj = 0)

WriterAt ==
  /\ wr.pc = "idle" => wr.T = {}
  /\ wr.pc # "idle" => wr.T = scope /\ wr.T # {} /\ wr.t > 0
  /\ \A k \in DOMAIN kids : k > wr.t => kids[k] = {}
  /\ wr.pc = "open" => wr.t \notin mOn /\ kids[wr.t] = {}
  /\ Active => kids[wr.t] \subseteq wr.T
  /\ Active /\ wr.t \in mOn => kids[wr.t] = wr.T
  /\ wr.pc \in {"open", "syncmaster"} => \A d \in wr.T : jrnl[d].mj = 0
  /\ wr.todo \subseteq wr.T
  /\ Active => wr.todo # {}
  /\ wr.pc \in {"open", "syncmaster", "delmaster"} => wr.todo = wr.T
  /\ wr.pc \in {"open", "syncmaster", "phaseone", "jsync", "dbwrite", "dbsync", "delmaster"} =>
       /\ ~acked
       /\ \A d \in wr.T : Undone(d)
       /\ wr.pc # "open" => wr.t \in mOn \/ \E d \in Db : wr.T = {d}
  /\ wr.pc = "delmaster" => wr.t \in mOn
  /\ wr.pc \in {"phaseone", "jsync", "dbwrite", "dbsync"} => \A d \in wr.T \ wr.todo : Done(d)
  /\ wr.pc \in {"jsync", "dbwrite", "dbsync"} => (wr.t \in mOn => jrnl[First].mj = wr.t)
  /\ wr.pc = "dbsync" => file[First] = wr.t
  /\ wr.pc = "delmaster" => \A d \in wr.T : Done(d)
  /\ wr.pc = "dirsync" => \A d \in wr.T : NewIs(d) /\ jrnl[d].on
  /\ wr.pc = "phasetwo" =>
       \/ \A d \in wr.T : NewIs(d)
       \/ ~acked /\ \E d \in Db : wr.T = {d} /\ wr.todo = {d} /\ Undone(d) /\ Done(d)

\* The databases that the transaction leaves alone, and the outcome for the others.
Outcome ==
  /\ \A d \in Db \ scope : Resolve(d) = base[d]
  /\ \/ ~acked /\ \A d \in scope : OldIs(d)
     \/ \A d \in scope : NewIs(d)

MjInv == /\ MjTypeOK
         /\ \A d \in Db : JournalAt(d) /\ RollbackAt(d)
         /\ WriterAt
         /\ Outcome
-----------------------------------------------------------------------------
\* The databases are taken in the order of their numbers: each turn takes one of those
\* that are left.
LEMMA LeastIsIn == ASSUME NEW S, S \subseteq Nat, S # {} PROVE Min(S) \in S
<1>1. PICK x \in S : \A y \in S : ~(<<y, x>> \in OpToRel(<, Nat))
  BY NatLessThanWellFounded, WFMin
<1>2. \A y \in S : x <= y
  <2>1. SUFFICES ASSUME NEW y \in S PROVE x <= y
    OBVIOUS
  <2>2. ~(<<y, x>> \in {ss \in Nat \X Nat : ss[1] < ss[2]})
    BY <1>1, <2>1 DEF OpToRel
  <2>3. QED BY <2>1, <2>2
<1>3. QED BY <1>2 DEF Min

LEMMA FirstIsLeft == ASSUME MjTypeOK, wr.todo # {} PROVE First \in wr.todo
<1>1. wr.todo \subseteq Nat
  BY MasterJournalAssumption DEF MjTypeOK, Db
<1>2. QED BY <1>1, LeastIsIn DEF First
-----------------------------------------------------------------------------
\* What a step does not touch.
LEMMA WriterSame ==
  ASSUME WriterAt, UNCHANGED <<file, jrnl, mOn, kids, wr, base, scope, acked>>
  PROVE  WriterAt'
BY DEF WriterAt, Active, Undone, Done, OldIs, NewIs, First

LEMMA OutcomeSame ==
  ASSUME Outcome, UNCHANGED <<file, jrnl, mOn, wr, base, scope, acked>>
  PROVE  Outcome'
BY DEF Outcome, Resolve, Hot, OldIs, NewIs

Rollbacks == [pc : RbSteps, mj : Nat, res : BOOLEAN, live : BOOLEAN, todo : SUBSET Db]
Writers == [pc : WrSteps, t : Nat, T : SUBSET Db, todo : SUBSET Db]

\* A failure or a kill takes one of those that the setup allows.
LEMMA SpendShare ==
  ASSUME mjEnv \in Shares, NEW k \in {"faults", "kills"}, Spend(k)
  PROVE  mjEnv' \in Shares /\ mjEnv'.tx = mjEnv.tx
<1>1. CASE k = "faults"
  BY <1>1 DEF Spend, Shares
<1>2. CASE k = "kills"
  BY <1>2 DEF Spend, Shares
<1>3. QED BY <1>1, <1>2

LEMMA SpendTransaction ==
  ASSUME mjEnv \in Shares, Spend("tx")
  PROVE  mjEnv' \in Shares /\ mjEnv'.tx = mjEnv.tx - 1
BY DEF Spend, Shares

LEMMA UnchangedUpdate ==
  ASSUME NEW S, NEW V, NEW f \in [S -> V], NEW i \in S
  PROVE  f = [f EXCEPT ![i] = f[i]]
OBVIOUS

\* A step of one rollback that changes nothing else.
LEMMA RollbackStep ==
  ASSUME MjInv, NEW d \in Db, NEW r \in Rollbacks, rb' = [rb EXCEPT ![d] = r],
         UNCHANGED <<file, jrnl, mOn, kids, wr, base, scope, acked>>,
         mjEnv' \in Shares, mjEnv'.tx = mjEnv.tx, RollbackAt(d)'
  PROVE  MjInv'
<1>1. MjTypeOK'
  BY DEF MjInv, MjTypeOK, Rollbacks
<1>2. \A e \in Db : JournalAt(e)'
  BY DEF MjInv, JournalAt
<1>3. ASSUME NEW e \in Db PROVE RollbackAt(e)'
  <2>1. CASE e = d
    BY <2>1
  <2>2. CASE e # d
    <3>1. rb'[e] = rb[e]
      BY <2>2 DEF MjInv, MjTypeOK
    <3>2. RollbackAt(e)
      BY DEF MjInv
    <3>3. QED BY <3>1, <3>2 DEF RollbackAt, Active, Names
  <2>3. QED BY <2>1, <2>2
<1>4. WriterAt' /\ Outcome'
  BY WriterSame, OutcomeSame DEF MjInv
<1>5. QED BY <1>1, <1>2, <1>3, <1>4 DEF MjInv

LEMMA OpenHotKeeps == ASSUME NEW d \in Db, MjInv, OpenHot(d) PROVE MjInv'
<1> DEFINE r == [rb[d] EXCEPT !.pc = "access"]
<1>1. rb[d] \in Rollbacks /\ rb[d].mj = 0
  BY DEF MjInv, MjTypeOK, Rollbacks, RollbackAt, OpenHot
<1>2. r \in Rollbacks /\ r.pc = "access" /\ r.mj = 0
  BY <1>1 DEF Rollbacks, RbSteps
<1>3. rb' = [rb EXCEPT ![d] = r] /\ rb'[d] = r
  BY DEF MjInv, MjTypeOK, OpenHot
<1> HIDE DEF r
<1>4. RollbackAt(d)'
  BY <1>2, <1>3 DEF RollbackAt, OpenHot, Hot, Active
<1>5. mjEnv' \in Shares /\ mjEnv' = mjEnv
  BY DEF MjInv, MjTypeOK, OpenHot, ghost
<1>6. QED BY <1>2, <1>3, <1>4, <1>5, RollbackStep DEF OpenHot, ghost

\* A process that still writes is the only one that could name its master journal, and
\* nobody rolls back a database that it has.
LEMMA ReadMasterKeeps == ASSUME NEW d \in Db, MjInv, ReadMaster(d) PROVE MjInv'
<1> DEFINE m == jrnl[d].mj
           res == m = 0 \/ m \in mOn
           r == [rb[d] EXCEPT !.mj = m, !.res = res, !.pc = IF res THEN "play" ELSE "end"]
<1>1. rb[d] \in Rollbacks /\ m \in Nat
  BY DEF MjInv, MjTypeOK, Rollbacks, Journals
<1>2. /\ r \in Rollbacks /\ r.mj = m /\ r.res = res
      /\ r.pc = IF res THEN "play" ELSE "end"
  BY <1>1 DEF Rollbacks, RbSteps
<1>3. rb' = [rb EXCEPT ![d] = r] /\ rb'[d] = r
  BY DEF MjInv, MjTypeOK, ReadMaster
<1>4. Active /\ m # 0 => m # wr.t
  BY DEF MjInv, MjTypeOK, JournalAt, RollbackAt, WriterAt, ReadMaster
<1>5. jrnl[d].on /\ (Active => d \notin wr.T)
  BY DEF MjInv, RollbackAt, ReadMaster
<1> HIDE DEF r
<1>6. RollbackAt(d)'
  BY <1>2, <1>3, <1>4, <1>5 DEF RollbackAt, ReadMaster, Active
<1>7. mjEnv' \in Shares /\ mjEnv' = mjEnv
  BY DEF MjInv, MjTypeOK, ReadMaster, ghost
<1>8. QED BY <1>2, <1>3, <1>6, <1>7, RollbackStep DEF ReadMaster, ghost

LEMMA NoRollback == NoRb \in Rollbacks /\ NoRb.pc = "none" /\ NoRb.mj = 0
BY DEF NoRb, Rollbacks, RbSteps

LEMMA KillRollbackKeeps == ASSUME NEW d \in Db, MjInv, KillRollback(d) PROVE MjInv'
<1>1. rb' = [rb EXCEPT ![d] = NoRb] /\ rb'[d] = NoRb
  BY DEF MjInv, MjTypeOK, KillRollback
<1>2. RollbackAt(d)'
  BY <1>1, NoRollback DEF RollbackAt
<1>3. mjEnv' \in Shares /\ mjEnv'.tx = mjEnv.tx
  BY SpendShare DEF MjInv, MjTypeOK, KillRollback
<1>4. QED BY <1>1, <1>2, <1>3, NoRollback, RollbackStep DEF KillRollback, ghost

LEMMA OpenMasterKeeps == ASSUME NEW d \in Db, MjInv, OpenMaster(d) PROVE MjInv'
<1> DEFINE c == [rb[d] EXCEPT !.pc = "child", !.todo = kids[rb[d].mj]]
           r == IF rb[d].mj \in mOn THEN c ELSE NoRb
<1>1. rb[d] \in Rollbacks /\ rb[d].mj \in 1..wr.t
  BY DEF MjInv, MjTypeOK, Rollbacks, RollbackAt, OpenMaster
<1>2. kids[rb[d].mj] \in SUBSET Db
  BY <1>1 DEF MjInv, MjTypeOK, Shares
<1>3. c \in Rollbacks /\ c.pc = "child" /\ c.mj = rb[d].mj /\ c.todo = kids[rb[d].mj]
  BY <1>1, <1>2 DEF Rollbacks, RbSteps
<1>4. rb' = [rb EXCEPT ![d] = r] /\ rb'[d] = r
  BY DEF MjInv, MjTypeOK, OpenMaster
<1>5. /\ Active /\ rb[d].mj # 0 => rb[d].mj # wr.t
      /\ Active => d \notin wr.T
  BY DEF MjInv, RollbackAt, OpenMaster
<1> HIDE DEF c
<1>6. RollbackAt(d)'
  BY <1>1, <1>3, <1>4, <1>5, NoRollback DEF RollbackAt, OpenMaster, Active
<1>7. mjEnv' \in Shares /\ mjEnv' = mjEnv
  BY DEF MjInv, MjTypeOK, OpenMaster, ghost
<1>8. r \in Rollbacks
  BY <1>3, NoRollback
<1> HIDE DEF r
<1>9. QED BY <1>4, <1>6, <1>7, <1>8, RollbackStep DEF OpenMaster, ghost

\* The master journal is deleted when each journal that it lists has been asked.
LEMMA CheckChildKeeps == ASSUME NEW d \in Db, MjInv, CheckChild(d) PROVE MjInv'
<1> DEFINE e == Min(rb[d].todo)
           m == rb[d].mj
           s == [rb[d] EXCEPT !.todo = @ \ {e}]
<1>1. /\ rb[d] \in Rollbacks /\ rb[d].pc = "child" /\ m \in 1..wr.t
      /\ \A k \in kids[m] \ rb[d].todo : ~Names(k, m)
      /\ Active => m # wr.t /\ d \notin wr.T
  BY DEF MjInv, MjTypeOK, Rollbacks, RollbackAt, CheckChild
<1>2. s \in Rollbacks /\ s.pc = "child" /\ s.mj = m /\ s.todo = rb[d].todo \ {e}
  BY <1>1 DEF Rollbacks
<1>3. mjEnv' \in Shares /\ mjEnv' = mjEnv
  BY DEF MjInv, MjTypeOK, CheckChild, ghost
<1>4. CASE rb[d].todo = {}
  <2>1. /\ mOn' = mOn \ {m} /\ rb' = [rb EXCEPT ![d] = NoRb]
        /\ UNCHANGED <<file, jrnl, kids, wr, base, scope, acked>>
    BY <1>4 DEF CheckChild, ghost
  <2>2. \A k \in Db : jrnl[k].mj # m
    BY <1>1, <1>4 DEF MjInv, JournalAt, Names
  <2>3. MjTypeOK'
    BY <2>1, <1>3, NoRollback DEF MjInv, MjTypeOK, Rollbacks
  <2>4. \A k \in Db : JournalAt(k)'
    BY <2>1 DEF MjInv, JournalAt
  <2>5. ASSUME NEW k \in Db PROVE RollbackAt(k)'
    <3>1. CASE k = d
      BY <3>1, <2>1, NoRollback DEF MjInv, MjTypeOK, RollbackAt
    <3>2. CASE k # d
      <4>1. rb'[k] = rb[k]
        BY <3>2, <2>1 DEF MjInv, MjTypeOK
      <4>2. RollbackAt(k)
        BY DEF MjInv
      <4>3. QED BY <4>1, <4>2, <2>1, <2>2 DEF RollbackAt, Active, Names
    <3>3. QED BY <3>1, <3>2
  <2>6. wr.t \in mOn /\ Active => wr.t \in mOn'
    BY <1>1, <2>1
  <2>7. /\ \A k \in Db : jrnl'[k] = jrnl[k] /\ jrnl[k].mj # m /\ file'[k] = file[k]
        /\ wr' = wr /\ acked' = acked /\ scope' = scope /\ base' = base /\ kids' = kids
        /\ First' = First /\ scope \subseteq Db /\ wr.T \subseteq Db
    BY <2>1, <2>2 DEF First, MjInv, MjTypeOK
  <2>8. \A k \in Db : /\ OldIs(k)' = OldIs(k)
                      /\ NewIs(k) => NewIs(k)'
                      /\ Resolve(k)' = Resolve(k) /\ base'[k] = base[k]
    BY <2>7, <2>1 DEF OldIs, NewIs, Resolve, Hot
  <2>9. Active => \A k \in Db : (Undone(k) => Undone(k)') /\ (Done(k) => Done(k)')
    BY <2>7, <2>8, <2>1, <2>6 DEF Undone, Done
  <2>10. WriterAt'
    <3>1. WriterAt
      BY DEF MjInv
    <3> HIDE DEF m
    <3>2. Active' = Active
      BY <2>7 DEF Active
    <3>3. CASE Active
      <4>1. wr.t \in mOn' <=> wr.t \in mOn
        BY <2>1, <2>6, <3>3
      <4>2. QED BY <3>1, <3>2, <3>3, <4>1, <2>7, <2>8, <2>9, <2>1 DEF WriterAt
    <3>4. CASE ~Active
      BY <3>1, <3>2, <3>4, <2>7 DEF WriterAt, Active
    <3>5. QED BY <3>3, <3>4
  <2>11. Outcome'
    BY <2>7, <2>8 DEF MjInv, Outcome
  <2>12. QED BY <2>3, <2>4, <2>5, <2>10, <2>11 DEF MjInv
<1>5. CASE rb[d].todo # {} /\ Names(e, m)
  <2>1. rb' = [rb EXCEPT ![d] = NoRb] /\ rb'[d] = NoRb
        /\ UNCHANGED <<file, jrnl, mOn, kids, wr, base, scope, acked>>
    BY <1>5 DEF CheckChild, ghost, MjInv, MjTypeOK
  <2>2. RollbackAt(d)'
    BY <2>1, NoRollback DEF RollbackAt
  <2>3. QED BY <2>1, <2>2, <1>3, NoRollback, RollbackStep
<1>6. CASE rb[d].todo # {} /\ ~Names(e, m)
  <2>1. rb' = [rb EXCEPT ![d] = s] /\ rb'[d] = s
        /\ UNCHANGED <<file, jrnl, mOn, kids, wr, base, scope, acked>>
    BY <1>6 DEF CheckChild, ghost, MjInv, MjTypeOK
  <2> HIDE DEF s, e, m
  <2>2. \A k \in kids[m] \ s.todo : ~Names(k, m)
    BY <1>1, <1>2, <1>6
  <2>3. RollbackAt(d)'
    BY <2>1, <2>2, <1>1, <1>2 DEF RollbackAt, Active, Names
  <2>4. QED BY <2>1, <2>3, <1>2, <1>3, RollbackStep
<1>7. QED BY <1>4, <1>5, <1>6

\* The pages come from a journal whose master journal, if it names one, exists.
LEMMA PlayKeeps == ASSUME NEW d \in Db, MjInv, Play(d) PROVE MjInv'
<1>1. /\ rb[d] \in Rollbacks /\ rb[d].pc = "play" /\ rb[d].res /\ jrnl[d].on
      /\ rb[d].mj = jrnl[d].mj /\ (jrnl[d].mj = 0 \/ jrnl[d].mj \in mOn)
      /\ Active => d \notin wr.T
  BY DEF MjInv, MjTypeOK, Rollbacks, RollbackAt, Play
<1>2. jrnl[d].back \in Nat \cup {Half} /\ jrnl[d].back # Free
  BY <1>1 DEF MjInv, MjTypeOK, Journals, JournalAt
<1>3. UNCHANGED <<jrnl, mOn, kids, wr, base, scope, acked, mjEnv>>
  BY DEF Play, ghost
<1> DEFINE f == file'[d]
           s == [rb[d] EXCEPT !.pc = "end"]
           r == rb'[d]
<1>4. s \in Rollbacks /\ s.pc = "end" /\ s.mj = rb[d].mj /\ s.res = rb[d].res
  BY <1>1 DEF Rollbacks, RbSteps
<1>5. file' = [file EXCEPT ![d] = f] /\ f \in Nat \cup {Half}
  BY <1>2 DEF Play, MjInv, MjTypeOK
<1>6. rb' = [rb EXCEPT ![d] = r] /\ (r = rb[d] \/ (r = s /\ f = jrnl[d].back))
  <2>1. CASE file[d] \notin {jrnl[d].back, Half}
    <3>1. rb' = rb
      BY <2>1 DEF Play
    <3>2. rb = [rb EXCEPT ![d] = rb[d]]
      BY UnchangedUpdate DEF MjInv, MjTypeOK
    <3>3. QED BY <3>1, <3>2
  <2>2. CASE file[d] \in {jrnl[d].back, Half}
    <3>1. rb' = [rb EXCEPT ![d] = s] /\ file' = [file EXCEPT ![d] = jrnl[d].back]
      BY <2>2 DEF Play
    <3>2. rb'[d] = s /\ file'[d] = jrnl[d].back
      BY <3>1 DEF MjInv, MjTypeOK
    <3>3. QED BY <3>1, <3>2
  <2>3. QED BY <2>1, <2>2
<1>7. r \in Rollbacks
  BY <1>1, <1>4, <1>6
<1> HIDE DEF f, s, r
<1>8. MjTypeOK'
  BY <1>3, <1>5, <1>6, <1>7 DEF MjInv, MjTypeOK, Rollbacks
<1>9. \A k \in Db : JournalAt(k)'
  BY <1>3 DEF MjInv, JournalAt
<1>10. \A k \in Db \ {d} : file'[k] = file[k] /\ rb'[k] = rb[k]
  BY <1>5, <1>6 DEF MjInv, MjTypeOK
<1>11. rb'[d] = r /\ file'[d] = f
  BY <1>5, <1>6 DEF MjInv, MjTypeOK
<1>12. ASSUME NEW k \in Db PROVE RollbackAt(k)'
  <2>1. RollbackAt(k)
    BY DEF MjInv
  <2>2. CASE k = d /\ r = rb[d]
    BY <2>1, <2>2, <1>1, <1>3, <1>11 DEF RollbackAt, Active
  <2>3. CASE k = d /\ r = s /\ f = jrnl[d].back
    BY <2>1, <2>3, <1>1, <1>3, <1>4, <1>11 DEF RollbackAt, Active
  <2>4. CASE k # d
    BY <2>1, <2>4, <1>3, <1>10 DEF RollbackAt, Active, Names
  <2>5. QED BY <2>2, <2>3, <2>4, <1>6
<1>13. \A k \in Db : /\ OldIs(k) => OldIs(k)'
                     /\ NewIs(k) => NewIs(k)'
                     /\ Resolve(k)' = Resolve(k) /\ base'[k] = base[k]
  BY <1>1, <1>2, <1>3, <1>10 DEF OldIs, NewIs, Resolve, Hot
<1>14. Outcome'
  BY <1>13, <1>3 DEF MjInv, MjTypeOK, Outcome
<1>15. WriterAt'
  <2>1. WriterAt /\ wr.T \subseteq Db
    BY DEF MjInv, MjTypeOK
  <2>2. CASE ~Active
    BY <2>1, <2>2, <1>3 DEF WriterAt, Active
  <2>3. CASE Active
    <3>1. First \in wr.T
      BY <2>1, <2>3, FirstIsLeft DEF WriterAt, MjInv
    <3>2. \A k \in wr.T : file'[k] = file[k]
      BY <1>1, <1>10, <2>1, <2>3
    <3>3. First' = First /\ Active' = Active
      BY <1>3 DEF First, Active
    <3>4. \A k \in wr.T : /\ Done(k) => Done(k)'
                          /\ Undone(k) => Undone(k)'
                          /\ NewIs(k) => NewIs(k)'
      BY <3>2, <1>3, <1>13, <2>1 DEF Done, Undone
    <3>5. QED BY <2>1, <2>3, <3>1, <3>2, <3>3, <3>4, <1>3 DEF WriterAt
  <2>4. QED BY <2>2, <2>3
<1>16. QED BY <1>8, <1>9, <1>12, <1>14, <1>15 DEF MjInv

\* A journal goes when its database is restored, or when its transaction is committed.
LEMMA EndPlaybackKeeps == ASSUME NEW d \in Db, MjInv, EndPlayback(d) PROVE MjInv'
<1> DEFINE s == [rb[d] EXCEPT !.pc = "openmaster"]
           r == IF rb[d].mj # 0 /\ rb[d].res THEN s ELSE NoRb
<1>1. /\ rb[d] \in Rollbacks /\ rb[d].pc = "end" /\ jrnl[d].on
      /\ rb[d].mj = jrnl[d].mj /\ rb[d].res = (jrnl[d].mj = 0 \/ jrnl[d].mj \in mOn)
      /\ rb[d].res => file[d] = jrnl[d].back
      /\ Active => d \notin wr.T
      /\ Active /\ rb[d].mj # 0 => rb[d].mj # wr.t
  BY DEF MjInv, MjTypeOK, Rollbacks, RollbackAt, EndPlayback
<1>2. jrnl[d].back # Free /\ jrnl[d].mj \in 0..wr.t
  BY <1>1 DEF MjInv, MjTypeOK, Journals, JournalAt
<1>3. /\ UNCHANGED <<file, mOn, kids, wr, base, scope, acked, mjEnv>>
      /\ jrnl' = [jrnl EXCEPT ![d] = NoJrnl]
  BY DEF EndPlayback, ghost, Finalize, Finalized, MjInv, MjTypeOK, Shares
<1>4. rb' = [rb EXCEPT ![d] = r]
  BY DEF EndPlayback
<1>5. s \in Rollbacks /\ s.pc = "openmaster" /\ s.mj = rb[d].mj
  BY <1>1 DEF Rollbacks, RbSteps
<1>6. r \in Rollbacks /\ rb'[d] = r
  BY <1>4, <1>5, NoRollback DEF MjInv, MjTypeOK
<1>7. NoJrnl \in Journals /\ ~NoJrnl.on /\ NoJrnl.mj = 0
  BY DEF NoJrnl, Journals
<1>8. \A k \in Db \ {d} : jrnl'[k] = jrnl[k] /\ rb'[k] = rb[k]
  BY <1>3, <1>4 DEF MjInv, MjTypeOK
<1>9. jrnl'[d] = NoJrnl
  BY <1>3 DEF MjInv, MjTypeOK
<1>10. ASSUME NEW k \in Db PROVE RollbackAt(k)'
  <2>1. RollbackAt(k)
    BY DEF MjInv
  <2>2. CASE k = d /\ rb[d].mj # 0 /\ rb[d].res
    <3>1. rb'[d] = s
      BY <1>6, <2>2
    <3> HIDE DEF s
    <3>2. QED BY <3>1, <2>1, <2>2, <1>1, <1>2, <1>3, <1>5 DEF RollbackAt, Active
  <2>3. CASE k = d /\ ~(rb[d].mj # 0 /\ rb[d].res)
    <3>1. rb'[d] = NoRb
      BY <1>6, <2>3
    <3>2. QED BY <3>1, <2>3, NoRollback DEF RollbackAt
  <2>4. CASE k # d
    <3>1. \A e, m : Names(e, m)' /\ m # 0 /\ e \in Db => Names(e, m)
      BY <1>7, <1>8, <1>9 DEF Names
    <3>2. rb'[k] = rb[k] /\ jrnl'[k] = jrnl[k] /\ rb[k] \in Rollbacks
      BY <1>8, <2>4 DEF MjInv, MjTypeOK, Rollbacks
    <3>3. rb[k].pc = "child" => kids[rb[k].mj] \subseteq Db
      BY <2>1 DEF RollbackAt, MjInv, MjTypeOK, Shares
    <3>4. QED BY <2>1, <1>3, <3>1, <3>2, <3>3 DEF RollbackAt, Active
  <2>5. QED BY <2>2, <2>3, <2>4
<1> HIDE DEF s, r
<1>11. MjTypeOK'
  BY <1>3, <1>4, <1>6, <1>7 DEF MjInv, MjTypeOK, Rollbacks
<1>12. \A k \in Db : JournalAt(k)'
  BY <1>3, <1>7, <1>8, <1>9 DEF MjInv, JournalAt
<1>13. \A k \in Db : /\ OldIs(k) => OldIs(k)'
                     /\ NewIs(k) => NewIs(k)'
                     /\ Resolve(k)' = Resolve(k) /\ base'[k] = base[k]
  <2>1. ASSUME NEW k \in Db, k # d
        PROVE  /\ OldIs(k) => OldIs(k)'
               /\ NewIs(k) => NewIs(k)'
               /\ Resolve(k)' = Resolve(k) /\ base'[k] = base[k]
    BY <2>1, <1>3, <1>8 DEF OldIs, NewIs, Resolve, Hot
  <2>2. /\ OldIs(d) => OldIs(d)'
        /\ NewIs(d) => NewIs(d)'
        /\ Resolve(d)' = Resolve(d) /\ base'[d] = base[d]
    BY <1>1, <1>2, <1>3, <1>7, <1>9 DEF OldIs, NewIs, Resolve, Hot
  <2>3. QED BY <2>1, <2>2
<1>14. Outcome'
  BY <1>13, <1>3 DEF MjInv, MjTypeOK, Outcome
<1>15. WriterAt'
  <2>1. WriterAt /\ wr.T \subseteq Db
    BY DEF MjInv, MjTypeOK
  <2>2. CASE ~Active
    BY <2>1, <2>2, <1>3 DEF WriterAt, Active
  <2>3. CASE Active
    <3>1. First \in wr.T
      BY <2>1, <2>3, FirstIsLeft DEF WriterAt, MjInv
    <3>2. \A k \in wr.T : jrnl'[k] = jrnl[k]
      BY <1>1, <1>8, <2>1, <2>3
    <3>3. First' = First /\ Active' = Active
      BY <1>3 DEF First, Active
    <3>4. \A k \in wr.T : /\ Done(k) => Done(k)'
                          /\ Undone(k) => Undone(k)'
                          /\ NewIs(k) => NewIs(k)'
      BY <3>2, <1>3, <1>13, <2>1 DEF Done, Undone
    <3>5. QED BY <2>1, <2>3, <3>1, <3>2, <3>3, <3>4, <1>3 DEF WriterAt
  <2>4. QED BY <2>2, <2>3
<1>16. QED BY <1>10, <1>11, <1>12, <1>14, <1>15 DEF MjInv

\* The process dies, and its rollbacks with it.
LEMMA KillWriterKeeps == ASSUME MjInv, KillWriter PROVE MjInv'
<1>1. /\ UNCHANGED <<file, jrnl, mOn, kids, base, scope, acked>>
      /\ wr' = [wr EXCEPT !.pc = "idle", !.T = {}, !.todo = {}]
      /\ rb' = [k \in Db |-> IF rb[k].live THEN NoRb ELSE rb[k]]
  BY DEF KillWriter, ghost
<1>2. mjEnv' \in Shares /\ mjEnv'.tx = mjEnv.tx
  BY SpendShare DEF MjInv, MjTypeOK, KillWriter
<1>3. wr' \in Writers /\ wr'.pc = "idle" /\ wr'.t = wr.t /\ wr'.T = {} /\ wr'.todo = {}
  BY <1>1 DEF MjInv, MjTypeOK, Writers, WrSteps
<1>4. MjTypeOK'
  BY <1>1, <1>2, <1>3, NoRollback DEF MjInv, MjTypeOK, Rollbacks, Writers
<1>5. \A k \in Db : JournalAt(k)'
  BY <1>1, <1>3 DEF MjInv, JournalAt
<1>6. ASSUME NEW k \in Db PROVE RollbackAt(k)'
  BY <1>1, <1>3, NoRollback DEF MjInv, RollbackAt, Active, Names
<1>7. WriterAt'
  BY <1>1, <1>2, <1>3 DEF MjInv, WriterAt, Active
<1>8. Outcome'
  BY <1>1, <1>3 DEF MjInv, Outcome, OldIs, NewIs, Resolve, Hot
<1>9. QED BY <1>4, <1>5, <1>6, <1>7, <1>8 DEF MjInv

\* A call fails: the databases are rolled back, to the version the master journal decides.
LEMMA MjFailsKeeps == ASSUME MjInv, MjFails PROVE MjInv'
<1> DEFINE r == [NoRb EXCEPT !.pc = "access", !.live = TRUE]
<1>1. /\ UNCHANGED <<file, jrnl, kids, base, scope, acked>>
      /\ mOn' = IF wr.pc = "syncmaster" THEN mOn \ {wr.t} ELSE mOn
      /\ wr' = [wr EXCEPT !.pc = "rollback"]
      /\ rb' = [k \in Db |-> IF k \in wr.T THEN r ELSE rb[k]]
      /\ wr.pc \in {"open", "syncmaster", "phaseone", "jsync", "dbwrite", "dbsync", "delmaster",
                    "dirsync"}
  BY DEF MjFails, ghost, To
<1>2. mjEnv' \in Shares /\ mjEnv'.tx = mjEnv.tx
  BY SpendShare DEF MjInv, MjTypeOK, MjFails
<1>3. wr' \in Writers /\ wr'.pc = "rollback" /\ wr'.t = wr.t /\ wr'.T = wr.T /\ wr'.todo = wr.todo
  BY <1>1 DEF MjInv, MjTypeOK, Writers, WrSteps
<1>4. r \in Rollbacks /\ r.pc = "access" /\ r.mj = 0
  BY DEF NoRb, Rollbacks, RbSteps
<1> HIDE DEF r
<1>5. Active /\ ~Active'
  BY <1>1, <1>3 DEF Active
<1>6. \A k \in Db : jrnl[k].mj # 0 /\ jrnl[k].mj \in mOn => jrnl[k].mj \in mOn'
  BY <1>1, <1>5 DEF MjInv, MjTypeOK, JournalAt, WriterAt
<1>7. wr.T = scope /\ \A k \in wr.T : jrnl[k].on
  BY <1>1 DEF MjInv, WriterAt, Undone
<1>8. MjTypeOK'
  BY <1>1, <1>2, <1>3, <1>4 DEF MjInv, MjTypeOK, Rollbacks, Writers
<1>9. \A k \in Db : JournalAt(k)'
  BY <1>1, <1>3 DEF MjInv, JournalAt
<1>10. ASSUME NEW k \in Db PROVE RollbackAt(k)'
  <2>1. RollbackAt(k)
    BY DEF MjInv
  <2>2. CASE k \in wr.T
    <3>1. rb'[k] = r
      BY <1>1, <2>2
    <3>2. QED BY <3>1, <1>1, <1>4, <1>5, <1>7, <2>2 DEF RollbackAt
  <2>3. CASE k \notin wr.T
    <3>1. rb'[k] = rb[k]
      BY <1>1, <2>3
    <3>2. QED BY <3>1, <2>1, <1>1, <1>3, <1>5, <1>6 DEF RollbackAt, Names
  <2>4. QED BY <2>2, <2>3
<1>11. WriterAt'
  BY <1>1, <1>2, <1>3, <1>5 DEF MjInv, WriterAt
<1>12. \A k \in Db : /\ OldIs(k) => OldIs(k)'
                     /\ NewIs(k) => NewIs(k)'
                     /\ Resolve(k)' = Resolve(k) /\ base'[k] = base[k]
  BY <1>1, <1>3, <1>6 DEF OldIs, NewIs, Resolve, Hot
<1>13. Outcome'
  BY <1>12, <1>1 DEF MjInv, MjTypeOK, Outcome
<1>14. QED BY <1>8, <1>9, <1>10, <1>11, <1>13 DEF MjInv
-----------------------------------------------------------------------------
\* Steps of the commit.  Nobody rolls a database of the transaction back meanwhile.
LEMMA AtWork ==
  ASSUME MjInv, Active
  PROVE  /\ First \in wr.todo /\ First \in wr.T /\ First \in Db
         /\ wr.T = scope /\ wr.T \subseteq Db /\ wr.t > 0 /\ wr.t \in DOMAIN kids
         /\ \A k \in wr.T : rb[k].pc = "none" /\ rb[k].mj = 0
         /\ \A k \in Db : rb[k].mj # 0 => rb[k].mj # wr.t
<1>1. First \in wr.todo
  BY FirstIsLeft DEF MjInv, WriterAt
<1>2. wr.t > 0 /\ wr.T = scope /\ wr.T \subseteq Db /\ wr.todo \subseteq wr.T
  BY DEF MjInv, MjTypeOK, WriterAt, Active
<1>3. wr.t \in DOMAIN kids
  BY <1>2 DEF MjInv, MjTypeOK, Shares
<1>4. \A k \in Db : RollbackAt(k)
  BY DEF MjInv
<1>5. \A k \in wr.T : rb[k].pc = "none" /\ rb[k].mj = 0
  BY <1>2, <1>4 DEF RollbackAt
<1>6. \A k \in Db : rb[k].mj # 0 => rb[k].mj # wr.t
  BY <1>4 DEF RollbackAt
<1>7. QED BY <1>1, <1>2, <1>3, <1>5, <1>6

\* The rollbacks of other databases do not notice a step that leaves alone what they read.
LEMMA OtherRollbacks ==
  ASSUME MjInv, UNCHANGED rb, wr'.t = wr.t, wr'.T \subseteq wr.T, Active,
         \A k \in Db \ wr.T : jrnl'[k] = jrnl[k] /\ file'[k] = file[k],
         \A k \in Db : rb[k].mj # 0 /\ rb[k].mj # wr.t =>
                         /\ rb[k].mj \in mOn' <=> rb[k].mj \in mOn
                         /\ kids'[rb[k].mj] = kids[rb[k].mj]
                         /\ \A e \in Db : Names(e, rb[k].mj)' => Names(e, rb[k].mj)
  PROVE  \A k \in Db : RollbackAt(k)'
<1>1. SUFFICES ASSUME NEW k \in Db PROVE RollbackAt(k)'
  OBVIOUS
<1>2. RollbackAt(k)
  BY DEF MjInv
<1>3. rb'[k] = rb[k] /\ (rb[k].mj # 0 => rb[k].mj # wr.t)
  BY AtWork
<1>4. CASE k \in wr.T
  BY <1>2, <1>3, <1>4, AtWork DEF RollbackAt
<1>5. CASE k \notin wr.T
  <2>1. rb[k].pc = "child" => kids[rb[k].mj] \subseteq Db
    BY <1>2 DEF RollbackAt, MjInv, MjTypeOK, Shares
  <2>2. QED BY <1>2, <1>3, <1>5, <2>1 DEF RollbackAt
<1>6. QED BY <1>4, <1>5

\* Each database of the transaction is first journalled: an old journal is over.
LEMMA MjBeginKeeps == ASSUME NEW T \in (SUBSET Db) \ {{}}, MjInv, MjBegin(T) PROVE MjInv'
<1>1. /\ wr.pc = "idle" /\ wr.T = {} /\ mjEnv.tx > 0
      /\ wr' = [pc |-> "open", t |-> wr.t + 1, T |-> T, todo |-> T]
      /\ scope' = T /\ acked' = FALSE /\ UNCHANGED <<file, mOn, kids, rb>>
      /\ base' = [k \in Db |-> Resolve(k)]
      /\ \A k \in T : rb[k].pc = "none"
  BY DEF MjBegin, Spend, disk, MjInv, WriterAt, MjTypeOK, Shares
<1>2. mjEnv' \in Shares /\ mjEnv'.tx = mjEnv.tx - 1
  BY SpendTransaction DEF MjBegin, MjInv, MjTypeOK
<1>3. \A k \in T : ~jrnl[k].on /\ jrnl[k].mj = 0
  BY DEF MjBegin, Hot, LeftInPlace, MjInv, MjTypeOK, Shares, JournalAt
<1>4. PICK longer \in BOOLEAN :
        jrnl' = [k \in Db |-> IF k \notin T THEN jrnl[k]
                              ELSE [on |-> TRUE, back |-> file[k], fresh |-> ~jrnl[k].on,
                                    mj |-> IF longer THEN 0 ELSE jrnl[k].mj]]
  BY DEF MjBegin
<1>5. \A k \in T : /\ jrnl'[k] \in Journals /\ jrnl'[k].on
                   /\ jrnl'[k].back = file[k] /\ jrnl'[k].mj = 0
  BY <1>3, <1>4 DEF MjInv, MjTypeOK, Journals
<1>6. \A k \in Db \ T : jrnl'[k] = jrnl[k]
  BY <1>4
<1>7. wr'.t = wr.t + 1 /\ wr.t \in Nat /\ mjEnv.tx \in Nat
  BY <1>1 DEF MjInv, MjTypeOK, Shares
<1>8. MjTypeOK'
  <2>1. base' \in [Db -> Nat \cup {Half}]
    BY <1>1 DEF MjInv, MjTypeOK, Resolve, Hot, Journals
  <2>2. jrnl' \in [Db -> Journals]
    BY <1>4, <1>5, <1>6 DEF MjInv, MjTypeOK
  <2>3. wr' \in Writers
    BY <1>1, <1>7 DEF Writers, WrSteps
  <2>4. wr'.t + mjEnv'.tx = wr.t + mjEnv.tx
    BY <1>2, <1>7
  <2>5. mOn' \subseteq 1..wr'.t /\ kids' \in [1..(wr'.t + mjEnv'.tx) -> SUBSET Db]
    BY <1>1, <1>7, <2>4 DEF MjInv, MjTypeOK
  <2>6. QED BY <1>1, <1>2, <2>1, <2>2, <2>3, <2>5 DEF MjInv, MjTypeOK, Writers
<1>9. \A k \in Db : JournalAt(k)'
  <2>1. ASSUME NEW k \in T PROVE JournalAt(k)'
    <3>1. file[k] \in Nat \cup {Half}
      BY DEF MjInv, MjTypeOK
    <3>2. QED BY <3>1, <1>5 DEF JournalAt
  <2>2. ASSUME NEW k \in Db \ T PROVE JournalAt(k)'
    BY <1>1, <1>6, <1>7 DEF JournalAt, MjInv
  <2>3. QED BY <2>1, <2>2
<1>10. ASSUME NEW k \in Db PROVE RollbackAt(k)'
  <2>1. RollbackAt(k) /\ rb[k] \in Rollbacks
    BY DEF MjInv, MjTypeOK, Rollbacks
  <2>2. rb'[k] = rb[k] /\ rb[k].mj \in 0..wr.t
    <3>1. rb[k].pc \in {"play", "end"} => rb[k].mj \in 0..wr.t
      BY <2>1, <1>7 DEF RollbackAt, MjInv, JournalAt, MjTypeOK, Journals
    <3>2. QED BY <1>1, <1>7, <2>1, <3>1 DEF RollbackAt, Rollbacks, RbSteps
  <2>3. \A e \in Db, m \in 1..wr.t : Names(e, m)' => Names(e, m)
    BY <1>5, <1>6, <1>7 DEF Names
  <2>4. CASE k \in T
    BY <1>1, <2>1, <2>2, <2>4, <1>7 DEF RollbackAt
  <2>5. CASE k \notin T
    <3>1. rb[k].pc = "child" => kids[rb[k].mj] \subseteq Db /\ rb[k].mj \in 1..wr.t
      BY <2>1 DEF RollbackAt, MjInv, MjTypeOK, Shares
    <3>2. QED BY <1>1, <1>6, <1>7, <2>1, <2>2, <2>3, <2>5, <3>1 DEF RollbackAt
  <2>6. QED BY <2>4, <2>5
<1>11. \A k \in T : OldIs(k)' /\ Undone(k)'
  BY <1>1, <1>3, <1>5, <1>7 DEF OldIs, Undone, Resolve, Hot, MjInv, MjTypeOK
<1>12. WriterAt'
  <2>1. wr'.t \notin mOn' /\ kids'[wr'.t] = {} /\ \A k \in DOMAIN kids' : k > wr'.t => kids'[k] = {}
    <3>1. DOMAIN kids = 1..(wr.t + mjEnv.tx) /\ mOn \subseteq 1..wr.t
          /\ \A k \in DOMAIN kids : k > wr.t => kids[k] = {}
      BY DEF MjInv, MjTypeOK, WriterAt
    <3>2. wr.t + 1 \in DOMAIN kids /\ wr.t + 1 > wr.t /\ wr.t + 1 \notin mOn
      BY <1>1, <1>7, <3>1
    <3>3. QED BY <1>1, <1>7, <3>1, <3>2
  <2>2. /\ wr'.pc = "open" /\ wr'.T = T /\ wr'.todo = T /\ T # {} /\ wr'.t > 0
        /\ scope' = T /\ ~acked' /\ Active'
    BY <1>1, <1>7 DEF Active
  <2>3. \A k \in wr'.T : Undone(k)' /\ jrnl'[k].mj = 0
    BY <1>5, <1>11, <2>2
  <2>4. QED BY <2>1, <2>2, <2>3 DEF WriterAt
<1>13. Outcome'
  <2>1. \A k \in Db \ T : Resolve(k)' = base'[k]
    BY <1>1, <1>6 DEF Resolve, Hot
  <2>2. QED BY <1>1, <1>11, <2>1 DEF Outcome
<1>14. QED BY <1>8, <1>9, <1>10, <1>12, <1>13 DEF MjInv

LEMMA MjSpillKeeps == ASSUME NEW d \in Db, MjInv, MjSpill(d) PROVE MjInv'
<1> DEFINE j == [jrnl[d] EXCEPT !.fresh = FALSE]
<1>1. /\ wr.pc = "open" /\ d \in wr.T /\ Active
      /\ file' = [file EXCEPT ![d] = Half] /\ jrnl' = [jrnl EXCEPT ![d] = j]
      /\ UNCHANGED <<mOn, kids, wr, rb, base, scope, acked, mjEnv>>
  BY DEF MjSpill, ghost, Active
<1>2. j \in Journals /\ j.on = jrnl[d].on /\ j.back = jrnl[d].back /\ j.mj = jrnl[d].mj
  <2>1. jrnl[d] \in Journals
    BY DEF MjInv, MjTypeOK
  <2>2. QED BY <2>1 DEF Journals
<1> HIDE DEF j
<1>3. /\ \A k \in Db \ {d} : file'[k] = file[k]
      /\ \A k \in Db : /\ jrnl'[k].on = jrnl[k].on /\ jrnl'[k].back = jrnl[k].back
                       /\ jrnl'[k].mj = jrnl[k].mj
      /\ \A k \in Db \ {d} : jrnl'[k] = jrnl[k]
  BY <1>1, <1>2 DEF MjInv, MjTypeOK
<1>4. MjTypeOK'
  BY <1>1, <1>2 DEF MjInv, MjTypeOK
<1>5. \A k \in Db : JournalAt(k)'
  BY <1>1, <1>3 DEF MjInv, JournalAt
<1>6. \A k \in Db : RollbackAt(k)'
  <2>1. \A e \in Db : \A m : Names(e, m)' => Names(e, m)
    BY <1>3 DEF Names
  <2>2. QED BY <1>1, <1>3, <2>1, OtherRollbacks
<1>7. \A k \in wr.T : Undone(k) /\ Undone(k)' /\ OldIs(k)'
  BY <1>1, <1>3, AtWork DEF MjInv, WriterAt, Undone, OldIs
<1>8. WriterAt'
  BY <1>1, <1>3, <1>7, AtWork DEF MjInv, WriterAt, Active
<1>9. Outcome'
  <2>1. \A k \in Db \ scope : Resolve(k)' = Resolve(k)
    BY <1>1, <1>3, AtWork DEF Resolve, Hot
  <2>2. QED BY <1>1, <1>7, <2>1, AtWork DEF MjInv, Outcome, WriterAt
<1>10. QED BY <1>4, <1>5, <1>6, <1>8, <1>9 DEF MjInv

LEMMA CreateMasterKeeps == ASSUME MjInv, CreateMaster PROVE MjInv'
<1>1. /\ wr.pc = "open" /\ Active /\ UNCHANGED <<file, jrnl, rb, base, scope, acked, mjEnv>>
      /\ wr.t \notin mOn /\ kids[wr.t] = {} /\ wr.todo = wr.T /\ wr.T # {}
  BY DEF CreateMaster, ghost, Active, MjInv, WriterAt
<1>2. \/ /\ UNCHANGED <<mOn, kids>> /\ wr' = [wr EXCEPT !.pc = "phaseone"]
         /\ \E k \in Db : wr.T = {k}
      \/ /\ mOn' = mOn \cup {wr.t} /\ kids' = [kids EXCEPT ![wr.t] = wr.T]
         /\ wr' = [wr EXCEPT !.pc = "syncmaster"]
  <2>1. CASE Cardinality(wr.T) = 1
    <3>1. IsFiniteSet(Db)
      BY FS_Interval, MasterJournalAssumption DEF Db
    <3>2. IsFiniteSet(wr.T) /\ wr.T \subseteq Db
      BY <3>1, FS_Subset, AtWork, <1>1
    <3>3. \E k : wr.T = {k}
      BY <3>2, <2>1, FS_Singleton
    <3>4. QED BY <2>1, <3>2, <3>3 DEF CreateMaster, To
  <2>2. CASE Cardinality(wr.T) # 1
    BY <2>2 DEF CreateMaster, To
  <2>3. QED BY <2>1, <2>2
<1>3. /\ wr' \in Writers /\ wr'.t = wr.t /\ wr'.T = wr.T /\ wr'.todo = wr.todo
      /\ wr'.pc \in {"phaseone", "syncmaster"}
  BY <1>2 DEF MjInv, MjTypeOK, Writers, WrSteps
<1>4. /\ kids' \in [1..(wr.t + mjEnv.tx) -> SUBSET Db] /\ mOn' \subseteq 1..wr.t
      /\ \A k \in DOMAIN kids : k # wr.t => kids'[k] = kids[k]
      /\ kids'[wr.t] = IF wr'.pc = "syncmaster" THEN wr.T ELSE {}
      /\ \A m : m # wr.t => (m \in mOn' <=> m \in mOn)
      /\ wr'.pc = "syncmaster" <=> wr.t \in mOn'
  <2>1. kids \in [1..(wr.t + mjEnv.tx) -> SUBSET Db] /\ mOn \subseteq 1..wr.t
        /\ wr.t \in DOMAIN kids /\ wr.t > 0 /\ wr.t \in Nat /\ wr.T \in SUBSET Db
    BY <1>1, AtWork DEF MjInv, MjTypeOK
  <2>2. wr' = [wr EXCEPT !.pc = "phaseone"] => wr'.pc = "phaseone"
    BY DEF MjInv, MjTypeOK
  <2>3. wr' = [wr EXCEPT !.pc = "syncmaster"] => wr'.pc = "syncmaster"
    BY DEF MjInv, MjTypeOK
  <2>4. CASE wr' = [wr EXCEPT !.pc = "phaseone"] /\ UNCHANGED <<mOn, kids>>
    BY <1>1, <2>1, <2>2, <2>4
  <2>5. CASE /\ mOn' = mOn \cup {wr.t} /\ kids' = [kids EXCEPT ![wr.t] = wr.T]
             /\ wr' = [wr EXCEPT !.pc = "syncmaster"]
    <3>1. kids'[wr.t] = wr.T
      BY <2>1, <2>5
    <3>2. mOn' \subseteq 1..wr.t
      BY <2>1, <2>5
    <3>3. QED BY <2>1, <2>3, <2>5, <3>1, <3>2
  <2>6. QED BY <1>2, <2>4, <2>5
<1>5. \A k \in Db : jrnl[k].mj # wr.t
  BY <1>1, AtWork DEF MjInv, JournalAt
<1>6. MjTypeOK'
  BY <1>1, <1>3, <1>4 DEF MjInv, MjTypeOK, Writers
<1>7. ASSUME NEW k \in Db PROVE JournalAt(k)'
  <2>1. jrnl[k].mj # 0 => jrnl[k].mj \in DOMAIN kids
    BY DEF MjInv, MjTypeOK, JournalAt, Shares
  <2>2. QED BY <1>1, <1>3, <1>4, <1>5, <2>1 DEF MjInv, JournalAt
<1>8. \A k \in Db : RollbackAt(k)'
  <2>1. \A k \in Db : rb[k].mj # 0 => rb[k].mj \in DOMAIN kids
    <3>1. SUFFICES ASSUME NEW k \in Db, rb[k].mj # 0 PROVE rb[k].mj \in 1..wr.t
      BY DEF MjInv, MjTypeOK, Shares
    <3>2. RollbackAt(k) /\ JournalAt(k) /\ rb[k].pc \in RbSteps
      BY DEF MjInv, MjTypeOK
    <3>3. QED BY <3>1, <3>2 DEF RollbackAt, JournalAt, RbSteps
  <2>2. QED BY <1>1, <1>3, <1>4, <2>1, OtherRollbacks DEF Names
<1>9. \A k \in wr.T : Undone(k) /\ jrnl[k].mj = 0 /\ Undone(k)' /\ OldIs(k)'
  <2>1. \A k \in wr.T : Undone(k) /\ jrnl[k].mj = 0
    BY <1>1 DEF MjInv, WriterAt
  <2>2. QED BY <2>1, <1>1 DEF Undone, OldIs
<1>10. WriterAt'
  <2>1. \A k \in DOMAIN kids' : k > wr.t => kids'[k] = {}
    BY <1>4 DEF MjInv, MjTypeOK, WriterAt
  <2>2. wr.t \in mOn' \/ \E k \in Db : wr.T = {k}
    BY <1>2
  <2>3. wr'.T = scope' /\ wr'.t > 0 /\ ~acked' /\ Active'
    BY <1>1, <1>3, AtWork DEF MjInv, WriterAt, Active
  <2>4. QED BY <1>1, <1>3, <1>4, <1>9, <2>1, <2>2, <2>3 DEF WriterAt
<1>11. Outcome'
  <2>1. \A k \in Db : Resolve(k)' = Resolve(k)
    BY <1>1, <1>4, <1>5 DEF Resolve, Hot
  <2>2. ~acked' /\ scope = wr.T
    BY <1>1, AtWork DEF MjInv, WriterAt
  <2>3. QED BY <1>1, <1>9, <2>1, <2>2 DEF MjInv, Outcome
<1>12. QED BY <1>6, <1>7, <1>8, <1>10, <1>11 DEF MjInv

\* Steps that change the journals and databases of the transaction only.
LEMMA WriterStep ==
  ASSUME MjInv, Active, UNCHANGED <<rb, mOn, kids, base, scope, acked, mjEnv>>,
         wr' \in Writers, wr'.t = wr.t, wr'.T \subseteq wr.T,
         file' \in [Db -> Nat \cup {Half}], jrnl' \in [Db -> Journals],
         \A k \in Db \ wr.T : file'[k] = file[k] /\ jrnl'[k] = jrnl[k],
         \A k \in wr.T : \/ /\ jrnl'[k].on = jrnl[k].on /\ jrnl'[k].back = jrnl[k].back
                            /\ jrnl'[k].mj = jrnl[k].mj \/ (jrnl'[k].mj = wr.t /\ wr.t \in mOn)
                            /\ jrnl[k].on
                         \/ jrnl'[k] = NoJrnl,
         WriterAt',
         \/ ~acked /\ \A k \in scope : OldIs(k)'
         \/ \A k \in scope : NewIs(k)'
  PROVE  MjInv'
<1>1. NoJrnl.mj = 0 /\ ~NoJrnl.on
  BY DEF NoJrnl
<1>2. MjTypeOK'
  BY DEF MjInv, MjTypeOK, Writers
<1>3. ASSUME NEW k \in Db PROVE JournalAt(k)'
  <2>1. JournalAt(k) /\ wr.t \in 1..wr.t
    BY AtWork DEF MjInv, MjTypeOK
  <2>2. CASE k \notin wr.T \/ jrnl'[k] = NoJrnl
    BY <1>1, <2>1, <2>2 DEF JournalAt
  <2>3. CASE k \in wr.T /\ jrnl'[k] # NoJrnl
    <3>1. wr.t \in mOn => k \in kids[wr.t]
      BY <2>3 DEF MjInv, WriterAt
    <3>2. QED BY <2>1, <2>3, <3>1 DEF JournalAt
  <2>4. QED BY <2>2, <2>3
<1>4. \A k \in Db : RollbackAt(k)'
  <2>1. \A e \in Db : \A m : m # 0 /\ m # wr.t /\ Names(e, m)' => Names(e, m)
    BY <1>1 DEF Names
  <2>2. QED BY <2>1, OtherRollbacks
<1>5. Outcome'
  <2>1. \A k \in Db \ scope : Resolve(k)' = Resolve(k) /\ base'[k] = base[k]
    BY AtWork DEF Resolve, Hot
  <2>2. QED BY <2>1 DEF MjInv, Outcome
<1>6. QED BY <1>2, <1>3, <1>4, <1>5 DEF MjInv

\* The next step of the commit.
LEMMA NextStep ==
  ASSUME MjTypeOK, NEW step \in WrSteps, wr' = [wr EXCEPT !.pc = step]
  PROVE  /\ wr' \in Writers /\ wr'.pc = step /\ wr'.t = wr.t /\ wr'.T = wr.T
         /\ wr'.todo = wr.todo /\ First' = First
BY DEF MjTypeOK, Writers, First

LEMMA SyncMasterKeeps == ASSUME MjInv, SyncMaster PROVE MjInv'
<1>1. /\ wr.pc = "syncmaster" /\ Active
      /\ UNCHANGED <<file, jrnl, mOn, kids, rb, base, scope, acked, mjEnv>>
      /\ wr' = [wr EXCEPT !.pc = "phaseone"]
  BY DEF SyncMaster, ghost, Active, To
<1>2. /\ wr' \in Writers /\ wr'.pc = "phaseone" /\ wr'.t = wr.t /\ wr'.T = wr.T
      /\ wr'.todo = wr.todo
  BY <1>1, NextStep DEF MjInv, WrSteps
<1>3. \A k \in wr.T : Undone(k) /\ Undone(k)' /\ OldIs(k)'
  BY <1>1, <1>2 DEF MjInv, WriterAt, Undone, OldIs
<1>4. WriterAt'
  BY <1>1, <1>2, <1>3 DEF MjInv, WriterAt, Active
<1>5. ~acked /\ wr.T = scope /\ \A k \in wr.T : jrnl[k].on
  BY <1>1, <1>3 DEF MjInv, WriterAt, Undone
<1>6. QED BY <1>1, <1>2, <1>3, <1>4, <1>5, WriterStep DEF MjInv, MjTypeOK

LEMMA WriteMasterRecordKeeps == ASSUME MjInv, WriteMasterRecord PROVE MjInv'
<1> DEFINE j == [jrnl[First] EXCEPT !.mj = wr.t]
<1>1. /\ wr.pc = "phaseone" /\ Active
      /\ UNCHANGED <<file, mOn, kids, rb, base, scope, acked, mjEnv>>
      /\ wr' = [wr EXCEPT !.pc = "jsync"]
      /\ jrnl' = IF wr.t \in mOn THEN [jrnl EXCEPT ![First] = j] ELSE jrnl
  BY DEF WriteMasterRecord, ghost, Active, To
<1>2. /\ wr' \in Writers /\ wr'.pc = "jsync" /\ wr'.t = wr.t /\ wr'.T = wr.T
      /\ wr'.todo = wr.todo /\ First' = First
  BY <1>1, NextStep DEF MjInv, WrSteps
<1>3. First \in Db /\ First \in wr.todo /\ wr.t \in Nat /\ jrnl[First] \in Journals
  BY <1>1, AtWork DEF MjInv, MjTypeOK
<1>4. /\ j \in Journals /\ j.mj = wr.t /\ j.on = jrnl[First].on
      /\ j.back = jrnl[First].back
  BY <1>3 DEF Journals
<1> HIDE DEF j
<1>5. /\ jrnl' \in [Db -> Journals]
      /\ \A k \in Db \ {First} : jrnl'[k] = jrnl[k]
      /\ wr.t \in mOn => jrnl'[First] = j
      /\ wr.t \notin mOn => jrnl'[First] = jrnl[First]
  BY <1>1, <1>3, <1>4 DEF MjInv, MjTypeOK
<1>6. \A k \in wr.T : Undone(k)
  BY <1>1 DEF MjInv, WriterAt
<1>7. \A k \in wr.T : Undone(k)' /\ OldIs(k)' /\ jrnl[k].on
  BY <1>1, <1>2, <1>4, <1>5, <1>6, AtWork DEF Undone, OldIs
<1>8. \A k \in wr.T \ wr.todo : Done(k)'
  BY <1>1, <1>2, <1>3, <1>5, AtWork DEF MjInv, WriterAt, Done
<1>9. ~acked /\ wr.T = scope
  BY <1>1 DEF MjInv, WriterAt
<1>10. WriterAt'
  BY <1>1, <1>2, <1>4, <1>5, <1>7, <1>8, <1>9 DEF MjInv, WriterAt, Active
<1>11. \A k \in wr.T : /\ jrnl'[k].on = jrnl[k].on /\ jrnl'[k].back = jrnl[k].back
                       /\ jrnl'[k].mj = jrnl[k].mj \/ (jrnl'[k].mj = wr.t /\ wr.t \in mOn)
  BY <1>4, <1>5, AtWork, <1>1
<1>12. \A k \in Db \ wr.T : file'[k] = file[k] /\ jrnl'[k] = jrnl[k]
  BY <1>1, <1>5, AtWork
<1>13. file' \in [Db -> Nat \cup {Half}]
  BY <1>1 DEF MjInv, MjTypeOK
<1>14. QED BY <1>1, <1>2, <1>5, <1>7, <1>9, <1>10, <1>11, <1>12, <1>13, WriterStep

LEMMA SyncJournalKeeps == ASSUME MjInv, SyncJournal PROVE MjInv'
<1> DEFINE j == [jrnl[First] EXCEPT !.fresh = FALSE]
<1>1. /\ wr.pc = "jsync" /\ Active
      /\ UNCHANGED <<file, mOn, kids, rb, base, scope, acked, mjEnv>>
      /\ wr' = [wr EXCEPT !.pc = "dbwrite"]
      /\ jrnl' = [jrnl EXCEPT ![First] = j]
  BY DEF SyncJournal, ghost, Active, To
<1>2. /\ wr' \in Writers /\ wr'.pc = "dbwrite" /\ wr'.t = wr.t /\ wr'.T = wr.T
      /\ wr'.todo = wr.todo /\ First' = First
  BY <1>1, NextStep DEF MjInv, WrSteps
<1>3. First \in Db /\ jrnl[First] \in Journals
  BY <1>1, AtWork DEF MjInv, MjTypeOK
<1>4. /\ j \in Journals /\ j.mj = jrnl[First].mj /\ j.on = jrnl[First].on
      /\ j.back = jrnl[First].back
  BY <1>3 DEF Journals
<1> HIDE DEF j
<1>5. /\ jrnl' \in [Db -> Journals]
      /\ \A k \in Db \ {First} : jrnl'[k] = jrnl[k]
      /\ \A k \in Db : /\ jrnl'[k].on = jrnl[k].on /\ jrnl'[k].back = jrnl[k].back
                       /\ jrnl'[k].mj = jrnl[k].mj
  BY <1>1, <1>3, <1>4 DEF MjInv, MjTypeOK
<1>6. \A k \in wr.T : Undone(k)
  BY <1>1 DEF MjInv, WriterAt
<1>7. \A k \in wr.T : Undone(k)' /\ OldIs(k)' /\ jrnl[k].on
  BY <1>1, <1>2, <1>5, <1>6, AtWork DEF Undone, OldIs
<1>8. \A k \in wr.T \ wr.todo : Done(k)'
  BY <1>1, <1>2, <1>5, AtWork DEF MjInv, WriterAt, Done
<1>9. ~acked /\ wr.T = scope
  BY <1>1 DEF MjInv, WriterAt
<1>10. WriterAt'
  BY <1>1, <1>2, <1>3, <1>5, <1>7, <1>8, <1>9 DEF MjInv, WriterAt, Active
<1>11. \A k \in Db \ wr.T : file'[k] = file[k] /\ jrnl'[k] = jrnl[k]
  BY <1>1, <1>5, AtWork
<1>12. file' \in [Db -> Nat \cup {Half}]
  BY <1>1 DEF MjInv, MjTypeOK
<1>13. QED BY <1>1, <1>2, <1>5, <1>7, <1>9, <1>10, <1>11, <1>12, AtWork, WriterStep

LEMMA WriteDbKeeps == ASSUME MjInv, WriteDb PROVE MjInv'
<1>1. /\ wr.pc = "dbwrite" /\ Active
      /\ UNCHANGED <<jrnl, mOn, kids, rb, base, scope, acked, mjEnv>>
      /\ \/ file' = [file EXCEPT ![First] = Half] /\ wr' = wr
         \/ file' = [file EXCEPT ![First] = wr.t] /\ wr' = [wr EXCEPT !.pc = "dbsync"]
  BY DEF WriteDb, ghost, disk, Active, To
<1>2. First \in Db /\ First \in wr.todo /\ wr.t \in Nat
  BY <1>1, AtWork DEF MjInv, MjTypeOK
<1>3. /\ file' \in [Db -> Nat \cup {Half}]
      /\ \A k \in Db \ {First} : file'[k] = file[k]
      /\ wr' # wr => file'[First] = wr.t
  BY <1>1, <1>2 DEF MjInv, MjTypeOK
<1>4. /\ wr' \in Writers /\ wr'.t = wr.t /\ wr'.T = wr.T /\ wr'.todo = wr.todo
      /\ First' = First
      /\ wr'.pc = "dbwrite" \/ (wr'.pc = "dbsync" /\ file'[First] = wr.t)
  <2>1. CASE wr' = wr
    BY <2>1, <1>1 DEF MjInv, MjTypeOK, Writers, First
  <2>2. CASE wr' = [wr EXCEPT !.pc = "dbsync"]
    <3>1. /\ wr' \in Writers /\ wr'.pc = "dbsync" /\ wr'.t = wr.t /\ wr'.T = wr.T
          /\ wr'.todo = wr.todo /\ First' = First
      BY <2>2, NextStep DEF MjInv, WrSteps
    <3>2. QED BY <3>1, <1>1, <1>3
  <2>3. QED BY <1>1, <2>1, <2>2
<1>5. \A k \in wr.T : Undone(k)
  BY <1>1 DEF MjInv, WriterAt
<1>6. \A k \in wr.T : Undone(k)' /\ OldIs(k)' /\ jrnl[k].on
  BY <1>1, <1>4, <1>5 DEF Undone, OldIs
<1>7. \A k \in wr.T \ wr.todo : Done(k)'
  BY <1>1, <1>2, <1>3, <1>4, AtWork DEF MjInv, WriterAt, Done
<1>8. ~acked /\ wr.T = scope
  BY <1>1 DEF MjInv, WriterAt
<1>9. WriterAt'
  BY <1>1, <1>2, <1>4, <1>6, <1>7, <1>8 DEF MjInv, WriterAt, Active
<1>10. \A k \in Db \ wr.T : file'[k] = file[k] /\ jrnl'[k] = jrnl[k]
  BY <1>1, <1>3, AtWork
<1>11. jrnl' \in [Db -> Journals]
  BY <1>1 DEF MjInv, MjTypeOK
<1>12. QED BY <1>1, <1>3, <1>4, <1>6, <1>8, <1>9, <1>10, <1>11, WriterStep

LEMMA SyncDbKeeps == ASSUME MjInv, SyncDb PROVE MjInv'
<1>1. /\ wr.pc = "dbsync" /\ Active
      /\ UNCHANGED <<file, jrnl, mOn, kids, rb, base, scope, acked, mjEnv>>
  BY DEF SyncDb, ghost, Active
<1>2. First \in Db /\ First \in wr.todo /\ wr.todo \subseteq wr.T
  BY <1>1, AtWork DEF MjInv, WriterAt
<1>3. /\ wr' \in Writers /\ wr'.t = wr.t /\ wr'.T = wr.T
      /\ \/ /\ wr.todo # {First} /\ wr'.pc = "phaseone" /\ wr'.todo = wr.todo \ {First}
         \/ /\ wr.todo = {First} /\ wr'.todo = wr.T
            /\ wr'.pc = IF wr.t \in mOn THEN "delmaster" ELSE "phasetwo"
  <2>1. CASE wr.todo # {First}
    <3>1. wr' = [wr EXCEPT !.todo = wr.todo \ {First}, !.pc = "phaseone"]
      BY <2>1 DEF SyncDb
    <3>2. QED BY <3>1, <2>1 DEF MjInv, MjTypeOK, Writers, WrSteps
  <2>2. CASE wr.todo = {First}
    <3>1. wr' = [wr EXCEPT !.todo = wr.T, !.pc = IF wr.t \in mOn THEN "delmaster" ELSE "phasetwo"]
      BY <2>2 DEF SyncDb
    <3>2. QED BY <3>1, <2>2 DEF MjInv, MjTypeOK, Writers, WrSteps
  <2>3. QED BY <2>1, <2>2
<1>4. \A k \in wr.T : Undone(k)
  BY <1>1 DEF MjInv, WriterAt
<1>5. \A k \in wr.T : Undone(k)' /\ OldIs(k)' /\ jrnl[k].on
  BY <1>1, <1>3, <1>4 DEF Undone, OldIs
<1>6. \A k \in wr.T : k \notin wr.todo \/ k = First => Done(k) /\ Done(k)'
  BY <1>1, <1>3 DEF MjInv, WriterAt, Done
<1>7. ~acked /\ wr.T = scope
  BY <1>1 DEF MjInv, WriterAt
<1>8. wr.t \in mOn \/ \E k \in Db : wr.T = {k}
  BY <1>1 DEF MjInv, WriterAt
<1>9. WriterAt'
  <2>1. CASE wr.todo # {First}
    <3>1. wr'.pc = "phaseone" /\ wr'.todo = wr.todo \ {First} /\ wr'.todo # {}
      BY <1>2, <1>3, <2>1
    <3>2. \A k \in wr.T \ wr'.todo : Done(k)'
      BY <1>6, <3>1
    <3>3. QED BY <1>1, <1>2, <1>3, <1>5, <1>7, <1>8, <3>1, <3>2 DEF MjInv, WriterAt, Active
  <2>2. CASE wr.todo = {First}
    <3>1. \A k \in wr.T : Done(k)'
      BY <1>6, <2>2
    <3>2. CASE wr.t \in mOn
      <4>1. wr'.pc = "delmaster" /\ wr'.todo = wr.T
        BY <1>3, <2>2, <3>2
      <4>2. QED BY <1>1, <1>2, <1>3, <1>5, <1>7, <3>1, <3>2, <4>1 DEF MjInv, WriterAt, Active
    <3>3. CASE wr.t \notin mOn
      <4>1. wr'.pc = "phasetwo" /\ wr'.todo = wr.T
        BY <1>3, <2>2, <3>3
      <4>2. QED BY <1>1, <1>2, <1>3, <1>5, <1>7, <1>8, <3>1, <3>3, <4>1
                DEF MjInv, WriterAt, Active
    <3>4. QED BY <3>2, <3>3
  <2>3. QED BY <2>1, <2>2
<1>10. file' \in [Db -> Nat \cup {Half}] /\ jrnl' \in [Db -> Journals]
  BY <1>1 DEF MjInv, MjTypeOK
<1>11. QED BY <1>1, <1>3, <1>5, <1>7, <1>9, <1>10, WriterStep

\* The commit point: each journal of the transaction names the master journal, no other
\* one does, and the databases hold the new version.
LEMMA DeleteMasterKeeps == ASSUME MjInv, DeleteMaster PROVE MjInv'
<1>1. /\ wr.pc = "delmaster" /\ Active
      /\ UNCHANGED <<file, jrnl, kids, rb, base, scope, acked, mjEnv>>
      /\ mOn' = mOn \ {wr.t} /\ wr' = [wr EXCEPT !.pc = "dirsync"]
  BY DEF DeleteMaster, ghost, Active, To
<1>2. /\ wr' \in Writers /\ wr'.pc = "dirsync" /\ wr'.t = wr.t /\ wr'.T = wr.T
      /\ wr'.todo = wr.todo
  BY <1>1, NextStep DEF MjInv, WrSteps
<1>3. wr.T = scope /\ wr.T \subseteq Db /\ wr.t > 0 /\ wr.t \in mOn
  BY <1>1, AtWork DEF MjInv, WriterAt
<1>4. \A k \in wr.T : file[k] = wr.t /\ jrnl[k].mj = wr.t /\ jrnl[k].on
  BY <1>1, <1>3 DEF MjInv, WriterAt, Done, Undone
<1>5. \A k \in Db \ wr.T : jrnl[k].mj # wr.t
  BY <1>1, <1>3 DEF MjInv, JournalAt, WriterAt
<1>6. \A k \in wr.T : NewIs(k)'
  BY <1>1, <1>2, <1>3, <1>4 DEF NewIs, MjInv, MjTypeOK
<1>7. MjTypeOK'
  BY <1>1, <1>2 DEF MjInv, MjTypeOK, Writers
<1>8. \A k \in Db : JournalAt(k)'
  BY <1>1, <1>2 DEF MjInv, JournalAt
<1>9. \A k \in Db : RollbackAt(k)'
  BY <1>1, <1>2, OtherRollbacks DEF Names
<1>10. WriterAt'
  BY <1>1, <1>2, <1>3, <1>4, <1>6 DEF MjInv, WriterAt, Active
<1>11. Outcome'
  <2>1. \A k \in Db \ scope : Resolve(k)' = Resolve(k)
    BY <1>1, <1>3, <1>5 DEF Resolve, Hot
  <2>2. QED BY <1>1, <1>3, <1>6, <2>1 DEF MjInv, Outcome
<1>12. QED BY <1>7, <1>8, <1>9, <1>10, <1>11 DEF MjInv

LEMMA SyncDirectoryKeeps == ASSUME MjInv, SyncDirectory PROVE MjInv'
<1>1. /\ wr.pc = "dirsync" /\ Active /\ acked' = TRUE
      /\ UNCHANGED <<file, jrnl, mOn, kids, rb, base, scope, mjEnv>>
      /\ wr' = [wr EXCEPT !.pc = "phasetwo"]
  BY DEF SyncDirectory, Active, To
<1>2. /\ wr' \in Writers /\ wr'.pc = "phasetwo" /\ wr'.t = wr.t /\ wr'.T = wr.T
      /\ wr'.todo = wr.todo
  BY <1>1, NextStep DEF MjInv, WrSteps
<1>3. wr.T = scope /\ \A k \in wr.T : NewIs(k) /\ NewIs(k)'
  BY <1>1, <1>2 DEF MjInv, WriterAt, NewIs
<1>4. MjTypeOK'
  BY <1>1, <1>2 DEF MjInv, MjTypeOK, Writers
<1>5. \A k \in Db : JournalAt(k)'
  BY <1>1, <1>2 DEF MjInv, JournalAt
<1>6. \A k \in Db : RollbackAt(k)'
  BY <1>1, <1>2, OtherRollbacks DEF Names
<1>7. WriterAt'
  BY <1>1, <1>2, <1>3 DEF MjInv, WriterAt, Active
<1>8. Outcome'
  BY <1>1, <1>3 DEF MjInv, Outcome, Resolve, Hot
<1>9. QED BY <1>4, <1>5, <1>6, <1>7, <1>8 DEF MjInv

\* A single database is committed by the end of its journal.
LEMMA PhaseTwoKeeps == ASSUME MjInv, PhaseTwo PROVE MjInv'
<1>1. /\ wr.pc = "phasetwo" /\ Active
      /\ UNCHANGED <<file, mOn, kids, rb, base, scope, acked, mjEnv>>
      /\ jrnl' = [jrnl EXCEPT ![First] = NoJrnl]
  BY DEF PhaseTwo, ghost, Active, Finalize, Finalized, MjInv, MjTypeOK, Shares
<1>2. /\ First \in wr.T /\ First \in Db /\ First \in wr.todo /\ wr.todo \subseteq wr.T
      /\ wr.T = scope
  BY <1>1, AtWork DEF MjInv, WriterAt
<1>3. NoJrnl \in Journals /\ ~NoJrnl.on
  BY DEF NoJrnl, Journals
<1>4. /\ jrnl' \in [Db -> Journals] /\ jrnl'[First] = NoJrnl
      /\ \A k \in Db \ {First} : jrnl'[k] = jrnl[k]
  BY <1>1, <1>2, <1>3 DEF MjInv, MjTypeOK
<1>5. /\ wr' \in Writers /\ wr'.t = wr.t
      /\ \/ /\ wr.todo # {First} /\ wr'.pc = "phasetwo" /\ wr'.T = wr.T
            /\ wr'.todo = wr.todo \ {First}
         \/ wr.todo = {First} /\ wr'.pc = "idle" /\ wr'.todo = {} /\ wr'.T = {}
  <2>1. CASE wr.todo # {First}
    <3>1. wr' = [wr EXCEPT !.todo = wr.todo \ {First}]
      BY <2>1 DEF PhaseTwo
    <3>2. QED BY <3>1, <2>1, <1>1 DEF MjInv, MjTypeOK, Writers, WrSteps
  <2>2. CASE wr.todo = {First}
    <3>1. wr' = [wr EXCEPT !.pc = "idle", !.todo = {}, !.T = {}]
      BY <2>2 DEF PhaseTwo
    <3>2. QED BY <3>1, <2>2 DEF MjInv, MjTypeOK, Writers, WrSteps
  <2>3. QED BY <2>1, <2>2
<1>6. \/ \A k \in wr.T : NewIs(k)
      \/ wr.T = {First} /\ wr.todo = {First} /\ file[First] = wr.t
  BY <1>1, <1>2 DEF MjInv, WriterAt, Done
<1>7. \A k \in wr.T : NewIs(k)'
  BY <1>1, <1>2, <1>3, <1>4, <1>5, <1>6 DEF NewIs, MjInv, MjTypeOK
<1>8. WriterAt'
  <2>1. CASE wr.todo # {First}
    <3>1. wr'.pc = "phasetwo" /\ wr'.T = wr.T /\ wr'.todo = wr.todo \ {First} /\ wr'.todo # {}
      BY <1>2, <1>5, <2>1
    <3>2. QED BY <1>1, <1>2, <1>5, <1>7, <3>1 DEF MjInv, WriterAt, Active
  <2>2. CASE wr.todo = {First}
    <3>1. wr'.pc = "idle" /\ wr'.T = {} /\ wr'.todo = {}
      BY <1>5, <2>2
    <3>2. QED BY <1>1, <1>5, <3>1 DEF MjInv, WriterAt, Active
  <2>3. QED BY <2>1, <2>2
<1>9. \A k \in Db \ wr.T : file'[k] = file[k] /\ jrnl'[k] = jrnl[k]
  BY <1>1, <1>2, <1>4
<1>10. MjTypeOK'
  BY <1>1, <1>4, <1>5 DEF MjInv, MjTypeOK, Writers
<1>11. ASSUME NEW k \in Db PROVE JournalAt(k)'
  BY <1>1, <1>4, <1>5 DEF MjInv, JournalAt, NoJrnl
<1>12. \A k \in Db : RollbackAt(k)'
  <2>1. \A e \in Db : \A m : Names(e, m)' => Names(e, m)
    BY <1>3, <1>4 DEF Names
  <2>2. wr'.T \subseteq wr.T
    BY <1>5
  <2>3. QED BY <1>1, <1>5, <1>9, <2>1, <2>2, OtherRollbacks
<1>13. Outcome'
  <2>1. \A k \in Db \ scope : Resolve(k)' = Resolve(k)
    BY <1>1, <1>2, <1>9 DEF Resolve, Hot
  <2>2. QED BY <1>1, <1>2, <1>7, <2>1 DEF MjInv, Outcome
<1>14. QED BY <1>8, <1>10, <1>11, <1>12, <1>13 DEF MjInv

LEMMA RolledBackKeeps == ASSUME MjInv, RolledBack PROVE MjInv'
<1>1. /\ wr.pc = "rollback"
      /\ UNCHANGED <<file, jrnl, mOn, kids, rb, base, scope, acked, mjEnv>>
      /\ wr' = [wr EXCEPT !.pc = "idle", !.T = {}, !.todo = {}]
  BY DEF RolledBack, ghost, disk
<1>2. wr' \in Writers /\ wr'.pc = "idle" /\ wr'.t = wr.t /\ wr'.T = {} /\ wr'.todo = {}
  BY <1>1 DEF MjInv, MjTypeOK, Writers, WrSteps
<1>3. MjTypeOK'
  BY <1>1, <1>2 DEF MjInv, MjTypeOK, Writers
<1>4. \A k \in Db : JournalAt(k)' /\ RollbackAt(k)'
  BY <1>1, <1>2 DEF MjInv, JournalAt, RollbackAt, Active, Names
<1>5. WriterAt'
  BY <1>1, <1>2 DEF MjInv, WriterAt, Active
<1>6. Outcome'
  BY <1>1, <1>2 DEF MjInv, Outcome, OldIs, NewIs, Resolve, Hot
<1>7. QED BY <1>3, <1>4, <1>5, <1>6 DEF MjInv

-----------------------------------------------------------------------------
\* A behaviour in delete mode without power losses.
KillsOnly == mjEnv.mode = "delete" /\ mjEnv.power = 0

LEMMA MjInvInit == MjInit /\ KillsOnly => MjInv
<1>1. SUFFICES ASSUME MjInit, KillsOnly PROVE MjInv
  OBVIOUS
<1>2. mjEnv \in Shares
  BY <1>1, MasterJournalAssumption DEF MjInit, KillsOnly, Shares
<1>3. NoJrnl \in Journals /\ ~NoJrnl.on /\ NoJrnl.mj = 0
  BY DEF NoJrnl, Journals
<1>4. MjTypeOK
  <2>1. /\ file \in [Db -> Nat \cup {Half}] /\ base \in [Db -> Nat \cup {Half}]
        /\ jrnl \in [Db -> Journals] /\ mOn = {} /\ scope = {} /\ acked = FALSE
    BY <1>1, <1>3 DEF MjInit
  <2>2. wr \in Writers /\ wr.t = 0
    BY <1>1 DEF MjInit, Writers, WrSteps
  <2>3. rb \in [Db -> Rollbacks]
    BY <1>1, NoRollback DEF MjInit
  <2>4. kids = [t \in 1..mjEnv.tx |-> {}] /\ mjEnv.tx \in Nat
    BY <1>1, <1>2 DEF MjInit, Shares
  <2>5. kids \in [1..(wr.t + mjEnv.tx) -> SUBSET Db]
    BY <2>2, <2>4
  <2>6. QED BY <1>2, <2>1, <2>2, <2>3, <2>5 DEF MjTypeOK, Writers, Rollbacks
<1>5. \A d \in Db : JournalAt(d) /\ RollbackAt(d)
  BY <1>1, <1>3, NoRollback DEF MjInit, JournalAt, RollbackAt, Active
<1>6. WriterAt
  BY <1>1 DEF MjInit, WriterAt, Active
<1>7. Outcome
  BY <1>1, <1>3 DEF MjInit, Outcome, Resolve, Hot, OldIs
<1>8. QED BY <1>4, <1>5, <1>6, <1>7 DEF MjInv

LEMMA StutterKeeps == ASSUME MjInv, UNCHANGED mjVars PROVE MjInv'
<1>1. UNCHANGED <<file, jrnl, mOn, kids, wr, rb, base, scope, acked, mjEnv>>
  BY DEF mjVars
<1>2. MjTypeOK' /\ \A d \in Db : JournalAt(d)' /\ RollbackAt(d)'
  BY <1>1 DEF MjInv, MjTypeOK, JournalAt, RollbackAt, Active, Names
<1>3. QED BY <1>1, <1>2, WriterSame, OutcomeSame DEF MjInv

\* The invariant is inductive for any number of databases: no step of a commit, of a
\* rollback by the process itself or by others, and no failure or kill breaks it.
THEOREM MjInvInductive == MjInv /\ [MjNext]_mjVars => MjInv'
<1>1. SUFFICES ASSUME MjInv, [MjNext]_mjVars PROVE MjInv'
  OBVIOUS
<1>2. ~MjPowerLoss
  BY <1>1 DEF MjPowerLoss, Spend, MjInv, MjTypeOK, Shares
<1>3. ASSUME NEW T \in (SUBSET Db) \ {{}}, MjBegin(T) PROVE MjInv'
  BY <1>1, <1>3, MjBeginKeeps
<1>4. ASSUME NEW d \in Db, \/ MjSpill(d) \/ OpenHot(d) \/ ReadMaster(d) \/ Play(d)
                           \/ EndPlayback(d) \/ OpenMaster(d) \/ CheckChild(d)
                           \/ KillRollback(d)
      PROVE MjInv'
  BY <1>1, <1>4, MjSpillKeeps, OpenHotKeeps, ReadMasterKeeps, PlayKeeps, EndPlaybackKeeps,
     OpenMasterKeeps, CheckChildKeeps, KillRollbackKeeps
<1>5. ASSUME \/ CreateMaster \/ SyncMaster \/ WriteMasterRecord \/ SyncJournal \/ WriteDb
             \/ SyncDb \/ DeleteMaster \/ SyncDirectory \/ PhaseTwo \/ MjFails \/ RolledBack
             \/ KillWriter
      PROVE MjInv'
  BY <1>1, <1>5, CreateMasterKeeps, SyncMasterKeeps, WriteMasterRecordKeeps, SyncJournalKeeps,
     WriteDbKeeps, SyncDbKeeps, DeleteMasterKeeps, SyncDirectoryKeeps, PhaseTwoKeeps,
     MjFailsKeeps, RolledBackKeeps, KillWriterKeeps
<1>6. QED BY <1>1, <1>2, <1>3, <1>4, <1>5, StutterKeeps DEF MjNext

LEMMA MjInvGivesAtomicity == MjInv => AllOrNothing
<1>1. SUFFICES ASSUME MjInv PROVE AllOrNothing
  OBVIOUS
<1>2. \A d \in Db : jrnl[d].on => jrnl[d].back # Free
  BY <1>1 DEF MjInv, JournalAt
<1>3. scope \subseteq Db
  BY <1>1 DEF MjInv, MjTypeOK
<1>4. CASE ~acked /\ \A d \in scope : OldIs(d)
  BY <1>1, <1>2, <1>3, <1>4 DEF MjInv, Outcome, AllOrNothing, OldIs, Resolve, Hot
<1>5. CASE \A d \in scope : NewIs(d)
  BY <1>1, <1>2, <1>3, <1>5 DEF MjInv, Outcome, AllOrNothing, NewIs, Resolve, Hot
<1>6. QED BY <1>1, <1>4, <1>5 DEF MjInv, Outcome

\* All databases of a transaction have it or none has it, once their journals are rolled
\* back, and all have it when the deletion of the master journal is on disk: in delete mode,
\* for any number of databases and transactions, whichever calls of vdbeCommit() fail and
\* whenever the committing process or one that rolls back dies.
THEOREM AllOrNothingHolds == MjSpec /\ KillsOnly => []AllOrNothing
<1>1. MjSpec /\ KillsOnly => []MjInv
  BY MjInvInit, MjInvInductive, PTL DEF MjSpec
<1>2. QED BY <1>1, MjInvGivesAtomicity, PTL
=============================================================================
