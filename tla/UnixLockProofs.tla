--------------------------- MODULE UnixLockProofs ---------------------------
(***************************************************************************)
(* IInv of module UnixLock is an inductive invariant; exclusion and the    *)
(* other safety properties of the POSIX locking follow from it for any     *)
(* number of processes, handles and failing system calls.                  *)
(***************************************************************************)
EXTENDS UnixLock, FiniteSetTheorems, TLAPS

USE DEF NO_LOCK, SHARED_LOCK, RESERVED_LOCK, PENDING_LOCK, EXCLUSIVE_LOCK, Level

\* The two sets that the counters of an inode count are finite.
LEMMA FiniteHandles ==
  ASSUME NEW p \in Proc
  PROVE  /\ IsFiniteSet(OpenHandles(p)) /\ IsFiniteSet(Readers(p))
         /\ Cardinality(OpenHandles(p)) \in Nat
         /\ Cardinality(Readers(p)) \in Nat
<1>1. OpenHandles(p) \subseteq Conn /\ Readers(p) \subseteq Conn
  BY DEF OpenHandles, Readers, Handles
<1> QED BY <1>1, ConstAssumption, FS_Subset, FS_CardinalityType

\* The initial state satisfies the invariant.
LEMMA InitIInv == Init => IInv
<1> SUFFICES ASSUME Init PROVE IInv
  OBVIOUS
<1>1. TypeOK
  BY ConstAssumption DEF Init, TypeOK, InodeType, ZeroInode, Unlocked
<1>2. KernelInv /\ MutexInv
  BY ConstAssumption DEF Init, KernelInv, MutexInv, Unlocked, Steps, LockSteps, UnlockSteps
<1>3. StepInv /\ SiblingInv
  BY DEF Init, StepInv, StepAt, ProcessLock, SiblingInv, SiblingAt
<1>4. ASSUME NEW p \in Proc PROVE OpenHandles(p) = {} /\ Readers(p) = {}
  BY DEF Init, OpenHandles, Readers, Handles
<1>5. ASSUME NEW p \in Proc
      PROVE  Cardinality(OpenHandles(p)) = 0 /\ Cardinality(Readers(p)) = 0
  BY <1>4, FS_EmptySet
<1>6. CountInv
  BY <1>5 DEF Init, CountInv, CountAt, ZeroInode
<1>7. BackedInv /\ AloneInv
  BY DEF Init, BackedInv, BackedAt, ProcessLock, AloneInv, ZeroInode, Unlocked
<1> QED BY <1>1, <1>2, <1>3, <1>6, <1>7 DEF IInv

\* A handle that is open, or reads, is counted; two of them count for two.
LEMMA Counted ==
  ASSUME IInv, NEW c \in Conn, NEW d \in Conn, ProcOf[d] = ProcOf[c]
  PROVE  LET ino == inode[ProcOf[c]] IN
         /\ pc[c] \notin {"closed", "opening"} => ino.nRef >= 1
         /\ c # d /\ pc[c] \notin {"closed", "opening"} /\ pc[d] \notin {"closed", "opening"}
              => ino.nRef >= 2
         /\ eFileLock[c] >= SHARED_LOCK /\ pc[c] # "ul_all" => ino.nShared >= 1
         /\ c # d /\ eFileLock[c] >= SHARED_LOCK /\ pc[c] # "ul_all"
                  /\ eFileLock[d] >= SHARED_LOCK /\ pc[d] # "ul_all"
              => ino.nShared >= 2
<1> DEFINE p == ProcOf[c]
           O == OpenHandles(p)
           R == Readers(p)
<1>1. p \in Proc
  BY ConstAssumption
<1>2. IsFiniteSet(O) /\ IsFiniteSet(R) /\ Cardinality(O) \in Nat /\ Cardinality(R) \in Nat
  BY <1>1, FiniteHandles
<1>3. /\ inode[p].nRef = Cardinality(O) /\ inode[p].nShared >= Cardinality(R)
      /\ inode[p].nRef \in Nat /\ inode[p].nShared \in Nat
  BY <1>1 DEF IInv, CountInv, CountAt, TypeOK, InodeType
<1>4. ASSUME NEW S, IsFiniteSet(S), Cardinality(S) \in Nat
      PROVE  /\ c \in S => Cardinality(S) >= 1
             /\ c \in S /\ d \in S /\ c # d => Cardinality(S) >= 2
  <2>1. c \in S => Cardinality(S) # 0
    BY <1>4, FS_EmptySet
  <2>2. /\ IsFiniteSet(S \ {d}) /\ Cardinality(S \ {d}) \in Nat
        /\ d \in S => Cardinality(S \ {d}) = Cardinality(S) - 1
    BY <1>4, FS_RemoveElement, FS_CardinalityType
  <2>3. c \in S /\ c # d => Cardinality(S \ {d}) # 0
    BY <2>2, FS_EmptySet
  <2> QED BY <1>4, <2>1, <2>2, <2>3
<1>5. /\ c \in O <=> pc[c] \notin {"closed", "opening"}
      /\ d \in O <=> pc[d] \notin {"closed", "opening"}
      /\ c \in R <=> eFileLock[c] >= SHARED_LOCK /\ pc[c] # "ul_all"
      /\ d \in R <=> eFileLock[d] >= SHARED_LOCK /\ pc[d] # "ul_all"
  BY DEF OpenHandles, Readers, Handles
<1> HIDE DEF O, R
<1>6. /\ c \in O => Cardinality(O) >= 1
      /\ c \in O /\ d \in O /\ c # d => Cardinality(O) >= 2
  BY <1>2, <1>4
<1>7. /\ c \in R => Cardinality(R) >= 1
      /\ c \in R /\ d \in R /\ c # d => Cardinality(R) >= 2
  BY <1>2, <1>4
<1>8. /\ c \in O => inode[p].nRef >= 1
      /\ c \in O /\ d \in O /\ c # d => inode[p].nRef >= 2
      /\ c \in R => inode[p].nShared >= 1
      /\ c \in R /\ d \in R /\ c # d => inode[p].nShared >= 2
  BY <1>2, <1>3, <1>6, <1>7
<1> QED BY <1>5, <1>8

\* How the two sets change in a step that touches one handle only.
LEMMA CardStep ==
  ASSUME TypeOK, NEW c \in Conn,
         \A d \in Conn \ {c} : pc'[d] = pc[d] /\ eFileLock'[d] = eFileLock[d]
  PROVE  \A p \in Proc :
         LET open == pc[c] \notin {"closed", "opening"}
             read == eFileLock[c] >= SHARED_LOCK /\ pc[c] # "ul_all"
         IN
         /\ Cardinality(OpenHandles(p))' =
              IF p # ProcOf[c] \/ open' = open THEN Cardinality(OpenHandles(p))
              ELSE IF open THEN Cardinality(OpenHandles(p)) - 1
              ELSE Cardinality(OpenHandles(p)) + 1
         /\ Cardinality(Readers(p))' =
              IF p # ProcOf[c] \/ read' = read THEN Cardinality(Readers(p))
              ELSE IF read THEN Cardinality(Readers(p)) - 1
              ELSE Cardinality(Readers(p)) + 1
<1> SUFFICES ASSUME NEW p \in Proc
             PROVE  LET open == pc[c] \notin {"closed", "opening"}
                        read == eFileLock[c] >= SHARED_LOCK /\ pc[c] # "ul_all"
                    IN
                    /\ Cardinality(OpenHandles(p))' =
                         IF p # ProcOf[c] \/ open' = open THEN Cardinality(OpenHandles(p))
                         ELSE IF open THEN Cardinality(OpenHandles(p)) - 1
                         ELSE Cardinality(OpenHandles(p)) + 1
                    /\ Cardinality(Readers(p))' =
                         IF p # ProcOf[c] \/ read' = read THEN Cardinality(Readers(p))
                         ELSE IF read THEN Cardinality(Readers(p)) - 1
                         ELSE Cardinality(Readers(p)) + 1
  OBVIOUS
<1> DEFINE open == pc[c] \notin {"closed", "opening"}
           read == eFileLock[c] >= SHARED_LOCK /\ pc[c] # "ul_all"
           O == OpenHandles(p)
           R == Readers(p)
<1>1. IsFiniteSet(O) /\ IsFiniteSet(R)
  BY FiniteHandles
<1>2. p # ProcOf[c] => O' = O /\ R' = R
  BY DEF OpenHandles, Readers, Handles
<1>3. p = ProcOf[c] =>
        /\ (c \in O <=> open) /\ (c \in R <=> read)
        /\ (open' => O' = O \cup {c}) /\ (~open' => O' = O \ {c})
        /\ (read' => R' = R \cup {c}) /\ (~read' => R' = R \ {c})
  BY DEF OpenHandles, Readers, Handles
<1>4. /\ Cardinality(O \cup {c}) = IF c \in O THEN Cardinality(O) ELSE Cardinality(O) + 1
      /\ Cardinality(O \ {c}) = IF c \in O THEN Cardinality(O) - 1 ELSE Cardinality(O)
      /\ Cardinality(R \cup {c}) = IF c \in R THEN Cardinality(R) ELSE Cardinality(R) + 1
      /\ Cardinality(R \ {c}) = IF c \in R THEN Cardinality(R) - 1 ELSE Cardinality(R)
  BY <1>1, FS_AddElement, FS_RemoveElement
<1>5. open \in BOOLEAN /\ read \in BOOLEAN /\ open' \in BOOLEAN /\ read' \in BOOLEAN
  OBVIOUS
<1>6. Cardinality(O)' = Cardinality(O') /\ Cardinality(R)' = Cardinality(R')
  OBVIOUS
<1> HIDE DEF open, read, O, R
<1>7. Cardinality(O)' = IF p # ProcOf[c] \/ open' = open THEN Cardinality(O)
                        ELSE IF open THEN Cardinality(O) - 1
                        ELSE Cardinality(O) + 1
  BY <1>2, <1>3, <1>4, <1>5, <1>6
<1>8. Cardinality(R)' = IF p # ProcOf[c] \/ read' = read THEN Cardinality(R)
                        ELSE IF read THEN Cardinality(R) - 1
                        ELSE Cardinality(R) + 1
  BY <1>2, <1>3, <1>4, <1>5, <1>6
<1> QED BY <1>7, <1>8 DEF open, read, O, R

PcSet == {"closed", "opening", "idle", "closing"} \cup LockSteps \cup UnlockSteps
SysType == [Proc -> [Byte -> {"none", "rd", "wr"}]]

\* What the invariant says about one handle and its process.
LEMMA Facts ==
  ASSUME IInv, NEW c \in Conn
  PROVE  LET p == ProcOf[c]  ino == inode[p] IN
         /\ p \in Proc /\ c \in Handles(p)
         /\ pc[c] \in PcSet /\ req[c] \in Level /\ eFileLock[c] \in Level
         /\ ino \in InodeType
         /\ ino.nShared \in Nat /\ ino.nRef \in Nat /\ ino.nLock \in Nat /\ ino.nUnused \in Nat
         /\ ino.eFileLock \in Level /\ ino.bProcessLock \in BOOLEAN
         /\ sys[p]["SHARED"] \in {"none", "rd", "wr"}
         /\ sys[p]["PENDING"] \in {"none", "rd", "wr"}
         /\ StepAt(c) /\ SiblingAt(c) /\ BackedAt(p)
         /\ \A d \in Handles(p) : d \in Conn /\ ProcOf[d] = p /\ SiblingAt(d)
         /\ pc[c] \in Steps \/ MutexFree(p) =>
              \A d \in Handles(p) \ {c} : pc[d] \notin Steps
<1> DEFINE p == ProcOf[c]
<1>1. p \in Proc /\ c \in Handles(p)
  BY ConstAssumption DEF Handles
<1>2. /\ pc[c] \in PcSet /\ req[c] \in Level /\ eFileLock[c] \in Level
      /\ inode[p] \in InodeType
      /\ sys[p]["SHARED"] \in {"none", "rd", "wr"}
      /\ sys[p]["PENDING"] \in {"none", "rd", "wr"}
  BY <1>1 DEF IInv, TypeOK, PcSet, Byte
<1>3. /\ inode[p].nShared \in Nat /\ inode[p].nRef \in Nat
      /\ inode[p].nLock \in Nat /\ inode[p].nUnused \in Nat
      /\ inode[p].eFileLock \in Level /\ inode[p].bProcessLock \in BOOLEAN
  BY <1>2 DEF InodeType
<1>4. StepAt(c) /\ SiblingAt(c) /\ BackedAt(p)
  BY <1>1 DEF IInv, StepInv, SiblingInv, BackedInv
<1>5. \A d \in Handles(p) : d \in Conn /\ ProcOf[d] = p /\ SiblingAt(d)
  BY DEF IInv, SiblingInv, Handles
<1>6. pc[c] \in Steps \/ MutexFree(p) => \A d \in Handles(p) \ {c} : pc[d] \notin Steps
  BY <1>1 DEF IInv, MutexInv, MutexFree, Handles, Steps
<1> QED BY <1>1, <1>2, <1>3, <1>4, <1>5, <1>6

\* A well-typed step that changes nothing but one handle, its inode and its locks.
Frame(c) ==
  /\ pc' \in [Conn -> PcSet] /\ req' \in [Conn -> Level]
  /\ eFileLock' \in [Conn -> Level] /\ inode' \in [Proc -> InodeType]
  /\ sys' \in SysType /\ closing' \subseteq Conn /\ faults' \in 0..MaxFaults
  /\ \A d \in Conn \ {c} :
       pc'[d] = pc[d] /\ eFileLock'[d] = eFileLock[d] /\ req'[d] = req[d]
  /\ \A q \in Proc \ {ProcOf[c]} : inode'[q] = inode[q]

\* In such a step the variables are updated at c and at its process only.
LEMMA Update ==
  ASSUME NEW c \in Conn, Frame(c)
  PROVE  /\ TypeOK'
         /\ \A d \in Conn \ {c} :
              pc'[d] = pc[d] /\ eFileLock'[d] = eFileLock[d] /\ req'[d] = req[d]
         /\ \A q \in Proc \ {ProcOf[c]} : inode'[q] = inode[q]
  BY DEF TypeOK, PcSet, SysType, Frame

\* A step of handle c that leaves other handles and other processes alone
\* keeps the invariant if it does so for c and its own process.
LEMMA LocalStep ==
  ASSUME IInv, NEW c \in Conn, Frame(c), pc[c] \in Steps \/ MutexFree(ProcOf[c]),
         \A q \in Proc \ {ProcOf[c]} : sys'[q] = sys[q],
         KernelInv', AloneInv', StepAt(c)', BackedAt(ProcOf[c])',
         LET open == pc[c] \notin {"closed", "opening"}
             n == inode[ProcOf[c]].nRef
         IN  inode'[ProcOf[c]].nRef = IF open' = open THEN n ELSE IF open THEN n - 1 ELSE n + 1,
         LET read == eFileLock[c] >= SHARED_LOCK /\ pc[c] # "ul_all"
             n == inode[ProcOf[c]].nShared
         IN  inode'[ProcOf[c]].nShared >= IF read' = read THEN n ELSE IF read THEN n - 1 ELSE n + 1,
         \A d \in Handles(ProcOf[c]) : SiblingAt(d)'
  PROVE  IInv'
<1> DEFINE p == ProcOf[c]
<1>0. p \in Proc /\ c \in Handles(p)
  BY ConstAssumption DEF Handles
<1>f. /\ TypeOK'
      /\ \A d \in Conn \ {c} :
           pc'[d] = pc[d] /\ eFileLock'[d] = eFileLock[d] /\ req'[d] = req[d]
      /\ \A q \in Proc \ {p} : inode'[q] = inode[q]
      /\ \A d \in Handles(p) \ {c} : pc[d] \notin Steps
  BY Update, Facts
<1> USE <1>f
<1>1. MutexInv'
  BY DEF IInv, MutexInv, Handles
<1>2. StepInv'
  <2> SUFFICES ASSUME NEW d \in Conn PROVE StepAt(d)'
    BY DEF StepInv
  <2>1. CASE d = c
    BY <2>1
  <2>2. CASE d # c /\ ProcOf[d] = p
    <3>1. pc'[d] = pc[d] /\ eFileLock'[d] = eFileLock[d] /\ pc[d] \notin Steps
      BY <2>2 DEF Handles
    <3>2. StepAt(d)
      BY DEF IInv, StepInv
    <3> QED BY <3>1, <3>2 DEF StepAt, ProcessLock, Steps, LockSteps, UnlockSteps
  <2>3. CASE d # c /\ ProcOf[d] # p
    <3>1. /\ pc'[d] = pc[d] /\ eFileLock'[d] = eFileLock[d] /\ req'[d] = req[d]
          /\ inode'[ProcOf[d]] = inode[ProcOf[d]] /\ sys'[ProcOf[d]] = sys[ProcOf[d]]
      BY <2>3, ConstAssumption
    <3>2. StepAt(d)
      BY DEF IInv, StepInv
    <3> QED BY <3>1, <3>2 DEF StepAt, ProcessLock
  <2> QED BY <2>1, <2>2, <2>3
<1>3. CountInv'
  <2> SUFFICES ASSUME NEW q \in Proc PROVE CountAt(q)'
    BY DEF CountInv
  <2> DEFINE open == pc[c] \notin {"closed", "opening"}
             read == eFileLock[c] >= SHARED_LOCK /\ pc[c] # "ul_all"
             O == Cardinality(OpenHandles(q))
             R == Cardinality(Readers(q))
  <2>1. inode[q].nRef = O /\ inode[q].nShared >= R
    BY DEF IInv, CountInv, CountAt
  <2>2. O \in Nat /\ R \in Nat
    BY FiniteHandles
  <2>3. inode[q].nShared \in Nat /\ inode'[q].nShared \in Nat
    BY DEF IInv, TypeOK, InodeType
  <2>4. /\ O' = IF q # p \/ open' = open THEN O ELSE IF open THEN O - 1 ELSE O + 1
        /\ R' = IF q # p \/ read' = read THEN R ELSE IF read THEN R - 1 ELSE R + 1
    BY CardStep DEF IInv
  <2>5. q # p => inode'[q] = inode[q]
    OBVIOUS
  <2>6. q = p => /\ inode'[q].nRef = IF open' = open THEN inode[q].nRef
                       ELSE IF open THEN inode[q].nRef - 1 ELSE inode[q].nRef + 1
                 /\ inode'[q].nShared >= IF read' = read THEN inode[q].nShared
                       ELSE IF read THEN inode[q].nShared - 1 ELSE inode[q].nShared + 1
    OBVIOUS
  <2> HIDE DEF open, read, O, R
  <2>7. inode'[q].nRef = O'
    BY <2>1, <2>2, <2>4, <2>5, <2>6
  <2>8. inode'[q].nShared >= R'
    BY <2>1, <2>2, <2>3, <2>4, <2>5, <2>6
  <2> QED BY <2>7, <2>8 DEF CountAt, O, R
<1>4. SiblingInv'
  <2> SUFFICES ASSUME NEW d \in Conn PROVE SiblingAt(d)'
    BY DEF SiblingInv
  <2>1. CASE ProcOf[d] = p
    BY <2>1 DEF Handles
  <2>2. CASE ProcOf[d] # p
    <3>1. /\ inode'[ProcOf[d]] = inode[ProcOf[d]]
          /\ \A e \in Handles(ProcOf[d]) : pc'[e] = pc[e] /\ eFileLock'[e] = eFileLock[e]
      BY <2>2, ConstAssumption DEF Handles
    <3>2. SiblingAt(d) /\ d \in Handles(ProcOf[d])
      BY DEF IInv, SiblingInv, Handles
    <3> QED BY <3>1, <3>2 DEF SiblingAt, Handles
  <2> QED BY <2>1, <2>2
<1>5. BackedInv'
  <2> SUFFICES ASSUME NEW q \in Proc, q # p PROVE BackedAt(q)'
    BY DEF BackedInv
  <2>1. BackedAt(q)
    BY DEF IInv, BackedInv
  <2>2. /\ inode'[q] = inode[q] /\ sys'[q] = sys[q]
        /\ \A e \in Handles(q) : pc'[e] = pc[e]
    BY DEF Handles
  <2> QED BY <2>1, <2>2 DEF BackedAt, ProcessLock, Handles
<1> QED BY <1>1, <1>2, <1>3, <1>4, <1>5 DEF IInv

\* Steps that leave the kernel's locks alone keep what the kernel guarantees,
\* unless the inode newly claims EXCLUSIVE.
LEMMA SameSys ==
  ASSUME IInv, sys' = sys, NEW p \in Proc,
         \A q \in Proc \ {p} : inode'[q] = inode[q],
         inode'[p].eFileLock = EXCLUSIVE_LOCK =>
           inode[p].eFileLock = EXCLUSIVE_LOCK \/ p \in ExclProc
  PROVE  KernelInv' /\ AloneInv' /\ sys' \in SysType
<1>1. KernelInv'
  BY DEF IInv, KernelInv
<1>2. AloneInv'
  BY DEF IInv, AloneInv
<1> QED BY <1>1, <1>2 DEF IInv, TypeOK, SysType

\* A successful fcntl() keeps the kernel's exclusion and other processes' locks.
LEMMA FileLockKernel ==
  ASSUME TypeOK, KernelInv, NEW p \in Proc, NEW type \in {"none", "rd", "wr"},
         NEW bytes \in SUBSET Byte, FileLockOk(p, type, bytes),
         sys' = SysAfter(p, type, bytes)
  PROVE  /\ KernelInv' /\ sys' \in [Proc -> [Byte -> {"none", "rd", "wr"}]]
         /\ \A q \in Proc \ {p} : sys'[q] = sys[q]
         /\ NoSysCall(p) => sys' = sys
         /\ ~NoSysCall(p) /\ p \notin ExclProc =>
              \A b \in Byte : sys'[p][b] = IF b \in bytes THEN type ELSE sys[p][b]
         /\ ~NoSysCall(p) /\ p \in ExclProc =>
              /\ \A b \in Byte : sys'[p][b] = IF b = "SHARED" THEN "wr" ELSE sys[p][b]
              /\ \A q \in Proc \ {p} : sys[q]["SHARED"] = "none"
<1> DEFINE t == EffType(p, type)
           B == EffBytes(p, bytes)
<1>1. t \in {"none", "rd", "wr"} /\ B \in SUBSET Byte
  BY DEF EffType, EffBytes, Byte
<1>2. p \notin ExclProc => t = type /\ B = bytes
  BY DEF EffType, EffBytes
<1>3. p \in ExclProc => t = "wr" /\ B = {"SHARED"}
  BY DEF EffType, EffBytes
<1> HIDE DEF t, B
<1>4. CASE NoSysCall(p)
  BY <1>4 DEF SysAfter, KernelInv, TypeOK
<1>5. CASE ~NoSysCall(p)
  <2>1. /\ sys' = SetLk(p, t, B) /\ ~Conflict(p, t, B)
    BY <1>5 DEF SysAfter, FileLockOk, t, B
  <2>2. /\ sys' \in [Proc -> [Byte -> {"none", "rd", "wr"}]]
        /\ \A q \in Proc \ {p} : sys'[q] = sys[q]
        /\ \A b \in Byte : sys'[p][b] = IF b \in B THEN t ELSE sys[p][b]
    <3> DEFINE f == [b \in Byte |-> IF b \in B THEN t ELSE sys[p][b]]
    <3>1. sys' = [sys EXCEPT ![p] = f]
      BY <2>1 DEF SetLk
    <3>2. f \in [Byte -> {"none", "rd", "wr"}]
      BY <1>1 DEF TypeOK
    <3>3. \A b \in Byte : f[b] = IF b \in B THEN t ELSE sys[p][b]
      OBVIOUS
    <3> HIDE DEF f
    <3> QED BY <3>1, <3>2, <3>3 DEF TypeOK
  <2>3. \A q \in Proc \ {p}, b \in B : /\ t = "wr" => sys[q][b] = "none"
                                       /\ t = "rd" => sys[q][b] # "wr"
    BY <2>1 DEF Conflict
  <2>4. KernelInv'
    <3> SUFFICES ASSUME NEW q \in Proc, NEW r \in Proc, NEW b \in Byte,
                        q # r, sys'[q][b] = "wr"
                 PROVE  sys'[r][b] = "none"
      BY DEF KernelInv
    <3>1. sys[q][b] = "wr" => sys[r][b] = "none"
      BY DEF KernelInv
    <3>2. sys[r][b] \in {"none", "rd", "wr"}
      BY DEF TypeOK
    <3>3. sys[r][b] = "wr" => sys[q][b] = "none"
      BY DEF KernelInv
    <3>4. CASE q = p
      BY <3>1, <3>4, <2>2, <2>3
    <3>5. CASE r = p
      BY <3>1, <3>5, <1>1, <2>2, <2>3
    <3>6. CASE q # p /\ r # p
      BY <3>1, <3>6, <2>2
    <3> QED BY <3>4, <3>5, <3>6
  <2> QED BY <1>2, <1>3, <1>5, <2>2, <2>3, <2>4 DEF Byte
<1> QED BY <1>4, <1>5

\* Updating fields of an inode record with values of their types.
LEMMA InodeField ==
  ASSUME NEW old \in InodeType
  PROVE  /\ \A n \in Nat : /\ [old EXCEPT !.nShared = n] \in InodeType
                           /\ [old EXCEPT !.nRef = n] \in InodeType
                           /\ [old EXCEPT !.nLock = n] \in InodeType
                           /\ [old EXCEPT !.nUnused = n] \in InodeType
         /\ \A l \in Level : [old EXCEPT !.eFileLock = l] \in InodeType
         /\ [old EXCEPT !.bProcessLock = TRUE] \in InodeType
  BY DEF InodeType

\* The same for two fields at once.
LEMMA InodeFields ==
  ASSUME NEW old \in InodeType
  PROVE  /\ \A n, m \in Nat :
              /\ [old EXCEPT !.nShared = n, !.nLock = m] \in InodeType
              /\ [old EXCEPT !.nRef = n, !.nUnused = m] \in InodeType
         /\ \A m \in Nat : [old EXCEPT !.bProcessLock = TRUE, !.nLock = m] \in InodeType
         /\ \A l \in Level, m \in Nat : [old EXCEPT !.eFileLock = l, !.nLock = m] \in InodeType
         /\ \A l \in Level, n, m \in Nat :
              [old EXCEPT !.eFileLock = l, !.nLock = m, !.nShared = n] \in InodeType
  BY InodeField

\* Joining the process's read-lock, and leaving it.
LEMMA InodeJoin ==
  ASSUME NEW old \in InodeType
  PROVE  LET ino == [old EXCEPT !.nShared = @ + 1, !.nLock = @ + 1] IN
         /\ ino \in InodeType /\ ino.nShared = old.nShared + 1 /\ ino.nRef = old.nRef
         /\ ino.nLock = old.nLock + 1 /\ ino.eFileLock = old.eFileLock
         /\ ino.bProcessLock = old.bProcessLock /\ ino.nUnused = old.nUnused
<1>1. old.nShared + 1 \in Nat /\ old.nLock + 1 \in Nat
  BY DEF InodeType
<1>2. [old EXCEPT !.nShared = @ + 1, !.nLock = @ + 1] \in InodeType
  BY ONLY <1>1, InodeFields, old \in InodeType
<1> QED BY <1>2 DEF InodeType

\* The counters stay natural numbers when a reader leaves.
LEMMA InodeLeave ==
  ASSUME NEW old \in InodeType, old.nShared > 1, old.nLock >= 1
  PROVE  LET ino == [old EXCEPT !.nShared = @ - 1, !.nLock = @ - 1] IN
         /\ ino \in InodeType /\ ino.nShared = old.nShared - 1 /\ ino.nRef = old.nRef
         /\ ino.nLock = old.nLock - 1 /\ ino.eFileLock = old.eFileLock
         /\ ino.bProcessLock = old.bProcessLock /\ ino.nUnused = old.nUnused
<1>1. old.nShared - 1 \in Nat /\ old.nLock - 1 \in Nat
  BY DEF InodeType
<1>2. [old EXCEPT !.nShared = @ - 1, !.nLock = @ - 1] \in InodeType
  BY ONLY <1>1, InodeFields, old \in InodeType
<1> QED BY <1>2 DEF InodeType

\* The types of the variables, as functions.
LEMMA Types ==
  ASSUME IInv
  PROVE  /\ pc \in [Conn -> PcSet] /\ req \in [Conn -> Level]
         /\ eFileLock \in [Conn -> Level] /\ inode \in [Proc -> InodeType]
         /\ sys \in SysType /\ closing \subseteq Conn /\ faults \in 0..MaxFaults
  BY DEF IInv, TypeOK, PcSet, SysType

\* close() of a descriptor keeps what the kernel guarantees.
LEMMA CloseSys ==
  ASSUME IInv, NEW p \in Proc, sys' = CloseFd(p),
         \A q \in Proc \ {p} : inode'[q] = inode[q],
         inode'[p].eFileLock # EXCLUSIVE_LOCK
  PROVE  /\ KernelInv' /\ AloneInv' /\ sys' \in SysType
         /\ \A q \in Proc \ {p} : sys'[q] = sys[q]
         /\ \A b \in Byte : sys'[p][b] = "none"
<1>1. /\ sys' \in SysType /\ \A q \in Proc \ {p} : sys'[q] = sys[q]
      /\ \A b \in Byte : sys'[p][b] = "none"
  BY DEF IInv, TypeOK, SysType, CloseFd, Unlocked
<1>2. KernelInv'
  BY <1>1 DEF IInv, KernelInv
<1>3. AloneInv'
  BY <1>1 DEF IInv, AloneInv, Byte
<1> QED BY <1>1, <1>2, <1>3

\* unixFileLock() counts the process lock it takes under unix-excl.
LEMMA InodeAfterFields ==
  ASSUME IInv, NEW p \in Proc
  PROVE  LET a == InodeAfter(p)  old == inode[p] IN
         /\ a \in InodeType
         /\ a.nShared = old.nShared /\ a.nRef = old.nRef /\ a.eFileLock = old.eFileLock
         /\ a.nUnused = old.nUnused
         /\ a.bProcessLock <=> old.bProcessLock \/ p \in ExclProc
         /\ a.nLock = IF p \in ExclProc /\ ~old.bProcessLock THEN old.nLock + 1 ELSE old.nLock
         /\ a.bProcessLock \in BOOLEAN
<1>1. inode[p] \in InodeType
  BY DEF IInv, TypeOK
<1>2. inode[p].nLock + 1 \in Nat
  BY <1>1 DEF InodeType
<1>3. [inode[p] EXCEPT !.bProcessLock = TRUE, !.nLock = @ + 1] \in InodeType
  BY ONLY <1>1, <1>2, InodeFields
<1> QED BY <1>1, <1>3 DEF InodeAfter, NoSysCall, InodeType

\* The two outcomes of unixFileLock(): it locks, or nothing but "ino" changes.
Locked(p, type, bytes, ino) ==
  /\ inode' = [inode EXCEPT ![p] = ino] /\ inode'[p] = ino
  /\ faults' \in 0..MaxFaults /\ sys' \in SysType /\ KernelInv'
  /\ \A q \in Proc \ {p} : sys'[q] = sys[q] /\ inode'[q] = inode[q]
  /\ inode[p].bProcessLock => sys' = sys
  /\ ~inode[p].bProcessLock /\ p \notin ExclProc =>
       \A b \in Byte : sys'[p][b] = IF b \in bytes THEN type ELSE sys[p][b]
  /\ ~inode[p].bProcessLock /\ p \in ExclProc =>
       /\ \A b \in Byte : sys'[p][b] = IF b = "SHARED" THEN "wr" ELSE sys[p][b]
       /\ \A q \in Proc \ {p} : sys[q]["SHARED"] = "none"

\* A unixFileLock() that succeeds is such a step.
LEMMA FileLockEffect ==
  ASSUME IInv, NEW p \in Proc, NEW type \in {"none", "rd", "wr"},
         NEW bytes \in SUBSET Byte, NEW ino \in InodeType, FileLock(p, type, bytes, ino)
  PROVE  Locked(p, type, bytes, ino)
<1>1. /\ inode' = [inode EXCEPT ![p] = ino] /\ faults' \in 0..MaxFaults
      /\ inode'[p] = ino /\ \A q \in Proc \ {p} : inode'[q] = inode[q]
  BY DEF FileLock, IInv, TypeOK
<1>2. sys' = SysAfter(p, type, bytes) /\ FileLockOk(p, type, bytes)
  BY DEF FileLock
<1>3. TypeOK /\ KernelInv
  BY DEF IInv
<1> QED BY <1>1, <1>2, <1>3, FileLockKernel DEF NoSysCall, SysType, Locked

\* A unixFileLock() that fails changes no lock and counts nothing.
LEMMA FileLockFailsEffect ==
  ASSUME IInv, NEW p \in Proc, NEW type, NEW bytes, NEW ino \in InodeType,
         FileLockFails(p, type, bytes, ino)
  PROVE  /\ inode' = [inode EXCEPT ![p] = ino] /\ inode'[p] = ino
         /\ faults' \in 0..MaxFaults /\ sys' = sys /\ sys' \in SysType
         /\ ~inode[p].bProcessLock
         /\ \A q \in Proc \ {p} : inode'[q] = inode[q]
  BY ConstAssumption DEF FileLockFails, NoSysCall, IInv, TypeOK, SysType

\* unixOpen() before findInodeInfo() keeps the invariant.
LEMMA OpenStep == ASSUME IInv, NEW c \in Conn, Open(c) PROVE IInv'
<1> DEFINE p == ProcOf[c]
           old == inode[p]
           ino == [old EXCEPT !.nUnused = IF @ > 0 THEN @ - 1 ELSE @]
<1>1. /\ ino \in InodeType /\ ino.nShared = old.nShared /\ ino.nRef = old.nRef
      /\ ino.nLock = old.nLock /\ ino.eFileLock = old.eFileLock
      /\ ino.bProcessLock = old.bProcessLock /\ ino.nUnused <= old.nUnused
      /\ ino.nUnused \in Nat
  BY Facts DEF InodeType
<1>2. inode' = [inode EXCEPT ![p] = ino]
  BY DEF Open
<1> HIDE DEF ino
<1>3. /\ pc[c] = "closed" /\ MutexFree(p) /\ pc'[c] = "opening" /\ sys' = sys
      /\ eFileLock'[c] = eFileLock[c] /\ req'[c] = req[c] /\ inode'[p] = ino
      /\ Frame(c)
  BY <1>1, <1>2, Facts, Types DEF Open, Frame, PcSet
<1>4. KernelInv' /\ AloneInv'
  BY <1>1, <1>3, Facts, Update, SameSys
<1>5. StepAt(c)'
  BY <1>1, <1>3, Facts DEF StepAt
<1>6. BackedAt(p)'
  BY <1>1, <1>3, Facts, Update DEF BackedAt, ProcessLock, Handles
<1>7. \A d \in Handles(p) : SiblingAt(d)'
  BY <1>1, <1>3, Facts, Update DEF SiblingAt, Handles
<1> QED BY <1>1, <1>3, <1>4, <1>5, <1>6, <1>7, Facts, LocalStep

\* findInodeInfo() keeps the invariant.
LEMMA FindInodeInfoStep == ASSUME IInv, NEW c \in Conn, FindInodeInfo(c) PROVE IInv'
<1> DEFINE p == ProcOf[c]
           old == inode[p]
           ino == [old EXCEPT !.nRef = @ + 1]
<1>1. /\ ino \in InodeType /\ ino.nShared = old.nShared /\ ino.nRef = old.nRef + 1
      /\ ino.nLock = old.nLock /\ ino.eFileLock = old.eFileLock
      /\ ino.bProcessLock = old.bProcessLock /\ ino.nUnused = old.nUnused
  BY Facts DEF InodeType
<1>2. inode' = [inode EXCEPT ![p] = ino]
  BY DEF FindInodeInfo
<1> HIDE DEF ino
<1>3. /\ pc[c] = "opening" /\ MutexFree(p) /\ pc'[c] = "idle" /\ sys' = sys
      /\ eFileLock'[c] = eFileLock[c] /\ req'[c] = req[c] /\ inode'[p] = ino
      /\ Frame(c)
  BY <1>1, <1>2, Facts, Types DEF FindInodeInfo, Frame, PcSet
<1>4. KernelInv' /\ AloneInv'
  BY <1>1, <1>3, Facts, Update, SameSys
<1>5. StepAt(c)'
  BY <1>1, <1>3, Facts DEF StepAt
<1>6. BackedAt(p)'
  BY <1>1, <1>3, Facts, Update DEF BackedAt, ProcessLock, Handles
<1>7. \A d \in Handles(p) : SiblingAt(d)'
  BY <1>1, <1>3, Facts, Update DEF SiblingAt, Handles
<1> QED BY <1>1, <1>3, <1>4, <1>5, <1>6, <1>7, Facts, LocalStep

\* A failing findInodeInfo() closes a descriptor, but no handle is open then.
LEMMA FindInodeInfoFailsStep ==
  ASSUME IInv, NEW c \in Conn, FindInodeInfoFails(c) PROVE IInv'
<1> DEFINE p == ProcOf[c]
           old == inode[p]
<1>1. /\ pc[c] = "opening" /\ MutexFree(p) /\ pc'[c] = "closed" /\ sys' = CloseFd(p)
      /\ eFileLock'[c] = eFileLock[c] /\ req'[c] = req[c] /\ inode' = inode
      /\ old.nRef = 0
  BY Facts DEF FindInodeInfoFails, IInv, TypeOK
<1>2. old.nLock = 0 /\ old.nShared = 0 /\ ~old.bProcessLock /\ old.eFileLock = NO_LOCK
  BY <1>1, Facts DEF BackedAt, ProcessLock, MutexFree, UnlockSteps
<1>3. /\ KernelInv' /\ AloneInv' /\ sys' \in SysType
      /\ \A q \in Proc \ {p} : sys'[q] = sys[q]
      /\ \A b \in Byte : sys'[p][b] = "none"
  BY <1>1, <1>2, Facts, CloseSys
<1>4. Frame(c)
  BY <1>1, <1>3, Facts, Types DEF FindInodeInfoFails, Frame, PcSet
<1>5. StepAt(c)'
  BY <1>1, Facts DEF StepAt
<1>6. BackedAt(p)'
  BY <1>1, <1>2, <1>4, Facts, Update DEF BackedAt, ProcessLock, Handles, MutexFree, UnlockSteps
<1>7. \A d \in Handles(p) : SiblingAt(d)'
  BY <1>1, <1>4, Facts, Update DEF SiblingAt, Handles
<1> QED BY <1>1, <1>3, <1>4, <1>5, <1>6, <1>7, Facts, LocalStep

\* The checks unixLock() makes before its first system call.
LEMMA LockEnterStep ==
  ASSUME IInv, NEW c \in Conn, NEW l \in Level, LockEnter(c, l) PROVE IInv'
<1> DEFINE p == ProcOf[c]
           old == inode[p]
<1>1. /\ pc[c] = "idle" /\ MutexFree(p) /\ sys' = sys /\ sys' \in SysType
      /\ closing' \subseteq Conn /\ faults' \in 0..MaxFaults
      /\ l > eFileLock[c] /\ (eFileLock[c] # NO_LOCK \/ l = SHARED_LOCK)
      /\ l # PENDING_LOCK /\ (l = RESERVED_LOCK => eFileLock[c] = SHARED_LOCK)
      /\ eFileLock[c] = old.eFileLock \/ (old.eFileLock < PENDING_LOCK /\ l <= SHARED_LOCK)
      /\ \A d \in Handles(p) : pc[d] # "ul_all"
  BY Facts DEF LockEnter, SiblingBlocks, IInv, TypeOK, SysType, MutexFree, UnlockSteps
<1>2. CASE l = SHARED_LOCK /\ old.eFileLock \in {SHARED_LOCK, RESERVED_LOCK}
  <2> DEFINE ino == [old EXCEPT !.nShared = @ + 1, !.nLock = @ + 1]
  <2>1. /\ ino \in InodeType /\ ino.nShared = old.nShared + 1 /\ ino.nRef = old.nRef
        /\ ino.nLock = old.nLock + 1 /\ ino.eFileLock = old.eFileLock
        /\ ino.bProcessLock = old.bProcessLock /\ ino.nUnused = old.nUnused
    BY Facts, InodeJoin
  <2>2. inode' = [inode EXCEPT ![p] = ino]
    BY <1>2 DEF LockEnter
  <2> HIDE DEF ino
  <2>3. /\ pc' = pc /\ req' = req /\ eFileLock' = [eFileLock EXCEPT ![c] = SHARED_LOCK]
    BY <1>2 DEF LockEnter
  <2>4. pc'[c] = "idle" /\ eFileLock'[c] = SHARED_LOCK /\ inode'[p] = ino /\ Frame(c)
    BY <1>1, <2>1, <2>2, <2>3, Facts, Types DEF Frame, PcSet
  <2>5. KernelInv' /\ AloneInv'
    BY <1>1, <1>2, <2>1, <2>4, Facts, Update, SameSys
  <2>6. StepAt(c)'
    BY <2>4 DEF StepAt
  <2>7. BackedAt(p)'
    BY <1>1, <1>2, <2>1, <2>4, Facts, Update, Counted DEF BackedAt, ProcessLock
  <2>8. \A d \in Handles(p) : SiblingAt(d)'
    BY <1>1, <1>2, <2>1, <2>4, Facts, Update DEF SiblingAt, Handles
  <2> QED BY <1>1, <2>1, <2>4, <2>5, <2>6, <2>7, <2>8, Facts, LocalStep
<1>3. CASE ~(l = SHARED_LOCK /\ old.eFileLock \in {SHARED_LOCK, RESERVED_LOCK})
  <2>1. /\ inode' = inode /\ eFileLock' = eFileLock /\ req' = [req EXCEPT ![c] = l]
        /\ \/ /\ l = SHARED_LOCK \/ (l = EXCLUSIVE_LOCK /\ eFileLock[c] < PENDING_LOCK)
              /\ pc' = [pc EXCEPT ![c] = "lk_pending"]
           \/ /\ l = RESERVED_LOCK \/ (l = EXCLUSIVE_LOCK /\ eFileLock[c] = PENDING_LOCK)
              /\ ~(l = EXCLUSIVE_LOCK /\ old.nShared > 1)
              /\ pc' = [pc EXCEPT ![c] = "lk_write"]
    BY <1>3 DEF LockEnter, SiblingReads
  <2>2. /\ req'[c] = l /\ pc'[c] \in {"lk_pending", "lk_write"} /\ Frame(c)
        /\ pc'[c] = "lk_pending" => l = SHARED_LOCK \/ (l = EXCLUSIVE_LOCK /\ eFileLock[c] < PENDING_LOCK)
        /\ pc'[c] = "lk_write" =>
             /\ l = RESERVED_LOCK \/ (l = EXCLUSIVE_LOCK /\ eFileLock[c] = PENDING_LOCK)
             /\ ~(l = EXCLUSIVE_LOCK /\ old.nShared > 1)
    BY <1>1, <2>1, Facts, Types DEF Frame, PcSet, LockSteps
  <2>3. KernelInv' /\ AloneInv'
    BY <1>1, <2>1, Facts, SameSys
  <2>4. StepAt(c)'
    <3>1. pc'[c] = "lk_pending" =>
            \/ l = SHARED_LOCK /\ old.eFileLock = NO_LOCK /\ eFileLock[c] = NO_LOCK
            \/ /\ l = EXCLUSIVE_LOCK /\ eFileLock[c] = old.eFileLock
               /\ eFileLock[c] \in {SHARED_LOCK, RESERVED_LOCK}
      BY <1>1, <1>3, <2>2, Facts
    <3>2. pc'[c] = "lk_write" =>
            /\ eFileLock[c] = old.eFileLock /\ eFileLock[c] >= SHARED_LOCK
            /\ l = EXCLUSIVE_LOCK => old.nShared = 1
      BY <1>1, <2>2, Facts, Counted
    <3>3. p \notin ExclProc /\ old.eFileLock = PENDING_LOCK => sys[p]["PENDING"] = "wr"
      BY Facts DEF BackedAt
    <3> QED BY <1>1, <2>1, <2>2, <3>1, <3>2, <3>3 DEF StepAt
  <2>5. BackedAt(p)'
    BY <1>1, <2>1, <2>2, Facts, Update DEF BackedAt, ProcessLock
  <2>6. \A d \in Handles(p) : SiblingAt(d)'
    BY <1>1, <2>1, <2>2, Facts, Update DEF SiblingAt
  <2> QED BY <1>1, <2>1, <2>2, <2>3, <2>4, <2>5, <2>6, Facts, LocalStep
<1> QED BY <1>2, <1>3

\* A call that gives up without having changed the inode or a lock.
LEMMA FailedCall ==
  ASSUME IInv, NEW c \in Conn, NEW type, NEW bytes,
         pc[c] \in LockSteps \/ pc[c] \in {"ul_rdlock", "ul_pending"},
         FileLockFails(ProcOf[c], type, bytes, inode[ProcOf[c]]),
         \E k \in {"idle", "closing", "lk_drop_fail"} :
           pc' = [pc EXCEPT ![c] = k] /\ (k = "lk_drop_fail" => pc[c] = "lk_shared"),
         eFileLock' = eFileLock, req' = req, closing' \subseteq Conn
  PROVE  IInv'
<1> DEFINE p == ProcOf[c]
<1> PICK k \in {"idle", "closing", "lk_drop_fail"} :
           pc' = [pc EXCEPT ![c] = k] /\ (k = "lk_drop_fail" => pc[c] = "lk_shared")
  OBVIOUS
<1>1. inode' = [inode EXCEPT ![p] = inode[p]] /\ faults' \in 0..MaxFaults /\ sys' = sys
  BY Facts, FileLockFailsEffect
<1>2. inode' = inode /\ sys' \in SysType
  BY <1>1, Types
<1>3. /\ pc[c] \in Steps /\ pc'[c] = k /\ Frame(c)
      /\ eFileLock'[c] = eFileLock[c] /\ req'[c] = req[c]
      /\ pc[c] \notin {"closed", "opening", "ul_all"}
  BY <1>1, <1>2, Facts, Types DEF Frame, PcSet, Steps, LockSteps, UnlockSteps
<1>4. KernelInv' /\ AloneInv'
  BY <1>1, <1>2, Facts, SameSys
<1>5. StepAt(c)'
  BY <1>1, <1>2, <1>3, Facts DEF StepAt
<1>6. BackedAt(p)'
  BY <1>1, <1>2, <1>3, Facts, Update DEF BackedAt, ProcessLock
<1>7. \A d \in Handles(p) : SiblingAt(d)'
  BY <1>2, <1>3, Facts, Update DEF SiblingAt
<1> QED BY <1>1, <1>2, <1>3, <1>4, <1>5, <1>6, <1>7, Facts, LocalStep

\* While a process has a lock on the pending byte, or another one none on the
\* shared range, that other one has no EXCLUSIVE lock.
LEMMA NoExclusiveElsewhere ==
  ASSUME IInv, NEW p \in Proc, NEW q \in Proc \ {p}, q \notin ExclProc,
         sys[p]["PENDING"] # "none" \/ sys[q]["SHARED"] = "none"
  PROVE  inode[q].eFileLock # EXCLUSIVE_LOCK
<1>1. BackedAt(q) /\ (sys[q]["PENDING"] = "wr" => sys[p]["PENDING"] = "none")
  BY DEF IInv, BackedInv, KernelInv, Byte
<1>2. \A c \in Handles(q) : pc[c] = "ul_all" => sys[q]["SHARED"] # "none"
  BY DEF IInv, StepInv, StepAt, Handles
<1>3. inode[q].nShared \in Nat
  BY DEF IInv, TypeOK, InodeType
<1> QED BY <1>1, <1>2, <1>3 DEF BackedAt

\* What a step of process p must respect to keep AloneInv.
LEMMA AloneStep ==
  ASSUME IInv, NEW p \in Proc,
         \A q \in Proc \ {p} : inode'[q] = inode[q] /\ sys'[q] = sys[q],
         p \notin ExclProc /\ inode'[p].eFileLock = EXCLUSIVE_LOCK =>
           \A q \in Proc \ {p} : sys[q]["SHARED"] = "none",
         \/ sys'[p]["SHARED"] = "none"
         \/ sys[p]["SHARED"] # "none"
         \/ sys[p]["PENDING"] # "none"
         \/ \A q \in Proc \ {p} : sys[q]["SHARED"] = "none"
  PROVE  AloneInv'
<1> SUFFICES ASSUME NEW q \in Proc, NEW r \in Proc, q # r, q \notin ExclProc,
                    inode'[q].eFileLock = EXCLUSIVE_LOCK
             PROVE  sys'[r]["SHARED"] = "none"
  BY DEF AloneInv
<1>1. CASE q = p
  BY <1>1
<1>2. CASE q # p
  <2>1. inode[q].eFileLock = EXCLUSIVE_LOCK /\ sys[r]["SHARED"] = "none"
    BY <1>2 DEF IInv, AloneInv
  <2> QED BY <1>2, <2>1, NoExclusiveElsewhere
<1> QED BY <1>1, <1>2

\* The fcntl() on the pending byte.
LEMMA LockPendingStep == ASSUME IInv, NEW c \in Conn, LockPending(c) PROVE IInv'
<1> DEFINE p == ProcOf[c]
           old == inode[p]
           type == IF req[c] = SHARED_LOCK THEN "rd" ELSE "wr"
           a == InodeAfter(p)
<1>1. /\ pc[c] = "lk_pending" /\ pc[c] \in Steps /\ req' = req /\ req'[c] = req[c]
      /\ closing' \subseteq Conn
      /\ pc[c] \in LockSteps
      /\ type \in {"none", "rd", "wr"} /\ {"PENDING"} \in SUBSET Byte
      /\ req[c] = SHARED_LOCK => type = "rd"
      /\ req[c] # SHARED_LOCK => type = "wr"
      /\ \A d \in Handles(p) : pc[d] # "ul_all"
  BY Facts, Types DEF LockPending, Steps, LockSteps, UnlockSteps, Byte
<1>2. /\ req[c] \in {SHARED_LOCK, EXCLUSIVE_LOCK}
      /\ req[c] = SHARED_LOCK => eFileLock[c] = NO_LOCK /\ old.eFileLock = NO_LOCK
      /\ req[c] = EXCLUSIVE_LOCK =>
           eFileLock[c] = old.eFileLock /\ eFileLock[c] \in {SHARED_LOCK, RESERVED_LOCK}
  BY <1>1, Facts DEF StepAt
<1>3. /\ a \in InodeType
      /\ a.nShared = old.nShared /\ a.nRef = old.nRef /\ a.eFileLock = old.eFileLock
      /\ a.nUnused = old.nUnused
      /\ a.bProcessLock <=> old.bProcessLock \/ p \in ExclProc
      /\ a.nLock = IF p \in ExclProc /\ ~old.bProcessLock THEN old.nLock + 1 ELSE old.nLock
      /\ a.bProcessLock \in BOOLEAN
  BY Facts, InodeAfterFields
<1> HIDE DEF a, type
<1>4. CASE /\ FileLock(p, type, {"PENDING"}, a) /\ UNCHANGED eFileLock
           /\ \/ req[c] = SHARED_LOCK /\ pc' = [pc EXCEPT ![c] = "lk_shared"]
              \/ /\ req[c] = EXCLUSIVE_LOCK /\ ~SiblingReads(p, req[c])
                 /\ pc' = [pc EXCEPT ![c] = "lk_write"]
  <2>1. Locked(p, type, {"PENDING"}, a)
    BY <1>1, <1>3, <1>4, Facts, FileLockEffect
  <2>2. /\ pc'[c] \in {"lk_shared", "lk_write"} /\ eFileLock'[c] = eFileLock[c] /\ Frame(c)
        /\ pc'[c] = "lk_shared" => req[c] = SHARED_LOCK
        /\ pc'[c] = "lk_write" => req[c] = EXCLUSIVE_LOCK /\ old.nShared <= 1
    BY <1>1, <1>3, <1>4, <2>1, Facts, Types DEF Locked, Frame, PcSet, LockSteps, SiblingReads
  <2>3. /\ p \notin ExclProc => ~old.bProcessLock
        /\ old.bProcessLock => sys[p]["SHARED"] = "wr"
        /\ p \in ExclProc /\ old.nShared > 0 => old.bProcessLock
    BY Facts DEF BackedAt
  <2>4. AloneInv'
    BY <1>2, <1>3, <2>1, <2>3, Facts, AloneStep DEF Locked, Byte
  <2>5. StepAt(c)'
    BY <1>1, <1>2, <1>3, <2>1, <2>2, <2>3, Facts, Counted DEF Locked, StepAt, Byte
  <2>6. BackedAt(p)'
    BY <1>1, <1>2, <1>3, <2>1, <2>2, <2>3, Facts, Counted, Update DEF Locked, BackedAt, ProcessLock, Byte
  <2>7. \A d \in Handles(p) : SiblingAt(d)'
    BY <1>1, <1>3, <2>1, <2>2, Facts, Update DEF Locked, SiblingAt
  <2> QED BY <1>1, <1>3, <2>1, <2>2, <2>4, <2>5, <2>6, <2>7, Facts, LocalStep DEF Locked
<1>5. CASE /\ SiblingReads(p, req[c])
           /\ FileLock(p, type, {"PENDING"}, [a EXCEPT !.eFileLock = PENDING_LOCK])
           /\ pc' = [pc EXCEPT ![c] = "idle"]
           /\ eFileLock' = [eFileLock EXCEPT ![c] = PENDING_LOCK]
  <2> DEFINE ino == [a EXCEPT !.eFileLock = PENDING_LOCK]
  <2>1. /\ ino \in InodeType
        /\ ino.nShared = old.nShared /\ ino.nRef = old.nRef /\ ino.eFileLock = PENDING_LOCK
        /\ ino.nUnused = old.nUnused /\ ino.bProcessLock = a.bProcessLock /\ ino.nLock = a.nLock
    BY <1>3, InodeField DEF InodeType
  <2> HIDE DEF ino
  <2>2. /\ FileLock(p, type, {"PENDING"}, ino)
        /\ pc' = [pc EXCEPT ![c] = "idle"] /\ eFileLock' = [eFileLock EXCEPT ![c] = PENDING_LOCK]
        /\ req[c] = EXCLUSIVE_LOCK /\ old.nShared > 1
    BY <1>5 DEF ino, SiblingReads
  <2>3. Locked(p, type, {"PENDING"}, ino)
    BY <1>1, <2>1, <2>2, Facts, FileLockEffect
  <2>4. /\ pc'[c] = "idle" /\ eFileLock'[c] = PENDING_LOCK /\ Frame(c)
    BY <1>1, <2>1, <2>2, <2>3, Facts, Types DEF Locked, Frame, PcSet
  <2>5. /\ p \notin ExclProc => ~old.bProcessLock
        /\ old.bProcessLock => sys[p]["SHARED"] = "wr"
        /\ p \in ExclProc => old.bProcessLock
        /\ sys[p]["SHARED"] # "none"
    BY <2>2, Facts DEF BackedAt
  <2>6. AloneInv'
    BY <2>1, <2>3, <2>5, Facts, AloneStep DEF Locked, Byte
  <2>7. StepAt(c)'
    BY <2>4 DEF StepAt
  <2>8. BackedAt(p)'
    BY <1>1, <1>2, <1>3, <2>1, <2>2, <2>3, <2>4, <2>5, Facts, Update DEF Locked, BackedAt, ProcessLock, Byte
  <2>9. \A d \in Handles(p) : SiblingAt(d)'
    BY <1>1, <1>2, <2>1, <2>2, <2>3, <2>4, Facts, Update DEF Locked, SiblingAt, Handles
  <2> QED BY <1>1, <1>2, <2>1, <2>2, <2>3, <2>4, <2>6, <2>7, <2>8, <2>9, Facts, LocalStep DEF Locked
<1>6. CASE /\ FileLockFails(p, type, {"PENDING"}, inode[p])
           /\ pc' = [pc EXCEPT ![c] = "idle"] /\ UNCHANGED eFileLock
  BY <1>1, <1>6, FailedCall
<1> QED BY <1>4, <1>5, <1>6 DEF LockPending, a, type

\* The fcntl() on the shared range that makes a reader.
LEMMA LockSharedStep == ASSUME IInv, NEW c \in Conn, LockShared(c) PROVE IInv'
<1> DEFINE p == ProcOf[c]
           old == inode[p]
           a == InodeAfter(p)
<1>1. /\ pc[c] = "lk_shared" /\ pc[c] \in Steps /\ pc[c] \in LockSteps /\ req' = req
      /\ closing' \subseteq Conn /\ eFileLock' = eFileLock
      /\ eFileLock[c] = NO_LOCK /\ old.eFileLock = NO_LOCK
      /\ p \notin ExclProc => sys[p]["PENDING"] = "rd"
      /\ p \in ExclProc => old.bProcessLock
      /\ "rd" \in {"none", "rd", "wr"} /\ {"SHARED"} \in SUBSET Byte
      /\ \A d \in Handles(p) : pc[d] # "ul_all"
  BY Facts, Types DEF LockShared, StepAt, Steps, LockSteps, UnlockSteps, Byte
<1>2. a \in InodeType /\ (old.bProcessLock \/ p \notin ExclProc => a = old)
  BY Facts, InodeAfterFields DEF InodeAfter, NoSysCall
<1> HIDE DEF a
<1>3. CASE /\ FileLock(p, "rd", {"SHARED"}, a) /\ pc' = [pc EXCEPT ![c] = "lk_drop_ok"]
  <2>1. Locked(p, "rd", {"SHARED"}, a)
    BY <1>1, <1>2, <1>3, Facts, FileLockEffect
  <2>2. pc'[c] = "lk_drop_ok" /\ eFileLock'[c] = NO_LOCK /\ a = old /\ inode'[p] = old /\ Frame(c)
    BY <1>1, <1>2, <1>3, <2>1, Facts, Types DEF Locked, Frame, PcSet, LockSteps
  <2>3. /\ p \notin ExclProc => ~old.bProcessLock
        /\ old.bProcessLock => sys[p]["SHARED"] = "wr"
    BY Facts DEF BackedAt
  <2>4. AloneInv'
    BY <1>1, <2>1, <2>2, <2>3, Facts, AloneStep DEF Locked
  <2>5. StepAt(c)'
    BY <1>1, <2>1, <2>2, <2>3, Facts DEF Locked, StepAt, Byte
  <2>6. BackedAt(p)'
    BY <1>1, <2>1, <2>2, <2>3, Facts, Update DEF Locked, BackedAt, ProcessLock, Byte
  <2>7. \A d \in Handles(p) : SiblingAt(d)'
    BY <1>1, <2>2, Facts, Update DEF SiblingAt
  <2> QED BY <1>1, <2>1, <2>2, <2>4, <2>5, <2>6, <2>7, Facts, LocalStep DEF Locked
<1>4. CASE /\ FileLockFails(p, "rd", {"SHARED"}, inode[p])
           /\ pc' = [pc EXCEPT ![c] = "lk_drop_fail"]
  BY <1>1, <1>4, FailedCall
<1> QED BY <1>3, <1>4 DEF LockShared, a

\* Dropping the pending byte ends the request for SHARED.
LEMMA LockDropPendingStep == ASSUME IInv, NEW c \in Conn, LockDropPending(c) PROVE IInv'
<1> DEFINE p == ProcOf[c]
           old == inode[p]
           a == InodeAfter(p)
<1>1. /\ pc[c] \in {"lk_drop_ok", "lk_drop_fail"} /\ pc[c] \in Steps /\ pc[c] \in LockSteps
      /\ req' = req /\ closing' \subseteq Conn /\ pc' = [pc EXCEPT ![c] = "idle"]
      /\ eFileLock[c] = NO_LOCK /\ old.eFileLock = NO_LOCK
      /\ p \in ExclProc => old.bProcessLock
      /\ pc[c] = "lk_drop_ok" => sys[p]["SHARED"] # "none"
      /\ "none" \in {"none", "rd", "wr"} /\ {"PENDING"} \in SUBSET Byte
      /\ \A d \in Handles(p) : pc[d] # "ul_all"
  BY Facts, Types DEF LockDropPending, StepAt, Steps, LockSteps, UnlockSteps, Byte
<1>2. a \in InodeType /\ a = old
  BY <1>1, Facts, InodeAfterFields DEF InodeAfter, NoSysCall
<1>3. /\ p \notin ExclProc => ~old.bProcessLock
      /\ old.bProcessLock => sys[p]["SHARED"] = "wr"
      /\ old.nShared = 0 /\ old.nLock = ProcessLock(p)
  BY <1>1, Facts DEF BackedAt, ProcessLock
<1> HIDE DEF a
<1>4. CASE /\ pc[c] = "lk_drop_ok"
           /\ FileLock(p, "none", {"PENDING"},
                       [a EXCEPT !.eFileLock = SHARED_LOCK, !.nLock = @ + 1, !.nShared = 1])
           /\ eFileLock' = [eFileLock EXCEPT ![c] = SHARED_LOCK]
  <2> DEFINE ino == [a EXCEPT !.eFileLock = SHARED_LOCK, !.nLock = @ + 1, !.nShared = 1]
  <2>1. ino \in InodeType
    <3>1. a.nLock + 1 \in Nat /\ 1 \in Nat /\ SHARED_LOCK \in Level
      BY <1>2 DEF InodeType
    <3> QED BY ONLY <1>2, <3>1, InodeFields
  <2>2. /\ ino.nShared = 1 /\ ino.nRef = old.nRef /\ ino.eFileLock = SHARED_LOCK
        /\ ino.nUnused = old.nUnused /\ ino.bProcessLock = old.bProcessLock
        /\ ino.nLock = old.nLock + 1
    BY <1>2 DEF InodeType
  <2>3. FileLock(p, "none", {"PENDING"}, ino)
    BY <1>4
  <2> HIDE DEF ino
  <2>4. Locked(p, "none", {"PENDING"}, ino)
    BY <1>1, <2>1, <2>3, Facts, FileLockEffect
  <2>5. pc'[c] = "idle" /\ eFileLock'[c] = SHARED_LOCK /\ inode'[p] = ino /\ Frame(c)
    BY <1>1, <1>4, <2>1, <2>4, Facts, Types DEF Locked, Frame, PcSet
  <2>6. AloneInv'
    BY <1>1, <1>3, <1>4, <2>2, <2>4, Facts, AloneStep DEF Locked
  <2>7. StepAt(c)'
    BY <2>5 DEF StepAt
  <2>8. BackedAt(p)'
    BY <1>1, <1>3, <1>4, <2>2, <2>4, <2>5, Facts, Counted, Update
       DEF Locked, BackedAt, ProcessLock, Byte
  <2>9. \A d \in Handles(p) : SiblingAt(d)'
    BY <1>1, <2>2, <2>5, Facts, Update DEF SiblingAt, Handles
  <2> QED BY <1>1, <1>3, <2>2, <2>4, <2>5, <2>6, <2>7, <2>8, <2>9, Facts, LocalStep DEF Locked
<1>5. CASE FileLock(p, "none", {"PENDING"}, a) /\ UNCHANGED eFileLock
  <2>1. Locked(p, "none", {"PENDING"}, a)
    BY <1>1, <1>2, <1>5, Facts, FileLockEffect
  <2>2. pc'[c] = "idle" /\ eFileLock'[c] = NO_LOCK /\ inode'[p] = old /\ Frame(c)
    BY <1>1, <1>2, <1>5, <2>1, Facts, Types DEF Locked, Frame, PcSet
  <2>3. AloneInv'
    BY <1>1, <1>3, <2>1, <2>2, Facts, AloneStep DEF Locked, Byte
  <2>4. StepAt(c)'
    BY <2>2 DEF StepAt
  <2>5. BackedAt(p)'
    BY <1>1, <1>3, <2>1, <2>2, Facts, Update DEF Locked, BackedAt, ProcessLock, Byte
  <2>6. \A d \in Handles(p) : SiblingAt(d)'
    BY <1>1, <2>2, Facts, Update DEF SiblingAt
  <2> QED BY <1>1, <2>1, <2>2, <2>3, <2>4, <2>5, <2>6, Facts, LocalStep DEF Locked
<1>6. CASE FileLockFails(p, "none", {"PENDING"}, inode[p]) /\ UNCHANGED eFileLock
  BY <1>1, <1>6, FailedCall
<1> QED BY <1>4, <1>5, <1>6 DEF LockDropPending, a

\* The write-lock for RESERVED or EXCLUSIVE.
LEMMA LockWriteStep == ASSUME IInv, NEW c \in Conn, LockWrite(c) PROVE IInv'
<1> DEFINE p == ProcOf[c]
           old == inode[p]
           a == InodeAfter(p)
           bytes == IF req[c] = RESERVED_LOCK THEN {"RESERVED"} ELSE {"SHARED"}
<1>1. /\ pc[c] = "lk_write" /\ pc[c] \in Steps /\ pc[c] \in LockSteps
      /\ req' = req /\ closing' \subseteq Conn /\ pc' = [pc EXCEPT ![c] = "idle"]
      /\ "wr" \in {"none", "rd", "wr"} /\ bytes \in SUBSET Byte
      /\ req[c] = RESERVED_LOCK => bytes = {"RESERVED"}
      /\ req[c] # RESERVED_LOCK => bytes = {"SHARED"}
      /\ \A d \in Handles(p) : pc[d] # "ul_all"
  BY Facts, Types DEF LockWrite, Steps, LockSteps, UnlockSteps, Byte
<1>2. /\ req[c] \in {RESERVED_LOCK, EXCLUSIVE_LOCK}
      /\ eFileLock[c] = old.eFileLock /\ eFileLock[c] >= SHARED_LOCK
      /\ req[c] = RESERVED_LOCK => eFileLock[c] = SHARED_LOCK
      /\ req[c] = EXCLUSIVE_LOCK => old.nShared = 1
      /\ req[c] = EXCLUSIVE_LOCK /\ p \notin ExclProc => sys[p]["PENDING"] = "wr"
  BY <1>1, Facts DEF StepAt
<1>3. /\ p \notin ExclProc => ~old.bProcessLock
      /\ p \in ExclProc => old.bProcessLock
      /\ old.bProcessLock => sys[p]["SHARED"] = "wr"
      /\ sys[p]["SHARED"] # "none" /\ old.nShared > 0
  BY <1>1, <1>2, Facts, Counted DEF BackedAt
<1>4. a = old /\ a \in InodeType
  BY <1>3, Facts DEF InodeAfter, NoSysCall
<1>5. \A d \in Handles(p) \ {c} : eFileLock[d] <= SHARED_LOCK
  BY <1>1, <1>2, Facts, Types DEF SiblingAt, Handles
<1> HIDE DEF a, bytes
<1>6. CASE /\ FileLock(p, "wr", bytes, [a EXCEPT !.eFileLock = req[c]])
           /\ eFileLock' = [eFileLock EXCEPT ![c] = req[c]]
  <2> DEFINE ino == [a EXCEPT !.eFileLock = req[c]]
  <2>1. ino \in InodeType
    BY <1>4, Facts, InodeField
  <2>2. /\ ino.nShared = old.nShared /\ ino.nRef = old.nRef /\ ino.eFileLock = req[c]
        /\ ino.nUnused = old.nUnused /\ ino.bProcessLock = old.bProcessLock
        /\ ino.nLock = old.nLock
    BY <1>4 DEF InodeType
  <2>3. FileLock(p, "wr", bytes, ino)
    BY <1>6
  <2> HIDE DEF ino
  <2>4. Locked(p, "wr", bytes, ino)
    BY <1>1, <2>1, <2>3, Facts, FileLockEffect
  <2>5. pc'[c] = "idle" /\ eFileLock'[c] = req[c] /\ inode'[p] = ino /\ Frame(c)
    BY <1>1, <1>6, <2>1, <2>4, Facts, Types DEF Locked, Frame, PcSet
  <2>6. AloneInv'
    <3>1. p \notin ExclProc /\ req[c] = EXCLUSIVE_LOCK =>
            sys'[p]["SHARED"] = "wr" /\ \A q \in Proc \ {p} : sys'[q]["SHARED"] = "none"
      BY <1>1, <1>3, <2>4, Facts DEF Locked, KernelInv, Byte
    <3> QED BY <1>2, <1>3, <2>2, <2>4, <3>1, Facts, AloneStep DEF Locked
  <2>7. StepAt(c)'
    BY <2>5 DEF StepAt
  <2>8. BackedAt(p)'
    BY <1>1, <1>2, <1>3, <2>2, <2>4, <2>5, Facts, Update
       DEF Locked, BackedAt, ProcessLock, Byte
  <2>9. \A d \in Handles(p) : SiblingAt(d)'
    BY <1>1, <1>2, <1>5, <2>2, <2>5, Facts, Update DEF SiblingAt, Handles
  <2> QED BY <1>1, <1>2, <2>2, <2>4, <2>5, <2>6, <2>7, <2>8, <2>9, Facts, LocalStep DEF Locked
<1>7. CASE /\ req[c] = EXCLUSIVE_LOCK
           /\ FileLockFails(p, "wr", bytes, [inode[p] EXCEPT !.eFileLock = PENDING_LOCK])
           /\ eFileLock' = [eFileLock EXCEPT ![c] = PENDING_LOCK]
  <2> DEFINE ino == [inode[p] EXCEPT !.eFileLock = PENDING_LOCK]
  <2>1. ino \in InodeType
    <3>1. inode[p] \in InodeType /\ PENDING_LOCK \in Level
      BY Facts
    <3> QED BY ONLY <3>1, InodeField
  <2>2. /\ ino.nShared = old.nShared /\ ino.nRef = old.nRef /\ ino.eFileLock = PENDING_LOCK
        /\ ino.nUnused = old.nUnused /\ ino.bProcessLock = old.bProcessLock
        /\ ino.nLock = old.nLock
    BY <1>4 DEF InodeType
  <2>3. FileLockFails(p, "wr", bytes, ino)
    BY <1>7
  <2> HIDE DEF ino
  <2>4. /\ inode' = [inode EXCEPT ![p] = ino] /\ inode'[p] = ino
        /\ faults' \in 0..MaxFaults /\ sys' = sys /\ sys' \in SysType
        /\ \A q \in Proc \ {p} : inode'[q] = inode[q]
    BY <2>1, <2>3, Facts, FileLockFailsEffect
  <2>5. pc'[c] = "idle" /\ eFileLock'[c] = PENDING_LOCK /\ Frame(c)
    BY <1>1, <1>7, <2>1, <2>4, Facts, Types DEF Frame, PcSet
  <2>6. KernelInv' /\ AloneInv'
    BY <2>2, <2>4, Facts, SameSys
  <2>7. StepAt(c)'
    BY <2>5 DEF StepAt
  <2>8. BackedAt(p)'
    BY <1>1, <1>2, <1>3, <1>7, <2>2, <2>4, <2>5, Facts, Update DEF BackedAt, ProcessLock
  <2>9. \A d \in Handles(p) : SiblingAt(d)'
    BY <1>1, <1>2, <1>5, <2>2, <2>4, <2>5, Facts, Update DEF SiblingAt, Handles
  <2> QED BY <1>1, <1>2, <2>2, <2>4, <2>5, <2>6, <2>7, <2>8, <2>9, Facts, LocalStep
<1>8. CASE /\ req[c] = RESERVED_LOCK /\ FileLockFails(p, "wr", bytes, inode[p])
           /\ UNCHANGED eFileLock
  BY <1>1, <1>8, FailedCall
<1> QED BY <1>6, <1>7, <1>8 DEF LockWrite, a, bytes

\* A reader leaves: the process's read-lock stays with a sibling, or goes on to
\* be released.  "ino" is the inode and sys' the locks at that moment.
LEMMA LeaveSharedStep ==
  ASSUME IInv, NEW c \in Conn, NEW ino \in InodeType, NEW ret \in {"idle", "closing"},
         pc[c] \in {"idle", "ul_pending"}, pc[c] \in Steps \/ MutexFree(ProcOf[c]),
         eFileLock[c] >= SHARED_LOCK,
         ino.nShared = inode[ProcOf[c]].nShared, ino.nRef = inode[ProcOf[c]].nRef,
         ino.nLock = inode[ProcOf[c]].nLock, ino.nUnused = inode[ProcOf[c]].nUnused,
         ino.bProcessLock = inode[ProcOf[c]].bProcessLock,
         ino.eFileLock >= SHARED_LOCK, ino.eFileLock = EXCLUSIVE_LOCK => ino.nShared <= 1,
         \A d \in Handles(ProcOf[c]) \ {c} :
           eFileLock[d] > SHARED_LOCK => ino.eFileLock = eFileLock[d],
         eFileLock[c] > SHARED_LOCK => ino.eFileLock = SHARED_LOCK,
         ino.eFileLock > SHARED_LOCK =>
           sys' = sys /\ ino.eFileLock = inode[ProcOf[c]].eFileLock,
         NEW sysNew \in SysType, LeaveShared(c, ino, sysNew, ret), KernelInv',
         \A q \in Proc \ {ProcOf[c]} : sysNew[q] = sys[q],
         sysNew[ProcOf[c]]["SHARED"] = sys[ProcOf[c]]["SHARED"],
         \A d \in Conn \ {c} : req'[d] = req[d], req' \in [Conn -> Level],
         closing' \subseteq Conn, faults' \in 0..MaxFaults
  PROVE  IInv'
<1> DEFINE p == ProcOf[c]
           old == inode[p]
<1>1. /\ \A d \in Handles(p) : pc[d] # "ul_all"
      /\ pc[c] \notin {"closed", "opening", "ul_all"}
  BY Facts DEF Steps, UnlockSteps, MutexFree
<1>2. /\ old.nLock = old.nShared + ProcessLock(p) /\ old.nShared >= 1
      /\ sys[p]["SHARED"] # "none"
      /\ old.bProcessLock => p \in ExclProc /\ sys[p]["SHARED"] = "wr"
      /\ p \in ExclProc => old.bProcessLock
      /\ ProcessLock(p) \in 0..1
  BY <1>1, Facts, Counted DEF BackedAt, ProcessLock
<1>3. sys' = sysNew
  BY DEF LeaveShared
<1>a. /\ p \notin ExclProc /\ ino.eFileLock = EXCLUSIVE_LOCK =>
           \A q \in Proc \ {p} : sys[q]["SHARED"] = "none"
      /\ \A q \in Proc \ {p} : sys'[q] = sys[q]
      /\ sys'[p]["SHARED"] = sys[p]["SHARED"]
      /\ p \in Proc /\ ret \in PcSet /\ "ul_all" \in PcSet
  BY <1>3, Facts DEF IInv, AloneInv, PcSet, UnlockSteps
<1>b. /\ p \notin ExclProc /\ ino.eFileLock = RESERVED_LOCK => sys'[p]["RESERVED"] = "wr"
      /\ p \notin ExclProc /\ ino.eFileLock >= PENDING_LOCK => sys'[p]["PENDING"] = "wr"
      /\ old.nLock > 0 /\ old.nRef > 0
  <2>1. ino.eFileLock > SHARED_LOCK => sys' = sys /\ ino.eFileLock = old.eFileLock
    OBVIOUS
  <2>2. /\ p \notin ExclProc /\ old.eFileLock = RESERVED_LOCK => sys[p]["RESERVED"] = "wr"
        /\ p \notin ExclProc /\ old.eFileLock >= PENDING_LOCK => sys[p]["PENDING"] = "wr"
        /\ old.nLock > 0 => old.nRef > 0
    BY Facts DEF BackedAt
  <2>3. old.nLock > 0 /\ old.eFileLock \in Level /\ ino.eFileLock \in Level
    BY <1>2, Facts DEF InodeType
  <2> QED BY <2>1, <2>2, <2>3
<1>4. CASE /\ ino.nShared > 1
           /\ inode' = [inode EXCEPT ![p] = [ino EXCEPT !.nShared = @ - 1, !.nLock = @ - 1]]
           /\ eFileLock' = [eFileLock EXCEPT ![c] = NO_LOCK] /\ pc' = [pc EXCEPT ![c] = ret]
  <2> DEFINE new == [ino EXCEPT !.nShared = @ - 1, !.nLock = @ - 1]
  <2>1. ino.nLock >= 1
    BY <1>2, Facts
  <2>2. /\ new \in InodeType /\ new.nShared = old.nShared - 1 /\ new.nRef = old.nRef
        /\ new.nLock = old.nLock - 1 /\ new.eFileLock = ino.eFileLock
        /\ new.bProcessLock = old.bProcessLock /\ new.nUnused = old.nUnused
    BY <1>4, <2>1, InodeLeave
  <2>3. inode' = [inode EXCEPT ![p] = new]
    BY <1>4
  <2> HIDE DEF new
  <2>4. inode'[p] = new /\ eFileLock'[c] = NO_LOCK /\ pc'[c] = ret /\ Frame(c)
    <3>1. /\ pc' \in [Conn -> PcSet] /\ pc'[c] = ret
          /\ \A d \in Conn \ {c} : pc'[d] = pc[d]
      BY <1>4, <1>a, Types
    <3>2. /\ eFileLock' \in [Conn -> Level] /\ eFileLock'[c] = NO_LOCK
          /\ \A d \in Conn \ {c} : eFileLock'[d] = eFileLock[d]
      BY <1>4, Types
    <3>3. /\ inode' \in [Proc -> InodeType] /\ inode'[p] = new
          /\ \A q \in Proc \ {p} : inode'[q] = inode[q]
      BY <1>a, <2>2, <2>3, Types
    <3> QED BY <1>3, <3>1, <3>2, <3>3 DEF Frame
  <2>5. AloneInv'
    BY <1>2, <1>a, <2>2, <2>4, Update, AloneStep
  <2>6. StepAt(c)'
    BY <2>4 DEF StepAt
  <2>7. BackedAt(p)'
    <3>1. /\ new.nLock = new.nShared + (IF new.bProcessLock THEN 1 ELSE 0)
          /\ new.nShared > 0 /\ new.nLock > 0 /\ new.eFileLock >= SHARED_LOCK
          /\ new.eFileLock # EXCLUSIVE_LOCK
      BY <1>2, <1>4, <2>2, Facts DEF ProcessLock
    <3> QED BY <1>2, <1>a, <1>b, <2>2, <2>4, <3>1 DEF BackedAt, ProcessLock
  <2>8. \A d \in Handles(p) : SiblingAt(d)'
    BY <1>1, <2>2, <2>4, Facts, Update DEF SiblingAt, Handles
  <2> QED BY <1>1, <1>3, <2>2, <2>4, <2>5, <2>6, <2>7, <2>8, Facts, LocalStep
<1>5. CASE /\ ino.nShared = 1 /\ inode' = [inode EXCEPT ![p] = [ino EXCEPT !.nShared = 0]]
           /\ pc' = [pc EXCEPT ![c] = "ul_all"] /\ UNCHANGED eFileLock
  <2> DEFINE new == [ino EXCEPT !.nShared = 0]
  <2>1. /\ new \in InodeType /\ new.nShared = 0 /\ new.nRef = old.nRef
        /\ new.nLock = old.nLock /\ new.eFileLock = ino.eFileLock
        /\ new.bProcessLock = old.bProcessLock /\ new.nUnused = old.nUnused
    BY <1>5 DEF InodeType
  <2>2. inode' = [inode EXCEPT ![p] = new]
    BY <1>5
  <2> HIDE DEF new
  <2>3. inode'[p] = new /\ eFileLock'[c] = eFileLock[c] /\ pc'[c] = "ul_all" /\ Frame(c)
    <3>1. /\ pc' \in [Conn -> PcSet] /\ pc'[c] = "ul_all"
          /\ \A d \in Conn \ {c} : pc'[d] = pc[d]
      BY <1>5, <1>a, Types
    <3>2. /\ eFileLock' \in [Conn -> Level] /\ eFileLock' = eFileLock
      BY <1>5, Types
    <3>3. /\ inode' \in [Proc -> InodeType] /\ inode'[p] = new
          /\ \A q \in Proc \ {p} : inode'[q] = inode[q]
      BY <1>a, <2>1, <2>2, Types
    <3> QED BY <1>3, <3>1, <3>2, <3>3 DEF Frame
  <2>4. AloneInv'
    BY <1>2, <1>a, <2>1, <2>3, Update, AloneStep
  <2>5. StepAt(c)'
    BY <1>2, <1>3, <1>5, <2>1, <2>3, Facts DEF StepAt, ProcessLock
  <2>6. BackedAt(p)'
    BY <1>2, <1>a, <1>b, <1>5, <2>1, <2>3, Facts DEF BackedAt, ProcessLock
  <2>7. \A d \in Handles(p) : SiblingAt(d)'
    <3>1. ASSUME NEW d \in Handles(p) \ {c} PROVE eFileLock'[d] = NO_LOCK
      <4>1. d \in Conn /\ ProcOf[d] = ProcOf[c] /\ eFileLock[d] \in Level /\ d # c
        BY Facts, Types
      <4>2. old.nShared = 1 /\ eFileLock[c] >= SHARED_LOCK /\ pc[c] # "ul_all" /\ pc[d] # "ul_all"
        BY <1>1, <1>5
      <4>3. ~(eFileLock[d] >= SHARED_LOCK)
        BY <4>1, <4>2, Counted
      <4> QED BY <1>5, <4>1, <4>3
    <3> SUFFICES ASSUME NEW d \in Handles(p) PROVE SiblingAt(d)'
      OBVIOUS
    <3>2. CASE d = c
      BY <2>3, <3>2 DEF SiblingAt
    <3>3. CASE d # c
      BY <3>1, <3>3 DEF SiblingAt
    <3> QED BY <3>2, <3>3
  <2>8. /\ inode'[p].nRef = inode[p].nRef /\ inode'[p].nShared = 0 /\ inode[p].nShared = 1
        /\ pc'[c] = "ul_all" /\ eFileLock[c] >= SHARED_LOCK
    BY <1>5, <2>1, <2>3
  <2> QED BY <1>1, <1>a, <2>3, <2>4, <2>5, <2>6, <2>7, <2>8, LocalStep
<1> QED BY <1>4, <1>5 DEF LeaveShared

\* posixUnlock() up to its first system call.
LEMMA UnlockEnterStep ==
  ASSUME IInv, NEW c \in Conn, NEW l \in Level, NEW ret \in {"idle", "closing"},
         UnlockEnter(c, l, ret), closing' \subseteq Conn
  PROVE  IInv'
<1> DEFINE p == ProcOf[c]
           old == inode[p]
<1>1. /\ pc[c] = "idle" /\ pc[c] \in {"idle", "ul_pending"} /\ MutexFree(p)
      /\ l \in {NO_LOCK, SHARED_LOCK} /\ eFileLock[c] > l
      /\ req' = [req EXCEPT ![c] = l] /\ faults' = faults
  BY DEF UnlockEnter
<1>2. /\ req' \in [Conn -> Level] /\ req'[c] = l /\ \A d \in Conn \ {c} : req'[d] = req[d]
      /\ faults' \in 0..MaxFaults
      /\ \A d \in Handles(p) : pc[d] # "ul_all"
  BY <1>1, Types DEF MutexFree, UnlockSteps
<1>3. CASE /\ eFileLock[c] > SHARED_LOCK /\ UNCHANGED <<eFileLock, inode, sys>>
           /\ pc' = [pc EXCEPT ![c] = IF l = SHARED_LOCK THEN "ul_rdlock" ELSE "ul_pending"]
  <2>1. pc'[c] \in {"ul_rdlock", "ul_pending"} /\ Frame(c)
    BY <1>1, <1>2, <1>3, Facts, Types DEF Frame, PcSet, UnlockSteps
  <2>2. KernelInv' /\ AloneInv'
    BY <1>3, Facts, SameSys
  <2>3. StepAt(c)'
    BY <1>1, <1>2, <1>3, <2>1 DEF StepAt
  <2>4. BackedAt(p)'
    BY <1>2, <1>3, <2>1, Facts DEF BackedAt, ProcessLock
  <2>5. \A d \in Handles(p) : SiblingAt(d)'
    BY <1>1, <1>2, <1>3, <2>1, Facts, Update DEF SiblingAt
  <2> QED BY <1>1, <1>3, <2>1, <2>2, <2>3, <2>4, <2>5, Facts, LocalStep
<1>4. CASE eFileLock[c] = SHARED_LOCK /\ LeaveShared(c, inode[p], sys, ret)
  <2>1. sys' = sys /\ sys \in SysType /\ KernelInv'
    BY <1>4, Types DEF LeaveShared, IInv, KernelInv
  <2>2. /\ old \in InodeType /\ old.eFileLock >= SHARED_LOCK
        /\ old.eFileLock = EXCLUSIVE_LOCK => old.nShared <= 1
    BY <1>1, <1>2, <1>4, Facts, Counted DEF BackedAt
  <2>3. \A d \in Handles(p) \ {c} : eFileLock[d] > SHARED_LOCK => old.eFileLock = eFileLock[d]
    BY <1>2, Facts DEF SiblingAt
  <2> QED BY <1>1, <1>2, <1>4, <2>1, <2>2, <2>3, LeaveSharedStep
<1> QED BY <1>3, <1>4 DEF UnlockEnter

\* The downgrade of the shared range.
LEMMA UnlockToReadStep == ASSUME IInv, NEW c \in Conn, UnlockToRead(c) PROVE IInv'
<1> DEFINE p == ProcOf[c]
           old == inode[p]
           a == InodeAfter(p)
<1>1. /\ pc[c] = "ul_rdlock" /\ pc[c] \in Steps /\ pc[c] \in {"ul_rdlock", "ul_pending"}
      /\ req' = req /\ closing' \subseteq Conn /\ eFileLock' = eFileLock
      /\ "rd" \in {"none", "rd", "wr"} /\ {"SHARED"} \in SUBSET Byte
      /\ eFileLock[c] > SHARED_LOCK /\ req[c] \in {NO_LOCK, SHARED_LOCK}
      /\ \A d \in Handles(p) : pc[d] # "ul_all"
  BY Facts, Types DEF UnlockToRead, StepAt, Steps, UnlockSteps, Byte
<1>2. /\ p \notin ExclProc => ~old.bProcessLock
      /\ p \in ExclProc => old.bProcessLock
      /\ old.bProcessLock => sys[p]["SHARED"] = "wr"
      /\ sys[p]["SHARED"] # "none" /\ old.nShared > 0
  BY <1>1, Facts, Counted DEF BackedAt
<1>3. a = old /\ a \in InodeType
  BY <1>2, Facts DEF InodeAfter, NoSysCall
<1> HIDE DEF a
<1>4. CASE FileLock(p, "rd", {"SHARED"}, a) /\ pc' = [pc EXCEPT ![c] = "ul_pending"]
  <2>1. Locked(p, "rd", {"SHARED"}, a)
    BY <1>1, <1>3, <1>4, Facts, FileLockEffect
  <2>2. pc'[c] = "ul_pending" /\ eFileLock'[c] = eFileLock[c] /\ inode'[p] = old /\ Frame(c)
    BY <1>1, <1>3, <1>4, <2>1, Facts, Types DEF Locked, Frame, PcSet, UnlockSteps
  <2>3. AloneInv'
    <3>1. p \notin ExclProc /\ old.eFileLock = EXCLUSIVE_LOCK =>
            \A q \in Proc \ {p} : sys[q]["SHARED"] = "none"
      BY Facts DEF IInv, AloneInv
    <3> QED BY <1>2, <2>1, <2>2, <3>1, Facts, AloneStep DEF Locked
  <2>4. StepAt(c)'
    BY <1>1, <2>2 DEF StepAt
  <2>5. BackedAt(p)'
    BY <1>1, <1>2, <2>1, <2>2, Facts DEF Locked, BackedAt, ProcessLock, Byte
  <2>6. \A d \in Handles(p) : SiblingAt(d)'
    BY <1>1, <2>2, Facts, Update DEF SiblingAt
  <2> QED BY <1>1, <2>1, <2>2, <2>3, <2>4, <2>5, <2>6, Facts, LocalStep DEF Locked
<1>5. CASE FileLockFails(p, "rd", {"SHARED"}, inode[p]) /\ pc' = [pc EXCEPT ![c] = Return(c)]
  BY <1>1, <1>5, FailedCall DEF Return
<1> QED BY <1>4, <1>5 DEF UnlockToRead, a

\* Giving up the pending and the reserved byte.
LEMMA UnlockPendingStep == ASSUME IInv, NEW c \in Conn, UnlockPending(c) PROVE IInv'
<1> DEFINE p == ProcOf[c]
           old == inode[p]
           a == InodeAfter(p)
           bytes == {"PENDING", "RESERVED"}
           ino == [a EXCEPT !.eFileLock = SHARED_LOCK]
<1>1. /\ pc[c] = "ul_pending" /\ pc[c] \in Steps /\ pc[c] \in {"ul_rdlock", "ul_pending"}
      /\ pc[c] \in {"idle", "ul_pending"}
      /\ req' = req /\ closing' \subseteq Conn /\ Return(c) \in {"idle", "closing"}
      /\ "none" \in {"none", "rd", "wr"} /\ bytes \in SUBSET Byte
      /\ eFileLock[c] > SHARED_LOCK /\ eFileLock[c] >= SHARED_LOCK
      /\ \A d \in Handles(p) : pc[d] # "ul_all"
  BY Facts, Types DEF UnlockPending, StepAt, Steps, UnlockSteps, Byte, Return
<1>2. /\ p \notin ExclProc => ~old.bProcessLock
      /\ p \in ExclProc => old.bProcessLock
      /\ old.bProcessLock => sys[p]["SHARED"] = "wr"
      /\ sys[p]["SHARED"] # "none" /\ old.nShared > 0
  BY <1>1, Facts, Counted DEF BackedAt
<1>3. a = old /\ a \in InodeType
  BY <1>2, Facts DEF InodeAfter, NoSysCall
<1> HIDE DEF a
<1>4. ino \in InodeType
  <2>1. SHARED_LOCK \in Level
    OBVIOUS
  <2> QED BY ONLY <1>3, <2>1, InodeField
<1>5. /\ ino.nShared = old.nShared /\ ino.nRef = old.nRef /\ ino.eFileLock = SHARED_LOCK
      /\ ino.nUnused = old.nUnused /\ ino.bProcessLock = old.bProcessLock
      /\ ino.nLock = old.nLock
  BY <1>3 DEF InodeType
<1>6. \A d \in Handles(p) \ {c} : eFileLock[d] <= SHARED_LOCK
  BY <1>1, Facts DEF SiblingAt
<1> HIDE DEF ino
<1>7. CASE /\ FileLock(p, "none", bytes, ino)
           /\ eFileLock' = [eFileLock EXCEPT ![c] = SHARED_LOCK]
           /\ pc' = [pc EXCEPT ![c] = Return(c)]
  <2>1. Locked(p, "none", bytes, ino)
    BY <1>1, <1>4, <1>7, Facts, FileLockEffect
  <2>2. /\ pc'[c] \in {"idle", "closing"} /\ eFileLock'[c] = SHARED_LOCK /\ inode'[p] = ino
        /\ Frame(c)
    BY <1>1, <1>4, <1>7, <2>1, Facts, Types DEF Locked, Frame, PcSet
  <2>3. AloneInv'
    BY <1>2, <1>5, <2>1, <2>2, Facts, AloneStep DEF Locked
  <2>4. StepAt(c)'
    BY <2>2 DEF StepAt
  <2>5. BackedAt(p)'
    BY <1>1, <1>2, <1>5, <2>1, <2>2, Facts DEF Locked, BackedAt, ProcessLock, Byte
  <2>6. \A d \in Handles(p) : SiblingAt(d)'
    BY <1>1, <1>6, <2>2, Facts, Update, Types DEF SiblingAt
  <2> QED BY <1>1, <1>5, <2>1, <2>2, <2>3, <2>4, <2>5, <2>6, Facts, LocalStep DEF Locked
<1>8. CASE /\ FileLockOk(p, "none", bytes) /\ UNCHANGED faults
           /\ LeaveShared(c, ino, SysAfter(p, "none", bytes), Return(c))
  <2> DEFINE sysNew == SysAfter(p, "none", bytes)
  <2>1. sys' = sysNew
    BY <1>8 DEF LeaveShared
  <2>2. /\ KernelInv' /\ sys' \in SysType /\ \A q \in Proc \ {p} : sys'[q] = sys[q]
        /\ NoSysCall(p) => sys' = sys
        /\ ~NoSysCall(p) /\ p \notin ExclProc =>
             \A b \in Byte : sys'[p][b] = IF b \in bytes THEN "none" ELSE sys[p][b]
    <3>1. TypeOK /\ KernelInv
      BY DEF IInv
    <3> QED BY <1>1, <1>8, <2>1, <3>1, Facts, FileLockKernel DEF SysType
  <2> HIDE DEF sysNew
  <2>3. /\ sysNew \in SysType /\ \A q \in Proc \ {p} : sysNew[q] = sys[q]
        /\ sysNew[p]["SHARED"] = sys[p]["SHARED"]
    BY <1>2, <2>1, <2>2 DEF NoSysCall, Byte
  <2>4. /\ \A d \in Conn \ {c} : req'[d] = req[d] /\ req' \in [Conn -> Level]
        /\ req' \in [Conn -> Level] /\ faults' \in 0..MaxFaults
        /\ LeaveShared(c, ino, sysNew, Return(c))
    BY <1>1, <1>8, Types DEF sysNew
  <2>5. /\ \A d \in Handles(p) \ {c} : eFileLock[d] > SHARED_LOCK => ino.eFileLock = eFileLock[d]
        /\ ino.eFileLock >= SHARED_LOCK /\ ~(ino.eFileLock > SHARED_LOCK)
        /\ ino.eFileLock # EXCLUSIVE_LOCK
    BY <1>5, <1>6, Facts, Types
  <2> HIDE DEF bytes
  <2> QED BY <1>1, <1>4, <1>5, <2>2, <2>3, <2>4, <2>5, LeaveSharedStep
<1>9. CASE /\ FileLockFails(p, "none", bytes, inode[p]) /\ UNCHANGED eFileLock
           /\ pc' = [pc EXCEPT ![c] = Return(c)]
  BY <1>1, <1>9, FailedCall
<1> QED BY <1>7, <1>8, <1>9 DEF UnlockPending, a, ino

\* Releasing the whole file, with the deferred closes.
LEMMA UnlockAllStep == ASSUME IInv, NEW c \in Conn, UnlockAll(c) PROVE IInv'
<1> DEFINE p == ProcOf[c]
           old == inode[p]
           a == InodeAfter(p)
           ino == [a EXCEPT !.eFileLock = NO_LOCK, !.nLock = @ - 1]
           closePending == ino.nLock = 0 /\ ino.nUnused > 0
           new == IF closePending THEN [ino EXCEPT !.nUnused = 0] ELSE ino
<1>1. /\ pc[c] = "ul_all" /\ pc[c] \in Steps /\ req' = req /\ closing' \subseteq Conn
      /\ pc' = [pc EXCEPT ![c] = Return(c)] /\ Return(c) \in {"idle", "closing"}
      /\ eFileLock' = [eFileLock EXCEPT ![c] = NO_LOCK]
      /\ "none" \in {"none", "rd", "wr"} /\ Byte \in SUBSET Byte
      /\ eFileLock[c] >= SHARED_LOCK /\ old.nShared = 0
      /\ old.nLock = 1 + ProcessLock(p) /\ (p \in ExclProc => old.bProcessLock)
      /\ \A d \in Handles(p) \ {c} : pc[d] # "ul_all"
  BY Facts, Types DEF UnlockAll, StepAt, Steps, UnlockSteps, Return
<1>2. /\ p \notin ExclProc => ~old.bProcessLock
      /\ old.bProcessLock => sys[p]["SHARED"] = "wr"
      /\ old.nUnused > 0 => old.nLock > 0
      /\ old.nLock > 0 => old.nRef > 0
  BY Facts DEF BackedAt
<1>3. a = old /\ a \in InodeType
  BY <1>1, Facts DEF InodeAfter, NoSysCall
<1> HIDE DEF a
<1>4. ino \in InodeType
  <2>1. a.nLock - 1 \in Nat /\ NO_LOCK \in Level
    BY <1>1, <1>3, Facts DEF ProcessLock
  <2> QED BY ONLY <1>3, <2>1, InodeFields
<1>5. /\ ino.nShared = 0 /\ ino.nRef = old.nRef /\ ino.eFileLock = NO_LOCK
      /\ ino.nUnused = old.nUnused /\ ino.bProcessLock = old.bProcessLock
      /\ ino.nLock = old.nLock - 1
  BY <1>1, <1>3, Facts DEF InodeType
<1> HIDE DEF ino
<1>6. new \in InodeType
  BY <1>4, InodeField
<1>7. /\ new.nShared = 0 /\ new.nRef = old.nRef /\ new.eFileLock = NO_LOCK
      /\ new.bProcessLock = old.bProcessLock /\ new.nLock = old.nLock - 1
      /\ new.nUnused > 0 => new.nLock > 0
  BY <1>1, <1>4, <1>5, Facts DEF InodeType
<1>8. /\ inode' = [inode EXCEPT ![p] = new]
      /\ \/ /\ FileLockOk(p, "none", Byte) /\ faults' = faults
            /\ sys' = IF closePending THEN CloseFd(p) ELSE SysAfter(p, "none", Byte)
         \/ /\ ~NoSysCall(p) /\ faults < MaxFaults /\ faults' = faults + 1
            /\ sys' = IF closePending THEN CloseFd(p) ELSE sys
  BY DEF UnlockAll, ino, a
<1>9. closePending => ~old.bProcessLock
  BY <1>1, <1>5, Facts DEF ProcessLock
<1> HIDE DEF new, closePending
<1>10. /\ faults' \in 0..MaxFaults /\ inode'[p] = new
       /\ \A q \in Proc \ {p} : inode'[q] = inode[q]
  BY <1>8, Facts, Types, ConstAssumption
<1>11. /\ KernelInv' /\ AloneInv' /\ sys' \in SysType
       /\ \A q \in Proc \ {p} : sys'[q] = sys[q]
       /\ old.bProcessLock => sys' = sys
  <2>1. CASE sys' = CloseFd(p) /\ closePending
    BY <1>7, <1>9, <1>10, <2>1, Facts, CloseSys
  <2>2. CASE sys' = SysAfter(p, "none", Byte) /\ FileLockOk(p, "none", Byte)
    <3>1. TypeOK /\ KernelInv
      BY DEF IInv
    <3>2. /\ KernelInv' /\ sys' \in SysType /\ \A q \in Proc \ {p} : sys'[q] = sys[q]
          /\ NoSysCall(p) => sys' = sys
          /\ ~NoSysCall(p) /\ p \notin ExclProc => sys'[p]["SHARED"] = "none"
      BY <1>1, <2>2, <3>1, Facts, FileLockKernel DEF SysType, Byte
    <3>3. \/ sys'[p]["SHARED"] = "none" \/ sys[p]["SHARED"] # "none"
      BY <1>1, <1>2, <3>2 DEF NoSysCall
    <3>4. AloneInv'
      BY <1>7, <1>10, <3>2, <3>3, Facts, AloneStep
    <3> QED BY <3>2, <3>4 DEF NoSysCall
  <2>3. CASE sys' = sys
    BY <1>7, <1>10, <2>3, Facts, SameSys
  <2> QED BY <1>8, <2>1, <2>2, <2>3
<1>12. pc'[c] \in {"idle", "closing"} /\ eFileLock'[c] = NO_LOCK /\ Frame(c)
  <2>1. /\ pc' \in [Conn -> PcSet] /\ pc'[c] \in {"idle", "closing"}
        /\ \A d \in Conn \ {c} : pc'[d] = pc[d]
    BY <1>1, Types DEF PcSet
  <2>2. /\ eFileLock' \in [Conn -> Level] /\ eFileLock'[c] = NO_LOCK
        /\ \A d \in Conn \ {c} : eFileLock'[d] = eFileLock[d]
    BY <1>1, Types
  <2>3. inode' \in [Proc -> InodeType]
    BY <1>6, <1>8, Facts, Types
  <2>4. req' \in [Conn -> Level] /\ \A d \in Conn \ {c} : req'[d] = req[d]
    BY <1>1, Types
  <2> QED BY <1>1, <1>10, <1>11, <2>1, <2>2, <2>3, <2>4 DEF Frame
<1>13. StepAt(c)'
  BY <1>12 DEF StepAt
<1>14. BackedAt(p)'
  <2>1. new.nLock = new.nShared + (IF new.bProcessLock THEN 1 ELSE 0)
    BY <1>1, <1>7, Facts DEF ProcessLock
  <2>2. new.bProcessLock => p \in ExclProc /\ sys'[p]["SHARED"] = "wr"
    BY <1>2, <1>7, <1>11
  <2>3. new.nLock > 0 => new.nRef > 0
    BY <1>2, <1>7, Facts
  <2> QED BY <1>7, <1>10, <2>1, <2>2, <2>3 DEF BackedAt, ProcessLock
<1>15. \A d \in Handles(p) : SiblingAt(d)'
  <2>1. ASSUME NEW d \in Handles(p) \ {c} PROVE eFileLock'[d] = NO_LOCK
    <3>1. d \in Conn /\ ProcOf[d] = ProcOf[c] /\ eFileLock[d] \in Level /\ pc[d] # "ul_all"
      BY <1>1, Facts, Types
    <3>2. ~(eFileLock[d] >= SHARED_LOCK)
      BY <1>1, <3>1, Counted
    <3> QED BY <1>12, <3>1, <3>2, Update
  <2> SUFFICES ASSUME NEW d \in Handles(p) PROVE SiblingAt(d)'
    OBVIOUS
  <2>2. CASE d = c
    BY <1>12, <2>2 DEF SiblingAt
  <2>3. CASE d # c
    BY <2>1, <2>3 DEF SiblingAt
  <2> QED BY <2>2, <2>3
<1>16. inode'[p].nRef = inode[p].nRef /\ inode'[p].nShared = inode[p].nShared
  BY <1>1, <1>7, <1>10
<1> QED BY <1>1, <1>11, <1>12, <1>13, <1>14, <1>15, <1>16, LocalStep

\* unixClose() up to the end of its unixUnlock().
LEMMA CloseEnterStep == ASSUME IInv, NEW c \in Conn, CloseEnter(c) PROVE IInv'
<1>1. pc[c] = "idle" /\ closing' \subseteq Conn
  BY Types DEF CloseEnter
<1>2. CASE UnlockEnter(c, NO_LOCK, "closing")
  <2>1. NO_LOCK \in Level /\ "closing" \in {"idle", "closing"}
    OBVIOUS
  <2> QED BY <1>1, <1>2, <2>1, UnlockEnterStep
<1>3. CASE /\ eFileLock[c] = NO_LOCK /\ pc' = [pc EXCEPT ![c] = "closing"]
           /\ UNCHANGED <<req, eFileLock, inode, sys, faults>>
  <2>1. /\ \A d \in Conn \ {c} : pc'[d] = pc[d]
        /\ pc'[c] = "closing" /\ pc' \in [Conn -> PcSet]
    BY <1>1, <1>3, Types DEF PcSet
  <2>2. TypeOK'
    BY <1>1, <1>3, <2>1, Types DEF TypeOK, PcSet, SysType
  <2>3. KernelInv' /\ AloneInv' /\ MutexInv' /\ SiblingInv'
    BY <1>1, <1>3, <2>1
       DEF IInv, KernelInv, AloneInv, MutexInv, SiblingInv, SiblingAt, Handles, Steps,
           LockSteps, UnlockSteps
  <2>4. StepInv'
    BY <1>1, <1>3, <2>1 DEF IInv, StepInv, StepAt, ProcessLock
  <2>5. ASSUME NEW p \in Proc
        PROVE  /\ OpenHandles(p)' = OpenHandles(p) /\ Readers(p)' = Readers(p)
               /\ \A d \in Handles(p) : pc'[d] = "ul_all" <=> pc[d] = "ul_all"
    BY <1>1, <1>3, <2>1 DEF OpenHandles, Readers, Handles
  <2>6. CountInv'
    <3> SUFFICES ASSUME NEW p \in Proc PROVE CountAt(p)'
      BY DEF CountInv
    <3>1. CountAt(p)
      BY DEF IInv, CountInv
    <3> QED BY <1>3, <2>5, <3>1 DEF CountAt
  <2>7. BackedInv'
    <3> SUFFICES ASSUME NEW p \in Proc PROVE BackedAt(p)'
      BY DEF BackedInv
    <3>1. BackedAt(p)
      BY DEF IInv, BackedInv
    <3> QED BY <1>3, <2>5, <3>1 DEF BackedAt, ProcessLock, Handles
  <2> QED BY <2>2, <2>3, <2>4, <2>6, <2>7 DEF IInv
<1> QED BY <1>2, <1>3 DEF CloseEnter

\* Every trace of a process on the file is gone: its last handle was closed, or
\* the process died.
LEMMA ResetStep ==
  ASSUME IInv, NEW p \in Proc,
         inode' = [inode EXCEPT ![p] = ZeroInode], sys' = CloseFd(p),
         pc' \in [Conn -> PcSet], eFileLock' \in [Conn -> Level],
         \A d \in Conn : ProcOf[d] # p => pc'[d] = pc[d] /\ eFileLock'[d] = eFileLock[d],
         \A d \in Conn : ProcOf[d] = p =>
           pc'[d] \in {"closed", "opening"} /\ eFileLock'[d] = NO_LOCK,
         req' = req, faults' = faults, closing' \subseteq Conn
  PROVE  IInv'
<1>1. /\ ZeroInode \in InodeType /\ ZeroInode.nShared = 0 /\ ZeroInode.nRef = 0
      /\ ZeroInode.nLock = 0 /\ ZeroInode.nUnused = 0 /\ ZeroInode.eFileLock = NO_LOCK
      /\ ZeroInode.bProcessLock = FALSE
  BY DEF ZeroInode, InodeType
<1>2. /\ inode' \in [Proc -> InodeType] /\ inode'[p] = ZeroInode
      /\ \A q \in Proc \ {p} : inode'[q] = inode[q]
  BY <1>1, Types
<1>3. /\ KernelInv' /\ AloneInv' /\ sys' \in SysType
      /\ \A q \in Proc \ {p} : sys'[q] = sys[q]
  BY <1>1, <1>2, CloseSys
<1>4. TypeOK'
  BY <1>2, <1>3, Types DEF TypeOK, PcSet, SysType
<1>5. MutexInv'
  BY DEF IInv, MutexInv, Steps, LockSteps, UnlockSteps
<1>6. StepInv'
  <2> SUFFICES ASSUME NEW d \in Conn PROVE StepAt(d)'
    BY DEF StepInv
  <2>1. CASE ProcOf[d] = p
    BY <2>1 DEF StepAt
  <2>2. CASE ProcOf[d] # p
    <3>1. StepAt(d) /\ inode'[ProcOf[d]] = inode[ProcOf[d]] /\ sys'[ProcOf[d]] = sys[ProcOf[d]]
      BY <1>2, <1>3, <2>2, ConstAssumption DEF IInv, StepInv
    <3> QED BY <2>2, <3>1 DEF StepAt, ProcessLock
  <2> QED BY <2>1, <2>2
<1>7. CountInv'
  <2> SUFFICES ASSUME NEW q \in Proc PROVE CountAt(q)'
    BY DEF CountInv
  <2>1. CASE q = p
    <3>1. OpenHandles(q)' = {} /\ Readers(q)' = {}
      BY <2>1 DEF OpenHandles, Readers, Handles
    <3>2. Cardinality(OpenHandles(q))' = 0 /\ Cardinality(Readers(q))' = 0
      BY <3>1, FS_EmptySet
    <3> QED BY <1>1, <1>2, <2>1, <3>2 DEF CountAt
  <2>2. CASE q # p
    <3>1. OpenHandles(q)' = OpenHandles(q) /\ Readers(q)' = Readers(q)
      BY <2>2 DEF OpenHandles, Readers, Handles
    <3>2. CountAt(q)
      BY DEF IInv, CountInv
    <3> QED BY <1>2, <2>2, <3>1, <3>2 DEF CountAt
  <2> QED BY <2>1, <2>2
<1>8. SiblingInv'
  <2> SUFFICES ASSUME NEW d \in Conn PROVE SiblingAt(d)'
    BY DEF SiblingInv
  <2>1. CASE ProcOf[d] = p
    BY <2>1 DEF SiblingAt
  <2>2. CASE ProcOf[d] # p
    <3>1. SiblingAt(d) /\ inode'[ProcOf[d]] = inode[ProcOf[d]]
      BY <1>2, <2>2, ConstAssumption DEF IInv, SiblingInv
    <3> QED BY <2>2, <3>1 DEF SiblingAt, Handles
  <2> QED BY <2>1, <2>2
<1>9. BackedInv'
  <2> SUFFICES ASSUME NEW q \in Proc PROVE BackedAt(q)'
    BY DEF BackedInv
  <2>1. CASE q = p
    BY <1>1, <1>2, <2>1 DEF BackedAt, ProcessLock
  <2>2. CASE q # p
    <3>1. BackedAt(q) /\ inode'[q] = inode[q] /\ sys'[q] = sys[q]
      BY <1>2, <1>3, <2>2 DEF IInv, BackedInv
    <3>2. \A d \in Handles(q) : pc'[d] = pc[d]
      BY <2>2 DEF Handles
    <3> QED BY <3>1, <3>2 DEF BackedAt, ProcessLock, Handles
  <2> QED BY <2>1, <2>2
<1> QED BY <1>3, <1>4, <1>5, <1>6, <1>7, <1>8, <1>9 DEF IInv

\* A process dies.
LEMMA ProcessDiesStep == ASSUME IInv, NEW p \in Proc, ProcessDies(p) PROVE IInv'
<1>1. pc' \in [Conn -> PcSet] /\ eFileLock' \in [Conn -> Level] /\ closing' \subseteq Conn
  BY Types DEF ProcessDies, PcSet
<1>2. /\ inode' = [inode EXCEPT ![p] = ZeroInode] /\ sys' = CloseFd(p)
      /\ req' = req /\ faults' = faults
      /\ \A d \in Conn : ProcOf[d] # p => pc'[d] = pc[d] /\ eFileLock'[d] = eFileLock[d]
      /\ \A d \in Conn : ProcOf[d] = p =>
           pc'[d] \in {"closed", "opening"} /\ eFileLock'[d] = NO_LOCK
  BY DEF ProcessDies
<1> QED BY <1>1, <1>2, ResetStep

\* The end of unixClose(): close() now, later, or with the inode.
LEMMA CloseFinishStep == ASSUME IInv, NEW c \in Conn, CloseFinish(c) PROVE IInv'
<1> DEFINE p == ProcOf[c]
           old == inode[p]
           held == old.nLock > 0
           last == old.nRef = 1
           r == old.nRef - 1
           u == IF held THEN old.nUnused + 1 ELSE old.nUnused
<1>1. /\ pc[c] = "closing" /\ pc[c] \notin {"closed", "opening"} /\ MutexFree(p)
      /\ req' = req /\ faults' = faults /\ closing' \subseteq Conn
      /\ pc' = [pc EXCEPT ![c] = "closed"] /\ eFileLock' = [eFileLock EXCEPT ![c] = NO_LOCK]
      /\ sys' = IF last \/ ~held THEN CloseFd(p) ELSE sys
      /\ inode' = [inode EXCEPT ![p] =
                     IF last THEN ZeroInode ELSE [old EXCEPT !.nRef = r, !.nUnused = u]]
  BY Types DEF CloseFinish
<1>2. /\ pc' \in [Conn -> PcSet] /\ pc'[c] = "closed" /\ \A d \in Conn \ {c} : pc'[d] = pc[d]
      /\ eFileLock' \in [Conn -> Level] /\ eFileLock'[c] = NO_LOCK
      /\ \A d \in Conn \ {c} : eFileLock'[d] = eFileLock[d]
  BY <1>1, Types DEF PcSet
<1>3. CASE last
  <2>1. inode' = [inode EXCEPT ![p] = ZeroInode] /\ sys' = CloseFd(p)
    BY <1>1, <1>3
  <2>2. ASSUME NEW d \in Conn, ProcOf[d] = p, d # c
        PROVE  pc[d] \in {"closed", "opening"} /\ eFileLock[d] = NO_LOCK
    <3>1. pc[d] \in {"closed", "opening"}
      BY <1>1, <1>3, <2>2, Counted
    <3> QED BY <3>1, Facts DEF StepAt
  <2>3. /\ \A d \in Conn : ProcOf[d] # p => pc'[d] = pc[d] /\ eFileLock'[d] = eFileLock[d]
        /\ \A d \in Conn : ProcOf[d] = p =>
             pc'[d] \in {"closed", "opening"} /\ eFileLock'[d] = NO_LOCK
    BY <1>2, <2>2
  <2>4. p \in Proc /\ req' = req /\ faults' = faults /\ closing' \subseteq Conn
    BY <1>1, Facts
  <2> HIDE DEF last, held, p
  <2> QED BY <1>2, <2>1, <2>3, <2>4, ResetStep
<1>4. CASE ~last
  <2> DEFINE new == [old EXCEPT !.nRef = r, !.nUnused = u]
  <2>1. r \in Nat /\ u \in Nat /\ r >= 1 /\ (u > 0 /\ ~held => old.nUnused > 0)
    BY <1>1, <1>4, Facts, Counted
  <2>2. inode' = [inode EXCEPT ![p] = new]
    BY <1>1, <1>4
  <2> HIDE DEF r, u
  <2>3. new \in InodeType
    BY <2>1, Facts, InodeFields
  <2>4. /\ new.nShared = old.nShared /\ new.nRef = r /\ new.eFileLock = old.eFileLock
        /\ new.nUnused = u /\ new.bProcessLock = old.bProcessLock /\ new.nLock = old.nLock
    BY Facts DEF InodeType
  <2> HIDE DEF new
  <2>5. /\ inode' \in [Proc -> InodeType] /\ inode'[p] = new
        /\ \A q \in Proc \ {p} : inode'[q] = inode[q]
    BY <2>2, <2>3, Facts, Types
  <2>6. /\ \A d \in Handles(p) : pc[d] # "ul_all"
        /\ old.nLock = old.nShared + ProcessLock(p)
        /\ old.nShared = 0 <=> old.eFileLock = NO_LOCK
        /\ ProcessLock(p) \in 0..1 /\ (ProcessLock(p) = 0 <=> ~old.bProcessLock)
    BY <1>1, Facts DEF BackedAt, ProcessLock, MutexFree, UnlockSteps
  <2>7. ~held => old.nShared = 0 /\ ~old.bProcessLock /\ old.eFileLock = NO_LOCK
    BY <2>6, Facts
  <2>8. /\ KernelInv' /\ AloneInv' /\ sys' \in SysType
        /\ \A q \in Proc \ {p} : sys'[q] = sys[q]
        /\ held => sys' = sys
    <3>1. CASE held
      <4>1. sys' = sys
        BY <1>1, <1>4, <3>1
      <4> QED BY <2>4, <2>5, <4>1, Facts, SameSys
    <3>2. CASE ~held
      BY <1>1, <2>4, <2>5, <2>7, <3>2, Facts, CloseSys
    <3> QED BY <3>1, <3>2
  <2>9. Frame(c)
    BY <1>1, <1>2, <2>5, <2>8, Types DEF Frame
  <2>10. StepAt(c)'
    BY <1>2 DEF StepAt
  <2>11. BackedAt(p)'
    <3>1. CASE held
      <4>1. /\ new.nLock > 0 /\ new.nRef > 0
            /\ new.nLock = new.nShared + (IF new.bProcessLock THEN 1 ELSE 0)
            /\ new.nShared = 0 <=> new.eFileLock = NO_LOCK
        BY <2>1, <2>4, <2>6, <3>1, Facts DEF ProcessLock
      <4>2. sys'[p] = sys[p] /\ BackedAt(p)
        BY <2>8, <3>1, Facts
      <4> QED BY <2>4, <2>5, <4>1, <4>2 DEF BackedAt, ProcessLock
    <3>2. CASE ~held
      <4>1. u = 0
        BY <2>1, <3>2, Facts DEF BackedAt
      <4>2. /\ new.nShared = 0 /\ new.nLock = 0 /\ ~new.bProcessLock /\ new.eFileLock = NO_LOCK
            /\ new.nUnused = 0
        BY <2>4, <2>7, <3>2, <4>1, Facts
      <4> QED BY <2>5, <4>2 DEF BackedAt, ProcessLock
    <3> QED BY <3>1, <3>2
  <2>12. \A d \in Handles(p) : SiblingAt(d)'
    BY <1>2, <2>4, <2>5, <2>6, Facts DEF SiblingAt, Handles
  <2>13. /\ inode'[p].nRef = inode[p].nRef - 1 /\ inode'[p].nShared = inode[p].nShared
         /\ inode[p].nShared \in Nat
    BY <2>4, <2>5, Facts DEF r
  <2> QED BY <1>1, <1>2, <2>8, <2>9, <2>10, <2>11, <2>12, <2>13, LocalStep
<1> QED BY <1>3, <1>4

-----------------------------------------------------------------------------

\* IInv is inductive: no step of any handle or process breaks it.
THEOREM IInvInductive == IInv /\ [Next]_vars => IInv'
<1> SUFFICES ASSUME IInv, [Next]_vars PROVE IInv'
  OBVIOUS
<1>1. ASSUME NEW c \in Conn, Open(c) PROVE IInv'
  BY <1>1, OpenStep
<1>2. ASSUME NEW c \in Conn, FindInodeInfo(c) \/ FindInodeInfoFails(c) PROVE IInv'
  BY <1>2, FindInodeInfoStep, FindInodeInfoFailsStep
<1>3. ASSUME NEW c \in Conn, NEW l \in Level, LockEnter(c, l) PROVE IInv'
  BY <1>3, LockEnterStep
<1>4. ASSUME NEW c \in Conn, NEW l \in Level, Unlock(c, l) PROVE IInv'
  <2>1. closing' \subseteq Conn /\ UnlockEnter(c, l, "idle") /\ "idle" \in {"idle", "closing"}
    BY <1>4, Types DEF Unlock
  <2> QED BY <2>1, UnlockEnterStep
<1>5. ASSUME NEW c \in Conn,
             LockPending(c) \/ LockShared(c) \/ LockDropPending(c) \/ LockWrite(c)
      PROVE  IInv'
  BY <1>5, LockPendingStep, LockSharedStep, LockDropPendingStep, LockWriteStep
<1>6. ASSUME NEW c \in Conn, UnlockToRead(c) \/ UnlockPending(c) \/ UnlockAll(c)
      PROVE  IInv'
  BY <1>6, UnlockToReadStep, UnlockPendingStep, UnlockAllStep
<1>7. ASSUME NEW c \in Conn, CloseEnter(c) \/ CloseFinish(c) PROVE IInv'
  BY <1>7, CloseEnterStep, CloseFinishStep
<1>8. ASSUME NEW p \in Proc, ProcessDies(p) PROVE IInv'
  BY <1>8, ProcessDiesStep
<1>9. CASE UNCHANGED vars
  <2>1. /\ pc' = pc /\ req' = req /\ eFileLock' = eFileLock /\ inode' = inode
        /\ sys' = sys /\ closing' = closing /\ faults' = faults
    BY <1>9 DEF vars
  <2>2. TypeOK' /\ KernelInv' /\ MutexInv' /\ AloneInv'
    BY <2>1 DEF IInv, TypeOK, KernelInv, MutexInv, AloneInv
  <2>3. StepInv' /\ SiblingInv' /\ BackedInv'
    BY <2>1 DEF IInv, StepInv, StepAt, SiblingInv, SiblingAt, BackedInv, BackedAt,
                ProcessLock, Handles
  <2>4. CountInv'
    <3>1. \A p \in Proc : OpenHandles(p)' = OpenHandles(p) /\ Readers(p)' = Readers(p)
      BY <2>1 DEF OpenHandles, Readers, Handles
    <3> QED BY <2>1, <3>1 DEF IInv, CountInv, CountAt
  <2> QED BY <2>2, <2>3, <2>4 DEF IInv
<1> QED BY <1>1, <1>2, <1>3, <1>4, <1>5, <1>6, <1>7, <1>8, <1>9 DEF Next

\* The inductive invariant holds in every reachable state.
THEOREM IInvHolds == Spec => []IInv
  BY InitIInv, IInvInductive, PTL DEF Spec

\* The level a handle relies on is backed by a lock of its process.
LEMMA HeldBacked ==
  ASSUME IInv, NEW c \in Conn, Held(c) >= SHARED_LOCK
  PROVE  /\ sys[ProcOf[c]]["SHARED"] # "none"
         /\ ProcOf[c] \in ExclProc => sys[ProcOf[c]]["SHARED"] = "wr"
<1>1. CASE pc[c] = "ul_all"
  BY <1>1, Facts DEF StepAt, BackedAt
<1>2. CASE pc[c] # "ul_all"
  BY <1>2, Facts, Counted DEF Held, BackedAt
<1> QED BY <1>1, <1>2

\* Two handles that hold locks in two processes: neither process uses unix-excl.
LEMMA HeldApart ==
  ASSUME IInv, NEW c \in Conn, NEW d \in Conn, ProcOf[c] # ProcOf[d],
         Held(c) >= SHARED_LOCK, Held(d) >= SHARED_LOCK
  PROVE  ProcOf[c] \notin ExclProc
  BY HeldBacked, Facts DEF IInv, KernelInv, Byte

\* EXCLUSIVE means alone.
LEMMA IInvExclusive == IInv => ExclusiveAlone
<1> SUFFICES ASSUME IInv, NEW c \in Conn, Held(c) = EXCLUSIVE_LOCK, NEW d \in Conn \ {c}
             PROVE  Held(d) = NO_LOCK
  BY DEF ExclusiveAlone
<1>1. /\ pc[c] # "ul_all" /\ eFileLock[c] = EXCLUSIVE_LOCK
      /\ inode[ProcOf[c]].eFileLock = EXCLUSIVE_LOCK
  BY Facts DEF Held, SiblingAt
<1>2. Held(d) \in Level
  BY Facts DEF Held
<1>3. CASE ProcOf[d] = ProcOf[c]
  <2>1. inode[ProcOf[c]].nShared = 1
    BY <1>1, Facts, Counted DEF BackedAt
  <2>2. pc[d] # "ul_all"
    BY <1>3, <2>1, Facts DEF StepAt
  <2>3. ~(eFileLock[d] >= SHARED_LOCK)
    BY <1>1, <1>3, <2>1, <2>2, Counted
  <2> QED BY <1>2, <2>2, <2>3 DEF Held
<1>4. CASE ProcOf[d] # ProcOf[c]
  <2> SUFFICES ASSUME Held(d) >= SHARED_LOCK PROVE FALSE
    BY <1>2
  <2>1. ProcOf[c] \notin ExclProc
    BY <1>4, HeldApart
  <2>2. sys[ProcOf[d]]["SHARED"] = "none"
    BY <1>1, <1>4, <2>1, Facts DEF IInv, AloneInv
  <2> QED BY <2>2, HeldBacked
<1> QED BY <1>3, <1>4

\* unixCheckReservedLock() sees every reservation.
LEMMA IInvReservation == IInv => ReservationVisible
<1> SUFFICES ASSUME IInv, NEW c \in Conn, NEW d \in Conn,
                    Held(c) = SHARED_LOCK, Held(d) = RESERVED_LOCK
             PROVE  CheckReservedLock(c)
  BY DEF ReservationVisible
<1>1. /\ pc[d] # "ul_all" /\ eFileLock[d] = RESERVED_LOCK
      /\ inode[ProcOf[d]].eFileLock = RESERVED_LOCK
  BY Facts DEF Held, SiblingAt
<1>2. CASE ProcOf[d] = ProcOf[c]
  BY <1>1, <1>2 DEF CheckReservedLock
<1>3. CASE ProcOf[d] # ProcOf[c]
  <2>1. ProcOf[c] \notin ExclProc /\ ProcOf[d] \notin ExclProc
    BY <1>3, HeldApart
  <2>2. sys[ProcOf[d]]["RESERVED"] = "wr" /\ ~inode[ProcOf[c]].bProcessLock
    BY <1>1, <2>1, Facts DEF BackedAt
  <2> QED BY <1>3, <2>2, Facts DEF CheckReservedLock
<1> QED BY <1>2, <1>3

\* The downgrade of a write-lock of one's own conflicts with nobody.
LEMMA IInvDowngrade == IInv => DowngradeNeverRefused
<1> SUFFICES ASSUME IInv, NEW c \in Conn, pc[c] = "ul_rdlock"
             PROVE  FileLockOk(ProcOf[c], "rd", {"SHARED"})
  BY DEF DowngradeNeverRefused
<1>1. Held(c) >= SHARED_LOCK
  BY Facts DEF Held, StepAt
<1>2. ProcOf[c] \in ExclProc => NoSysCall(ProcOf[c])
  BY <1>1, Facts, Counted DEF NoSysCall, BackedAt, Held
<1>3. \A q \in Proc \ {ProcOf[c]} : sys[q]["SHARED"] # "wr"
  BY <1>1, HeldBacked, Facts DEF IInv, KernelInv, Byte
<1> QED BY <1>2, <1>3 DEF FileLockOk, Conflict, EffType, EffBytes

\* The assertions in the code hold.
LEMMA IInvAssertions == IInv => InodeAssertions /\ NoStrandedFd
<1> SUFFICES ASSUME IInv PROVE InodeAssertions /\ NoStrandedFd
  OBVIOUS
<1>1. NoStrandedFd
  BY DEF IInv, NoStrandedFd, BackedInv, BackedAt
<1>2. ASSUME NEW c \in Conn
      PROVE  LET ino == inode[ProcOf[c]] IN
             /\ pc[c] \in {"lk_shared", "lk_drop_ok", "lk_drop_fail"} =>
                  ino.nShared = 0 /\ ino.eFileLock = NO_LOCK
             /\ pc[c] \in {"ul_rdlock", "ul_pending"} =>
                  ino.eFileLock = eFileLock[c] /\ ino.nShared > 0
             /\ eFileLock[c] = SHARED_LOCK /\ pc[c] = "idle" => ino.nShared > 0 /\ ino.nLock > 0
             /\ pc[c] = "closing" => ino.nLock > 0 \/ ~ino.bProcessLock
             /\ pc[c] \in LockSteps /\ ProcOf[c] \in ExclProc /\ ~ino.bProcessLock => ino.nLock = 0
  <2> DEFINE p == ProcOf[c]
             ino == inode[p]
  <2>1. \A d \in Handles(p) : pc[d] = "ul_all" => ino.nShared = 0 /\ ino.nLock > 0
    BY Facts DEF StepAt, ProcessLock
  <2>2. pc[c] \in LockSteps => \A d \in Handles(p) : pc[d] # "ul_all"
    BY Facts DEF Steps, LockSteps, UnlockSteps
  <2>3. pc[c] \in {"lk_shared", "lk_drop_ok", "lk_drop_fail"} =>
          ino.nShared = 0 /\ ino.eFileLock = NO_LOCK
    BY <2>2, Facts DEF StepAt, BackedAt, LockSteps
  <2>4. pc[c] \in {"ul_rdlock", "ul_pending"} => ino.eFileLock = eFileLock[c] /\ ino.nShared > 0
    BY Facts, Counted DEF StepAt, SiblingAt
  <2>5. eFileLock[c] = SHARED_LOCK /\ pc[c] = "idle" => ino.nShared > 0 /\ ino.nLock > 0
    BY <2>1, Facts, Counted DEF BackedAt, ProcessLock
  <2>6. ino.nLock > 0 \/ ~ino.bProcessLock
    BY <2>1, Facts DEF BackedAt, ProcessLock
  <2>7. pc[c] \in LockSteps /\ p \in ExclProc /\ ~ino.bProcessLock => ino.nLock = 0
    BY <2>2, Facts DEF BackedAt, ProcessLock
  <2> QED BY <2>3, <2>4, <2>5, <2>6, <2>7
<1> QED BY <1>1, <1>2 DEF InodeAssertions

\* Type correctness of the whole locking protocol.
THEOREM TypeCorrect == Spec => []TypeOK
<1>1. IInv => TypeOK
  BY DEF IInv
<1> QED BY <1>1, IInvHolds, PTL

\* unixLock(): a handle with EXCLUSIVE_LOCK is the only one, in any process,
\* with a lock on the file, whatever calls fail and whoever dies.
THEOREM ExclusionHolds == Spec => []ExclusiveAlone
  BY IInvHolds, IInvExclusive, PTL

\* unixClose(), closePendingFds(): no handle loses the lock it relies on to the
\* close() of another.
THEOREM LocksBacked == Spec => []LocksBackedByOs
<1>1. IInv => LocksBackedByOs
  BY HeldBacked DEF LocksBackedByOs
<1> QED BY <1>1, IInvHolds, PTL

\* posixUnlock(): the downgrade to a read-lock cannot meet a conflicting lock.
THEOREM DowngradeHolds == Spec => []DowngradeNeverRefused
  BY IInvHolds, IInvDowngrade, PTL

\* unixCheckReservedLock(): a reader is told of every reservation.
THEOREM ReservationHolds == Spec => []ReservationVisible
  BY IInvHolds, IInvReservation, PTL

\* The assert()s of os_unix.c on the shared unixInodeInfo never fail.
THEOREM AssertionsHold == Spec => []InodeAssertions
  BY IInvHolds, IInvAssertions, PTL

\* setPendingFd(): a descriptor whose close() was put off always has a lock still to come
\* whose release closes it.
THEOREM NoStrandedFdHolds == Spec => []NoStrandedFd
  BY IInvHolds, IInvAssertions, PTL
-----------------------------------------------------------------------------
(***************************************************************************)
(* Every step of UnixLock is a step of FileLock or none at all, for any    *)
(* number of processes, handles and failing system calls.  What a step of  *)
(* FileLock asks of the other handles is read off the invariant in the     *)
(* state after the step.                                                   *)
(***************************************************************************)

\* The reservation proper, as Abs maps it to "resv".
Reserves(c) == /\ Held(c) > SHARED_LOCK
               /\ ProcOf[c] \in ExclProc \/ sys[ProcOf[c]]["RESERVED"] = "wr"

\* The other handles hold what they held.
OthersKeep(c) ==
  \A d \in Conn \ {c} : Held(d)' = Held(d) /\ (Reserves(d)' <=> Reserves(d))

-----------------------------------------------------------------------------
(* The steps of FileLock, in terms of Held and Reserves *)

Lock == [d \in Conn |-> Held(d)]

Resv == {d \in Conn : /\ Held(d) > SHARED_LOCK
                      /\ \/ ProcOf[d] \in ExclProc
                         \/ sys[ProcOf[d]]["RESERVED"] = "wr"}

LEMMA Mapped ==
  ASSUME NEW d \in Conn
  PROVE  /\ Lock[d] = Held(d) /\ Lock'[d] = Held(d)'
         /\ d \in Resv <=> Reserves(d)
         /\ d \in Resv' <=> Reserves(d)'
  BY DEF Lock, Resv, Reserves

\* Nothing moves.
LEMMA AbsStutter ==
  ASSUME \A d \in Conn : Held(d)' = Held(d) /\ (Reserves(d)' <=> Reserves(d))
  PROVE  UNCHANGED Abs!vars
<1>1. Lock' = Lock
  BY DEF Lock
<1>2. Resv \subseteq Conn /\ Resv' \subseteq Conn
  BY DEF Resv
<1>3. Resv' = Resv
  BY <1>2, Mapped
<1> QED BY <1>1, <1>3 DEF Abs!vars, Lock, Resv

\* One handle moves to level l.
LEMMA AbsMove ==
  ASSUME NEW c \in Conn, NEW l, Held(c)' = l, OthersKeep(c)
  PROVE  /\ Lock' = [Lock EXCEPT ![c] = l]
         /\ ~Reserves(c)' => Resv' = Resv \ {c}
         /\ Reserves(c)' => Resv' = Resv \cup {c}
         /\ (Reserves(c)' <=> Reserves(c)) => Resv' = Resv
<1>1. Lock' = [Lock EXCEPT ![c] = l]
  BY DEF Lock, OthersKeep
<1>2. Resv \subseteq Conn /\ Resv' \subseteq Conn
  BY DEF Resv
<1> QED BY <1>1, <1>2, Mapped DEF OthersKeep

LEMMA AbsRelease ==
  ASSUME NEW c \in Conn, NEW l \in {NO_LOCK, SHARED_LOCK},
         Held(c) > l, Held(c)' = l, OthersKeep(c)
  PROVE  Abs!Next
<1>1. ~Reserves(c)'
  BY DEF Reserves
<1>2. Lock[c] > l /\ Lock' = [Lock EXCEPT ![c] = l] /\ Resv' = Resv \ {c}
  BY <1>1, AbsMove, Mapped
<1>3. Abs!Release(c, l)
  BY <1>2 DEF Abs!Release, Abs!NO_LOCK, Abs!SHARED_LOCK, Lock, Resv
<1> QED BY <1>3 DEF Abs!Next, Abs!NO_LOCK, Abs!SHARED_LOCK

LEMMA AbsGetShared ==
  ASSUME NEW c \in Conn, Held(c) = NO_LOCK, Held(c)' = SHARED_LOCK, OthersKeep(c),
         \A d \in Conn \ {c} :
           \/ Held(d) < PENDING_LOCK
           \/ Held(d) = PENDING_LOCK /\ ProcOf[d] # ProcOf[c]
  PROVE  Abs!Next
<1>1. ~Reserves(c) /\ ~Reserves(c)'
  BY DEF Reserves
<1>2. Lock[c] = NO_LOCK /\ Lock' = [Lock EXCEPT ![c] = SHARED_LOCK] /\ Resv' = Resv
  BY <1>1, AbsMove, Mapped
<1>3. \A d \in Conn \ {c} :
        Lock[d] < PENDING_LOCK \/ (Lock[d] = PENDING_LOCK /\ ProcOf[d] # ProcOf[c])
  BY Mapped
<1>4. Abs!GetShared(c)
  BY <1>2, <1>3 DEF Abs!GetShared, Abs!Others, Abs!NO_LOCK, Abs!SHARED_LOCK, Abs!PENDING_LOCK,
     Lock, Resv
<1> QED BY <1>4 DEF Abs!Next

LEMMA AbsGetReserved ==
  ASSUME NEW c \in Conn, Held(c) = SHARED_LOCK, Held(c)' = RESERVED_LOCK, OthersKeep(c),
         Reserves(c)', \A d \in Conn \ {c} : ~Reserves(d)
  PROVE  Abs!Next
<1>1. Resv \subseteq Conn /\ ~Reserves(c)
  BY DEF Resv, Reserves
<1>2. Lock[c] = SHARED_LOCK /\ Lock' = [Lock EXCEPT ![c] = RESERVED_LOCK]
  BY AbsMove, Mapped
<1>3. Resv = {} /\ Resv' = {c}
  BY <1>1, AbsMove, Mapped
<1>4. Abs!GetReserved(c)
  BY <1>2, <1>3 DEF Abs!GetReserved, Abs!SHARED_LOCK, Abs!RESERVED_LOCK, Lock, Resv
<1> QED BY <1>4 DEF Abs!Next

\* Past RESERVED the reservation is kept, or taken where nobody has it.
LEMMA AbsKeepOrTake ==
  ASSUME NEW c \in Conn, OthersKeep(c), Reserves(c) => Reserves(c)',
         Reserves(c)' => \A d \in Conn \ {c} : ~Reserves(d)
  PROVE  Abs!KeepOrTakeReservation(c)
<1>1. Resv' = Resv \/ (Resv \subseteq {c} /\ Resv' = {c})
  <2>1. Resv \subseteq Conn
    BY DEF Resv
  <2>2. CASE Reserves(c)'
    <3>1. Resv' = Resv \cup {c}
      BY <2>2, AbsMove
    <3> QED BY <2>1, <2>2, <3>1, Mapped
  <2>3. CASE ~Reserves(c)'
    <3>1. ~Reserves(c)
      BY <2>3
    <3> QED BY <2>3, <3>1, AbsMove
  <2> QED BY <2>2, <2>3
<1> QED BY <1>1 DEF Abs!KeepOrTakeReservation, Resv

LEMMA AbsGetPending ==
  ASSUME NEW c \in Conn, Held(c) \in {SHARED_LOCK, RESERVED_LOCK}, Held(c)' = PENDING_LOCK,
         OthersKeep(c), \A d \in Conn \ {c} : Held(d) < PENDING_LOCK,
         Reserves(c) => Reserves(c)', Reserves(c)' => \A d \in Conn \ {c} : ~Reserves(d)
  PROVE  Abs!Next
<1>1. /\ Lock[c] \in {SHARED_LOCK, RESERVED_LOCK} /\ Lock' = [Lock EXCEPT ![c] = PENDING_LOCK]
      /\ \A d \in Conn \ {c} : Lock[d] < PENDING_LOCK
  BY AbsMove, Mapped
<1>2. Abs!GetPending(c)
  BY <1>1, AbsKeepOrTake DEF Abs!GetPending, Abs!Others, Abs!SHARED_LOCK, Abs!RESERVED_LOCK,
     Abs!PENDING_LOCK, Lock
<1> QED BY <1>2 DEF Abs!Next

LEMMA AbsGetExclusive ==
  ASSUME NEW c \in Conn, Held(c) \in {SHARED_LOCK, RESERVED_LOCK, PENDING_LOCK},
         Held(c)' = EXCLUSIVE_LOCK, OthersKeep(c),
         \A d \in Conn \ {c} : Held(d) = NO_LOCK, Reserves(c) => Reserves(c)'
  PROVE  Abs!Next
<1>1. /\ Lock[c] \in {SHARED_LOCK, RESERVED_LOCK, PENDING_LOCK}
      /\ Lock' = [Lock EXCEPT ![c] = EXCLUSIVE_LOCK]
      /\ \A d \in Conn \ {c} : Lock[d] = NO_LOCK
  BY AbsMove, Mapped
<1>2. \A d \in Conn \ {c} : ~Reserves(d)
  BY DEF Reserves
<1>3. Abs!KeepOrTakeReservation(c)
  BY <1>2, AbsKeepOrTake
<1>4. Abs!GetExclusive(c)
  BY <1>1, <1>3 DEF Abs!GetExclusive, Abs!Others, Abs!NO_LOCK, Abs!SHARED_LOCK,
     Abs!PENDING_LOCK, Abs!EXCLUSIVE_LOCK, Lock
<1> QED BY <1>4 DEF Abs!Next

LEMMA AbsDie ==
  ASSUME NEW S \in SUBSET Conn, \A d \in S : Held(d)' = NO_LOCK,
         \A d \in Conn \ S : Held(d)' = Held(d) /\ (Reserves(d)' <=> Reserves(d))
  PROVE  Abs!Next
<1>1. Lock' = [d \in Conn |-> IF d \in S THEN NO_LOCK ELSE Lock[d]]
  BY DEF Lock
<1>2. Resv \subseteq Conn /\ Resv' \subseteq Conn /\ \A d \in S : ~Reserves(d)'
  BY DEF Resv, Reserves
<1>3. Resv' = Resv \ S
  BY <1>2, Mapped
<1>4. Abs!Die(S)
  BY <1>1, <1>3 DEF Abs!Die, Abs!NO_LOCK, Lock, Resv
<1> QED BY <1>4 DEF Abs!Next

-----------------------------------------------------------------------------
(* What the invariant says about two handles *)

\* At most one handle has the reservation.
SoleReservation == \A c, d \in Conn : c # d /\ Reserves(c) => ~Reserves(d)

\* At most one handle waits for the whole file, or has it.
SolePending ==
  \A c, d \in Conn : c # d /\ Held(c) >= PENDING_LOCK => Held(d) < PENDING_LOCK

\* Handles of one process are not both above SHARED.
LEMMA SiblingBelow ==
  ASSUME IInv, NEW c \in Conn, NEW d \in Conn, c # d, ProcOf[c] = ProcOf[d],
         Held(c) > SHARED_LOCK
  PROVE  Held(d) <= SHARED_LOCK
<1>1. pc[c] # "ul_all" /\ eFileLock[c] > SHARED_LOCK
  BY DEF Held
<1>2. d \in Handles(ProcOf[c]) \ {c}
  BY DEF Handles
<1>3. eFileLock[d] <= SHARED_LOCK
  BY <1>1, <1>2, Facts DEF SiblingAt
<1> QED BY <1>3, Facts DEF Held

LEMMA IInvSoleReservation == IInv => SoleReservation
<1> SUFFICES ASSUME IInv, NEW c \in Conn, NEW d \in Conn, c # d, Reserves(c), Reserves(d)
             PROVE  FALSE
  BY DEF SoleReservation
<1>1. Held(c) > SHARED_LOCK /\ Held(d) > SHARED_LOCK /\ Held(d) \in Level /\ Held(c) \in Level
  BY Facts DEF Reserves, Held
<1>2. ProcOf[c] # ProcOf[d]
  BY <1>1, SiblingBelow
<1>3. ProcOf[c] \notin ExclProc /\ ProcOf[d] \notin ExclProc
  BY <1>1, <1>2, HeldApart
<1>4. sys[ProcOf[c]]["RESERVED"] = "wr" /\ sys[ProcOf[d]]["RESERVED"] = "wr"
  BY <1>3 DEF Reserves
<1> QED BY <1>2, <1>4, Facts DEF IInv, KernelInv, Byte

LEMMA IInvSolePending == IInv => SolePending
<1> SUFFICES ASSUME IInv, NEW c \in Conn, NEW d \in Conn, c # d,
                    Held(c) >= PENDING_LOCK, ~(Held(d) < PENDING_LOCK)
             PROVE  FALSE
  BY DEF SolePending
<1>1. Held(c) \in Level /\ Held(d) \in Level
  BY Facts DEF Held
<1>2. ProcOf[c] # ProcOf[d]
  BY <1>1, SiblingBelow
<1>3. ProcOf[c] \notin ExclProc /\ ProcOf[d] \notin ExclProc
  BY <1>1, <1>2, HeldApart
<1>4. /\ inode[ProcOf[c]].eFileLock >= PENDING_LOCK
      /\ inode[ProcOf[d]].eFileLock >= PENDING_LOCK
  BY <1>1, Facts DEF Held, SiblingAt
<1>5. sys[ProcOf[c]]["PENDING"] = "wr" /\ sys[ProcOf[d]]["PENDING"] = "wr"
  BY <1>3, <1>4, Facts DEF BackedAt
<1> QED BY <1>2, <1>5, Facts DEF IInv, KernelInv, Byte

\* The invariant after a step, in the form the steps below use it.
LEMMA After ==
  ASSUME IInv'
  PROVE  ExclusiveAlone' /\ SoleReservation' /\ SolePending'
  BY IInvExclusive, IInvSoleReservation, IInvSolePending, PTL

-----------------------------------------------------------------------------
(* The frame of a step *)

\* Handles other than c are not touched, and of their locks on the reserved byte only
\* those of siblings without a reservation.
Touches(c) ==
  /\ \A d \in Conn \ {c} : pc'[d] = pc[d] /\ eFileLock'[d] = eFileLock[d]
  /\ \A q \in Proc \ {ProcOf[c]} : sys'[q] = sys[q]
  /\ \/ sys'[ProcOf[c]]["RESERVED"] = sys[ProcOf[c]]["RESERVED"]
     \/ \A d \in Handles(ProcOf[c]) \ {c} : Held(d) <= SHARED_LOCK

LEMMA OthersKept ==
  ASSUME IInv, NEW c \in Conn, Touches(c)
  PROVE  OthersKeep(c)
<1> SUFFICES ASSUME NEW d \in Conn \ {c}
             PROVE  Held(d)' = Held(d) /\ (Reserves(d)' <=> Reserves(d))
  BY DEF OthersKeep
<1>1. Held(d)' = Held(d) /\ Held(d) \in Level
  BY Facts DEF Touches, Held
<1>2. CASE ProcOf[d] # ProcOf[c]
  <2>1. sys'[ProcOf[d]] = sys[ProcOf[d]]
    BY <1>2, Facts DEF Touches
  <2> QED BY <1>1, <2>1 DEF Reserves
<1>3. CASE ProcOf[d] = ProcOf[c]
  <2>1. d \in Handles(ProcOf[c]) \ {c}
    BY <1>3 DEF Handles
  <2>2. CASE Held(d) <= SHARED_LOCK
    BY <1>1, <2>2 DEF Reserves
  <2>3. CASE sys'[ProcOf[c]]["RESERVED"] = sys[ProcOf[c]]["RESERVED"]
    BY <1>1, <1>3, <2>3 DEF Reserves
  <2> QED BY <2>1, <2>2, <2>3 DEF Touches
<1> QED BY <1>2, <1>3

\* A step in which c keeps its level, and its lock on the reserved byte if it has
\* a reservation to keep.
LEMMA Stutter ==
  ASSUME IInv, NEW c \in Conn, Touches(c), Held(c)' = Held(c),
         Held(c) > SHARED_LOCK => sys'[ProcOf[c]]["RESERVED"] = sys[ProcOf[c]]["RESERVED"]
  PROVE  UNCHANGED Abs!vars
<1>1. Reserves(c)' <=> Reserves(c)
  BY DEF Reserves
<1> QED BY <1>1, OthersKept, AbsStutter DEF OthersKeep

\* unixFileLock() and the reserved byte
LEMMA ReservedByte ==
  ASSUME IInv, NEW p \in Proc, NEW type \in {"none", "rd", "wr"}, NEW bytes \in SUBSET Byte,
         FileLockOk(p, type, bytes), sys' = SysAfter(p, type, bytes)
  PROVE  /\ \A q \in Proc \ {p} : sys'[q] = sys[q]
         /\ "RESERVED" \notin bytes \/ p \in ExclProc =>
              sys'[p]["RESERVED"] = sys[p]["RESERVED"]
         /\ "RESERVED" \in bytes /\ p \notin ExclProc => sys'[p]["RESERVED"] = type
<1>1. TypeOK /\ KernelInv /\ "RESERVED" \in Byte
  BY DEF IInv, Byte
<1>2. NoSysCall(p) => p \in ExclProc
  BY DEF IInv, BackedInv, BackedAt, NoSysCall
<1> QED BY <1>1, <1>2, FileLockKernel

-----------------------------------------------------------------------------
(* The steps of UnixLock *)

Refined == Abs!Next \/ UNCHANGED Abs!vars

LEMMA OpenRefines ==
  ASSUME IInv, NEW c \in Conn, Open(c) \/ FindInodeInfo(c)
  PROVE  Refined
<1>1. /\ pc[c] \in {"closed", "opening"} /\ pc'[c] \in {"opening", "idle"}
      /\ eFileLock' = eFileLock /\ sys' = sys
      /\ \A d \in Conn \ {c} : pc'[d] = pc[d]
  BY Types DEF Open, FindInodeInfo
<1>2. Touches(c) /\ Held(c)' = Held(c)
  BY <1>1 DEF Touches, Held
<1> QED BY <1>1, <1>2, Stutter DEF Refined

LEMMA FindInodeInfoFailsRefines ==
  ASSUME IInv, NEW c \in Conn, FindInodeInfoFails(c)
  PROVE  Refined
<1> DEFINE p == ProcOf[c]
<1>1. /\ pc[c] = "opening" /\ pc'[c] = "closed" /\ inode[p].nRef = 0
      /\ eFileLock' = eFileLock /\ \A d \in Conn \ {c} : pc'[d] = pc[d]
      /\ \A q \in Proc \ {p} : sys'[q] = sys[q]
  BY Types, Facts DEF FindInodeInfoFails, CloseFd, SysType
<1>2. \A d \in Handles(p) : Held(d) = NO_LOCK
  <2> SUFFICES ASSUME NEW d \in Conn, ProcOf[d] = p PROVE Held(d) = NO_LOCK
    BY DEF Handles
  <2>1. pc[d] \in {"closed", "opening"}
    BY <1>1, Counted, Facts
  <2> QED BY <2>1, Facts DEF Held, StepAt
<1>3. Touches(c)
  BY <1>1, <1>2 DEF Touches
<1>4. Held(c) = NO_LOCK /\ Held(c)' = NO_LOCK
  BY <1>1, Facts DEF Held, StepAt
<1> QED BY <1>3, <1>4, Stutter DEF Refined

LEMMA LockEnterRefines ==
  ASSUME IInv, IInv', NEW c \in Conn, NEW l \in Level, LockEnter(c, l)
  PROVE  Refined
<1> DEFINE p == ProcOf[c]
<1>1. /\ pc[c] = "idle" /\ MutexFree(p) /\ sys' = sys
      /\ \A d \in Conn \ {c} : pc'[d] = pc[d] /\ eFileLock'[d] = eFileLock[d]
  BY Types DEF LockEnter
<1>2. Touches(c)
  BY <1>1 DEF Touches
<1>3. CASE UNCHANGED eFileLock /\ pc'[c] # "ul_all"
  BY <1>1, <1>2, <1>3, Stutter DEF Held, Refined
<1>4. CASE /\ l = SHARED_LOCK /\ inode[p].eFileLock \in {SHARED_LOCK, RESERVED_LOCK}
           /\ eFileLock' = [eFileLock EXCEPT ![c] = SHARED_LOCK] /\ pc' = pc
  <2>1. Held(c) = NO_LOCK /\ Held(c)' = SHARED_LOCK
    <3>1. eFileLock[c] = NO_LOCK
      BY <1>4, Facts DEF LockEnter
    <3> QED BY <1>1, <1>4, <3>1, Types DEF Held
  <2>2. OthersKeep(c)
    BY <1>2, OthersKept
  <2>3. ASSUME NEW d \in Conn \ {c}
        PROVE  \/ Held(d) < PENDING_LOCK
               \/ Held(d) = PENDING_LOCK /\ ProcOf[d] # p
    <3>1. Held(d) # EXCLUSIVE_LOCK /\ Held(d) \in Level
      BY <2>1, <2>2, After, Facts DEF ExclusiveAlone, OthersKeep, Held
    <3>2. ProcOf[d] = p => Held(d) < PENDING_LOCK
      BY <1>4, Facts DEF SiblingAt, Held
    <3> QED BY <3>1, <3>2
  <2> QED BY <2>1, <2>2, <2>3, AbsGetShared DEF Refined
<1> QED BY <1>3, <1>4, Types DEF LockEnter

LEMMA LockPendingRefines ==
  ASSUME IInv, IInv', NEW c \in Conn, LockPending(c)
  PROVE  Refined
<1> DEFINE p == ProcOf[c]
           type == IF req[c] = SHARED_LOCK THEN "rd" ELSE "wr"
<1>1. /\ pc[c] = "lk_pending" /\ pc'[c] \in {"lk_shared", "lk_write", "idle"}
      /\ \A d \in Conn \ {c} : pc'[d] = pc[d] /\ eFileLock'[d] = eFileLock[d]
      /\ p \in Proc
  BY Types, Facts DEF LockPending
<1>2. sys' = sys \/ (FileLockOk(p, type, {"PENDING"}) /\ sys' = SysAfter(p, type, {"PENDING"}))
  BY DEF LockPending, FileLock, FileLockFails
<1>3. /\ \A q \in Proc \ {p} : sys'[q] = sys[q]
      /\ sys'[p]["RESERVED"] = sys[p]["RESERVED"]
  <2>1. type \in {"none", "rd", "wr"} /\ {"PENDING"} \in SUBSET Byte /\ "RESERVED" \notin {"PENDING"}
    BY DEF Byte
  <2> HIDE DEF type
  <2> QED BY <1>1, <1>2, <2>1, ReservedByte
<1>4. Touches(c) /\ OthersKeep(c)
  BY <1>1, <1>3, OthersKept DEF Touches
<1>5. CASE eFileLock' = eFileLock
  BY <1>1, <1>3, <1>4, <1>5, Stutter DEF Held, Refined
<1>6. CASE SiblingReads(p, req[c]) /\ eFileLock' = [eFileLock EXCEPT ![c] = PENDING_LOCK]
  <2>1. Held(c) \in {SHARED_LOCK, RESERVED_LOCK} /\ Held(c)' = PENDING_LOCK
    BY <1>1, <1>6, Facts, Types DEF StepAt, SiblingReads, Held
  <2>2. \A d \in Conn \ {c} : Held(d) < PENDING_LOCK
    BY <1>4, <2>1, After DEF SolePending, OthersKeep
  <2>3. Reserves(c) => Reserves(c)'
    BY <1>3, <2>1 DEF Reserves
  <2>4. Reserves(c)' => \A d \in Conn \ {c} : ~Reserves(d)
    BY <1>4, After DEF SoleReservation, OthersKeep
  <2> QED BY <1>4, <2>1, <2>2, <2>3, <2>4, AbsGetPending DEF Refined
<1> QED BY <1>5, <1>6 DEF LockPending

LEMMA LockSharedRefines ==
  ASSUME IInv, NEW c \in Conn, LockShared(c)
  PROVE  Refined
<1> DEFINE p == ProcOf[c]
<1>1. /\ pc[c] = "lk_shared" /\ pc'[c] \in {"lk_drop_ok", "lk_drop_fail"}
      /\ eFileLock' = eFileLock /\ p \in Proc
      /\ \A d \in Conn \ {c} : pc'[d] = pc[d]
  BY Types, Facts DEF LockShared
<1>2. sys' = sys \/ (FileLockOk(p, "rd", {"SHARED"}) /\ sys' = SysAfter(p, "rd", {"SHARED"}))
  BY DEF LockShared, FileLock, FileLockFails
<1>3. /\ \A q \in Proc \ {p} : sys'[q] = sys[q]
      /\ sys'[p]["RESERVED"] = sys[p]["RESERVED"]
  <2>1. {"SHARED"} \in SUBSET Byte /\ "RESERVED" \notin {"SHARED"}
    BY DEF Byte
  <2> QED BY <1>1, <1>2, <2>1, ReservedByte
<1> QED BY <1>1, <1>3, Stutter DEF Touches, Held, Refined

LEMMA LockDropPendingRefines ==
  ASSUME IInv, IInv', NEW c \in Conn, LockDropPending(c)
  PROVE  Refined
<1> DEFINE p == ProcOf[c]
<1>1. /\ pc[c] \in {"lk_drop_ok", "lk_drop_fail"} /\ pc'[c] = "idle" /\ p \in Proc
      /\ \A d \in Conn \ {c} : pc'[d] = pc[d] /\ eFileLock'[d] = eFileLock[d]
  BY Types, Facts DEF LockDropPending
<1>2. sys' = sys \/ (FileLockOk(p, "none", {"PENDING"}) /\ sys' = SysAfter(p, "none", {"PENDING"}))
  BY DEF LockDropPending, FileLock, FileLockFails
<1>3. /\ \A q \in Proc \ {p} : sys'[q] = sys[q]
      /\ sys'[p]["RESERVED"] = sys[p]["RESERVED"]
  <2>1. {"PENDING"} \in SUBSET Byte /\ "RESERVED" \notin {"PENDING"}
    BY DEF Byte
  <2> QED BY <1>1, <1>2, <2>1, ReservedByte
<1>4. Touches(c) /\ OthersKeep(c)
  BY <1>1, <1>3, OthersKept DEF Touches
<1>5. CASE eFileLock' = eFileLock
  BY <1>1, <1>3, <1>4, <1>5, Stutter DEF Held, Refined
<1>6. CASE pc[c] = "lk_drop_ok" /\ eFileLock' = [eFileLock EXCEPT ![c] = SHARED_LOCK]
  <2>1. Held(c) = NO_LOCK /\ Held(c)' = SHARED_LOCK /\ inode[p].eFileLock = NO_LOCK
    BY <1>1, <1>6, Facts, Types DEF StepAt, Held
  <2>2. ASSUME NEW d \in Conn \ {c}
        PROVE  \/ Held(d) < PENDING_LOCK
               \/ Held(d) = PENDING_LOCK /\ ProcOf[d] # p
    <3>1. Held(d) # EXCLUSIVE_LOCK /\ Held(d) \in Level
      BY <1>4, <2>1, After, Facts DEF ExclusiveAlone, OthersKeep, Held
    <3>2. ProcOf[d] = p => Held(d) < PENDING_LOCK
      BY <2>1, Facts DEF SiblingAt, Held
    <3> QED BY <3>1, <3>2
  <2> QED BY <1>4, <2>1, <2>2, AbsGetShared DEF Refined
<1> QED BY <1>5, <1>6 DEF LockDropPending

LEMMA LockWriteRefines ==
  ASSUME IInv, IInv', NEW c \in Conn, LockWrite(c)
  PROVE  Refined
<1> DEFINE p == ProcOf[c]
           bytes == IF req[c] = RESERVED_LOCK THEN {"RESERVED"} ELSE {"SHARED"}
           Taken == FileLockOk(p, "wr", bytes) /\ sys' = SysAfter(p, "wr", bytes)
<1>1. /\ pc[c] = "lk_write" /\ pc'[c] = "idle" /\ p \in Proc
      /\ \A d \in Conn \ {c} : pc'[d] = pc[d] /\ eFileLock'[d] = eFileLock[d]
  BY Types, Facts DEF LockWrite
<1>2. /\ req[c] \in {RESERVED_LOCK, EXCLUSIVE_LOCK} /\ Held(c) = eFileLock[c]
      /\ Held(c) \in {SHARED_LOCK, RESERVED_LOCK, PENDING_LOCK, EXCLUSIVE_LOCK}
      /\ inode[p].eFileLock = Held(c)
      /\ req[c] = RESERVED_LOCK => Held(c) = SHARED_LOCK
      /\ req[c] = EXCLUSIVE_LOCK => Held(c) # EXCLUSIVE_LOCK
  BY <1>1, Facts DEF StepAt, Held
<1>3. sys' = sys \/ Taken
  BY DEF LockWrite, FileLock, FileLockFails
<1>4. bytes \in SUBSET Byte /\ ("RESERVED" \in bytes <=> req[c] = RESERVED_LOCK)
  BY DEF Byte
<1>5. /\ \A q \in Proc \ {p} : sys'[q] = sys[q]
      /\ req[c] = EXCLUSIVE_LOCK => sys'[p]["RESERVED"] = sys[p]["RESERVED"]
      /\ req[c] = RESERVED_LOCK /\ Taken /\ p \notin ExclProc => sys'[p]["RESERVED"] = "wr"
  <2> HIDE DEF bytes
  <2> QED BY <1>1, <1>2, <1>3, <1>4, ReservedByte
<1>6. req[c] = RESERVED_LOCK => \A d \in Handles(p) \ {c} : Held(d) <= SHARED_LOCK
  <2> SUFFICES ASSUME req[c] = RESERVED_LOCK, NEW d \in Conn, ProcOf[d] = p, d # c,
                      ~(Held(d) <= SHARED_LOCK)
               PROVE  FALSE
    BY DEF Handles
  <2>1. eFileLock[d] > SHARED_LOCK /\ pc[d] # "ul_all"
    BY Facts DEF Held
  <2> QED BY <1>2, <2>1, Facts DEF SiblingAt
<1>7. Touches(c) /\ OthersKeep(c)
  BY <1>1, <1>2, <1>5, <1>6, OthersKept DEF Touches
<1>8. CASE eFileLock' = eFileLock /\ req[c] = RESERVED_LOCK
  BY <1>1, <1>2, <1>7, <1>8, Stutter DEF Held, Refined
<1>9. CASE /\ eFileLock' = [eFileLock EXCEPT ![c] = req[c]]
           /\ Taken /\ req[c] = RESERVED_LOCK
  <2>1. Held(c)' = RESERVED_LOCK
    BY <1>1, <1>9, Types DEF Held
  <2>2. Reserves(c)'
    BY <1>5, <1>9, <2>1 DEF Reserves
  <2>3. \A d \in Conn \ {c} : ~Reserves(d)
    BY <1>7, <2>2, After DEF SoleReservation, OthersKeep
  <2> QED BY <1>2, <1>7, <1>9, <2>1, <2>2, <2>3, AbsGetReserved DEF Refined
<1>10. CASE eFileLock' = [eFileLock EXCEPT ![c] = req[c]] /\ req[c] = EXCLUSIVE_LOCK
  <2>1. Held(c)' = EXCLUSIVE_LOCK
    BY <1>1, <1>10, Types DEF Held
  <2>2. \A d \in Conn \ {c} : Held(d) = NO_LOCK
    BY <1>7, <2>1, After DEF ExclusiveAlone, OthersKeep
  <2>3. Reserves(c) => Reserves(c)'
    BY <1>5, <1>10, <2>1 DEF Reserves
  <2> QED BY <1>2, <1>7, <1>10, <2>1, <2>2, <2>3, AbsGetExclusive DEF Refined
<1>11. CASE eFileLock' = [eFileLock EXCEPT ![c] = PENDING_LOCK] /\ req[c] = EXCLUSIVE_LOCK
  <2>1. Held(c)' = PENDING_LOCK
    BY <1>1, <1>11, Types DEF Held
  <2>2. CASE Held(c) = PENDING_LOCK
    BY <1>5, <1>7, <1>11, <2>1, <2>2, Stutter DEF Refined
  <2>3. CASE Held(c) \in {SHARED_LOCK, RESERVED_LOCK}
    <3>1. \A d \in Conn \ {c} : Held(d) < PENDING_LOCK
      BY <1>7, <2>1, After DEF SolePending, OthersKeep
    <3>2. Reserves(c) => Reserves(c)'
      BY <1>5, <1>11, <2>1 DEF Reserves
    <3>3. Reserves(c)' => \A d \in Conn \ {c} : ~Reserves(d)
      BY <1>7, After DEF SoleReservation, OthersKeep
    <3> QED BY <1>7, <2>1, <2>3, <3>1, <3>2, <3>3, AbsGetPending DEF Refined
  <2> QED BY <1>2, <1>11, <2>2, <2>3
<1> QED
  <2>1. \/ eFileLock' = [eFileLock EXCEPT ![c] = req[c]] /\ Taken
        \/ eFileLock' = [eFileLock EXCEPT ![c] = PENDING_LOCK] /\ req[c] = EXCLUSIVE_LOCK
        \/ eFileLock' = eFileLock /\ req[c] = RESERVED_LOCK
    BY DEF LockWrite, FileLock
  <2> HIDE DEF Taken
  <2> QED BY <1>2, <1>8, <1>9, <1>10, <1>11, <2>1

\* Leaving the process's read-lock: at once, or by way of unlocking the whole file.
LEMMA LeaveSharedRefines ==
  ASSUME IInv, NEW c \in Conn, NEW ino, NEW sysNew, NEW ret \in {"idle", "closing"},
         LeaveShared(c, ino, sysNew, ret), Touches(c), pc[c] # "ul_all",
         Held(c) >= SHARED_LOCK
  PROVE  Refined
<1>1. OthersKeep(c) /\ Held(c) = eFileLock[c] /\ Held(c) > NO_LOCK
  BY OthersKept, Facts DEF Held
<1>2. CASE eFileLock' = [eFileLock EXCEPT ![c] = NO_LOCK] /\ pc' = [pc EXCEPT ![c] = ret]
  <2>1. Held(c)' = NO_LOCK
    BY <1>2, Types DEF Held
  <2> QED BY <1>1, <2>1, AbsRelease DEF Refined
<1>3. CASE eFileLock' = eFileLock /\ pc' = [pc EXCEPT ![c] = "ul_all"]
  <2>1. Held(c)' = SHARED_LOCK
    BY <1>3, Types DEF Held
  <2>2. CASE Held(c) > SHARED_LOCK
    BY <1>1, <2>1, <2>2, AbsRelease DEF Refined
  <2>3. CASE Held(c) = SHARED_LOCK
    BY <2>1, <2>3, Stutter DEF Refined
  <2> QED BY <2>2, <2>3, Facts, <1>1
<1> QED BY <1>2, <1>3 DEF LeaveShared

LEMMA UnlockEnterRefines ==
  ASSUME IInv, NEW c \in Conn, NEW l, NEW ret \in {"idle", "closing"}, UnlockEnter(c, l, ret)
  PROVE  Refined
<1> DEFINE p == ProcOf[c]
<1>1. /\ pc[c] = "idle" /\ sys' = sys /\ Held(c) = eFileLock[c]
      /\ \A d \in Conn \ {c} : pc'[d] = pc[d] /\ eFileLock'[d] = eFileLock[d]
  BY Types DEF UnlockEnter, LeaveShared, Held
<1>2. Touches(c)
  BY <1>1 DEF Touches
<1>3. CASE UNCHANGED eFileLock /\ pc'[c] \in {"ul_rdlock", "ul_pending"}
  BY <1>1, <1>2, <1>3, Stutter DEF Held, Refined
<1>4. CASE eFileLock[c] = SHARED_LOCK /\ LeaveShared(c, inode[p], sys, ret)
  BY <1>1, <1>2, <1>4, LeaveSharedRefines
<1> QED BY <1>3, <1>4, Types DEF UnlockEnter

LEMMA UnlockToReadRefines ==
  ASSUME IInv, NEW c \in Conn, UnlockToRead(c)
  PROVE  Refined
<1> DEFINE p == ProcOf[c]
<1>1. /\ pc[c] = "ul_rdlock" /\ pc'[c] \in {"ul_pending", "closing", "idle"}
      /\ eFileLock' = eFileLock /\ p \in Proc
      /\ \A d \in Conn \ {c} : pc'[d] = pc[d]
  BY Types, Facts DEF UnlockToRead, Return
<1>2. sys' = sys \/ (FileLockOk(p, "rd", {"SHARED"}) /\ sys' = SysAfter(p, "rd", {"SHARED"}))
  BY DEF UnlockToRead, FileLock, FileLockFails
<1>3. /\ \A q \in Proc \ {p} : sys'[q] = sys[q]
      /\ sys'[p]["RESERVED"] = sys[p]["RESERVED"]
  <2>1. {"SHARED"} \in SUBSET Byte /\ "RESERVED" \notin {"SHARED"}
    BY DEF Byte
  <2> QED BY <1>1, <1>2, <2>1, ReservedByte
<1> QED BY <1>1, <1>3, Stutter DEF Touches, Held, Refined

LEMMA UnlockPendingRefines ==
  ASSUME IInv, NEW c \in Conn, UnlockPending(c)
  PROVE  Refined
<1> DEFINE p == ProcOf[c]
           bytes == {"PENDING", "RESERVED"}
           ino == [InodeAfter(p) EXCEPT !.eFileLock = SHARED_LOCK]
           Freed == FileLockOk(p, "none", bytes) /\ sys' = SysAfter(p, "none", bytes)
<1>1. /\ pc[c] = "ul_pending" /\ p \in Proc /\ Return(c) \in {"idle", "closing"}
      /\ \A d \in Conn \ {c} : pc'[d] = pc[d] /\ eFileLock'[d] = eFileLock[d]
  BY Types, Facts DEF UnlockPending, LeaveShared, Return
<1>2. Held(c) = eFileLock[c] /\ Held(c) > SHARED_LOCK
  BY <1>1, Facts DEF StepAt, Held
<1>3. sys' = sys \/ Freed
  BY DEF UnlockPending, FileLock, FileLockFails, LeaveShared
<1>4. \A q \in Proc \ {p} : sys'[q] = sys[q]
  <2>1. bytes \in SUBSET Byte
    BY DEF Byte
  <2> HIDE DEF bytes
  <2> QED BY <1>1, <1>3, <2>1, ReservedByte
<1>5. \A d \in Handles(p) \ {c} : Held(d) <= SHARED_LOCK
  BY <1>2, SiblingBelow DEF Handles
<1>6. Touches(c) /\ OthersKeep(c)
  BY <1>1, <1>4, <1>5, OthersKept DEF Touches
<1>7. CASE /\ eFileLock' = [eFileLock EXCEPT ![c] = SHARED_LOCK]
           /\ pc' = [pc EXCEPT ![c] = Return(c)]
  <2>1. Held(c)' = SHARED_LOCK
    BY <1>1, <1>7, Types DEF Held
  <2> QED BY <1>2, <1>6, <2>1, AbsRelease DEF Refined
<1>8. CASE LeaveShared(c, ino, SysAfter(p, "none", bytes), Return(c))
  <2>1. Held(c) >= SHARED_LOCK /\ pc[c] # "ul_all"
    BY <1>1, <1>2, Facts
  <2> HIDE DEF ino, bytes
  <2> QED BY <1>1, <1>6, <1>8, <2>1, LeaveSharedRefines
<1>9. CASE eFileLock' = eFileLock /\ pc' = [pc EXCEPT ![c] = Return(c)] /\ sys' = sys
  BY <1>1, <1>6, <1>9, Stutter, Types DEF Held, Refined
<1> QED BY <1>7, <1>8, <1>9 DEF UnlockPending, FileLockFails

LEMMA UnlockAllRefines ==
  ASSUME IInv, NEW c \in Conn, UnlockAll(c)
  PROVE  Refined
<1> DEFINE p == ProcOf[c]
<1>1. /\ pc[c] = "ul_all" /\ p \in Proc /\ pc'[c] \in {"idle", "closing"} /\ eFileLock'[c] = NO_LOCK
      /\ \A d \in Conn \ {c} : pc'[d] = pc[d] /\ eFileLock'[d] = eFileLock[d]
  BY Types, Facts DEF UnlockAll, Return
<1>2. \/ sys' = sys
      \/ sys' = CloseFd(p)
      \/ FileLockOk(p, "none", Byte) /\ sys' = SysAfter(p, "none", Byte)
  BY DEF UnlockAll
<1>3. \A q \in Proc \ {p} : sys'[q] = sys[q]
  <2>1. sys' = CloseFd(p) => \A q \in Proc \ {p} : sys'[q] = sys[q]
    BY Types DEF CloseFd, SysType
  <2>2. Byte \in SUBSET Byte
    OBVIOUS
  <2> QED BY <1>1, <1>2, <2>1, <2>2, ReservedByte
<1>4. \A d \in Handles(p) \ {c} : Held(d) <= SHARED_LOCK
  <2> SUFFICES ASSUME NEW d \in Conn, ProcOf[d] = p, d # c PROVE Held(d) <= SHARED_LOCK
    BY DEF Handles
  <2>1. inode[p].nShared = 0
    BY <1>1, Facts DEF StepAt
  <2> QED BY <2>1, Facts, Counted DEF Held
<1>5. OthersKeep(c)
  BY <1>1, <1>3, <1>4, OthersKept DEF Touches
<1>6. Held(c) = SHARED_LOCK /\ Held(c)' = NO_LOCK
  BY <1>1 DEF Held
<1> QED BY <1>5, <1>6, AbsRelease DEF Refined

LEMMA CloseEnterRefines ==
  ASSUME IInv, NEW c \in Conn, CloseEnter(c)
  PROVE  Refined
<1>1. CASE UnlockEnter(c, NO_LOCK, "closing")
  BY <1>1, UnlockEnterRefines
<1>2. CASE /\ pc' = [pc EXCEPT ![c] = "closing"] /\ eFileLock' = eFileLock /\ sys' = sys
  <2>1. Touches(c)
    BY <1>2, Types DEF Touches
  <2>2. Held(c)' = Held(c)
    BY <1>2, Types DEF CloseEnter, Held
  <2> QED BY <1>2, <2>1, <2>2, Stutter DEF Refined
<1> QED BY <1>1, <1>2 DEF CloseEnter

LEMMA CloseFinishRefines ==
  ASSUME IInv, NEW c \in Conn, CloseFinish(c)
  PROVE  Refined
<1> DEFINE p == ProcOf[c]
           last == inode[p].nRef = 1
           held == inode[p].nLock > 0
<1>1. /\ pc[c] = "closing" /\ p \in Proc /\ pc'[c] = "closed" /\ eFileLock'[c] = NO_LOCK
      /\ MutexFree(p) /\ sys' = IF last \/ ~held THEN CloseFd(p) ELSE sys
      /\ \A d \in Conn \ {c} : pc'[d] = pc[d] /\ eFileLock'[d] = eFileLock[d]
  BY Types, Facts DEF CloseFinish
<1>2. \A q \in Proc \ {p} : sys'[q] = sys[q]
  BY <1>1, Types DEF CloseFd, SysType
<1>3. last \/ ~held => \A d \in Handles(p) \ {c} : Held(d) <= SHARED_LOCK
  <2> SUFFICES ASSUME last \/ ~held, NEW d \in Conn, ProcOf[d] = p, d # c
               PROVE  Held(d) <= SHARED_LOCK
    BY DEF Handles
  <2>1. pc[d] # "ul_all" /\ Held(d) = eFileLock[d]
    BY <1>1 DEF MutexFree, Handles, UnlockSteps, Held
  <2>2. CASE last
    <3>1. pc[d] \in {"closed", "opening"}
      BY <1>1, <2>2, Counted, Facts
    <3> QED BY <2>1, <3>1, Facts DEF StepAt
  <2>3. CASE ~held
    <3>1. \A e \in Handles(p) : pc[e] # "ul_all"
      BY <1>1 DEF MutexFree, UnlockSteps
    <3>2. inode[p].nShared = 0
      BY <2>3, <3>1, Facts DEF BackedAt, ProcessLock
    <3> QED BY <2>1, <3>2, Facts, Counted
  <2> QED BY <2>2, <2>3
<1>4. Touches(c) /\ OthersKeep(c)
  BY <1>1, <1>2, <1>3, OthersKept DEF Touches
<1>5. Held(c) = eFileLock[c] /\ Held(c)' = NO_LOCK /\ Held(c) \in Level
  BY <1>1, Facts DEF Held
<1>6. CASE Held(c) > NO_LOCK
  BY <1>4, <1>5, <1>6, AbsRelease DEF Refined
<1>7. CASE Held(c) = NO_LOCK
  BY <1>4, <1>5, <1>7, Stutter DEF Refined
<1> QED BY <1>5, <1>6, <1>7

LEMMA ProcessDiesRefines ==
  ASSUME IInv, NEW p \in Proc, ProcessDies(p)
  PROVE  Refined
<1>1. \A d \in Handles(p) : Held(d)' = NO_LOCK
  BY DEF ProcessDies, Handles, Held
<1>2. ASSUME NEW d \in Conn \ Handles(p)
      PROVE  Held(d)' = Held(d) /\ (Reserves(d)' <=> Reserves(d))
  <2>1. ProcOf[d] # p /\ ProcOf[d] \in Proc
    BY Facts DEF Handles
  <2>2. pc'[d] = pc[d] /\ eFileLock'[d] = eFileLock[d] /\ sys'[ProcOf[d]] = sys[ProcOf[d]]
    BY <2>1, Types DEF ProcessDies, CloseFd, SysType
  <2> QED BY <2>2 DEF Held, Reserves
<1>3. Handles(p) \in SUBSET Conn
  BY DEF Handles
<1> QED BY <1>1, <1>2, <1>3, AbsDie DEF Refined

-----------------------------------------------------------------------------
\* A step of the system-call level is a step of the promise or none at all.
LEMMA StepRefines ==
  ASSUME IInv, IInv', [Next]_vars
  PROVE  Refined
<1>1. ASSUME NEW c \in Conn, Open(c) \/ FindInodeInfo(c) \/ FindInodeInfoFails(c)
      PROVE  Refined
  BY <1>1, OpenRefines, FindInodeInfoFailsRefines
<1>2. ASSUME NEW c \in Conn, NEW l \in Level, LockEnter(c, l) PROVE Refined
  BY <1>2, LockEnterRefines
<1>3. ASSUME NEW c \in Conn, NEW l \in Level, Unlock(c, l) PROVE Refined
  <2>1. UnlockEnter(c, l, "idle") /\ "idle" \in {"idle", "closing"}
    BY <1>3 DEF Unlock
  <2> QED BY <2>1, UnlockEnterRefines
<1>4. ASSUME NEW c \in Conn,
             LockPending(c) \/ LockShared(c) \/ LockDropPending(c) \/ LockWrite(c)
      PROVE  Refined
  BY <1>4, LockPendingRefines, LockSharedRefines, LockDropPendingRefines, LockWriteRefines
<1>5. ASSUME NEW c \in Conn, UnlockToRead(c) \/ UnlockPending(c) \/ UnlockAll(c) PROVE Refined
  BY <1>5, UnlockToReadRefines, UnlockPendingRefines, UnlockAllRefines
<1>6. ASSUME NEW c \in Conn, CloseEnter(c) \/ CloseFinish(c) PROVE Refined
  BY <1>6, CloseEnterRefines, CloseFinishRefines
<1>7. ASSUME NEW p \in Proc, ProcessDies(p) PROVE Refined
  BY <1>7, ProcessDiesRefines
<1>8. CASE UNCHANGED vars
  BY <1>8, AbsStutter DEF vars, Held, Reserves, Refined
<1> QED BY <1>1, <1>2, <1>3, <1>4, <1>5, <1>6, <1>7, <1>8 DEF Next

\* unixLock(), posixUnlock() and unixClose() deliver what module FileLock promises the
\* pager: each system call is one step of the promise, or invisible to it.
THEOREM FileLockRefined == Spec => RefinesFileLock
<1>1. Init => Abs!Init
  <2> SUFFICES ASSUME Init PROVE Abs!Init
    OBVIOUS
  <2>1. \A d \in Conn : Held(d) = NO_LOCK
    BY DEF Init, Held
  <2> QED BY <2>1 DEF Abs!Init, Abs!NO_LOCK
<1>2. IInv /\ IInv' /\ [Next]_vars => [Abs!Next]_(Abs!vars)
  BY StepRefines DEF Refined
<1> QED BY <1>1, <1>2, IInvHolds, PTL DEF Spec, RefinesFileLock, Abs!Spec
=============================================================================
