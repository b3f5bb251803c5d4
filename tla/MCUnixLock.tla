----------------------------- MODULE MCUnixLock -----------------------------
(***************************************************************************)
(* Instances of UnixLock.  Process "p" has two handles with the posix VFS, *)
(* "px" has two with unix-excl, and "q" has one; "present" names the       *)
(* processes of a behaviour: "q" and one of the others, or "p" alone.  For *)
(* progress, three processes with a handle each.                           *)
(***************************************************************************)
EXTENDS UnixLock, TLC

CONSTANTS a, b, c, d, x

VARIABLE present

MCConn   == {a, b, c, d, x}
MCProc   == {"p", "px", "q"}
MCProcOf == [h \in MCConn |-> CASE h \in {a, b} -> "p" [] h \in {c, d} -> "px"
                                [] h = x -> "q"]
MCExcl   == {"px"}

MCInit == Init /\ present \in {{"p", "q"}, {"px", "q"}, {"p"}}

\* Two failing calls in a process that is alone, one beside another process.
MCNext ==
  /\ Next
  /\ UNCHANGED present
  /\ \A h \in Conn : ProcOf[h] \notin present => pc'[h] = "closed"
  /\ "q" \in present => faults' <= 1

MCSpec == MCInit /\ [][MCNext]_<<vars, present>>

\* The handles of a process are alike.
Symmetry == Permutations({a, b}) \cup Permutations({c, d})

LiveConn   == {a, b, x}
LiveProc   == {"p", "q", "r"}
LiveProcOf == [h \in LiveConn |-> CASE h = a -> "p" [] h = b -> "q" [] h = x -> "r"]
LiveExcl   == {}

LiveInit == Init /\ present = Proc

LiveSpec ==
  /\ LiveInit
  /\ [][Next /\ UNCHANGED present]_<<vars, present>>
  /\ Fairness
=============================================================================
