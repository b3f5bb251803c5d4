------------------------------ MODULE MCPager ------------------------------
(* Instances of Pager for TLC. *)
EXTENDS Pager, TLC

Symmetry == Permutations(Conn)

\* Every connection in a process of its own, or all in one process.
OwnProc  == [c \in Conn |-> c]
OneProc  == [c \in Conn |-> "p"]

Config(conns, mode, full, init, pages, tx, faults, kills, power) ==
  [conns |-> conns, mode |-> [c \in Conn |-> mode], fullSync |-> full, init |-> init,
   pages |-> pages, tx |-> tx, faults |-> faults, kills |-> kills, power |-> power]

\* A process killed anywhere, or an I/O error, in a transaction that may extend the
\* file, beside another connection; a database that is created; and three errors,
\* enough for an error state whose lock cannot be given back, on one page.
CrashSetups ==
  {Config(Conn, "delete", TRUE, <<0>>, 2, 1, 0, 1, 0),
   Config(Conn, "delete", FALSE, <<>>, 1, 2, 0, 1, 0),
   Config(Conn, "delete", FALSE, <<0>>, 2, 1, 1, 0, 0),
   Config(Conn, "delete", FALSE, <<0>>, 1, 1, 3, 0, 0)}

\* Power losses: two of them around a transaction of a single connection that may
\* grow and shrink the file; two I/O errors or a kill instead; and one power loss
\* among two transactions that use the same journal file.
PowerSetups ==
  UNION {{Config({c}, "delete", TRUE, <<0, 0>>, 3, 1, 0, 0, 2),
          Config({c}, "delete", TRUE, <<0, 0>>, 2, 1, 2, 0, 0),
          Config({c}, "truncate", TRUE, <<0, 0>>, 2, 2, 0, 0, 1),
          Config({c}, "persist", TRUE, <<0>>, 2, 2, 0, 0, 1),
          Config({c}, "delete", TRUE, <<0, 0>>, 2, 1, 0, 1, 0)} : c \in Conn}

AtomicitySetups == CrashSetups \cup PowerSetups

\* Connections of one process and an I/O error.
SiblingSetups == {Config(Conn, "delete", FALSE, <<0, 0>>, 2, 1, 1, 0, 0)}
=============================================================================
