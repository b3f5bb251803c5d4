------------------------------- MODULE MCWal -------------------------------
(***************************************************************************)
(* Instances of Wal for TLC.                                               *)
(***************************************************************************)
EXTENDS Wal, TLC

CONSTANTS a, b, c

\* A reader, a writer and a checkpointer, over a log that has one commit.
Roles == [readers |-> {b}, writers |-> {a}, ckpts |-> {c}, full |-> TRUE, gaps |-> FALSE,
          warm |-> TRUE, sizes |-> {1}, tx |-> 1, spills |-> 0, reads |-> 1, runs |-> 1,
          closes |-> 0, faults |-> 0, kills |-> 0, power |-> 0]

\* The same with two connections, for which longer runs can be afforded: commits of two
\* frames, a writer or a reader that also runs checkpoints, closes, kills, failing calls,
\* and power losses under either setting of "synchronous".
WalSetups ==
  {Roles,
   [Roles EXCEPT !.ckpts = {a}, !.sizes = {2}],
   [Roles EXCEPT !.ckpts = {b}, !.sizes = {2}, !.reads = 2],
   [Roles EXCEPT !.ckpts = {a}, !.runs = 2],
   [Roles EXCEPT !.readers = {}, !.ckpts = {b}, !.warm = FALSE, !.tx = 2, !.closes = 2],
   [Roles EXCEPT !.ckpts = {b}, !.kills = 1],
   [Roles EXCEPT !.readers = {}, !.ckpts = {b}, !.sizes = {1, 2}, !.spills = 1,
                 !.faults = 1],
   [Roles EXCEPT !.readers = {}, !.ckpts = {b}, !.sizes = {1, 2}, !.power = 1],
   [Roles EXCEPT !.readers = {}, !.ckpts = {b}, !.sizes = {1, 2}, !.power = 1,
                 !.full = FALSE]}

\* A checkpointer and a writer that may restart the log at any time.
ResetSetups ==
  {[Roles EXCEPT !.readers = {}, !.ckpts = {b}, !.sizes = {1, 2}, !.tx = 2, !.runs = 2,
                 !.gaps = TRUE]}
=============================================================================
