-------------------------- MODULE MCServerThreads --------------------------
(***************************************************************************)
(* One peer, and five small servers: one whose bridges are set up by two   *)
(* threads at once, and four that are stopped, with a bridge, with two     *)
(* jobs for two workers and for one, and with another periodic thread.     *)
(***************************************************************************)
EXTENDS ServerThreads

CONSTANTS p1, w1, w2, o1

MCBounds ==
  {[started |-> {w1}, jobs |-> 1, bridges |-> 2, clients |-> TRUE, stop |-> FALSE],
   [started |-> {w1}, jobs |-> 0, bridges |-> 1, clients |-> FALSE, stop |-> TRUE],
   [started |-> {w1, w2}, jobs |-> 2, bridges |-> 0, clients |-> FALSE, stop |-> TRUE],
   [started |-> {w1}, jobs |-> 2, bridges |-> 0, clients |-> FALSE, stop |-> TRUE],
   [started |-> {w1, o1}, jobs |-> 1, bridges |-> 0, clients |-> TRUE, stop |-> TRUE]}
=============================================================================
