---------------------------- MODULE MCRaftServer ----------------------------
(* RaftServer and RaftClaims for TLC.  A timer expires after one tick, and *)
(* a channel holds one message: what is sent while it is full is lost.     *)
EXTENDS RaftClaims, TLC

Steps1 == {1}
Start0 == {0}
Ids == {0, 1}
NoIds == {}
NoFlag == {}

\* servers the configuration does not tell apart
Symmetry ==
  Permutations(Campaigner \ FlaggedLeader)
    \cup Permutations((Server \ Campaigner) \ FlaggedLeader)
=============================================================================
