---------------------------- MODULE MCMembership ----------------------------
(* Small clusters for TLC.                                                 *)
EXTENDS Membership, TLC

CONSTANTS h1, h2, h3, h4

Seeds21 == <<h2, h1>>
=============================================================================
