---------------------------- MODULE MCNodeTable ----------------------------
(* The table with four keys in two slots, three of them in one.         *)
EXTENDS NodeTable

CONSTANTS k1, k2, k3, k4, b1, b2

MCKey == {k1, k2, k3, k4}
MCHash == [k \in MCKey |-> IF k = k4 THEN b2 ELSE b1]
=============================================================================
