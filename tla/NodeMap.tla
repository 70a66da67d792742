------------------------------ MODULE NodeMap ------------------------------
(***************************************************************************)
(* What the table of nodes promises to RaftServer (m_Nodes in              *)
(* raft_server.h): it holds nodes in the order of their addition, each     *)
(* under a key of its own, finds them by key, and answers the removal of a *)
(* node with the one after it.                                             *)
(***************************************************************************)
EXTENDS Integers, Sequences

CONSTANTS Node, Key, NULL

VARIABLES
  entries,  \* the sequence of <<node, key>> in the table
  result    \* what the last call returned

Keys == {entries[i][2] : i \in DOMAIN entries}
Nodes == {entries[i][1] : i \in DOMAIN entries}

IndexOf(P(_)) == CHOOSE i \in DOMAIN entries : P(entries[i])
Without(i) == [j \in 1..Len(entries) - 1 |-> entries[IF j < i THEN j ELSE j + 1]]
NodeAfter(i) == IF i < Len(entries) THEN entries[i + 1][1] ELSE NULL

Init == entries = <<>> /\ result = NULL

\* a node whose key could not be stored is in the order, and in no search
AddData(n, k) ==
  /\ n \notin Nodes
  /\ IF k \in Keys THEN UNCHANGED entries
     ELSE \E key \in {k, NULL} : entries' = Append(entries, <<n, key>>)
  /\ result' = (k \notin Keys)

RemoveNode(n) ==
  LET i == IndexOf(LAMBDA e : e[1] = n)
  IN /\ n \in Nodes
     /\ entries' = Without(i)
     /\ result' = NodeAfter(i)

RemoveKey(k) ==
  LET i == IndexOf(LAMBDA e : e[2] = k)
  IN IF k \in Keys
     THEN entries' = Without(i) /\ result' = NodeAfter(i)
     ELSE result' = NULL /\ UNCHANGED entries

FindEntry(k) ==
  /\ result' = IF k \in Keys THEN entries[IndexOf(LAMBDA e : e[2] = k)][1] ELSE NULL
  /\ UNCHANGED entries

Next ==
  \/ \E n \in Node, k \in Key : AddData(n, k)
  \/ \E n \in Node : RemoveNode(n)
  \/ \E k \in Key : RemoveKey(k) \/ FindEntry(k)

Spec == Init /\ [][Next]_<<entries, result>>
=============================================================================
