----------------------------- MODULE NodeTable -----------------------------
(***************************************************************************)
(* The table of nodes of a server, common::ListspecialAndHashtbl           *)
(* (include/common/impl.listspecialandhashtbl.hpp): an intrusive doubly    *)
(* linked list of nodes (ListSpecial, impl.lists.hpp) and a hash table of  *)
(* doubly linked chains (HashTbl, impl.common_hashtbl.hpp), pointer by     *)
(* pointer.  A call is one step: the callers hold the node lock.  The      *)
(* operations that move entries between two tables have no caller and are  *)
(* left out.                                                               *)
(***************************************************************************)
EXTENDS Integers, Sequences, FiniteSets

CONSTANTS
  Node, Key, NULL,
  Bucket, Hash   \* the slots of m_pTable, and the hash of a key reduced to one

ASSUME NodeTableAssumption ==
  /\ Hash \in [Key -> Bucket] /\ IsFiniteSet(Node)
  /\ NULL \notin Node \cup Key \cup Nat

VARIABLES
  m_first, m_last, m_nCount,  \* the list
  links,                      \* prev, next and key (a hash item) of each node
  m_pTable,                   \* the first item of each chain
  items,                      \* the memory of the hash items
  result,                     \* what the last call returned
  order                       \* history: the nodes of the list, in the order they came

listVars == <<m_first, m_last, m_nCount>>
hashVars == <<m_pTable, items>>
vars == <<listVars, links, hashVars, result, order>>

Item == 1..Cardinality(Node)
Freed == [prev |-> NULL, next |-> NULL, key |-> NULL, data |-> NULL]
Unlinked == [prev |-> NULL, next |-> NULL, key |-> NULL]

TypeOK ==
  /\ m_first \in Node \cup {NULL} /\ m_last \in Node \cup {NULL}
  /\ m_nCount \in 0..Cardinality(Node)
  /\ links \in [Node -> [prev : Node \cup {NULL}, next : Node \cup {NULL},
                         key : Item \cup {NULL}]]
  /\ m_pTable \in [Bucket -> Item \cup {NULL}]
  /\ items \in [Item -> [prev : Item \cup {NULL}, next : Item \cup {NULL},
                         key : Key \cup {NULL}, data : Node \cup {NULL}]]
  /\ result \in Node \cup BOOLEAN \cup {NULL}
  /\ order \in Seq(Node)

Init ==
  /\ m_first = NULL /\ m_last = NULL /\ m_nCount = 0
  /\ links = [n \in Node |-> Unlinked]
  /\ m_pTable = [b \in Bucket |-> NULL]
  /\ items = [i \in Item |-> Freed]
  /\ result = NULL /\ order = <<>>

\* the assignments p->next = v and p->prev = v under the test if(p)
SetNext(heap, p, v) == IF p = NULL THEN heap ELSE [heap EXCEPT ![p].next = v]
SetPrev(heap, p, v) == IF p = NULL THEN heap ELSE [heap EXCEPT ![p].prev = v]

\* the elements that a loop from p along next comes to: they are in every set that
\* has p and, with an element, the one after it
Closed(heap, S) == \A x \in S : heap[x].next \in S \cup {NULL}

From(heap, p) ==
  LET closed == {S \in SUBSET DOMAIN heap : (p = NULL \/ p \in S) /\ Closed(heap, S)}
  IN {x \in DOMAIN heap : \A S \in closed : x \in S}

-----------------------------------------------------------------------------
(* HashTbl                                                                 *)

Chain(b) == From(items, m_pTable[b])

\* the item that the loops of FindEntry and RemoveEntry2 stop at
ItemOf(k) ==
  LET found == {i \in Chain(Hash[k]) : items[i].key = k}
  IN IF found = {} THEN NULL
     ELSE CHOOSE i \in found : \A j \in found \ {i} : j \in From(items, items[i].next)

NewItem == CHOOSE i \in Item : items[i] = Freed

\* mutant: the old head of the chain is not told of the new one
AddEntry2NoPrev(n, k) ==
  LET old == m_pTable[Hash[k]]
  IN /\ items' = [items EXCEPT ![NewItem] = [prev |-> NULL, next |-> old, key |-> k,
                                             data |-> n]]
     /\ m_pTable' = [m_pTable EXCEPT ![Hash[k]] = NewItem]

AddEntry2(n, k) ==
  LET old == m_pTable[Hash[k]]
      new == [prev |-> NULL, next |-> old, key |-> k, data |-> n]
  IN /\ items' = SetPrev([items EXCEPT ![NewItem] = new], old, NewItem)
     /\ m_pTable' = [m_pTable EXCEPT ![Hash[k]] = NewItem]

\* the item is unlinked and deleted; its destructor unlinks it once more
RemoveEntry2(i) ==
  LET b == Hash[items[i].key]
      unlinked(heap) == SetPrev(SetNext(heap, heap[i].prev, heap[i].next),
                                heap[i].next, heap[i].prev)
  IN /\ m_pTable' = IF m_pTable[b] = i THEN [m_pTable EXCEPT ![b] = items[i].next]
                    ELSE m_pTable
     /\ items' = [unlinked(unlinked(items)) EXCEPT ![i] = Freed]

-----------------------------------------------------------------------------
(* ListSpecial.  The node's own links are in the variable links, with the  *)
(* key that AddData of the composed table sets.                            *)

AddDataRaw(n, key) ==
  /\ links' = SetNext([links EXCEPT ![n] = [prev |-> m_last, next |-> NULL, key |-> key]],
                      IF m_first = NULL THEN NULL ELSE m_last, n)
  /\ m_first' = IF m_first = NULL THEN n ELSE m_first
  /\ m_last' = n
  /\ m_nCount' = m_nCount + 1
  /\ order' = Append(order, n)

Place(n) == CHOOSE j \in 1..Len(order) : order[j] = n
Forget(n) ==
  order' = [j \in 1..Len(order) - 1 |-> order[IF j < Place(n) THEN j ELSE j + 1]]

\* mutant: the removal of the last node does not move m_last
RemoveDataRawKeepsLast(n) ==
  LET l == links[n]
  IN /\ links' = [SetPrev(SetNext(links, l.prev, l.next), l.next, l.prev)
                   EXCEPT ![n] = Unlinked]
     /\ m_first' = IF n = m_first THEN l.next ELSE m_first
     /\ m_nCount' = m_nCount - 1
     /\ result' = l.next
     /\ Forget(n)
     /\ UNCHANGED m_last

\* mutant: the list and the table that composes it both count the removal
RemoveDataRawCountedTwice(n) ==
  LET l == links[n]
  IN /\ links' = [SetPrev(SetNext(links, l.prev, l.next), l.next, l.prev)
                   EXCEPT ![n] = Unlinked]
     /\ m_first' = IF n = m_first THEN l.next ELSE m_first
     /\ m_last' = IF n = m_last THEN l.prev ELSE m_last
     /\ m_nCount' = m_nCount - 2
     /\ result' = l.next
     /\ Forget(n)

\* mutant: the caller of the removal gets the node before the removed one
RemoveDataRawPrev(n) ==
  LET l == links[n]
  IN /\ links' = [SetPrev(SetNext(links, l.prev, l.next), l.next, l.prev)
                   EXCEPT ![n] = Unlinked]
     /\ m_first' = IF n = m_first THEN l.next ELSE m_first
     /\ m_last' = IF n = m_last THEN l.prev ELSE m_last
     /\ m_nCount' = m_nCount - 1
     /\ result' = l.prev
     /\ Forget(n)

\* the callers delete the node, whose links are gone with it
RemoveDataRaw(n) ==
  LET l == links[n]
  IN /\ links' = [SetPrev(SetNext(links, l.prev, l.next), l.next, l.prev)
                   EXCEPT ![n] = Unlinked]
     /\ m_first' = IF n = m_first THEN l.next ELSE m_first
     /\ m_last' = IF n = m_last THEN l.prev ELSE m_last
     /\ m_nCount' = m_nCount - 1
     /\ result' = l.next
     /\ Forget(n)

-----------------------------------------------------------------------------
(* ListspecialAndHashtbl, as RaftServer calls it                           *)

\* the node is the first of the list, or has one before it
InList(n) == n = m_first \/ links[n].prev # NULL

\* a new node; when the key is known the table is left alone.  The allocation
\* of the hash item may fail.
AddData(n, k) ==
  /\ ~InList(n)
  /\ IF ItemOf(k) # NULL
     THEN result' = FALSE /\ UNCHANGED <<listVars, links, hashVars, order>>
     ELSE /\ result' = TRUE
          /\ \/ AddEntry2(n, k) /\ AddDataRaw(n, NewItem)
             \/ UNCHANGED hashVars /\ AddDataRaw(n, NULL)

\* the key is read through the node.  The test of the key is not in RemoveData but
\* in RemoveNode1, its caller, which has found the node by its key; ClearAllNodes
\* does not test, and a node without a key is hashed through NULL there, which is
\* undefined and left out.
RemoveNode(n) ==
  /\ InList(n) /\ links[n].key # NULL
  /\ LET i == ItemOf(items[links[n].key].key)
     IN IF i = NULL
        THEN result' = NULL /\ UNCHANGED <<listVars, links, hashVars, order>>
        ELSE RemoveEntry2(i) /\ RemoveDataRaw(n)

RemoveKey(k) ==
  LET i == ItemOf(k)
  IN IF i = NULL
     THEN result' = NULL /\ UNCHANGED <<listVars, links, hashVars, order>>
     ELSE RemoveEntry2(i) /\ RemoveDataRaw(items[i].data)

FindEntry(k) ==
  /\ result' = IF ItemOf(k) = NULL THEN NULL ELSE items[ItemOf(k)].data
  /\ UNCHANGED <<listVars, links, hashVars, order>>

Next ==
  \/ \E n \in Node, k \in Key : AddData(n, k)
  \/ \E n \in Node : RemoveNode(n)
  \/ \E k \in Key : RemoveKey(k)
  \/ \E k \in Key : FindEntry(k)

Spec == Init /\ [][Next]_vars

-----------------------------------------------------------------------------
(* Properties                                                              *)

\* After any additions and removals the chain of a slot holds exactly the items
\* in use whose key has that hash, and each knows the item before it, which is
\* what RemoveEntry2 unlinks it by.
ChainsExact ==
  \A b \in Bucket :
    /\ Chain(b) = {i \in Item : items[i].key # NULL /\ Hash[items[i].key] = b}
    /\ m_pTable[b] # NULL => items[m_pTable[b]].prev = NULL
    /\ \A i \in Chain(b) : items[i].next # NULL => items[items[i].next].prev = i

\* The list read forwards from m_first is the nodes in the order they came, and
\* read backwards from m_last the same in reverse, as RemoveDataRaw keeps both
\* directions.  m_nCount is its length: it is the number of nodes that a majority
\* is taken of.
ListExact ==
  LET last == Len(order)
  IN /\ m_nCount = last
     /\ m_first = IF last = 0 THEN NULL ELSE order[1]
     /\ m_last = IF last = 0 THEN NULL ELSE order[last]
     /\ \A j \in 1..last :
          /\ links[order[j]].next = IF j = last THEN NULL ELSE order[j + 1]
          /\ links[order[j]].prev = IF j = 1 THEN NULL ELSE order[j - 1]

\* The list with its keys
keyOf(n) == IF links[n].key = NULL THEN NULL ELSE items[links[n].key].key
entries == [j \in 1..Len(order) |-> <<order[j], keyOf(order[j])>>]

Map == INSTANCE NodeMap

\* The list and the hash table together implement one ordered map from keys to
\* nodes: every addition, search and removal by key changes it, and answers, as
\* NodeMap says, and so does the removal of a node whose key was stored.
IsNodeMap == Map!Spec
=============================================================================
