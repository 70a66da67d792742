-------------------------- MODULE NodeTableProofs --------------------------
(* Proofs about NodeTable for every set of nodes, every set of keys and    *)
(* every hash function: the chains and the list are exact after any calls, *)
(* and the two together implement NodeMap.                                 *)
EXTENDS NodeTable, FiniteSetTheorems, TLAPS

-----------------------------------------------------------------------------
(* The inductive invariant.  What the operations rely on without testing   *)
(* it: a node is in the list once, an item is in use for one node of the   *)
(* list, and the two point to each other.                                  *)

Listed(n) == \E j \in 1..Len(order) : order[j] = n
Used(i) == items[i].key # NULL

Distinct(q) == \A i, j \in 1..Len(q) : q[i] = q[j] => i = j

\* a node out of the list is linked to nothing, and freed memory is cleared
Spare ==
  /\ \A n \in Node : ~Listed(n) => links[n] = Unlinked
  /\ \A i \in Item : ~Used(i) => items[i] = Freed

\* a key is stored once
KeysDiffer ==
  \A i, j \in Item : Used(i) /\ items[i].key = items[j].key => i = j

\* an item in use and its node point to each other
Crossed ==
  /\ \A i \in Item : Used(i) =>
       \E n \in Node : items[i].data = n /\ Listed(n) /\ links[n].key = i
  /\ \A n \in Node : links[n].key # NULL =>
       \E i \in Item : links[n].key = i /\ Used(i) /\ items[i].data = n

IInv ==
  /\ TypeOK /\ ChainsExact /\ ListExact
  /\ Distinct(order) /\ Spare /\ KeysDiffer /\ Crossed

-----------------------------------------------------------------------------
(* What is reached along next.  The set is the least closed one, so a      *)
(* closed set with the first element has all of it, and no induction is    *)
(* needed.                                                                 *)

\* next leads from an element to an element or ends
Heap(H, D) ==
  /\ DOMAIN H = D /\ NULL \notin D
  /\ \A x \in D : H[x].next \in D \cup {NULL}

\* nothing is before the first element, and prev is the inverse of next
Chained(H, p) ==
  /\ p # NULL => H[p].prev = NULL
  /\ \A x \in From(H, p) : H[x].next # NULL => H[H[x].next].prev = x

\* A closed set with the first element contains all that is reached.
LEMMA FromLeast ==
  ASSUME NEW H, NEW p, NEW S \in SUBSET DOMAIN H, p = NULL \/ p \in S, Closed(H, S)
  PROVE  From(H, p) \subseteq S
BY DEF From

\* The first element is reached, and with an element the one after it.
LEMMA FromClosed ==
  ASSUME NEW D, NEW H, Heap(H, D), NEW p \in D \cup {NULL}
  PROVE  /\ From(H, p) \subseteq D
         /\ p # NULL => p \in From(H, p)
         /\ \A x \in From(H, p) : H[x].next # NULL => H[x].next \in From(H, p)
<1>1. From(H, p) \subseteq D
  BY DEF From, Heap
<1>2. p # NULL => p \in From(H, p)
  BY DEF From, Heap
<1>3. ASSUME NEW x \in From(H, p), H[x].next # NULL PROVE H[x].next \in From(H, p)
  <2>1. H[x].next \in D
    BY <1>1, <1>3 DEF Heap
  <2>2. ASSUME NEW S \in SUBSET DOMAIN H, p = NULL \/ p \in S, Closed(H, S)
        PROVE  H[x].next \in S
    BY <1>3, <2>2, FromLeast DEF Closed
  <2>. QED
    BY <2>1, <2>2 DEF From, Heap
<1>. QED
  BY <1>1, <1>2, <1>3

\* An element other than the first is reached through another one.
LEMMA FromPred ==
  ASSUME NEW D, NEW H, Heap(H, D), NEW p \in D \cup {NULL},
         NEW x \in From(H, p), x # p
  PROVE  \E y \in From(H, p) \ {x} : H[y].next = x
<1>. SUFFICES ASSUME \A y \in From(H, p) \ {x} : H[y].next # x PROVE FALSE
  OBVIOUS
<1>. DEFINE S == From(H, p) \ {x}
<1>1. S \in SUBSET DOMAIN H /\ (p = NULL \/ p \in S)
  BY FromClosed DEF Heap
<1>2. Closed(H, S)
  BY FromClosed DEF Closed
<1>3. From(H, p) \subseteq S
  BY <1>1, <1>2, FromLeast
<1>. QED
  BY <1>3

\* In a chain no element is next to itself, and prev is the element it was reached
\* through.
LEMMA NoLoop ==
  ASSUME NEW D, NEW H, Heap(H, D), NEW p \in D \cup {NULL}, Chained(H, p),
         NEW i \in From(H, p)
  PROVE  /\ H[i].next # i /\ H[i].prev # i
         /\ i = p => H[i].prev = NULL
         /\ i # p => H[i].prev \in From(H, p) \ {i} /\ H[H[i].prev].next = i
<1>1. i \in D /\ i # NULL
  BY FromClosed DEF Heap
<1>2. CASE i = p
  BY <1>1, <1>2 DEF Chained
<1>3. CASE i # p
  <2>1. PICK y \in From(H, p) \ {i} : H[y].next = i
    BY <1>3, FromPred
  <2>2. H[i].prev = y
    BY <1>1, <2>1 DEF Chained
  <2>. QED
    BY <1>1, <1>3, <2>1, <2>2 DEF Chained
<1>. QED
  BY <1>2, <1>3

\* A chain is what its elements' links say.
LEMMA ChainFrame ==
  ASSUME NEW D, NEW H, NEW G, Heap(H, D), Heap(G, D), NEW p \in D \cup {NULL},
         \A x \in From(H, p) : G[x].next = H[x].next
  PROVE  From(G, p) = From(H, p)
<1>1. From(G, p) \subseteq From(H, p)
  <2>1. Closed(G, From(H, p))
    BY FromClosed DEF Closed
  <2>. QED
    BY <2>1, FromClosed, FromLeast DEF Heap
<1>2. From(H, p) \subseteq From(G, p)
  <2>. DEFINE S == From(G, p) \cap From(H, p)
  <2>1. Closed(H, S)
    BY FromClosed DEF Closed
  <2>2. S \in SUBSET DOMAIN H /\ (p = NULL \/ p \in S)
    BY FromClosed DEF Heap
  <2>3. From(H, p) \subseteq S
    BY <2>1, <2>2, FromLeast
  <2>. QED
    BY <2>3
<1>. QED
  BY <1>1, <1>2

\* The same chain with the same links is chained as it was.
LEMMA ChainedFrame ==
  ASSUME NEW D, NEW H, NEW G, Heap(H, D), Heap(G, D), NEW p \in D \cup {NULL},
         Chained(H, p),
         \A x \in From(H, p) : G[x].next = H[x].next /\ G[x].prev = H[x].prev
  PROVE  From(G, p) = From(H, p) /\ Chained(G, p)
<1>1. From(G, p) = From(H, p)
  BY ChainFrame
<1>2. /\ p # NULL => p \in From(H, p)
      /\ \A x \in From(H, p) : H[x].next # NULL => H[x].next \in From(H, p)
  BY FromClosed
<1>. QED
  BY <1>1, <1>2 DEF Chained

\* An element that is not in the chain is put before it.
LEMMA PushFront ==
  ASSUME NEW D, NEW H, NEW G, Heap(H, D), Heap(G, D), NEW p \in D \cup {NULL},
         Chained(H, p), NEW i \in D, i \notin From(H, p),
         G[i].next = p, G[i].prev = NULL,
         \A x \in D \ {i} : /\ G[x].next = H[x].next
                            /\ G[x].prev = IF x = p THEN i ELSE H[x].prev
  PROVE  From(G, i) = From(H, p) \cup {i} /\ Chained(G, i)
<1>1. /\ From(H, p) \subseteq D
      /\ p # NULL => p \in From(H, p)
      /\ \A x \in From(H, p) : H[x].next # NULL => H[x].next \in From(H, p)
  BY FromClosed
<1>2. /\ From(G, i) \subseteq D /\ i \in From(G, i)
      /\ \A x \in From(G, i) : G[x].next # NULL => G[x].next \in From(G, i)
  BY FromClosed DEF Heap
<1>3. From(G, i) \subseteq From(H, p) \cup {i}
  <2>1. Closed(G, From(H, p) \cup {i})
    BY <1>1 DEF Closed
  <2>. QED
    BY <1>1, <2>1, FromLeast DEF Heap
<1>4. From(H, p) \subseteq From(G, i)
  <2>. DEFINE S == From(G, i) \cap From(H, p)
  <2>1. Closed(H, S)
    BY <1>1, <1>2 DEF Closed
  <2>2. S \in SUBSET DOMAIN H /\ (p = NULL \/ p \in S)
    BY <1>1, <1>2 DEF Heap
  <2>3. From(H, p) \subseteq S
    BY <2>1, <2>2, FromLeast
  <2>. QED
    BY <2>3
<1>5. From(G, i) = From(H, p) \cup {i}
  BY <1>2, <1>3, <1>4
<1>6. ASSUME NEW x \in From(H, p), H[x].next # NULL
      PROVE  /\ H[x].next \in D \ {i} /\ H[x].next # p
             /\ H[H[x].next].prev = x
  BY <1>1, <1>6 DEF Chained, Heap
<1>7. ASSUME NEW x \in From(G, i), G[x].next # NULL PROVE G[G[x].next].prev = x
  <2>1. CASE x = i
    BY <1>1, <1>7, <2>1
  <2>2. CASE x \in From(H, p) /\ x # i
    BY <1>1, <1>6, <1>7, <2>2
  <2>. QED
    BY <1>5, <2>1, <2>2
<1>. QED
  BY <1>5, <1>7 DEF Chained

\* The element i of a chain is taken out: its neighbours are linked to each other,
\* and when it was the first the one after it becomes the first.
LEMMA TakeOut ==
  ASSUME NEW D, NEW H, NEW G, Heap(H, D), Heap(G, D), NEW p \in D \cup {NULL},
         Chained(H, p), NEW i \in From(H, p),
         \A x \in From(H, p) \ {i} :
           /\ G[x].next = IF x = H[i].prev THEN H[i].next ELSE H[x].next
           /\ G[x].prev = IF x = H[i].next THEN H[i].prev ELSE H[x].prev
  PROVE  LET first == IF p = i THEN H[i].next ELSE p
         IN From(G, first) = From(H, p) \ {i} /\ Chained(G, first)
<1>. DEFINE first == IF p = i THEN H[i].next ELSE p
            C == From(H, p)
<1>1. /\ C \subseteq D
      /\ p # NULL => p \in C
      /\ \A x \in C : H[x].next # NULL => H[x].next \in C
  BY FromClosed
<1>2. /\ H[i].next # i /\ H[i].prev # i
      /\ i = p => H[i].prev = NULL
      /\ i # p => H[i].prev \in C \ {i} /\ H[H[i].prev].next = i
  BY NoLoop
<1>3. first \in D \cup {NULL}
  BY <1>1 DEF Heap
<1>4. NULL \notin D /\ DOMAIN H = D /\ DOMAIN G = D
  BY DEF Heap
<1>5. \A x \in C : H[x].next # NULL => H[H[x].next].prev = x
  BY DEF Chained
<1>6. /\ From(G, first) \subseteq D
      /\ first # NULL => first \in From(G, first)
      /\ \A x \in From(G, first) : G[x].next # NULL => G[x].next \in From(G, first)
  BY <1>3, FromClosed
<1>7. \A x \in C \ {i} : G[x].next # NULL => G[x].next \in C \ {i}
  BY <1>1, <1>2, <1>4, <1>5
<1>8. first # NULL => first \in C \ {i}
  BY <1>1, <1>2
<1>9. From(G, first) \subseteq C \ {i}
  <2>1. Closed(G, C \ {i})
    BY <1>7 DEF Closed
  <2>. QED
    BY <1>1, <1>4, <1>8, <2>1, FromLeast
<1>10. C \ {i} \subseteq From(G, first)
  <2>. DEFINE S == From(G, first) \cup
                     {x \in {i} : p = i \/ H[i].prev \in From(G, first)}
  <2>1. S \in SUBSET DOMAIN H /\ (p = NULL \/ p \in S)
    BY <1>1, <1>4, <1>6, <1>8
  <2>2. ASSUME NEW x \in S, H[x].next # NULL PROVE H[x].next \in S
    <3>1. CASE x = i
      <4>1. CASE p = i
        BY <1>6, <2>2, <3>1, <4>1
      <4>2. CASE p # i
        BY <1>2, <1>6, <1>9, <2>2, <3>1, <4>2
      <4>. QED
        BY <4>1, <4>2
    <3>2. CASE x # i
      <4>1. x \in From(G, first) /\ x \in C \ {i}
        BY <1>9, <3>2
      <4>2. CASE x = H[i].prev
        BY <1>2, <1>4, <1>1, <4>1, <4>2
      <4>3. CASE x # H[i].prev
        BY <1>6, <2>2, <4>1, <4>3
      <4>. QED
        BY <4>2, <4>3
    <3>. QED
      BY <3>1, <3>2
  <2>3. Closed(H, S)
    BY <2>2 DEF Closed
  <2>4. C \subseteq S
    BY <2>1, <2>3, FromLeast
  <2>. QED
    BY <2>4
<1>11. first # NULL => G[first].prev = NULL
  <2>1. CASE p = i
    BY <1>2, <1>8, <2>1
  <2>2. CASE p # i
    <3>1. p # NULL => H[p].prev = NULL
      BY DEF Chained
    <3>2. p # NULL => p # H[i].next
      BY <1>1, <1>4, <1>5, <3>1
    <3>. QED
      BY <1>8, <2>2, <3>1, <3>2
  <2>. QED
    BY <2>1, <2>2
<1>12. ASSUME NEW x \in C \ {i}, G[x].next # NULL PROVE G[G[x].next].prev = x
  <2>1. G[x].next \in C \ {i}
    BY <1>7, <1>12
  <2>2. CASE x = H[i].prev
    BY <2>1, <2>2
  <2>3. CASE x # H[i].prev
    BY <1>2, <1>4, <1>5, <1>12, <2>1, <2>3
  <2>. QED
    BY <2>2, <2>3
<1>. QED
  BY <1>9, <1>10, <1>11, <1>12 DEF Chained

-----------------------------------------------------------------------------
(* The constants, and what the invariant says of a state                   *)

\* There are as many items as nodes, and none is NULL.
LEMMA ItemFacts ==
  /\ Cardinality(Node) \in Nat /\ Item \subseteq Nat /\ NULL \notin Item
  /\ IsFiniteSet(Item) /\ Cardinality(Item) = Cardinality(Node)
  /\ NULL \notin Node /\ NULL \notin Key
<1>1. Cardinality(Node) \in Nat
  BY NodeTableAssumption, FS_CardinalityType
<1>2. IsFiniteSet(Item) /\ Cardinality(Item) = Cardinality(Node)
  BY <1>1, FS_Interval DEF Item
<1>3. Item \subseteq Nat
  BY <1>1 DEF Item
<1>. QED
  BY <1>1, <1>2, <1>3, NodeTableAssumption, Zenon

\* A list of different nodes is no longer than there are nodes.
LEMMA ListBound ==
  ASSUME NEW q \in Seq(Node), Distinct(q)
  PROVE  Len(q) <= Cardinality(Node)
<1>1. q \in [1..Len(q) -> Node] /\ Len(q) \in Nat
  OBVIOUS
<1>2. q \in Injection(1..Len(q), Node)
  BY <1>1 DEF Injection, IsInjective, Distinct
<1>3. Cardinality(1..Len(q)) <= Cardinality(Node)
  BY <1>2, FS_Injection, NodeTableAssumption
<1>4. Cardinality(1..Len(q)) = Len(q)
  <2>1. \A l \in Nat : Cardinality(1..l) = l
    BY FS_Interval
  <2>. QED
    BY <1>1, <2>1
<1>. QED
  BY <1>3, <1>4

\* While a node is out of the list an item is free for it.
LEMMA FreeItem ==
  ASSUME IInv, NEW n \in Node, ~Listed(n)
  PROVE  NewItem \in Item /\ items[NewItem] = Freed
<1>1. SUFFICES \E i \in Item : items[i] = Freed
  BY DEF NewItem
<1>2. SUFFICES ASSUME \A i \in Item : Used(i) PROVE FALSE
  BY DEF IInv, Spare
<1>. DEFINE f == [i \in Item |-> items[i].data]
<1>3. f \in [Item -> Node \ {n}]
  BY <1>2 DEF IInv, Crossed
<1>4. \A i, j \in Item : f[i] = f[j] => i = j
  BY <1>2 DEF IInv, Crossed
<1>5. f \in Injection(Item, Node \ {n})
  BY <1>3, <1>4 DEF Injection, IsInjective
<1>6. IsFiniteSet(Node \ {n}) /\ Cardinality(Node \ {n}) = Cardinality(Node) - 1
  BY NodeTableAssumption, FS_RemoveElement
<1>7. Cardinality(Item) <= Cardinality(Node \ {n})
  BY <1>5, <1>6, FS_Injection
<1>. QED
  BY <1>6, <1>7, ItemFacts

\* next leads from item to item.
LEMMA ItemHeap ==
  TypeOK => Heap(items, Item)
BY ItemFacts DEF TypeOK, Heap

\* A search finds the item that has the key, if there is one.
LEMMA ItemOfIs ==
  ASSUME IInv, NEW k \in Key
  PROVE  /\ \A i \in Item : items[i].key = k => ItemOf(k) = i
         /\ ItemOf(k) # NULL => ItemOf(k) \in Item /\ items[ItemOf(k)].key = k
<1>. DEFINE found == {i \in Chain(Hash[k]) : items[i].key = k}
<1>1. found = {i \in Item : items[i].key = k}
  <2>1. Hash[k] \in Bucket /\ k # NULL
    BY NodeTableAssumption
  <2>2. Chain(Hash[k]) = {i \in Item : items[i].key # NULL /\ Hash[items[i].key] = Hash[k]}
    BY <2>1 DEF IInv, ChainsExact
  <2>. QED
    BY <2>1, <2>2
<1>2. CASE found = {}
  BY <1>1, <1>2 DEF ItemOf
<1>3. CASE found # {}
  <2>1. PICK i \in Item : items[i].key = k
    BY <1>1, <1>3
  <2>2. \A j \in Item : items[j].key = k => j = i
    BY <2>1, ItemFacts DEF IInv, KeysDiffer, Used
  <2>3. found = {i}
    BY <1>1, <2>1, <2>2
  <2>4. ItemOf(k) = i
    BY <2>3 DEF ItemOf
  <2>. QED
    BY <2>1, <2>2, <2>4
<1>. QED
  BY <1>2, <1>3

\* The test that AddData and RemoveNode make of a node says whether it is in the list.
LEMMA InListIs ==
  ASSUME IInv, NEW n \in Node
  PROVE  InList(n) <=> Listed(n)
<1>1. order \in Seq(Node) /\ Len(order) \in Nat /\ n # NULL
  BY ItemFacts DEF IInv, TypeOK
<1>2. ASSUME InList(n), ~Listed(n) PROVE FALSE
  <2>1. n # m_first
    BY <1>1, <1>2 DEF IInv, ListExact, Listed
  <2>2. links[n].prev = NULL
    BY <1>2 DEF IInv, Spare, Unlinked
  <2>. QED
    BY <1>2, <2>1, <2>2 DEF InList
<1>3. ASSUME NEW j \in 1..Len(order), order[j] = n PROVE InList(n)
  <2>1. CASE j = 1
    BY <1>1, <1>3, <2>1 DEF IInv, ListExact, InList
  <2>2. CASE j # 1
    <3>1. links[n].prev = order[j - 1] /\ order[j - 1] \in Node
      BY <1>1, <1>3, <2>2 DEF IInv, ListExact
    <3>. QED
      BY <3>1, ItemFacts DEF InList
  <2>. QED
    BY <2>1, <2>2
<1>. QED
  BY <1>2, <1>3 DEF Listed

-----------------------------------------------------------------------------
(* The hash table                                                          *)

\* AddEntry2 puts the new item before the chain of its key and leaves the other
\* chains alone.
LEMMA AddEntry2Exact ==
  ASSUME IInv, NEW n \in Node, NEW k \in Key, ~Listed(n), ItemOf(k) = NULL,
         AddEntry2(n, k)
  PROVE  /\ NewItem \in Item /\ ~Used(NewItem)
         /\ m_pTable' \in [Bucket -> Item \cup {NULL}]
         /\ items' \in [Item -> [prev : Item \cup {NULL}, next : Item \cup {NULL},
                                 key : Key \cup {NULL}, data : Node \cup {NULL}]]
         /\ items'[NewItem].key = k /\ items'[NewItem].data = n
         /\ \A x \in Item \ {NewItem} :
              /\ items'[x].key = items[x].key /\ items'[x].data = items[x].data
              /\ ~Used(x) => items'[x] = items[x]
         /\ ChainsExact'
<1>1. PICK i \in Item : i = NewItem /\ items[i] = Freed
  BY FreeItem
<1>2. PICK b \in Bucket : b = Hash[k]
  BY NodeTableAssumption
<1>3. PICK p \in Item \cup {NULL} : p = m_pTable[b]
  BY DEF IInv, TypeOK
<1>4. /\ ~Used(i) /\ k # NULL /\ NULL \notin Item
  BY <1>1, ItemFacts DEF Used, Freed
<1>. DEFINE new == [prev |-> NULL, next |-> p, key |-> k, data |-> n]
            G == items'
            C(c) == From(items, m_pTable[c])
<1>5. \A c \in Bucket :
        /\ C(c) = {x \in Item : Used(x) /\ Hash[items[x].key] = c}
        /\ Chained(items, m_pTable[c])
        /\ m_pTable[c] \in Item \cup {NULL}
  BY DEF IInv, TypeOK, ChainsExact, Chain, Chained, Used
<1>6. /\ Heap(items, Item)
      /\ p # NULL => p \in C(b)
      /\ i \notin C(b)
  BY <1>1, <1>3, <1>4, <1>5, ItemHeap, FromClosed DEF IInv
<1>7. p # i /\ (p # NULL => Used(p))
  BY <1>3, <1>4, <1>5, <1>6
<1>8. /\ items' = SetPrev([items EXCEPT ![i] = new], p, i)
      /\ m_pTable' = [m_pTable EXCEPT ![b] = i]
  BY <1>1, <1>2, <1>3 DEF AddEntry2
<1>9. items \in [Item -> [prev : Item \cup {NULL}, next : Item \cup {NULL},
                          key : Key \cup {NULL}, data : Node \cup {NULL}]]
  BY DEF IInv, TypeOK
<1>10. G \in [Item -> [prev : Item \cup {NULL}, next : Item \cup {NULL},
                       key : Key \cup {NULL}, data : Node \cup {NULL}]]
  BY <1>3, <1>8, <1>9 DEF SetPrev
<1>11. G[i] = new
  BY <1>7, <1>8, <1>9 DEF SetPrev
<1>12. \A x \in Item \ {i} :
         /\ G[x].next = items[x].next
         /\ G[x].prev = IF x = p THEN i ELSE items[x].prev
         /\ G[x].key = items[x].key /\ G[x].data = items[x].data
         /\ x # p => G[x] = items[x]
  BY <1>4, <1>8, <1>9 DEF SetPrev
<1>13. Heap(G, Item)
  BY <1>4, <1>10 DEF Heap
<1>14. From(G, i) = C(b) \cup {i} /\ Chained(G, i)
  BY <1>3, <1>5, <1>6, <1>11, <1>12, <1>13, PushFront
<1>15. ASSUME NEW c \in Bucket \ {b}
       PROVE  From(G, m_pTable[c]) = C(c) /\ Chained(G, m_pTable[c])
  <2>1. \A x \in C(c) : x # i /\ x # p /\ x \in Item
    BY <1>3, <1>4, <1>5, <1>6
  <2>2. \A x \in C(c) : G[x].next = items[x].next /\ G[x].prev = items[x].prev
    BY <1>12, <2>1
  <2>. QED
    BY <1>5, <1>6, <1>13, <2>2, ChainedFrame
<1>16. m_pTable' \in [Bucket -> Item \cup {NULL}]
  BY <1>8 DEF IInv, TypeOK
<1>17. ASSUME NEW c \in Bucket
       PROVE  /\ From(G, m_pTable'[c]) = {x \in Item : G[x].key # NULL /\ Hash[G[x].key] = c}
              /\ Chained(G, m_pTable'[c])
  <2>1. CASE c = b
    <3>1. m_pTable'[c] = i
      BY <1>8, <2>1 DEF IInv, TypeOK
    <3>2. {x \in Item : G[x].key # NULL /\ Hash[G[x].key] = c} = C(b) \cup {i}
      BY <1>2, <1>4, <1>5, <1>11, <1>12, <2>1 DEF Used
    <3>. QED
      BY <1>14, <3>1, <3>2
  <2>2. CASE c # b
    <3>1. m_pTable'[c] = m_pTable[c]
      BY <1>8, <2>2 DEF IInv, TypeOK
    <3>2. {x \in Item : G[x].key # NULL /\ Hash[G[x].key] = c} = C(c)
      BY <1>2, <1>4, <1>5, <1>11, <1>12, <2>2 DEF Used
    <3>. QED
      BY <1>15, <2>2, <3>1, <3>2
  <2>. QED
    BY <2>1, <2>2
<1>18. ChainsExact'
  BY <1>17 DEF ChainsExact, Chain, Chained
<1>. QED
  BY <1>1, <1>4, <1>7, <1>10, <1>11, <1>12, <1>16, <1>18

\* RemoveEntry2 takes the item out of its chain, frees it and leaves the other
\* chains alone; that the destructor unlinks it once more changes nothing.
LEMMA RemoveEntry2Exact ==
  ASSUME IInv, NEW i \in Item, Used(i), RemoveEntry2(i)
  PROVE  /\ m_pTable' \in [Bucket -> Item \cup {NULL}]
         /\ items' \in [Item -> [prev : Item \cup {NULL}, next : Item \cup {NULL},
                                 key : Key \cup {NULL}, data : Node \cup {NULL}]]
         /\ items'[i] = Freed
         /\ \A x \in Item \ {i} :
              /\ items'[x].key = items[x].key /\ items'[x].data = items[x].data
              /\ ~Used(x) => items'[x] = items[x]
         /\ ChainsExact'
<1>1. items \in [Item -> [prev : Item \cup {NULL}, next : Item \cup {NULL},
                          key : Key \cup {NULL}, data : Node \cup {NULL}]]
  BY DEF IInv, TypeOK
<1>2. PICK b \in Bucket : b = Hash[items[i].key]
  BY <1>1, NodeTableAssumption DEF Used
<1>3. PICK q \in Item \cup {NULL}, r \in Item \cup {NULL} :
        q = items[i].prev /\ r = items[i].next
  BY <1>1
<1>. DEFINE G == items'
            p == m_pTable[b]
            C(c) == From(items, m_pTable[c])
<1>4. NULL \notin Item
  BY ItemFacts
<1>5. \A c \in Bucket :
        /\ C(c) = {x \in Item : Used(x) /\ Hash[items[x].key] = c}
        /\ Chained(items, m_pTable[c])
        /\ m_pTable[c] \in Item \cup {NULL}
  BY DEF IInv, TypeOK, ChainsExact, Chain, Chained, Used
<1>6. Heap(items, Item) /\ i \in C(b)
  BY <1>2, <1>5, ItemHeap DEF IInv
<1>7. /\ q # i /\ r # i
      /\ q # NULL => q \in C(b)
      /\ r # NULL => r \in C(b)
  BY <1>3, <1>5, <1>6, NoLoop, FromClosed
<1>8. /\ G \in [Item -> [prev : Item \cup {NULL}, next : Item \cup {NULL},
                         key : Key \cup {NULL}, data : Node \cup {NULL}]]
      /\ G[i] = Freed
      /\ \A x \in Item \ {i} :
           /\ G[x].next = IF x = q THEN r ELSE items[x].next
           /\ G[x].prev = IF x = r THEN q ELSE items[x].prev
           /\ G[x].key = items[x].key /\ G[x].data = items[x].data
           /\ x # q /\ x # r => G[x] = items[x]
  <2>. DEFINE unlinked(heap) == SetPrev(SetNext(heap, heap[i].prev, heap[i].next),
                                        heap[i].next, heap[i].prev)
  <2>1. unlinked(items) = SetPrev(SetNext(items, q, r), r, q)
    BY <1>3
  <2>2. PICK K : K = SetPrev(SetNext(items, q, r), r, q)
    OBVIOUS
  <2>3. /\ K \in [Item -> [prev : Item \cup {NULL}, next : Item \cup {NULL},
                           key : Key \cup {NULL}, data : Node \cup {NULL}]]
        /\ K[i] = items[i]
        /\ \A x \in Item \ {i} :
             /\ K[x].next = IF x = q THEN r ELSE items[x].next
             /\ K[x].prev = IF x = r THEN q ELSE items[x].prev
             /\ K[x].key = items[x].key /\ K[x].data = items[x].data
             /\ x # q /\ x # r => K[x] = items[x]
    BY <1>1, <1>4, <1>7, <2>2 DEF SetPrev, SetNext
  <2>4. unlinked(K) = SetPrev(SetNext(K, q, r), r, q)
    BY <1>3, <2>3
  <2>5. PICK L : L = SetPrev(SetNext(K, q, r), r, q)
    OBVIOUS
  <2>6. /\ L \in [Item -> [prev : Item \cup {NULL}, next : Item \cup {NULL},
                           key : Key \cup {NULL}, data : Node \cup {NULL}]]
        /\ \A x \in Item \ {i} :
             /\ L[x].next = IF x = q THEN r ELSE K[x].next
             /\ L[x].prev = IF x = r THEN q ELSE K[x].prev
             /\ L[x].key = K[x].key /\ L[x].data = K[x].data
             /\ x # q /\ x # r => L[x] = K[x]
    BY <1>4, <1>7, <2>3, <2>5 DEF SetPrev, SetNext
  <2>7. items' = [L EXCEPT ![i] = Freed]
    BY <2>1, <2>2, <2>4, <2>5, Zenon DEF RemoveEntry2
  <2>8. /\ G \in [Item -> [prev : Item \cup {NULL}, next : Item \cup {NULL},
                           key : Key \cup {NULL}, data : Node \cup {NULL}]]
        /\ G[i] = Freed
        /\ \A x \in Item \ {i} : G[x] = L[x]
    BY <2>6, <2>7 DEF Freed
  <2>. QED
    BY <2>3, <2>6, <2>8
<1>9. Heap(G, Item)
  BY <1>4, <1>8 DEF Heap
<1>10. /\ m_pTable' \in [Bucket -> Item \cup {NULL}]
       /\ m_pTable'[b] = IF p = i THEN r ELSE p
       /\ \A c \in Bucket \ {b} : m_pTable'[c] = m_pTable[c]
  BY <1>2, <1>3, Zenon DEF RemoveEntry2, IInv, TypeOK
<1>11. From(G, m_pTable'[b]) = C(b) \ {i} /\ Chained(G, m_pTable'[b])
  <2>1. \A x \in C(b) \ {i} :
          /\ G[x].next = IF x = items[i].prev THEN items[i].next ELSE items[x].next
          /\ G[x].prev = IF x = items[i].next THEN items[i].prev ELSE items[x].prev
    BY <1>3, <1>5, <1>8
  <2>2. m_pTable'[b] = IF p = i THEN items[i].next ELSE p
    BY <1>3, <1>10
  <2>. QED
    BY <1>5, <1>6, <1>9, <2>1, <2>2, TakeOut
<1>12. ASSUME NEW c \in Bucket \ {b}
       PROVE  From(G, m_pTable[c]) = C(c) /\ Chained(G, m_pTable[c])
  <2>1. \A x \in C(c) : x # i /\ x # q /\ x # r /\ x \in Item
    BY <1>2, <1>4, <1>5, <1>6, <1>7
  <2>2. \A x \in C(c) : G[x].next = items[x].next /\ G[x].prev = items[x].prev
    BY <1>8, <2>1
  <2>. QED
    BY <1>5, <1>6, <1>9, <2>2, ChainedFrame
<1>13. ASSUME NEW c \in Bucket
       PROVE  /\ From(G, m_pTable'[c]) = {x \in Item : G[x].key # NULL /\ Hash[G[x].key] = c}
              /\ Chained(G, m_pTable'[c])
  <2>1. G[i].key = NULL
    BY <1>8 DEF Freed
  <2>2. CASE c = b
    <3>1. {x \in Item : G[x].key # NULL /\ Hash[G[x].key] = c} = C(b) \ {i}
      BY <1>5, <1>8, <2>1, <2>2 DEF Used
    <3>. QED
      BY <1>11, <2>2, <3>1
  <2>3. CASE c # b
    <3>1. {x \in Item : G[x].key # NULL /\ Hash[G[x].key] = c} = C(c)
      BY <1>2, <1>5, <1>8, <2>1, <2>3 DEF Used
    <3>. QED
      BY <1>10, <1>12, <2>3, <3>1
  <2>. QED
    BY <2>2, <2>3
<1>14. ChainsExact'
  BY <1>13 DEF ChainsExact, Chain, Chained
<1>15. \A x \in Item \ {i} : ~Used(x) => G[x] = items[x]
  BY <1>4, <1>5, <1>7, <1>8
<1>. QED
  BY <1>8, <1>10, <1>14, <1>15

-----------------------------------------------------------------------------
(* The list                                                                *)

LinkType == [prev : Node \cup {NULL}, next : Node \cup {NULL}, key : Item \cup {NULL}]

\* next and prev lead through the first l elements of s
LinkedAs(L, s, l) ==
  \A j \in 1..l : /\ L[s[j]].next = IF j = l THEN NULL ELSE s[j + 1]
                  /\ L[s[j]].prev = IF j = 1 THEN NULL ELSE s[j - 1]

\* AddDataRaw puts the node at the end of the list.
LEMMA AddDataRawExact ==
  ASSUME IInv, NEW n \in Node, ~Listed(n), NEW key \in Item \cup {NULL},
         AddDataRaw(n, key)
  PROVE  /\ m_first' \in Node \cup {NULL} /\ m_last' \in Node \cup {NULL}
         /\ m_nCount' \in 0..Cardinality(Node)
         /\ links' \in [Node -> LinkType] /\ order' \in Seq(Node)
         /\ Len(order') = Len(order) + 1 /\ order'[Len(order')] = n
         /\ \A j \in 1..Len(order) : order'[j] = order[j]
         /\ Distinct(order') /\ ListExact'
         /\ \A m : Listed(m)' <=> Listed(m) \/ m = n
         /\ links'[n].key = key
         /\ \A x \in Node \ {n} : /\ links'[x].key = links[x].key
                                  /\ ~Listed(x) => links'[x] = links[x]
<1>1. /\ order \in Seq(Node) /\ links \in [Node -> LinkType]
      /\ NULL \notin Node
  BY ItemFacts DEF IInv, TypeOK, LinkType
<1>2. PICK l \in Nat : l = Len(order) /\ order \in [1..l -> Node]
  BY <1>1
<1>3. /\ m_nCount = l
      /\ l = 0 => m_first = NULL /\ m_last = NULL
      /\ l # 0 => /\ m_first = order[1] /\ m_last = order[l]
                  /\ order[1] \in Node /\ order[l] \in Node
  BY <1>2 DEF IInv, ListExact
<1>4. /\ \A i, j \in 1..l : order[i] = order[j] => i = j
      /\ \A j \in 1..l : order[j] # n /\ order[j] # NULL /\ order[j] \in Node
  BY <1>1, <1>2 DEF IInv, Distinct, Listed
<1>5. /\ order' = Append(order, n)
      /\ m_nCount' = l + 1
      /\ m_first' = IF l = 0 THEN n ELSE m_first
      /\ m_last' = n
  BY <1>1, <1>3 DEF AddDataRaw
<1>6. /\ order' \in Seq(Node) /\ Len(order') = l + 1 /\ order'[l + 1] = n
      /\ \A j \in 1..l : order'[j] = order[j]
  BY <1>1, <1>2, <1>5
<1>7. Distinct(order')
  BY <1>4, <1>6 DEF Distinct
<1>8. /\ m_nCount' \in 0..Cardinality(Node)
      /\ m_first' \in Node \cup {NULL} /\ m_last' \in Node \cup {NULL}
  <2>1. l + 1 <= Cardinality(Node) /\ Cardinality(Node) \in Nat
    BY <1>6, <1>7, ListBound, ItemFacts
  <2>. QED
    BY <1>3, <1>5, <2>1
<1>9. PICK last \in Node \cup {NULL} :
        last = m_last /\ last # n /\ last = IF l = 0 THEN NULL ELSE order[l]
  BY <1>1, <1>3, <1>4
<1>10. links' = SetNext([links EXCEPT ![n] = [prev |-> last, next |-> NULL, key |-> key]],
                        last, n)
  <2>1. (IF m_first = NULL THEN NULL ELSE m_last) = last
    BY <1>1, <1>3, <1>9
  <2>. QED
    BY <1>9, <2>1 DEF AddDataRaw
<1>11. /\ links' \in [Node -> LinkType]
       /\ links'[n] = [prev |-> last, next |-> NULL, key |-> key]
       /\ \A x \in Node \ {n} :
            /\ links'[x].prev = links[x].prev /\ links'[x].key = links[x].key
            /\ links'[x].next = IF x = last THEN n ELSE links[x].next
            /\ x # last => links'[x] = links[x]
  BY <1>1, <1>9, <1>10 DEF SetNext, LinkType
<1>12. \A m : Listed(m)' <=> Listed(m) \/ m = n
  BY <1>2, <1>6 DEF Listed
<1>13. \A x \in Node \ {n} : ~Listed(x) => links'[x] = links[x]
  <2>1. \A x \in Node : x = last => Listed(x)
    BY <1>1, <1>2, <1>9 DEF Listed
  <2>. QED
    BY <1>11, <2>1
<1>14. LinkedAs(links', order', l + 1)
  <2>. SUFFICES ASSUME NEW j \in 1..(l + 1)
                PROVE  /\ links'[order'[j]].next = IF j = l + 1 THEN NULL ELSE order'[j + 1]
                       /\ links'[order'[j]].prev = IF j = 1 THEN NULL ELSE order'[j - 1]
    BY Zenon DEF LinkedAs
  <2>1. CASE j = l + 1
    <3>1. links'[order'[j]] = [prev |-> last, next |-> NULL, key |-> key]
      BY <1>6, <1>11, <2>1
    <3>2. last = IF j = 1 THEN NULL ELSE order'[j - 1]
      BY <1>6, <1>9, <2>1
    <3>. QED
      BY <2>1, <3>1, <3>2
  <2>2. CASE j \in 1..l
    <3>1. order'[j] = order[j] /\ order[j] \in Node \ {n}
      BY <1>4, <1>6, <2>2
    <3>2. /\ links[order[j]].next = IF j = l THEN NULL ELSE order[j + 1]
          /\ links[order[j]].prev = IF j = 1 THEN NULL ELSE order[j - 1]
      BY <1>2, <2>2 DEF IInv, ListExact
    <3>3. links'[order'[j]].prev = IF j = 1 THEN NULL ELSE order'[j - 1]
      BY <1>6, <1>11, <2>2, <3>1, <3>2
    <3>4. order[j] = last <=> j = l
      BY <1>4, <1>9, <2>2
    <3>5. links'[order'[j]].next = IF j = l + 1 THEN NULL ELSE order'[j + 1]
      BY <1>6, <1>11, <2>2, <3>1, <3>2, <3>4
    <3>. QED
      BY <3>3, <3>5
  <2>. QED
    BY <1>2, <2>1, <2>2
<1>15. /\ m_first' = order'[1] /\ m_last' = order'[l + 1]
  BY <1>3, <1>5, <1>6
<1>16. ListExact'
  <2>1. l + 1 # 0
    OBVIOUS
  <2>. QED
    BY <1>5, <1>6, <1>14, <1>15, <2>1, Zenon DEF ListExact, LinkedAs
<1>. QED
  BY <1>2, <1>6, <1>7, <1>8, <1>11, <1>12, <1>13, <1>16

\* t is s without the element at one of its l places
IsWithout(t, s, l, at) ==
  \A j \in 1..(l - 1) : (j < at => t[j] = s[j]) /\ (j >= at => t[j] = s[j + 1])

\* the elements before and after x are linked to each other
Bypass(K, L, x) ==
  \A y \in Node \ {x} :
    /\ K[y].next = IF y = L[x].prev THEN L[x].next ELSE L[y].next
    /\ K[y].prev = IF y = L[x].next THEN L[x].prev ELSE L[y].prev

\* The links of a list from which the element at one place is taken out, when its
\* neighbours are linked to each other.
LEMMA LinksWithout ==
  ASSUME NEW l \in Nat, NEW at \in 1..l, NEW s \in [1..l -> Node],
         \A i, j \in 1..l : s[i] = s[j] => i = j,
         NEW t, IsWithout(t, s, l, at),
         NEW L, LinkedAs(L, s, l), NEW K, Bypass(K, L, s[at])
  PROVE  LinkedAs(K, t, l - 1)
<1>. SUFFICES ASSUME NEW j \in 1..(l - 1)
              PROVE  /\ K[t[j]].next = IF j = l - 1 THEN NULL ELSE t[j + 1]
                     /\ K[t[j]].prev = IF j = 1 THEN NULL ELSE t[j - 1]
  BY DEF LinkedAs
<1>1. PICK q, r : q = L[s[at]].prev /\ r = L[s[at]].next
  BY Zenon
<1>2. /\ r = IF at = l THEN NULL ELSE s[at + 1]
      /\ q = IF at = 1 THEN NULL ELSE s[at - 1]
  BY <1>1 DEF LinkedAs
<1>3. \A x \in 1..(l - 1) : (x < at => t[x] = s[x]) /\ (x >= at => t[x] = s[x + 1])
  BY DEF IsWithout
<1>4. \A x \in 1..l : /\ L[s[x]].next = IF x = l THEN NULL ELSE s[x + 1]
                      /\ L[s[x]].prev = IF x = 1 THEN NULL ELSE s[x - 1]
  BY DEF LinkedAs
<1>5. \A x \in Node \ {s[at]} : /\ K[x].next = IF x = q THEN r ELSE L[x].next
                                /\ K[x].prev = IF x = r THEN q ELSE L[x].prev
  BY <1>1 DEF Bypass
<1>6. NULL \notin Node
  BY ItemFacts
<1>7. CASE j < at
  <2>1. t[j] = s[j] /\ s[j] \in Node \ {s[at]}
    BY <1>7, <1>3
  <2>2. L[s[j]].next = s[j + 1] /\ L[s[j]].prev = IF j = 1 THEN NULL ELSE s[j - 1]
    BY <1>7, <1>4
  <2>3. s[j] # r
    BY <1>2, <1>6, <1>7
  <2>4. s[j] = q <=> j = at - 1
    BY <1>2, <1>6, <1>7
  <2>5. K[t[j]].prev = IF j = 1 THEN NULL ELSE t[j - 1]
    BY <1>7, <1>3, <1>5, <2>1, <2>2, <2>3
  <2>6. CASE j = at - 1
    <3>1. K[t[j]].next = r
      BY <1>5, <2>1, <2>4, <2>6
    <3>2. r = IF j = l - 1 THEN NULL ELSE t[j + 1]
      BY <1>2, <1>3, <2>6
    <3>. QED
      BY <2>5, <3>1, <3>2, Zenon
  <2>7. CASE j # at - 1
    <3>1. K[t[j]].next = s[j + 1]
      BY <1>5, <2>1, <2>2, <2>4, <2>7
    <3>2. j # l - 1 /\ t[j + 1] = s[j + 1]
      BY <1>7, <1>3, <2>7
    <3>. QED
      BY <2>5, <3>1, <3>2
  <2>. QED
    BY <2>6, <2>7
<1>8. CASE j >= at
  <2>1. t[j] = s[j + 1] /\ s[j + 1] \in Node \ {s[at]}
    BY <1>8, <1>3
  <2>2. L[s[j + 1]].prev = s[j] /\ L[s[j + 1]].next = IF j = l - 1 THEN NULL ELSE s[j + 2]
    <3>1. j + 1 \in 1..l /\ j + 1 # 1 /\ (j + 1) - 1 = j /\ (j + 1) + 1 = j + 2
      OBVIOUS
    <3>2. /\ L[s[j + 1]].next = IF j + 1 = l THEN NULL ELSE s[(j + 1) + 1]
          /\ L[s[j + 1]].prev = IF j + 1 = 1 THEN NULL ELSE s[(j + 1) - 1]
      BY <1>4, <3>1
    <3>. QED
      BY <3>1, <3>2
  <2>3. s[j + 1] # q
    BY <1>2, <1>6, <1>8
  <2>4. s[j + 1] = r <=> j = at
    BY <1>2, <1>6, <1>8
  <2>5. K[t[j]].next = IF j = l - 1 THEN NULL ELSE t[j + 1]
    BY <1>8, <1>3, <1>5, <2>1, <2>2, <2>3
  <2>6. CASE j = at
    <3>1. K[t[j]].prev = q
      BY <1>5, <2>1, <2>4, <2>6
    <3>2. q = IF j = 1 THEN NULL ELSE t[j - 1]
      BY <1>2, <1>3, <2>6
    <3>. QED
      BY <2>5, <3>1, <3>2, Zenon
  <2>7. CASE j # at
    <3>1. K[t[j]].prev = s[j]
      BY <1>5, <2>1, <2>2, <2>4, <2>7
    <3>2. j # 1 /\ t[j - 1] = s[j]
      BY <1>8, <1>3, <2>7
    <3>. QED
      BY <2>5, <3>1, <3>2
  <2>. QED
    BY <2>6, <2>7
<1>. QED
  BY <1>7, <1>8

\* RemoveDataRaw takes the node out of the list and returns the one after it.
LEMMA RemoveDataRawExact ==
  ASSUME IInv, NEW n \in Node, NEW at \in Nat, at \in 1..Len(order), order[at] = n,
         RemoveDataRaw(n)
  PROVE  /\ m_first' \in Node \cup {NULL} /\ m_last' \in Node \cup {NULL}
         /\ m_nCount' \in 0..Cardinality(Node)
         /\ links' \in [Node -> LinkType] /\ order' \in Seq(Node)
         /\ Len(order') = Len(order) - 1
         /\ \A j \in 1..Len(order') : order'[j] = order[IF j < at THEN j ELSE j + 1]
         /\ Distinct(order') /\ ListExact'
         /\ \A m : Listed(m)' <=> Listed(m) /\ m # n
         /\ links'[n] = Unlinked
         /\ \A x \in Node \ {n} : /\ links'[x].key = links[x].key
                                  /\ ~Listed(x) => links'[x] = links[x]
         /\ result' = IF at = Len(order) THEN NULL ELSE order[at + 1]
         /\ result' \in Node \cup {NULL}
<1>1. /\ order \in Seq(Node) /\ links \in [Node -> LinkType]
      /\ NULL \notin Node
  BY ItemFacts, Zenon DEF IInv, TypeOK, LinkType
<1>2. PICK l \in Nat : l = Len(order) /\ order \in [1..l -> Node] /\ at \in 1..l
  BY <1>1
<1>3. at >= 1 /\ at <= l
  BY <1>2
<1>4. /\ \A i, j \in 1..l : order[i] = order[j] => i = j
      /\ \A j \in 1..l : order[j] # NULL /\ order[j] \in Node
  BY <1>1, <1>2 DEF IInv, Distinct
<1>5. Place(n) = at
  BY <1>2, <1>4 DEF Place
<1>6. order' = [j \in 1..(l - 1) |-> order[IF j < at THEN j ELSE j + 1]]
  BY <1>2, <1>5 DEF RemoveDataRaw, Forget
<1>7. /\ order' \in Seq(Node) /\ Len(order') = l - 1
      /\ \A j \in 1..(l - 1) : order'[j] = order[IF j < at THEN j ELSE j + 1]
  <2>1. l - 1 \in Nat
    BY <1>2
  <2>2. \A j \in 1..(l - 1) : order[IF j < at THEN j ELSE j + 1] \in Node
    BY <1>2
  <2>. QED
    BY <1>6, <2>1, <2>2
<1>8. \A j \in 1..(l - 1) : /\ j < at => order'[j] = order[j]
                            /\ j >= at => order'[j] = order[j + 1]
  BY <1>2, <1>7
<1>9. Distinct(order')
  BY <1>2, <1>4, <1>7 DEF Distinct
<1>10. \A m : Listed(m)' <=> Listed(m) /\ m # n
  <2>1. ASSUME NEW m, Listed(m)' PROVE Listed(m) /\ m # n
    <3>1. PICK j \in 1..(l - 1) : order'[j] = m
      BY <1>7, <2>1 DEF Listed
    <3>2. PICK i \in 1..l : i # at /\ order[i] = m
      BY <1>2, <1>7, <3>1
    <3>. QED
      BY <1>2, <1>4, <3>2 DEF Listed
  <2>2. ASSUME NEW m, Listed(m), m # n PROVE Listed(m)'
    <3>1. PICK i \in 1..l : order[i] = m /\ i # at
      BY <1>2, <2>2 DEF Listed
    <3>2. CASE i < at
      <4>1. i \in 1..(l - 1) /\ order'[i] = m
        BY <1>2, <1>7, <3>1, <3>2
      <4>. QED
        BY <1>7, <4>1 DEF Listed
    <3>3. CASE i > at
      <4>1. i - 1 \in 1..(l - 1) /\ order'[i - 1] = m
        BY <1>2, <1>7, <3>1, <3>3
      <4>. QED
        BY <1>7, <4>1 DEF Listed
    <3>. QED
      BY <1>2, <3>1, <3>2, <3>3
  <2>. QED
    BY <2>1, <2>2
<1>11. /\ links[n].next = IF at = l THEN NULL ELSE order[at + 1]
       /\ links[n].prev = IF at = 1 THEN NULL ELSE order[at - 1]
  BY <1>2, Zenon DEF IInv, ListExact
<1>12. PICK q \in Node \cup {NULL}, r \in Node \cup {NULL} :
         /\ q = links[n].prev /\ r = links[n].next
         /\ r = IF at = l THEN NULL ELSE order[at + 1]
         /\ q = IF at = 1 THEN NULL ELSE order[at - 1]
  BY <1>1, <1>11 DEF LinkType
<1>13. q # n /\ r # n
  BY <1>1, <1>2, <1>4, <1>12
<1>14. /\ links' = [SetPrev(SetNext(links, q, r), r, q) EXCEPT ![n] = Unlinked]
       /\ m_first' = IF n = m_first THEN r ELSE m_first
       /\ m_last' = IF n = m_last THEN q ELSE m_last
       /\ m_nCount' = m_nCount - 1
       /\ result' = r
  BY <1>12 DEF RemoveDataRaw
<1>15. /\ links' \in [Node -> LinkType]
       /\ links'[n] = Unlinked
       /\ \A x \in Node \ {n} :
            /\ links'[x].key = links[x].key
            /\ links'[x].next = IF x = q THEN r ELSE links[x].next
            /\ links'[x].prev = IF x = r THEN q ELSE links[x].prev
            /\ x # q /\ x # r => links'[x] = links[x]
  <2>1. PICK K, M : K = SetNext(links, q, r) /\ M = SetPrev(K, r, q)
    OBVIOUS
  <2>2. /\ K \in [Node -> LinkType]
        /\ \A x \in Node :
             /\ K[x].key = links[x].key /\ K[x].prev = links[x].prev
             /\ K[x].next = IF x = q THEN r ELSE links[x].next
             /\ x # q => K[x] = links[x]
    BY <1>1, <2>1 DEF SetNext, LinkType
  <2>3. /\ M \in [Node -> LinkType]
        /\ \A x \in Node :
             /\ M[x].key = K[x].key /\ M[x].next = K[x].next
             /\ M[x].prev = IF x = r THEN q ELSE K[x].prev
             /\ x # r => M[x] = K[x]
    BY <1>1, <2>1, <2>2 DEF SetPrev, LinkType
  <2>4. /\ links' \in [Node -> LinkType]
        /\ links'[n] = Unlinked
        /\ \A x \in Node \ {n} : links'[x] = M[x]
    BY <1>14, <2>1, <2>3, Zenon DEF LinkType, Unlinked
  <2>. QED
    BY <2>2, <2>3, <2>4
<1>16. \A x \in Node \ {n} : ~Listed(x) => links'[x] = links[x]
  <2>1. \A x \in Node : x = q \/ x = r => Listed(x)
    BY <1>1, <1>2, <1>12 DEF Listed
  <2>. QED
    BY <1>15, <2>1
<1>17. LinkedAs(links', order', l - 1)
  <2>1. LinkedAs(links, order, l)
    BY <1>2, Zenon DEF IInv, ListExact, LinkedAs
  <2>2. IsWithout(order', order, l, at)
    BY <1>8 DEF IsWithout
  <2>3. Bypass(links', links, order[at])
    BY <1>12, <1>15 DEF Bypass
  <2>. QED
    BY <1>2, <1>4, <2>1, <2>2, <2>3, LinksWithout
<1>18. m_nCount = l /\ m_first = order[1] /\ m_last = order[l]
  BY <1>2 DEF IInv, ListExact
<1>19. /\ n = m_first <=> at = 1
       /\ n = m_last <=> at = l
  <2>1. 1 \in 1..l /\ l \in 1..l
    BY <1>2
  <2>. QED
    BY <1>2, <1>4, <1>18, <2>1, Zenon
<1>20. m_first' = IF l - 1 = 0 THEN NULL ELSE order'[1]
  <2>1. CASE at = 1
    <3>1. l = 1 \/ (1 \in 1..(l - 1) /\ 1 >= at /\ l # at)
      BY <1>3, <2>1
    <3>2. l # 1 => order'[1] = order[at + 1]
      BY <1>8, <2>1, <3>1
    <3>. QED
      BY <1>12, <1>14, <1>19, <2>1, <3>1, <3>2
  <2>2. CASE at # 1
    <3>1. 1 \in 1..(l - 1) /\ 1 < at /\ l - 1 # 0
      BY <1>3, <2>2
    <3>2. order'[1] = order[1]
      BY <1>8, <3>1
    <3>. QED
      BY <1>14, <1>18, <1>19, <2>2, <3>1, <3>2, Zenon
  <2>. QED
    BY <2>1, <2>2
<1>21. m_last' = IF l - 1 = 0 THEN NULL ELSE order'[l - 1]
  <2>1. CASE at = l
    BY <1>3, <1>8, <1>12, <1>14, <1>18, <1>19, <2>1
  <2>2. CASE at # l
    <3>1. l - 1 \in 1..(l - 1) /\ l - 1 >= at /\ (l - 1) + 1 = l /\ l - 1 # 0
      BY <1>3, <2>2
    <3>2. order'[l - 1] = order[l]
      BY <1>8, <3>1
    <3>. QED
      BY <1>14, <1>18, <1>19, <2>2, <3>1, <3>2, Zenon
  <2>. QED
    BY <2>1, <2>2
<1>22. ListExact'
  BY <1>7, <1>14, <1>17, <1>18, <1>20, <1>21 DEF ListExact, LinkedAs
<1>23. /\ m_nCount' \in 0..Cardinality(Node)
       /\ m_first' \in Node \cup {NULL} /\ m_last' \in Node \cup {NULL}
  <2>1. l - 1 <= Cardinality(Node) /\ Cardinality(Node) \in Nat
    BY <1>7, <1>9, ListBound, ItemFacts
  <2>2. m_first \in Node \cup {NULL} /\ m_last \in Node \cup {NULL}
    BY DEF IInv, TypeOK
  <2>3. m_nCount' = l - 1 /\ l - 1 \in Nat
    BY <1>2, <1>14, <1>18
  <2>. QED
    BY <1>14, <2>1, <2>2, <2>3
<1>. QED
  BY <1>2, <1>7, <1>9, <1>10, <1>12, <1>14, <1>15, <1>16, <1>22, <1>23, Zenon

-----------------------------------------------------------------------------
(* The invariant holds at first and is kept by every call.                 *)

\* The empty table satisfies the invariant.
LEMMA InitIInv ==
  Init => IInv
<1>. SUFFICES ASSUME Init PROVE IInv
  OBVIOUS
<1>1. TypeOK
  BY ItemFacts DEF Init, TypeOK, Freed, Unlinked
<1>2. order = <<>> /\ Len(order) = 0 /\ items = [i \in Item |-> Freed]
      /\ links = [n \in Node |-> Unlinked] /\ m_pTable = [b \in Bucket |-> NULL]
  BY DEF Init
<1>3. \A i \in Item : ~Used(i) /\ items[i].key = NULL
  BY <1>2 DEF Used, Freed
<1>4. ChainsExact
  <2>1. \A b \in Bucket : m_pTable[b] = NULL
    BY <1>2
  <2>2. From(items, NULL) \subseteq {}
    <3>1. Closed(items, {})
      BY DEF Closed
    <3>. QED
      BY <3>1, FromLeast
  <2>. QED
    BY <1>3, <2>1, <2>2 DEF ChainsExact, Chain
<1>5. ListExact /\ Distinct(order) /\ Spare
  BY <1>2 DEF Init, ListExact, Distinct, Spare
<1>6. KeysDiffer
  BY <1>3 DEF KeysDiffer
<1>7. Crossed
  BY <1>2, <1>3 DEF Crossed, Unlinked
<1>. QED
  BY <1>1, <1>4, <1>5, <1>6, <1>7 DEF IInv

\* A call that changes nothing but its answer
LEMMA SameIInv ==
  ASSUME IInv, UNCHANGED <<listVars, links, hashVars, order>>,
         result' \in Node \cup BOOLEAN \cup {NULL}
  PROVE  IInv'
<1>1. /\ m_first' = m_first /\ m_last' = m_last /\ m_nCount' = m_nCount
      /\ links' = links /\ m_pTable' = m_pTable /\ items' = items /\ order' = order
  BY DEF listVars, hashVars
<1>2. TypeOK'
  BY <1>1 DEF IInv, TypeOK
<1>3. ChainsExact' /\ ListExact'
  BY <1>1 DEF IInv, ChainsExact, Chain, ListExact
<1>4. Distinct(order)' /\ KeysDiffer'
  BY <1>1, Zenon DEF IInv, Distinct, KeysDiffer, Used
<1>5. Spare' /\ Crossed'
  BY <1>1 DEF IInv, Spare, Crossed, Used, Listed
<1>. QED
  BY <1>2, <1>3, <1>4, <1>5 DEF IInv

\* A node is added with the item of its key.
LEMMA AddBothIInv ==
  ASSUME IInv, NEW n \in Node, NEW k \in Key, ~Listed(n), ItemOf(k) = NULL,
         AddEntry2(n, k), AddDataRaw(n, NewItem), result' = TRUE
  PROVE  IInv'
<1>1. PICK i \in Item : i = NewItem
  BY FreeItem
<1>2. /\ ~Used(i)
      /\ m_pTable' \in [Bucket -> Item \cup {NULL}]
      /\ items' \in [Item -> [prev : Item \cup {NULL}, next : Item \cup {NULL},
                              key : Key \cup {NULL}, data : Node \cup {NULL}]]
      /\ items'[i].key = k /\ items'[i].data = n
      /\ \A x \in Item \ {i} :
           /\ items'[x].key = items[x].key /\ items'[x].data = items[x].data
           /\ ~Used(x) => items'[x] = items[x]
      /\ ChainsExact'
  BY <1>1, AddEntry2Exact, Zenon
<1>3. AddDataRaw(n, i)
  BY <1>1
<1>4. /\ m_first' \in Node \cup {NULL} /\ m_last' \in Node \cup {NULL}
      /\ m_nCount' \in 0..Cardinality(Node)
      /\ links' \in [Node -> LinkType] /\ order' \in Seq(Node)
      /\ Distinct(order') /\ ListExact'
  BY <1>3, AddDataRawExact
<1>5. \A m : Listed(m)' <=> Listed(m) \/ m = n
  BY <1>3, AddDataRawExact, Zenon
<1>6. /\ links'[n].key = i
      /\ \A x \in Node \ {n} : /\ links'[x].key = links[x].key
                               /\ ~Listed(x) => links'[x] = links[x]
  BY <1>3, AddDataRawExact, Zenon
<1>7. TypeOK'
  BY <1>2, <1>4, Zenon DEF TypeOK, LinkType
<1>8. \A x \in Item : Used(x)' <=> Used(x) \/ x = i
  BY <1>2, ItemFacts, Zenon DEF Used
<1>9. Spare'
  <2>1. \A x \in Node : ~Listed(x)' => links'[x] = Unlinked
    BY <1>5, <1>6, Zenon DEF IInv, Spare
  <2>2. \A x \in Item : ~Used(x)' => items'[x] = Freed
    BY <1>2, <1>8, Zenon DEF IInv, Spare
  <2>. QED
    BY <2>1, <2>2 DEF Spare
<1>10. KeysDiffer'
  <2>1. \A x \in Item : items[x].key # k
    BY ItemOfIs, ItemFacts
  <2>2. ASSUME NEW x \in Item, NEW y \in Item, Used(x)', items'[x].key = items'[y].key
        PROVE  x = y
    BY <1>2, <1>8, <2>1, <2>2 DEF IInv, KeysDiffer, Used
  <2>. QED
    BY <2>2 DEF KeysDiffer
<1>11. Crossed'
  <2>1. ASSUME NEW x \in Item, Used(x)'
        PROVE  \E m \in Node : items'[x].data = m /\ Listed(m)' /\ links'[m].key = x
    <3>1. CASE x = i
      BY <1>2, <1>5, <1>6, <3>1, Zenon
    <3>2. CASE x # i
      <4>1. PICK m \in Node : m = items[x].data /\ Listed(m) /\ links[m].key = x
        BY <1>8, <2>1, <3>2, Zenon DEF IInv, Crossed
      <4>2. m # n /\ items'[x].data = m
        BY <1>2, <3>2, <4>1, Zenon
      <4>. QED
        BY <1>5, <1>6, <4>1, <4>2, Zenon
    <3>. QED
      BY <3>1, <3>2, Zenon
  <2>2. ASSUME NEW m \in Node, links'[m].key # NULL
        PROVE  \E x \in Item : links'[m].key = x /\ Used(x)' /\ items'[x].data = m
    <3>1. CASE m = n
      BY <1>2, <1>6, <1>8, <3>1, Zenon
    <3>2. CASE m # n
      <4>1. PICK x \in Item : x = links[m].key /\ Used(x) /\ items[x].data = m
        BY <1>6, <2>2, <3>2, Zenon DEF IInv, Crossed, TypeOK
      <4>2. x # i /\ links'[m].key = x
        BY <1>2, <1>6, <3>2, <4>1, Zenon
      <4>. QED
        BY <1>2, <1>8, <4>1, <4>2, Zenon
    <3>. QED
      BY <3>1, <3>2, Zenon
  <2>. QED
    BY <2>1, <2>2, Zenon DEF Crossed
<1>. QED
  BY <1>2, <1>4, <1>7, <1>9, <1>10, <1>11, Zenon DEF IInv

\* A node is added and no item could be allocated for its key.
LEMMA AddAloneIInv ==
  ASSUME IInv, NEW n \in Node, ~Listed(n), AddDataRaw(n, NULL), UNCHANGED hashVars,
         result' = TRUE
  PROVE  IInv'
<1>1. items' = items /\ m_pTable' = m_pTable
  BY DEF hashVars
<1>2. /\ m_first' \in Node \cup {NULL} /\ m_last' \in Node \cup {NULL}
      /\ m_nCount' \in 0..Cardinality(Node)
      /\ links' \in [Node -> LinkType] /\ order' \in Seq(Node)
      /\ Distinct(order') /\ ListExact'
  BY AddDataRawExact, Zenon
<1>3. \A m : Listed(m)' <=> Listed(m) \/ m = n
  BY AddDataRawExact
<1>4. /\ links'[n].key = NULL
      /\ \A x \in Node \ {n} : /\ links'[x].key = links[x].key
                               /\ ~Listed(x) => links'[x] = links[x]
  BY AddDataRawExact
<1>5. TypeOK'
  BY <1>1, <1>2, Zenon DEF IInv, TypeOK, LinkType
<1>6. ChainsExact' /\ KeysDiffer' /\ \A x \in Item : Used(x)' <=> Used(x)
  BY <1>1, Zenon DEF IInv, ChainsExact, Chain, KeysDiffer, Used
<1>7. Spare'
  <2>1. \A x \in Node : ~Listed(x)' => links'[x] = Unlinked
    BY <1>3, <1>4, Zenon DEF IInv, Spare
  <2>2. \A x \in Item : ~Used(x)' => items'[x] = Freed
    BY <1>1, <1>6 DEF IInv, Spare
  <2>. QED
    BY <2>1, <2>2 DEF Spare
<1>8. Crossed'
  <2>1. ASSUME NEW x \in Item, Used(x)'
        PROVE  \E m \in Node : items'[x].data = m /\ Listed(m)' /\ links'[m].key = x
    BY <1>1, <1>3, <1>4, <1>6, <2>1 DEF IInv, Crossed
  <2>2. ASSUME NEW m \in Node, links'[m].key # NULL
        PROVE  \E x \in Item : links'[m].key = x /\ Used(x)' /\ items'[x].data = m
    BY <1>1, <1>4, <1>6, <2>2 DEF IInv, Crossed
  <2>. QED
    BY <2>1, <2>2 DEF Crossed
<1>. QED
  BY <1>2, <1>5, <1>6, <1>7, <1>8 DEF IInv

\* An item in use and its node are removed.
LEMMA RemoveBothIInv ==
  ASSUME IInv, NEW i \in Item, Used(i), NEW n \in Node, items[i].data = n,
         RemoveEntry2(i), RemoveDataRaw(n)
  PROVE  IInv'
<1>1. Listed(n) /\ links[n].key = i
  BY Zenon DEF IInv, Crossed
<1>2. PICK at \in Nat : at \in 1..Len(order) /\ order[at] = n
  BY <1>1 DEF Listed, IInv, TypeOK
<1>3. /\ m_pTable' \in [Bucket -> Item \cup {NULL}]
      /\ items' \in [Item -> [prev : Item \cup {NULL}, next : Item \cup {NULL},
                              key : Key \cup {NULL}, data : Node \cup {NULL}]]
      /\ items'[i] = Freed
      /\ \A x \in Item \ {i} :
           /\ items'[x].key = items[x].key /\ items'[x].data = items[x].data
           /\ ~Used(x) => items'[x] = items[x]
      /\ ChainsExact'
  BY RemoveEntry2Exact, Zenon
<1>4. /\ m_first' \in Node \cup {NULL} /\ m_last' \in Node \cup {NULL}
      /\ m_nCount' \in 0..Cardinality(Node)
      /\ links' \in [Node -> LinkType] /\ order' \in Seq(Node)
      /\ Distinct(order') /\ ListExact'
      /\ result' \in Node \cup {NULL}
  BY <1>2, RemoveDataRawExact, Zenon
<1>5. \A m : Listed(m)' <=> Listed(m) /\ m # n
  BY <1>2, RemoveDataRawExact, Zenon
<1>6. /\ links'[n] = Unlinked /\ links'[n].key = NULL
      /\ \A x \in Node \ {n} : /\ links'[x].key = links[x].key
                               /\ ~Listed(x) => links'[x] = links[x]
  <2>1. /\ links'[n] = Unlinked
        /\ \A x \in Node \ {n} : /\ links'[x].key = links[x].key
                                 /\ ~Listed(x) => links'[x] = links[x]
    BY <1>2, RemoveDataRawExact, Zenon
  <2>. QED
    BY <2>1 DEF Unlinked
<1>7. TypeOK'
  BY <1>3, <1>4, Zenon DEF TypeOK, LinkType
<1>8. \A x \in Item : Used(x)' <=> Used(x) /\ x # i
  BY <1>3 DEF Used, Freed
<1>9. Spare'
  <2>1. \A x \in Node : ~Listed(x)' => links'[x] = Unlinked
    BY <1>5, <1>6 DEF IInv, Spare
  <2>2. \A x \in Item : ~Used(x)' => items'[x] = Freed
    BY <1>3, <1>8, Zenon DEF IInv, Spare
  <2>. QED
    BY <2>1, <2>2 DEF Spare
<1>10. KeysDiffer'
  <2>1. ASSUME NEW x \in Item, NEW y \in Item, Used(x)', items'[x].key = items'[y].key
        PROVE  x = y
    BY <1>3, <1>8, <2>1 DEF IInv, KeysDiffer, Used, Freed
  <2>. QED
    BY <2>1, Zenon DEF KeysDiffer
<1>11. Crossed'
  <2>1. ASSUME NEW x \in Item, Used(x)'
        PROVE  \E m \in Node : items'[x].data = m /\ Listed(m)' /\ links'[m].key = x
    <3>1. x # i /\ Used(x)
      BY <1>8, <2>1
    <3>2. PICK m \in Node : items[x].data = m /\ Listed(m) /\ links[m].key = x
      BY <3>1 DEF IInv, Crossed
    <3>. QED
      BY <1>1, <1>3, <1>5, <1>6, <3>1, <3>2, Zenon
  <2>2. ASSUME NEW m \in Node, links'[m].key # NULL
        PROVE  \E x \in Item : links'[m].key = x /\ Used(x)' /\ items'[x].data = m
    <3>1. m # n /\ links[m].key # NULL
      BY <1>6, <2>2, Zenon
    <3>2. PICK x \in Item : links[m].key = x /\ Used(x) /\ items[x].data = m
      BY <3>1, Zenon DEF IInv, Crossed
    <3>. QED
      BY <1>3, <1>6, <1>8, <3>1, <3>2, Zenon
  <2>. QED
    BY <2>1, <2>2 DEF Crossed
<1>. QED
  BY <1>3, <1>4, <1>7, <1>9, <1>10, <1>11, Zenon DEF IInv

\* What RemoveNode finds by the key it reads through the node is the node's item.
LEMMA RemoveNodeItem ==
  ASSUME IInv, NEW n \in Node, links[n].key # NULL
  PROVE  /\ links[n].key \in Item /\ Used(links[n].key)
         /\ items[links[n].key].data = n
         /\ ItemOf(items[links[n].key].key) = links[n].key
<1>1. PICK i \in Item : links[n].key = i /\ Used(i) /\ items[i].data = n
  BY DEF IInv, Crossed
<1>2. items[i].key \in Key
  BY <1>1 DEF IInv, TypeOK, Used
<1>3. ItemOf(items[i].key) = i
  BY <1>2, ItemOfIs
<1>. QED
  BY <1>1, <1>3, Zenon

\* What a search finds is an item in use, whose data is a node of the list.
LEMMA FoundItem ==
  ASSUME IInv, NEW k \in Key, ItemOf(k) # NULL
  PROVE  /\ ItemOf(k) \in Item /\ Used(ItemOf(k))
         /\ items[ItemOf(k)].key = k /\ items[ItemOf(k)].data \in Node
<1>1. PICK i \in Item : i = ItemOf(k) /\ items[i].key = k
  BY ItemOfIs
<1>2. Used(i)
  BY <1>1, ItemFacts DEF Used
<1>. QED
  BY <1>1, <1>2, Zenon DEF IInv, Crossed

\* Every call keeps the invariant.
LEMMA NextIInv ==
  ASSUME IInv, [Next]_vars
  PROVE  IInv'
<1>1. ASSUME NEW n \in Node, NEW k \in Key, AddData(n, k) PROVE IInv'
  <2>0. ~Listed(n)
    BY <1>1, InListIs DEF AddData
  <2>1. CASE ItemOf(k) # NULL
    BY <1>1, <2>1, SameIInv, Zenon DEF AddData
  <2>2. CASE ItemOf(k) = NULL /\ AddEntry2(n, k) /\ AddDataRaw(n, NewItem)
    BY <1>1, <2>0, <2>2, AddBothIInv DEF AddData
  <2>3. CASE ItemOf(k) = NULL /\ UNCHANGED hashVars /\ AddDataRaw(n, NULL)
    BY <1>1, <2>0, <2>3, AddAloneIInv DEF AddData
  <2>. QED
    BY <1>1, <2>1, <2>2, <2>3 DEF AddData
<1>2. ASSUME NEW n \in Node, RemoveNode(n) PROVE IInv'
  <2>1. links[n].key # NULL
    BY <1>2 DEF RemoveNode
  <2>2. PICK i \in Item : /\ i = links[n].key /\ Used(i) /\ items[i].data = n
                          /\ ItemOf(items[links[n].key].key) = i
    BY <2>1, RemoveNodeItem
  <2>3. RemoveEntry2(i) /\ RemoveDataRaw(n)
    BY <1>2, <2>2, ItemFacts DEF RemoveNode
  <2>. QED
    BY <2>2, <2>3, RemoveBothIInv
<1>3. ASSUME NEW k \in Key, RemoveKey(k) PROVE IInv'
  <2>1. CASE ItemOf(k) = NULL
    BY <1>3, <2>1, SameIInv DEF RemoveKey
  <2>2. CASE ItemOf(k) # NULL
    <3>1. PICK i \in Item, n \in Node : i = ItemOf(k) /\ Used(i) /\ items[i].data = n
      BY <2>2, FoundItem
    <3>2. RemoveEntry2(i) /\ RemoveDataRaw(n)
      BY <1>3, <2>2, <3>1 DEF RemoveKey
    <3>. QED
      BY <3>1, <3>2, RemoveBothIInv
  <2>. QED
    BY <2>1, <2>2
<1>4. ASSUME NEW k \in Key, FindEntry(k) PROVE IInv'
  <2>1. result' \in Node \cup BOOLEAN \cup {NULL}
    BY <1>4, FoundItem DEF FindEntry
  <2>. QED
    BY <1>4, <2>1, SameIInv DEF FindEntry
<1>5. ASSUME UNCHANGED vars PROVE IInv'
  <2>1. UNCHANGED <<listVars, links, hashVars, order>> /\ result' = result
    BY <1>5 DEF vars
  <2>2. result \in Node \cup BOOLEAN \cup {NULL}
    BY DEF IInv, TypeOK
  <2>. QED
    BY <2>1, <2>2, SameIInv
<1>. QED
  BY <1>1, <1>2, <1>3, <1>4, <1>5 DEF Next

\* The table is what its operations take it for after any calls.
LEMMA Invariant ==
  Spec => []IInv
BY InitIInv, NextIInv, PTL DEF Spec

\* The pointers, the counter and the memory of the items keep their types; the
\* counter never exceeds the number of nodes.
THEOREM TypeCorrect ==
  Spec => []TypeOK
<1>1. IInv => TypeOK
  BY DEF IInv
<1>. QED
  BY <1>1, Invariant, PTL

\* The chain of a slot holds exactly the items in use of its hash, each with the one
\* before it in prev, whatever was added and removed.
THEOREM Chains ==
  Spec => []ChainsExact
<1>1. IInv => ChainsExact
  BY DEF IInv
<1>. QED
  BY <1>1, Invariant, PTL

\* The list is the nodes in the order they came, in both directions, and m_nCount its
\* length.
THEOREM List ==
  Spec => []ListExact
<1>1. IInv => ListExact
  BY DEF IInv
<1>. QED
  BY <1>1, Invariant, PTL

-----------------------------------------------------------------------------
(* The refinement                                                          *)

\* The sequence of the abstract table is the list with the keys of the items.
LEMMA EntriesAre ==
  ASSUME IInv
  PROVE  /\ Len(order) \in Nat /\ entries \in Seq(Node \X (Key \cup {NULL}))
         /\ Len(entries) = Len(order) /\ DOMAIN entries = 1..Len(order)
         /\ \A j \in 1..Len(order) : /\ entries[j] = <<order[j], keyOf(order[j])>>
                                     /\ entries[j][1] = order[j]
                                     /\ entries[j][2] = keyOf(order[j])
                                     /\ order[j] \in Node
<1>1. order \in Seq(Node) /\ Len(order) \in Nat
  BY DEF IInv, TypeOK
<1>2. \A n \in Node : keyOf(n) \in Key \cup {NULL}
  BY DEF keyOf, IInv, TypeOK
<1>3. \A j \in 1..Len(order) : <<order[j], keyOf(order[j])>> \in Node \X (Key \cup {NULL})
  BY <1>1, <1>2
<1>4. entries \in [1..Len(order) -> Node \X (Key \cup {NULL})]
  BY <1>3 DEF entries
<1>. QED
  BY <1>1, <1>3, <1>4 DEF entries

\* The nodes of the sequence are the ones in the list.
LEMMA NodesAre ==
  ASSUME IInv
  PROVE  \A n : n \in Map!Nodes <=> Listed(n)
BY EntriesAre DEF Map!Nodes, Listed

\* The keys of the sequence are the ones that a search finds.
LEMMA KeysAre ==
  ASSUME IInv, NEW k \in Key
  PROVE  k \in Map!Keys <=> ItemOf(k) # NULL
<1>1. k # NULL
  BY ItemFacts
<1>2. ASSUME k \in Map!Keys PROVE ItemOf(k) # NULL
  <2>1. PICK j \in 1..Len(order) : keyOf(order[j]) = k /\ order[j] \in Node
    BY <1>2, EntriesAre DEF Map!Keys
  <2>2. PICK i \in Item : items[i].key = k
    BY <1>1, <2>1, Zenon DEF keyOf, IInv, Crossed
  <2>. QED
    BY <2>2, ItemOfIs, ItemFacts
<1>3. ASSUME ItemOf(k) # NULL PROVE k \in Map!Keys
  <2>1. PICK i \in Item : i = ItemOf(k) /\ Used(i) /\ items[i].key = k
    BY <1>3, FoundItem
  <2>2. PICK n \in Node : Listed(n) /\ links[n].key = i
    BY <2>1 DEF IInv, Crossed
  <2>3. keyOf(n) = k
    BY <2>1, <2>2, ItemFacts DEF keyOf
  <2>4. PICK j \in 1..Len(order) : order[j] = n
    BY <2>2, Zenon DEF Listed
  <2>. QED
    BY <2>3, <2>4, EntriesAre DEF Map!Keys
<1>. QED
  BY <1>2, <1>3

\* The place of a node, and the place of a key.
LEMMA IndexIs ==
  ASSUME IInv, NEW at \in Nat, at \in 1..Len(order)
  PROVE  /\ \A n \in Node : order[at] = n => Map!IndexOf(LAMBDA e : e[1] = n) = at
         /\ \A k \in Key : keyOf(order[at]) = k => Map!IndexOf(LAMBDA e : e[2] = k) = at
         /\ Map!NodeAfter(at) = IF at = Len(order) THEN NULL ELSE order[at + 1]
<1>1. \A j \in 1..Len(order) : order[j] = order[at] => j = at
  BY DEF IInv, Distinct
<1>2. ASSUME NEW n \in Node, order[at] = n PROVE Map!IndexOf(LAMBDA e : e[1] = n) = at
  BY <1>1, <1>2, EntriesAre DEF Map!IndexOf
<1>3. ASSUME NEW k \in Key, keyOf(order[at]) = k
      PROVE  Map!IndexOf(LAMBDA e : e[2] = k) = at
  <2>1. \A j \in 1..Len(order) : keyOf(order[j]) = k => j = at
    <3>1. SUFFICES ASSUME NEW j \in 1..Len(order), keyOf(order[j]) = k PROVE j = at
      OBVIOUS
    <3>2. PICK m \in Node, n \in Node : m = order[j] /\ n = order[at]
      BY EntriesAre
    <3>3. k # NULL
      BY ItemFacts
    <3>4. PICK x \in Item : Used(x) /\ items[x].data = m /\ items[x].key = k
      BY <3>1, <3>2, <3>3 DEF keyOf, IInv, Crossed
    <3>5. PICK y \in Item : Used(y) /\ items[y].data = n /\ items[y].key = k
      BY <1>3, <3>2, <3>3 DEF keyOf, IInv, Crossed
    <3>6. m = n
      BY <3>4, <3>5 DEF IInv, KeysDiffer
    <3>. QED
      BY <1>1, <3>2, <3>6, Zenon
  <2>. QED
    BY <1>3, <2>1, EntriesAre DEF Map!IndexOf
<1>4. Map!NodeAfter(at) = IF at = Len(order) THEN NULL ELSE order[at + 1]
  <2>1. PICK l \in Nat : l = Len(order) /\ l = Len(entries) /\ at \in 1..l
    BY EntriesAre, Zenon
  <2>2. at <= l /\ (at # l => at + 1 \in 1..l /\ at < l)
    BY <2>1
  <2>3. at # l => entries[at + 1][1] = order[at + 1]
    BY <2>1, <2>2, EntriesAre
  <2>. QED
    BY <2>1, <2>2, <2>3 DEF Map!NodeAfter
<1>. QED
  BY <1>2, <1>3, <1>4, Zenon

\* the key of a node by what is in the memory
KeyIn(L, I, n) == IF L[n].key = NULL THEN NULL ELSE I[L[n].key].key

\* A sequence that has one more element than another is the other with it appended.
LEMMA AppendIs ==
  ASSUME NEW S, NEW s \in Seq(S), NEW l \in Nat, l = Len(s), NEW e \in S,
         NEW t \in [1..(l + 1) -> S],
         \A j \in 1..l : t[j] = s[j], t[l + 1] = e
  PROVE  t = Append(s, e)
<1>1. PICK u : u = Append(s, e)
  OBVIOUS
<1>2. /\ u \in [1..(l + 1) -> S]
      /\ \A j \in 1..l : u[j] = s[j]
      /\ u[l + 1] = e
  <2>1. u \in Seq(S) /\ Len(u) = l + 1
    BY <1>1
  <2>2. u \in [1..(l + 1) -> S]
    BY <2>1
  <2>3. \A j \in 1..l : u[j] = s[j]
    BY <1>1
  <2>4. u[l + 1] = e
    BY <1>1
  <2>. QED
    BY <2>2, <2>3, <2>4
<1>3. \A j \in 1..(l + 1) : t[j] = u[j]
  BY <1>2
<1>. QED
  BY <1>1, <1>2, <1>3

\* The node that comes to the end of the list comes to the end of the sequence.
LEMMA EntriesAppend ==
  ASSUME IInv, NEW n \in Node, NEW key \in Key \cup {NULL},
         order' \in Seq(Node), Len(order') = Len(order) + 1, order'[Len(order')] = n,
         \A j \in 1..Len(order) : order'[j] = order[j],
         KeyIn(links', items', n) = key,
         \A m \in Node : Listed(m) => KeyIn(links', items', m) = keyOf(m)
  PROVE  entries' = Append(entries, <<n, key>>)
<1>1. PICK l \in Nat : l = Len(order) /\ Len(entries) = l
  BY EntriesAre, Zenon
<1>2. entries' = [j \in 1..(l + 1) |-> <<order'[j], KeyIn(links', items', order'[j])>>]
  BY <1>1, Zenon DEF entries, keyOf, KeyIn
<1>3. \A j \in 1..l : <<order'[j], KeyIn(links', items', order'[j])>> = entries[j]
  BY <1>1, EntriesAre, Zenon DEF Listed
<1>4. <<order'[l + 1], KeyIn(links', items', order'[l + 1])>> = <<n, key>>
  BY <1>1
<1>. DEFINE P == Node \X (Key \cup {NULL})
<1>5. \A j \in 1..l : entries[j] \in P
  BY <1>1, EntriesAre
<1>6. \A j \in 1..(l + 1) : <<order'[j], KeyIn(links', items', order'[j])>> \in P
  <2>1. \A j \in 1..(l + 1) : j \in 1..l \/ j = l + 1
    OBVIOUS
  <2>. QED
    BY <1>3, <1>4, <1>5, <2>1, Zenon
<1>7. /\ entries' \in [1..(l + 1) -> P]
      /\ \A j \in 1..l : entries'[j] = entries[j]
      /\ entries'[l + 1] = <<n, key>>
  <2>1. entries' \in [1..(l + 1) -> P]
    BY <1>2, <1>6, Zenon
  <2>2. ASSUME NEW j \in 1..l PROVE entries'[j] = entries[j]
    <3>1. j \in 1..(l + 1)
      OBVIOUS
    <3>2. entries'[j] = <<order'[j], KeyIn(links', items', order'[j])>>
      BY <1>2, <3>1, Zenon
    <3>. QED
      BY <1>3, <3>2, Zenon
  <2>3. entries'[l + 1] = <<n, key>>
    BY <1>2, <1>4
  <2>. QED
    BY <2>1, <2>2, <2>3, Zenon
<1>. QED
  BY <1>1, <1>7, EntriesAre, AppendIs

\* The node that is taken out of the list is taken out of the sequence.
LEMMA EntriesWithout ==
  ASSUME IInv, NEW at \in Nat, at \in 1..Len(order),
         Len(order') = Len(order) - 1,
         \A j \in 1..Len(order') : order'[j] = order[IF j < at THEN j ELSE j + 1],
         \A m \in Node : m # order[at] => KeyIn(links', items', m) = keyOf(m)
  PROVE  entries' = Map!Without(at)
<1>1. PICK l \in Nat : l = Len(order) /\ Len(entries) = l /\ at \in 1..l
  BY EntriesAre
<1>2. entries' = [j \in 1..(l - 1) |-> <<order'[j], KeyIn(links', items', order'[j])>>]
  BY <1>1, Zenon DEF entries, keyOf, KeyIn
<1>3. ASSUME NEW j \in 1..(l - 1)
      PROVE  <<order'[j], KeyIn(links', items', order'[j])>>
               = entries[IF j < at THEN j ELSE j + 1]
  <2>1. PICK i \in 1..l : i = (IF j < at THEN j ELSE j + 1) /\ i # at
    BY <1>1
  <2>2. order'[j] = order[i] /\ order[i] \in Node /\ order[i] # order[at]
    BY <1>1, <2>1, EntriesAre, Zenon DEF IInv, Distinct
  <2>3. KeyIn(links', items', order[i]) = keyOf(order[i])
    BY <2>2, Zenon
  <2>. QED
    BY <1>1, <2>1, <2>2, <2>3, EntriesAre
<1>. QED
  BY <1>1, <1>2, <1>3, Zenon DEF Map!Without

\* The key of a node that stays with its item is not changed.
LEMMA KeyKept ==
  ASSUME IInv, NEW m \in Node, links'[m].key = links[m].key,
         \A x \in Item : Used(x) /\ links[m].key = x => items'[x].key = items[x].key
  PROVE  KeyIn(links', items', m) = keyOf(m)
<1>1. CASE links[m].key = NULL
  BY <1>1 DEF KeyIn, keyOf
<1>2. CASE links[m].key # NULL
  <2>1. PICK x \in Item : links[m].key = x /\ Used(x)
    BY <1>2, Zenon DEF IInv, Crossed
  <2>. QED
    BY <1>2, <2>1 DEF KeyIn, keyOf
<1>. QED
  BY <1>1, <1>2

\* AddData is the abstract addition, with the key or, when no item could be
\* allocated, without it.
LEMMA AddDataRefines ==
  ASSUME IInv, NEW n \in Node, NEW k \in Key, AddData(n, k)
  PROVE  Map!AddData(n, k)
<1>1. ~Listed(n) /\ n \notin Map!Nodes
  BY InListIs, NodesAre DEF AddData
<1>2. k \in Map!Keys <=> ItemOf(k) # NULL
  BY KeysAre
<1>3. CASE ItemOf(k) # NULL
  <2>1. links' = links /\ items' = items /\ order' = order /\ result' = FALSE
    BY <1>3 DEF AddData, hashVars
  <2>2. entries' = entries
    BY <2>1, Zenon DEF entries, keyOf
  <2>. QED
    BY <1>1, <1>2, <1>3, <2>1, <2>2, Zenon DEF Map!AddData
<1>4. CASE ItemOf(k) = NULL /\ AddEntry2(n, k) /\ AddDataRaw(n, NewItem)
  <2>1. PICK i \in Item : i = NewItem
    BY <1>1, FreeItem, Zenon
  <2>2. /\ ~Used(i) /\ items'[i].key = k
        /\ \A x \in Item \ {i} : items'[x].key = items[x].key
    BY <1>1, <1>4, <2>1, AddEntry2Exact, Zenon
  <2>3. AddDataRaw(n, i)
    BY <1>4, <2>1
  <2>4. /\ order' \in Seq(Node)
        /\ Len(order') = Len(order) + 1 /\ order'[Len(order')] = n
        /\ \A j \in 1..Len(order) : order'[j] = order[j]
        /\ links'[n].key = i
        /\ \A x \in Node \ {n} : links'[x].key = links[x].key
    BY <1>1, <2>3, AddDataRawExact, Zenon
  <2>5. KeyIn(links', items', n) = k
    BY <2>2, <2>4, ItemFacts, Zenon DEF KeyIn
  <2>6. ASSUME NEW m \in Node, Listed(m) PROVE KeyIn(links', items', m) = keyOf(m)
    <3>1. links'[m].key = links[m].key
      BY <1>1, <2>4, <2>6, Zenon
    <3>. QED
      BY <2>2, <3>1, KeyKept, Zenon
  <2>7. entries' = Append(entries, <<n, k>>)
    BY <2>4, <2>5, <2>6, EntriesAppend, Zenon
  <2>8. result' = TRUE
    BY <1>4 DEF AddData
  <2>. QED
    BY <1>1, <1>2, <1>4, <2>7, <2>8, Zenon DEF Map!AddData
<1>5. CASE ItemOf(k) = NULL /\ UNCHANGED hashVars /\ AddDataRaw(n, NULL)
  <2>1. items' = items
    BY <1>5 DEF hashVars
  <2>2. /\ order' \in Seq(Node)
        /\ Len(order') = Len(order) + 1 /\ order'[Len(order')] = n
        /\ \A j \in 1..Len(order) : order'[j] = order[j]
        /\ links'[n].key = NULL
        /\ \A x \in Node \ {n} : links'[x].key = links[x].key
    BY <1>1, <1>5, AddDataRawExact, Zenon
  <2>3. KeyIn(links', items', n) = NULL
    BY <2>2 DEF KeyIn
  <2>4. ASSUME NEW m \in Node, Listed(m) PROVE KeyIn(links', items', m) = keyOf(m)
    <3>1. links'[m].key = links[m].key
      BY <1>1, <2>2, <2>4, Zenon
    <3>. QED
      BY <2>1, <3>1, KeyKept, Zenon
  <2>5. entries' = Append(entries, <<n, NULL>>)
    BY <2>2, <2>3, <2>4, EntriesAppend, Zenon
  <2>6. result' = TRUE
    BY <1>5 DEF AddData
  <2>. QED
    BY <1>1, <1>2, <1>5, <2>5, <2>6, Zenon DEF Map!AddData
<1>. QED
  BY <1>3, <1>4, <1>5 DEF AddData

\* The removal of an item and its node removes the entry at the node's place, and
\* answers with the node after it.
LEMMA RemoveBothRefines ==
  ASSUME IInv, NEW i \in Item, Used(i), NEW n \in Node, items[i].data = n,
         RemoveEntry2(i), RemoveDataRaw(n)
  PROVE  \E at \in Nat : /\ at \in 1..Len(order) /\ order[at] = n
                         /\ keyOf(n) = items[i].key
                         /\ entries' = Map!Without(at) /\ result' = Map!NodeAfter(at)
<1>1. Listed(n) /\ links[n].key = i
  BY DEF IInv, Crossed
<1>2. PICK at \in Nat : at \in 1..Len(order) /\ order[at] = n
  BY <1>1 DEF Listed, IInv, TypeOK
<1>3. /\ Len(order') = Len(order) - 1
      /\ \A j \in 1..Len(order') : order'[j] = order[IF j < at THEN j ELSE j + 1]
      /\ \A x \in Node \ {n} : links'[x].key = links[x].key
      /\ result' = IF at = Len(order) THEN NULL ELSE order[at + 1]
  BY <1>2, RemoveDataRawExact, Zenon
<1>4. \A x \in Item \ {i} : items'[x].key = items[x].key
  BY RemoveEntry2Exact, Zenon
<1>5. ASSUME NEW m \in Node, m # order[at] PROVE KeyIn(links', items', m) = keyOf(m)
  <2>1. links'[m].key = links[m].key
    BY <1>2, <1>3, <1>5, Zenon
  <2>2. links[m].key # i
    BY <1>2, <1>5, ItemFacts, Zenon DEF IInv, Crossed
  <2>. QED
    BY <1>4, <2>1, <2>2, KeyKept, Zenon
<1>6. entries' = Map!Without(at)
  BY <1>2, <1>3, <1>5, EntriesWithout, Zenon
<1>7. result' = Map!NodeAfter(at)
  BY <1>2, <1>3, IndexIs, Zenon
<1>8. keyOf(n) = items[i].key
  BY <1>1, ItemFacts, Zenon DEF keyOf
<1>. QED
  BY <1>2, <1>6, <1>7, <1>8

\* RemoveNode is the abstract removal of a node.
LEMMA RemoveNodeRefines ==
  ASSUME IInv, NEW n \in Node, RemoveNode(n)
  PROVE  Map!RemoveNode(n)
<1>1. links[n].key # NULL
  BY Zenon DEF RemoveNode
<1>2. PICK i \in Item : /\ i = links[n].key /\ Used(i) /\ items[i].data = n
                        /\ ItemOf(items[links[n].key].key) = i
  BY <1>1, RemoveNodeItem
<1>3. RemoveEntry2(i) /\ RemoveDataRaw(n)
  BY <1>2, ItemFacts, Zenon DEF RemoveNode
<1>4. PICK at \in Nat : /\ at \in 1..Len(order) /\ order[at] = n
                        /\ entries' = Map!Without(at) /\ result' = Map!NodeAfter(at)
  BY <1>2, <1>3, RemoveBothRefines, Zenon
<1>5. Map!IndexOf(LAMBDA e : e[1] = n) = at
  BY <1>4, IndexIs DEF Map!IndexOf
<1>6. n \in Map!Nodes
  BY <1>4, NodesAre DEF Listed
<1>. QED
  BY <1>4, <1>5, <1>6 DEF Map!RemoveNode

\* RemoveKey is the abstract removal by key.
LEMMA RemoveKeyRefines ==
  ASSUME IInv, NEW k \in Key, RemoveKey(k)
  PROVE  Map!RemoveKey(k)
<1>1. k \in Map!Keys <=> ItemOf(k) # NULL
  BY KeysAre
<1>2. CASE ItemOf(k) = NULL
  <2>1. links' = links /\ items' = items /\ order' = order /\ result' = NULL
    BY <1>2 DEF RemoveKey, hashVars
  <2>2. entries' = entries
    BY <2>1 DEF entries, keyOf
  <2>. QED
    BY <1>1, <1>2, <2>1, <2>2 DEF Map!RemoveKey
<1>3. CASE ItemOf(k) # NULL
  <2>1. PICK i \in Item, n \in Node :
          i = ItemOf(k) /\ Used(i) /\ items[i].data = n /\ items[i].key = k
    BY <1>3, FoundItem
  <2>2. RemoveEntry2(i) /\ RemoveDataRaw(n)
    BY <1>3, <2>1 DEF RemoveKey
  <2>3. PICK at \in Nat : /\ at \in 1..Len(order) /\ order[at] = n /\ keyOf(n) = k
                          /\ entries' = Map!Without(at) /\ result' = Map!NodeAfter(at)
    BY <2>1, <2>2, RemoveBothRefines, Zenon
  <2>4. Map!IndexOf(LAMBDA e : e[2] = k) = at
    BY <2>3, IndexIs DEF Map!IndexOf
  <2>. QED
    BY <1>1, <1>3, <2>3, <2>4 DEF Map!RemoveKey
<1>. QED
  BY <1>2, <1>3

\* FindEntry answers what the abstract search answers.
LEMMA FindEntryRefines ==
  ASSUME IInv, NEW k \in Key, FindEntry(k)
  PROVE  Map!FindEntry(k)
<1>1. k \in Map!Keys <=> ItemOf(k) # NULL
  BY KeysAre
<1>2. links' = links /\ items' = items /\ order' = order
  BY DEF FindEntry, hashVars
<1>3. entries' = entries
  BY <1>2 DEF entries, keyOf
<1>4. CASE ItemOf(k) = NULL
  BY <1>1, <1>3, <1>4 DEF FindEntry, Map!FindEntry
<1>5. CASE ItemOf(k) # NULL
  <2>1. PICK i \in Item : i = ItemOf(k) /\ Used(i) /\ items[i].key = k
    BY <1>5, FoundItem, Zenon
  <2>2. PICK n \in Node : items[i].data = n /\ Listed(n) /\ links[n].key = i
    BY <2>1, Zenon DEF IInv, Crossed
  <2>3. PICK at \in Nat : at \in 1..Len(order) /\ order[at] = n
    BY <2>2 DEF Listed, IInv, TypeOK
  <2>4. keyOf(n) = k
    BY <2>1, <2>2, ItemFacts, Zenon DEF keyOf
  <2>5. Map!IndexOf(LAMBDA e : e[2] = k) = at
    BY <2>3, <2>4, IndexIs DEF Map!IndexOf
  <2>6. entries[at][1] = n
    BY <2>3, EntriesAre
  <2>7. result' = n
    BY <1>5, <2>1, <2>2 DEF FindEntry
  <2>. QED
    BY <1>1, <1>3, <1>5, <2>5, <2>6, <2>7 DEF Map!FindEntry
<1>. QED
  BY <1>4, <1>5

\* Every step of the table is one of the map, or leaves it alone.
LEMMA StepRefines ==
  ASSUME IInv, [Next]_vars
  PROVE  [Map!Next]_<<entries, result>>
<1>1. CASE \E n \in Node, k \in Key : AddData(n, k)
  BY <1>1, AddDataRefines DEF Map!Next
<1>2. CASE \E n \in Node : RemoveNode(n)
  BY <1>2, RemoveNodeRefines DEF Map!Next
<1>3. CASE \E k \in Key : RemoveKey(k)
  BY <1>3, RemoveKeyRefines DEF Map!Next
<1>4. CASE \E k \in Key : FindEntry(k)
  BY <1>4, FindEntryRefines DEF Map!Next
<1>5. CASE UNCHANGED vars
  <2>1. links' = links /\ items' = items /\ order' = order /\ result' = result
    BY <1>5 DEF vars, hashVars
  <2>2. entries' = entries
    BY <2>1 DEF entries, keyOf
  <2>. QED
    BY <2>1, <2>2
<1>. QED
  BY <1>1, <1>2, <1>3, <1>4, <1>5 DEF Next

\* The list and the hash table together implement the ordered map: every call of the
\* model changes the map and answers as NodeMap says, with any number of nodes and
\* keys and any hash function.
THEOREM ImplementsNodeMap ==
  Spec => IsNodeMap
<1>1. Init => Map!Init
  BY DEF Init, Map!Init, entries
<1>2. IInv /\ [Next]_vars => [Map!Next]_<<entries, result>>
  BY StepRefines
<1>. QED
  BY <1>1, <1>2, Invariant, PTL DEF Spec, IsNodeMap, Map!Spec
=============================================================================
