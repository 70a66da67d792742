--------------------------- MODULE CommonProofs ---------------------------
(* Proofs about the two classes of the common library that the threads of  *)
(* the server share.  FifoFast, for every capacity, every size of the      *)
(* array of spare cells and every heap: its cells are in one place each,   *)
(* the array is never overrun, nothing leaks, and it implements            *)
(* BoundedFifo.  SharedMutex, for every finite set of threads: whom the    *)
(* lock keeps out.                                                         *)
EXTENDS FifoFast, SharedMutex, FiniteSetTheorems, TLAPS

-----------------------------------------------------------------------------
(* The inductive invariant.  What the operations rely on without testing   *)
(* it: the pointers describe the list `order', and the counter its length. *)

Distinct(q) == \A i, j \in 1..Len(q) : q[i] = q[j] => i = j

\* m_pFirst and the next members lead through the list and end in NULL
Linked ==
  /\ order = <<>> => m_pFirst = NULL
  /\ order # <<>> => m_pFirst = order[1]
  /\ \A i \in 1..Len(order) :
       next[order[i]] = IF i = Len(order) THEN NULL ELSE order[i + 1]

\* while the queue is in use
Running ==
  phase = "run" => /\ Len(order) = m_nNumOfElemets
                   /\ order # <<>> => m_pLast = order[Len(order)]

\* while it is destroyed
Ending ==
  /\ phase = "list" => allocated = InList
  /\ phase = "end" => allocated = {} /\ order = <<>>

IInv == /\ TypeOK /\ Linked /\ Distinct(order) /\ Running /\ Ending
        /\ EachCellInOnePlace /\ CashExact

-----------------------------------------------------------------------------
(* Lemmas about sequences of cells.                                        *)

Elements(q) == {q[i] : i \in 1..Len(q)}

\* A cell that is not in the list can be appended to it.
LEMMA AppendCell ==
  ASSUME NEW q \in Seq(Cell), NEW c \in Cell, c \notin Elements(q), Distinct(q)
  PROVE  /\ Append(q, c) \in Seq(Cell) /\ Append(q, c) # <<>>
         /\ Len(Append(q, c)) = Len(q) + 1 /\ Len(q) \in Nat
         /\ Append(q, c)[Len(q) + 1] = c
         /\ \A i \in 1..Len(q) : Append(q, c)[i] = q[i] /\ i \in 1..(Len(q) + 1)
         /\ \A i \in 1..(Len(q) + 1) : i = Len(q) + 1 \/ i \in 1..Len(q)
         /\ Elements(Append(q, c)) = Elements(q) \cup {c}
         /\ Distinct(Append(q, c))
<1>1. /\ Append(q, c) \in Seq(Cell) /\ Append(q, c) # <<>>
      /\ Len(Append(q, c)) = Len(q) + 1 /\ Len(q) \in Nat
      /\ Append(q, c)[Len(q) + 1] = c
      /\ \A i \in 1..Len(q) : Append(q, c)[i] = q[i]
  OBVIOUS
<1>2. /\ \A i \in 1..Len(q) : i \in 1..(Len(q) + 1) /\ i # Len(q) + 1
      /\ \A i \in 1..(Len(q) + 1) : i = Len(q) + 1 \/ i \in 1..Len(q)
      /\ Len(q) + 1 \in 1..(Len(q) + 1)
  BY <1>1
<1>3. Elements(Append(q, c)) = Elements(q) \cup {c}
  BY <1>1, <1>2, Zenon DEF Elements
<1>4. Distinct(Append(q, c))
  BY <1>1, <1>2, Zenon DEF Distinct, Elements
<1> QED
  BY <1>1, <1>2, <1>3, <1>4, Zenon

\* The list without its first cell.
LEMMA TailCell ==
  ASSUME NEW q \in Seq(Cell), q # <<>>, Distinct(q)
  PROVE  /\ Tail(q) \in Seq(Cell) /\ Len(q) \in Nat /\ Len(q) # 0
         /\ Len(Tail(q)) = Len(q) - 1
         /\ q[1] \in Cell /\ q[1] \in Elements(q)
         /\ \A i \in 1..(Len(q) - 1) : Tail(q)[i] = q[i + 1] /\ i + 1 \in 1..Len(q)
         /\ Elements(Tail(q)) = Elements(q) \ {q[1]}
         /\ Distinct(Tail(q))
<1>1. /\ Tail(q) \in Seq(Cell) /\ Len(q) \in Nat /\ Len(q) # 0
      /\ Len(Tail(q)) = Len(q) - 1 /\ q[1] \in Cell
      /\ \A i \in 1..(Len(q) - 1) : Tail(q)[i] = q[i + 1]
  OBVIOUS
<1>2. /\ \A i \in 1..(Len(q) - 1) : i + 1 \in 1..Len(q) /\ i + 1 # 1
      /\ \A i \in 1..Len(q) : i = 1 \/ (i - 1 \in 1..(Len(q) - 1) /\ (i - 1) + 1 = i)
      /\ 1 \in 1..Len(q)
      /\ \A i, j \in 1..(Len(q) - 1) : i + 1 = j + 1 => i = j
  BY <1>1
<1>3. Elements(Tail(q)) = Elements(q) \ {q[1]}
  <2>1. ASSUME NEW x \in Elements(Tail(q)) PROVE x \in Elements(q) \ {q[1]}
    BY <1>1, <1>2, <2>1 DEF Elements, Distinct
  <2>2. ASSUME NEW x \in Elements(q) \ {q[1]} PROVE x \in Elements(Tail(q))
    <3>1. PICK i \in 1..Len(q) : x = q[i]
      BY <2>2, Zenon DEF Elements
    <3>2. i - 1 \in 1..(Len(q) - 1) /\ Tail(q)[i - 1] = x
      BY <3>1, <2>2, <1>1, <1>2, Zenon
    <3> QED
      BY <3>2, <1>1, Zenon DEF Elements
  <2> QED
    BY <2>1, <2>2, Zenon
<1>4. Distinct(Tail(q))
  BY <1>1, <1>2 DEF Distinct
<1> QED
  BY <1>1, <1>2, <1>3, <1>4, Zenon DEF Elements

-----------------------------------------------------------------------------
(* One lemma per operation.                                                *)

\* The slots of the spare cells before and after the index moves by one.
LEMMA Slots ==
  ASSUME NEW k \in Nat
  PROVE  /\ k # 0 => /\ k - 1 \in Nat /\ k - 1 \in 0..(k - 1)
                     /\ 0..(k - 1) = 0..((k - 1) - 1) \cup {k - 1}
                     /\ k - 1 \notin 0..((k - 1) - 1)
         /\ k + 1 # 0 /\ k \notin 0..(k - 1)
         /\ 0..((k + 1) - 1) = 0..(k - 1) \cup {k}
OBVIOUS

\* The cell AddElement takes is not in the list and no longer a spare one.
LEMMA CellTaken ==
  ASSUME IInv, phase = "run", HasRoom, NEW c \in Cell, TakeCell(c)
  PROVE  /\ c \notin InList /\ c \notin Spare'
         /\ Spare' \cap InList = {} /\ allocated' = Spare' \cup InList \cup {c}
         /\ \A i, j \in SpareSlots' : m_ppCashedEntries'[i] = m_ppCashedEntries'[j] => i = j
         /\ m_nIndexInCashPlus1' \in 0..CashSize /\ allocated' \in SUBSET Cell
         /\ m_ppCashedEntries' = m_ppCashedEntries
         /\ m_nIndexInCashPlus1' =
              IF m_nIndexInCashPlus1 # 0 THEN m_nIndexInCashPlus1 - 1 ELSE 0
<1> DEFINE k == m_nIndexInCashPlus1
<1>1. /\ k \in Nat /\ k \in 0..CashSize /\ allocated \in SUBSET Cell
      /\ CashSize \in Nat
  BY FifoFastAssumption DEF IInv, TypeOK
<1>2. /\ Spare \cap InList = {} /\ allocated = Spare \cup InList
      /\ \A i, j \in SpareSlots : m_ppCashedEntries[i] = m_ppCashedEntries[j] => i = j
  BY Zenon DEF IInv, EachCellInOnePlace
<1>3. CASE k # 0
  <2>1. /\ c = m_ppCashedEntries[k - 1] /\ k' = k - 1 /\ allocated' = allocated
        /\ m_ppCashedEntries' = m_ppCashedEntries
    BY <1>3, Zenon DEF TakeCell
  <2>2. /\ k - 1 \in SpareSlots /\ SpareSlots = SpareSlots' \cup {k - 1}
        /\ k - 1 \notin SpareSlots'
    BY <1>1, <1>3, <2>1, Slots, Zenon DEF SpareSlots
  <2>3. Spare = Spare' \cup {c} /\ c \notin Spare'
    BY <1>2, <2>1, <2>2 DEF Spare
  <2>4. k' \in 0..CashSize
    BY <1>1, <1>3, <2>1
  <2> QED
    BY <1>1, <1>2, <1>3, <2>1, <2>2, <2>3, <2>4, Zenon
<1>4. CASE k = 0
  <2>1. /\ c \notin allocated /\ allocated' = allocated \cup {c}
        /\ k' = k /\ m_ppCashedEntries' = m_ppCashedEntries
    BY <1>4, Zenon DEF TakeCell, cashVars
  <2>2. Spare' = Spare /\ SpareSlots' = SpareSlots
    BY <2>1, Zenon DEF Spare, SpareSlots
  <2> QED
    BY <1>1, <1>2, <1>4, <2>1, <2>2, Zenon
<1> QED
  BY <1>3, <1>4, Zenon

\* The index of the array and the number of elements move together.
LEMMA CashArithmetic ==
  ASSUME NEW k \in Nat, NEW n \in Nat, NEW C \in Nat,
         IF n <= C THEN k + n = C ELSE k = 0
  PROVE  /\ IF n + 1 <= C THEN (IF k # 0 THEN k - 1 ELSE 0) + (n + 1) = C
                          ELSE (IF k # 0 THEN k - 1 ELSE 0) = 0
         /\ n # 0 /\ n <= C => /\ k \in 0..(C - 1) /\ k + 1 \in 0..C /\ n - 1 <= C
                               /\ (k + 1) + (n - 1) = C
         /\ n # 0 /\ ~(n <= C) => IF n - 1 <= C THEN k + (n - 1) = C ELSE k = 0
OBVIOUS

\* The pointers after AddElement.
LEMMA LinkedAfterAdd ==
  ASSUME IInv, phase = "run", NEW c \in Cell, c \notin InList, Link(c),
         order' = Append(order, c)
  PROVE  /\ Linked' /\ Distinct(order)' /\ InList' = InList \cup {c}
         /\ order' \in Seq(Cell) /\ Len(order') = Len(order) + 1
         /\ order' # <<>> /\ m_pLast' = order'[Len(order')]
         /\ m_pFirst' \in Cell /\ m_pLast' \in Cell
         /\ next' \in [Cell -> Cell \cup {NULL}]
<1> DEFINE q == Append(order, c)
           n == Len(order)
<1>1. /\ order \in Seq(Cell) /\ next \in [Cell -> Cell \cup {NULL}] /\ Distinct(order)
      /\ n = m_nNumOfElemets /\ Elements(order) = InList
  BY Zenon DEF IInv, TypeOK, Running, Elements, InList
<1>2. /\ q \in Seq(Cell) /\ q # <<>> /\ Len(q) = n + 1 /\ n \in Nat /\ q[n + 1] = c
      /\ \A i \in 1..n : q[i] = order[i] /\ i \in 1..(n + 1)
      /\ \A i \in 1..(n + 1) : i = n + 1 \/ i \in 1..n
      /\ Elements(q) = InList \cup {c} /\ Distinct(q)
  BY <1>1, AppendCell, Zenon
<1>3. Distinct(order)' /\ InList' = InList \cup {c} /\ order' = q
  BY <1>2 DEF Distinct, InList, Elements
<1>4. m_pLast' = c
  BY Zenon DEF Link
<1>5. CASE n = 0
  <2>1. m_pFirst' = c /\ next' = [next EXCEPT ![c] = NULL]
    BY <1>1, <1>5, Zenon DEF Link
  <2>2. Linked'
    <3>1. next'[c] = NULL /\ q[1] = c /\ \A i \in 1..Len(q) : i = 1
      BY <2>1, <1>1, <1>2, <1>5
    <3> QED
      BY <2>1, <3>1, <1>2, <1>3, <1>5 DEF Linked
  <2> QED
    BY <1>1, <1>2, <1>3, <1>4, <2>1, <2>2, Zenon
<1>6. CASE n # 0
  <2>1. m_pFirst' = m_pFirst /\ next' = [next EXCEPT ![c] = NULL, ![m_pLast] = c]
    BY <1>1, <1>6, Zenon DEF Link
  <2>2. /\ order # <<>> /\ m_pLast = order[n] /\ n \in 1..n /\ 1 \in 1..n
        /\ m_pFirst = order[1]
        /\ \A i \in 1..n : /\ order[i] \in Cell /\ order[i] \in InList
                           /\ next[order[i]] = IF i = n THEN NULL ELSE order[i + 1]
    BY <1>1, <1>2, <1>6 DEF IInv, Running, Linked, InList
  <2>3. /\ m_pLast \in Cell /\ m_pLast # c
        /\ next' \in [Cell -> Cell \cup {NULL}]
        /\ next'[c] = NULL /\ next'[m_pLast] = c
        /\ \A x \in Cell \ {c, m_pLast} : next'[x] = next[x]
    BY <2>1, <2>2, <1>1, Zenon
  <2>4. ASSUME NEW i \in 1..(n + 1)
        PROVE  next'[q[i]] = IF i = n + 1 THEN NULL ELSE q[i + 1]
    <3>1. CASE i = n + 1
      BY <3>1, <2>3, <1>2, Zenon
    <3>2. CASE i = n
      BY <3>2, <2>2, <2>3, <1>2, Zenon
    <3>3. CASE i \in 1..n /\ i # n
      <4>1. /\ i # n + 1 /\ i + 1 \in 1..n /\ q[i] = order[i] /\ q[i + 1] = order[i + 1]
        BY <3>3, <1>2
      <4>2. order[i] # m_pLast /\ order[i] # c /\ order[i] \in Cell
        BY <3>3, <2>2, <1>1, Zenon DEF Distinct
      <4> QED
        BY <4>1, <4>2, <2>2, <2>3, <3>3
    <3> QED
      BY <1>2, <3>1, <3>2, <3>3, Zenon
  <2>5. Linked'
    <3>1. \A i \in 1..Len(order') :
            next'[order'[i]] = IF i = Len(order') THEN NULL ELSE order'[i + 1]
      BY <1>2, <1>3, <2>4, Zenon
    <3>2. order' # <<>> /\ m_pFirst' = order'[1]
      BY <1>2, <1>3, <2>1, <2>2
    <3> QED
      BY <3>1, <3>2, Zenon DEF Linked
  <2> QED
    BY <1>1, <1>2, <1>3, <1>4, <2>1, <2>2, <2>3, <2>5
<1> QED
  BY <1>5, <1>6, Zenon

\* What the calls return is in Call.
LEMMA CallTypes ==
  /\ \A v \in Value : /\ <<"AddElement", v, TRUE>> \in Call
                      /\ <<"AddElement", v, FALSE>> \in Call
                      /\ <<"Extract", v, TRUE>> \in Call
  /\ <<"Extract", FALSE>> \in Call
<1>1. \A v \in Value, ok \in BOOLEAN : <<"AddElement", v, ok>> \in Call
  BY Zenon DEF Call
<1>2. \A v \in Value : <<"Extract", v, TRUE>> \in Call
  BY Zenon DEF Call
<1>3. <<"Extract", FALSE>> \in Call
  BY Zenon DEF Call
<1> QED
  BY <1>1, <1>2, <1>3, Zenon

\* A call that only returns preserves the invariant.
LEMMA Unmoved ==
  ASSUME IInv, UNCHANGED <<cashVars, listVars, allocated, value, phase>>, last' \in Call
  PROVE  IInv'
<1>1. /\ m_nIndexInCashPlus1' = m_nIndexInCashPlus1
      /\ m_ppCashedEntries' = m_ppCashedEntries
      /\ m_pFirst' = m_pFirst /\ m_pLast' = m_pLast /\ next' = next /\ order' = order
      /\ m_nNumOfElemets' = m_nNumOfElemets
      /\ allocated' = allocated /\ value' = value /\ phase' = phase
  BY Zenon DEF cashVars, listVars
<1>2. TypeOK'
  BY <1>1, Zenon DEF IInv, TypeOK
<1>3. InList' = InList /\ Spare' = Spare /\ SpareSlots' = SpareSlots
  BY <1>1, Zenon DEF InList, Spare, SpareSlots
<1>4. Linked' /\ Distinct(order)' /\ Running' /\ Ending'
  BY <1>1, <1>3 DEF IInv, Linked, Distinct, Running, Ending
<1>5. EachCellInOnePlace' /\ CashExact'
  BY <1>1, <1>3, Zenon DEF IInv, EachCellInOnePlace, CashExact
<1> QED
  BY <1>2, <1>4, <1>5, Zenon DEF IInv

\* AddElement preserves the invariant.
LEMMA AddStep ==
  ASSUME IInv, NEW v \in Value, AddElement(v)
  PROVE  IInv'
<1>1. phase = "run" /\ phase' = "run"
  BY Zenon DEF AddElement
<1>2. CASE HasRoom
  <2>1. PICK c \in Cell :
          /\ TakeCell(c) /\ value' = [value EXCEPT ![c] = v] /\ Link(c)
          /\ m_nNumOfElemets' = m_nNumOfElemets + 1 /\ order' = Append(order, c)
          /\ last' = <<"AddElement", v, TRUE>>
    BY <1>2, Zenon DEF AddElement, Store
  <2>2. /\ c \notin InList /\ c \notin Spare'
        /\ Spare' \cap InList = {} /\ allocated' = Spare' \cup InList \cup {c}
        /\ \A i, j \in SpareSlots' : m_ppCashedEntries'[i] = m_ppCashedEntries'[j] => i = j
        /\ m_nIndexInCashPlus1' \in 0..CashSize /\ allocated' \in SUBSET Cell
        /\ m_ppCashedEntries' = m_ppCashedEntries
        /\ m_nIndexInCashPlus1' =
             IF m_nIndexInCashPlus1 # 0 THEN m_nIndexInCashPlus1 - 1 ELSE 0
    BY <1>1, <1>2, <2>1, CellTaken, Zenon
  <2>3. /\ Linked' /\ Distinct(order)' /\ InList' = InList \cup {c}
        /\ order' \in Seq(Cell) /\ Len(order') = Len(order) + 1
        /\ order' # <<>> /\ m_pLast' = order'[Len(order')]
        /\ m_pFirst' \in Cell /\ m_pLast' \in Cell
        /\ next' \in [Cell -> Cell \cup {NULL}]
    BY <1>1, <2>1, <2>2, LinkedAfterAdd, Zenon
  <2>4. /\ m_nNumOfElemets \in Nat /\ m_nIndexInCashPlus1 \in Nat /\ CashSize \in Nat
        /\ m_nNumOfElemets' \in 0..MaxSize
    BY <1>2, <2>1, FifoFastAssumption DEF IInv, TypeOK, HasRoom
  <2>5. value' \in [Cell -> Value]
    BY <2>1, Zenon DEF IInv, TypeOK
  <2>6. TypeOK'
    BY <1>1, <2>1, <2>2, <2>3, <2>4, <2>5, CallTypes, Zenon DEF IInv, TypeOK
  <2>7. Running' /\ Ending'
    BY <1>1, <2>1, <2>3, Zenon DEF IInv, Running, Ending
  <2>8. EachCellInOnePlace'
    <3>1. Spare' \cap InList' = {} /\ allocated' = Spare' \cup InList'
      BY <2>2, <2>3, Zenon
    <3> QED
      BY <3>1, <2>2, <2>3, Zenon DEF EachCellInOnePlace, Distinct
  <2>9. CashExact'
    <3> DEFINE k == m_nIndexInCashPlus1
               n == m_nNumOfElemets
    <3>1. IF n <= CashSize THEN k + n = CashSize ELSE k = 0
      BY Zenon DEF IInv, CashExact
    <3>2. IF n + 1 <= CashSize THEN (IF k # 0 THEN k - 1 ELSE 0) + (n + 1) = CashSize
                               ELSE (IF k # 0 THEN k - 1 ELSE 0) = 0
      BY <2>4, <3>1, CashArithmetic, Zenon
    <3> QED
      BY <2>1, <2>2, <3>2, Zenon DEF CashExact
  <2> QED
    BY <2>3, <2>6, <2>7, <2>8, <2>9, Zenon DEF IInv
<1>3. CASE ~HasRoom
  <2>1. /\ last' = <<"AddElement", v, FALSE>>
        /\ UNCHANGED <<cashVars, listVars, allocated, value>>
    BY <1>3, Zenon DEF AddElement
  <2> QED
    BY <1>1, <2>1, CallTypes, Unmoved, Zenon
<1> QED
  BY <1>2, <1>3, Zenon

\* The pointers after the first cell is unlinked.
LEMMA LinkedAfterTail ==
  ASSUME IInv, order # <<>>, m_pFirst' = next[m_pFirst], next' = next,
         order' = Tail(order)
  PROVE  /\ Linked' /\ Distinct(order)' /\ InList' = InList \ {m_pFirst}
         /\ order' \in Seq(Cell) /\ Len(order') = Len(order) - 1
         /\ order' # <<>> => order'[Len(order')] = order[Len(order)]
         /\ m_pFirst \in Cell /\ m_pFirst \in InList /\ m_pFirst = order[1]
         /\ m_pFirst' \in Cell \cup {NULL}
<1> DEFINE q == Tail(order)
           n == Len(order)
<1>1. /\ order \in Seq(Cell) /\ next \in [Cell -> Cell \cup {NULL}] /\ Distinct(order)
      /\ Elements(order) = InList /\ m_pFirst = order[1]
      /\ \A i \in 1..n : next[order[i]] = IF i = n THEN NULL ELSE order[i + 1]
  BY Zenon DEF IInv, TypeOK, Linked, Elements, InList
<1>2. /\ q \in Seq(Cell) /\ n \in Nat /\ n # 0 /\ Len(q) = n - 1
      /\ order[1] \in Cell /\ order[1] \in InList
      /\ \A i \in 1..(n - 1) : q[i] = order[i + 1] /\ i + 1 \in 1..n
      /\ Elements(q) = InList \ {order[1]} /\ Distinct(q)
  BY <1>1, TailCell, Zenon
<1>3. Distinct(order)' /\ InList' = InList \ {m_pFirst} /\ order' = q
  <2>1. InList' = Elements(q)
    BY Zenon DEF InList, Elements
  <2>2. Distinct(order)'
    BY <1>2, Zenon DEF Distinct
  <2> QED
    BY <1>1, <1>2, <2>1, <2>2, Zenon
<1>4. m_pFirst' = IF n = 1 THEN NULL ELSE q[1]
  <2>1. 1 \in 1..n /\ (n # 1 => 1 \in 1..(n - 1)) /\ 1 + 1 = 2
    BY <1>2
  <2>2. m_pFirst' = IF 1 = n THEN NULL ELSE order[1 + 1]
    BY <1>1, <2>1, Zenon
  <2>3. n # 1 => q[1] = order[1 + 1]
    BY <1>2, <2>1, Zenon
  <2> QED
    BY <2>2, <2>3, Zenon
<1>5. \A i \in 1..(n - 1) : next[q[i]] = IF i = n - 1 THEN NULL ELSE q[i + 1]
  <2> TAKE i \in 1..(n - 1)
  <2>1. /\ i + 1 \in 1..n /\ (i + 1 = n <=> i = n - 1)
        /\ (i # n - 1 => i + 1 \in 1..(n - 1))
    <3> HIDE DEF n
    <3> QED
      BY <1>2
  <2>2. next[q[i]] = IF i + 1 = n THEN NULL ELSE order[(i + 1) + 1]
    BY <1>1, <1>2, <2>1, Zenon
  <2>3. i # n - 1 => q[i + 1] = order[(i + 1) + 1]
    BY <1>2, <2>1, Zenon
  <2> QED
    BY <2>1, <2>2, <2>3, Zenon
<1>6. q = <<>> <=> n = 1
  <2>1. n - 1 = 0 <=> n = 1
    BY <1>2
  <2>2. q = <<>> <=> Len(q) = 0
    <3>1. q \in Seq(Cell)
      BY <1>2, Zenon
    <3> HIDE DEF q
    <3> QED
      BY <3>1
  <2> QED
    BY <1>2, <2>1, <2>2, Zenon
<1>7. Linked'
  BY <1>2, <1>3, <1>4, <1>5, <1>6, Zenon DEF Linked
<1>8. q # <<>> => q[Len(q)] = order[n]
  <2>1. n # 1 => n - 1 \in 1..(n - 1) /\ (n - 1) + 1 = n
    BY <1>2
  <2> QED
    BY <1>2, <1>6, <2>1, Zenon
<1> QED
  BY <1>1, <1>2, <1>3, <1>4, <1>7, <1>8, ZenonT(30)

\* The list is not empty while the counter is not 0.
LEMMA NotEmpty ==
  ASSUME IInv, phase = "run"
  PROVE  (order = <<>> <=> m_nNumOfElemets = 0) /\ Len(order) = m_nNumOfElemets
BY DEF IInv, TypeOK, Running

\* A cell kept by Extract is one more spare cell.
LEMMA CellKept ==
  ASSUME IInv, phase = "run", m_nNumOfElemets # 0, KeepsCell, m_pFirst \in InList,
         m_pFirst \in Cell,
         m_ppCashedEntries' = [m_ppCashedEntries EXCEPT ![m_nIndexInCashPlus1] = m_pFirst],
         m_nIndexInCashPlus1' = m_nIndexInCashPlus1 + 1
  PROVE  /\ Spare' = Spare \cup {m_pFirst}
         /\ \A i, j \in SpareSlots' : m_ppCashedEntries'[i] = m_ppCashedEntries'[j] => i = j
         /\ m_nIndexInCashPlus1' \in 0..CashSize
         /\ m_ppCashedEntries' \in [0..(CashSize - 1) -> Cell]
<1> DEFINE k == m_nIndexInCashPlus1
           n == m_nNumOfElemets
           a == m_ppCashedEntries
           b == m_ppCashedEntries'
<1>1. /\ k \in Nat /\ n \in Nat /\ CashSize \in Nat /\ n <= CashSize
      /\ IF n <= CashSize THEN k + n = CashSize ELSE k = 0
      /\ a \in [0..(CashSize - 1) -> Cell]
  BY FifoFastAssumption DEF IInv, TypeOK, CashExact, KeepsCell
<1>2. k \in 0..(CashSize - 1) /\ k + 1 \in 0..CashSize
  BY <1>1, CashArithmetic, Zenon
<1>3. /\ b \in [0..(CashSize - 1) -> Cell] /\ b[k] = m_pFirst
      /\ \A i \in 0..(CashSize - 1) : i # k => b[i] = a[i]
  BY <1>1, <1>2, Zenon
<1>4. SpareSlots' = SpareSlots \cup {k} /\ k \notin SpareSlots
  BY <1>1, Slots, Zenon DEF SpareSlots
<1>5. SpareSlots \subseteq 0..(CashSize - 1)
  BY <1>1, <1>2 DEF SpareSlots
<1>6. \A i \in SpareSlots : b[i] = a[i] /\ a[i] \in Spare
  BY <1>3, <1>4, <1>5, Zenon DEF Spare
<1>7. /\ m_pFirst \notin Spare
      /\ \A i, j \in SpareSlots : a[i] = a[j] => i = j
  BY Zenon DEF IInv, EachCellInOnePlace
<1>8. Spare' = Spare \cup {m_pFirst}
  <2>1. Spare' = {b[i] : i \in SpareSlots \cup {k}}
    BY <1>4, Zenon DEF Spare
  <2> HIDE DEF b, a, k
  <2>2. {b[i] : i \in SpareSlots \cup {k}} = {a[i] : i \in SpareSlots} \cup {b[k]}
    BY <1>6, Zenon
  <2> QED
    BY <2>1, <2>2, <1>3, Zenon DEF Spare, a
<1> QED
  BY <1>2, <1>3, <1>4, <1>6, <1>7, <1>8

\* Extract preserves the invariant.
LEMMA ExtractStep ==
  ASSUME IInv, Extract
  PROVE  IInv'
<1>1. phase = "run" /\ phase' = "run" /\ value' = value
  BY Zenon DEF Extract
<1>2. CASE m_nNumOfElemets # 0
  <2>1. /\ last' = <<"Extract", value[m_pFirst], TRUE>>
        /\ m_pFirst' = next[m_pFirst] /\ next' = next /\ m_pLast' = m_pLast
        /\ m_nNumOfElemets' = m_nNumOfElemets - 1 /\ order' = Tail(order)
    BY <1>2, Zenon DEF Extract
  <2>2. order # <<>> /\ Len(order) = m_nNumOfElemets
    BY <1>1, <1>2, NotEmpty, Zenon
  <2>3. /\ Linked' /\ Distinct(order)' /\ InList' = InList \ {m_pFirst}
        /\ order' \in Seq(Cell) /\ Len(order') = Len(order) - 1
        /\ order' # <<>> => order'[Len(order')] = order[Len(order)]
        /\ m_pFirst \in Cell /\ m_pFirst \in InList /\ m_pFirst = order[1]
        /\ m_pFirst' \in Cell \cup {NULL}
    BY <2>1, <2>2, LinkedAfterTail, Zenon
  <2>4. /\ m_nNumOfElemets \in Nat /\ m_nIndexInCashPlus1 \in Nat /\ CashSize \in Nat
        /\ m_nNumOfElemets' \in 0..MaxSize
    BY <1>2, <2>1, FifoFastAssumption DEF IInv, TypeOK
  <2>5. /\ Spare' \cap InList' = {} /\ allocated' = Spare' \cup InList'
        /\ \A i, j \in SpareSlots' : m_ppCashedEntries'[i] = m_ppCashedEntries'[j] => i = j
        /\ m_nIndexInCashPlus1' \in 0..CashSize /\ allocated' \in SUBSET Cell
        /\ m_ppCashedEntries' \in [0..(CashSize - 1) -> Cell]
        /\ CashExact'
    <3> DEFINE k == m_nIndexInCashPlus1
               n == m_nNumOfElemets
    <3>1. /\ Spare \cap InList = {} /\ allocated = Spare \cup InList
          /\ \A i, j \in SpareSlots : m_ppCashedEntries[i] = m_ppCashedEntries[j] => i = j
          /\ allocated \in SUBSET Cell
          /\ IF n <= CashSize THEN k + n = CashSize ELSE k = 0
      BY <1>1, Zenon DEF IInv, EachCellInOnePlace, TypeOK, CashExact
    <3>2. CASE KeepsCell
      <4>1. /\ m_ppCashedEntries' = [m_ppCashedEntries EXCEPT ![k] = m_pFirst]
            /\ k' = k + 1 /\ allocated' = allocated
        BY <1>2, <3>2, Zenon DEF Extract
      <4>2. /\ Spare' = Spare \cup {m_pFirst}
            /\ \A i, j \in SpareSlots' :
                 m_ppCashedEntries'[i] = m_ppCashedEntries'[j] => i = j
            /\ k' \in 0..CashSize /\ m_ppCashedEntries' \in [0..(CashSize - 1) -> Cell]
        BY <1>1, <1>2, <2>3, <3>2, <4>1, CellKept, Zenon
      <4>3. n - 1 <= CashSize /\ (k + 1) + (n - 1) = CashSize
        BY <1>2, <2>4, <3>1, <3>2, CashArithmetic, Zenon DEF KeepsCell
      <4>4. CashExact'
        BY <2>1, <4>1, <4>3, Zenon DEF CashExact
      <4> QED
        BY <2>3, <3>1, <4>1, <4>2, <4>4
    <3>3. CASE ~KeepsCell
      <4>1. /\ allocated' = allocated \ {m_pFirst} /\ k' = k
            /\ m_ppCashedEntries' = m_ppCashedEntries
        BY <1>2, <3>3, Zenon DEF Extract, cashVars
      <4>2. Spare' = Spare /\ SpareSlots' = SpareSlots
        BY <4>1, Zenon DEF Spare, SpareSlots
      <4>3. IF n - 1 <= CashSize THEN k + (n - 1) = CashSize ELSE k = 0
        BY <1>2, <2>4, <3>1, <3>3, CashArithmetic DEF KeepsCell
      <4>4. CashExact'
        BY <2>1, <4>1, <4>3, Zenon DEF CashExact
      <4>5. k' \in 0..CashSize /\ m_ppCashedEntries' \in [0..(CashSize - 1) -> Cell]
        BY <4>1, Zenon DEF IInv, TypeOK
      <4> QED
        BY <2>3, <3>1, <4>1, <4>2, <4>4, <4>5, Zenon
    <3> QED
      BY <3>2, <3>3, Zenon
  <2>6. last' \in Call
    BY <2>1, <2>3, CallTypes, Zenon DEF IInv, TypeOK
  <2>7. TypeOK'
    BY <1>1, <2>1, <2>3, <2>4, <2>5, <2>6, Zenon DEF IInv, TypeOK
  <2>8. Running' /\ Ending'
    BY <1>1, <2>1, <2>2, <2>3, Zenon DEF IInv, Running, Ending
  <2>9. EachCellInOnePlace'
    BY <2>3, <2>5, Zenon DEF EachCellInOnePlace, Distinct
  <2> QED
    BY <2>3, <2>5, <2>7, <2>8, <2>9, Zenon DEF IInv
<1>3. CASE m_nNumOfElemets = 0
  <2>1. last' = <<"Extract", FALSE>> /\ UNCHANGED <<cashVars, listVars, allocated>>
    BY <1>3, Zenon DEF Extract
  <2> QED
    BY <1>1, <2>1, CallTypes, Unmoved, Zenon
<1> QED
  BY <1>2, <1>3, Zenon

\* The destructor preserves the invariant.
LEMMA DestroyStep ==
  ASSUME IInv, DestroyCash \/ DestroyList
  PROVE  IInv'
<1>1. CASE DestroyCash
  <2>1. /\ phase = "run" /\ phase' = "list" /\ allocated' = allocated \ Spare
        /\ UNCHANGED <<cashVars, listVars, value, last>>
    BY <1>1, Zenon DEF DestroyCash, Spare
  <2>2. allocated' = InList
    BY <2>1, Zenon DEF IInv, EachCellInOnePlace
  <2>3. TypeOK'
    BY <2>1, Zenon DEF IInv, TypeOK, cashVars, listVars
  <2>4. Linked' /\ Distinct(order)' /\ CashExact' /\ InList' = InList
    BY <2>1 DEF IInv, Linked, Distinct, CashExact, InList, cashVars, listVars
  <2> QED
    BY <2>1, <2>2, <2>3, <2>4, Zenon DEF IInv, Running, Ending, EachCellInOnePlace
<1>2. CASE DestroyList
  <2>1. phase = "list" /\ UNCHANGED <<cashVars, m_pLast, m_nNumOfElemets, next, value, last>>
    BY <1>2, Zenon DEF DestroyList
  <2>2. allocated = InList
    BY <2>1, Zenon DEF IInv, Ending
  <2>3. CASE m_pFirst # NULL
    <3>1. /\ m_pFirst' = next[m_pFirst] /\ allocated' = allocated \ {m_pFirst}
          /\ order' = Tail(order) /\ phase' = "list"
      BY <1>2, <2>1, <2>3, Zenon DEF DestroyList
    <3>2. order # <<>>
      BY <2>3, Zenon DEF IInv, Linked
    <3>3. /\ Linked' /\ Distinct(order)' /\ InList' = InList \ {m_pFirst}
          /\ order' \in Seq(Cell) /\ m_pFirst' \in Cell \cup {NULL}
      BY <2>1, <3>1, <3>2, LinkedAfterTail, Zenon
    <3>4. TypeOK'
      BY <2>1, <3>1, <3>3, Zenon DEF IInv, TypeOK, cashVars
    <3>5. CashExact'
      BY <2>1, Zenon DEF IInv, CashExact, cashVars
    <3> QED
      BY <2>2, <3>1, <3>3, <3>4, <3>5, Zenon DEF IInv, Running, Ending, EachCellInOnePlace
  <2>4. CASE m_pFirst = NULL
    <3>1. /\ phase' = "end" /\ m_pFirst' = m_pFirst /\ allocated' = allocated
          /\ order' = order
      BY <1>2, <2>4, Zenon DEF DestroyList
    <3>2. order = <<>>
      <4>1. order # <<>> => order[1] \in Cell
        BY DEF IInv, TypeOK
      <4> QED
        BY <2>4, <4>1, FifoFastAssumption, Zenon DEF IInv, Linked
    <3>3. allocated = {}
      BY <2>2, <3>2 DEF InList
    <3>4. TypeOK'
      BY <2>1, <3>1, Zenon DEF IInv, TypeOK, cashVars
    <3>5. Linked' /\ Distinct(order)' /\ CashExact'
      BY <2>1, <3>1, Zenon DEF IInv, Linked, Distinct, CashExact, cashVars
    <3> QED
      BY <3>1, <3>2, <3>3, <3>4, <3>5, Zenon DEF IInv, Running, Ending, EachCellInOnePlace
  <2> QED
    BY <2>3, <2>4, Zenon
<1> QED
  BY <1>1, <1>2, Zenon

\* The constructor establishes the invariant.
LEMMA InitIInv == Init => IInv
<1> SUFFICES ASSUME Init PROVE IInv
  OBVIOUS
<1>1. /\ m_nIndexInCashPlus1 = CashSize /\ m_nNumOfElemets = 0 /\ order = <<>>
      /\ m_pFirst = NULL /\ m_pLast = NULL /\ phase = "run" /\ last = <<"Extract", FALSE>>
      /\ next = [c \in Cell |-> NULL] /\ value \in [Cell -> Value]
      /\ m_ppCashedEntries \in [0..(CashSize - 1) -> Cell]
      /\ allocated = {m_ppCashedEntries[i] : i \in 0..(CashSize - 1)}
      /\ CashSize \in Nat /\ MaxSize \in Nat
  BY FifoFastAssumption, Zenon DEF Init
<1>2. TypeOK
  BY <1>1, CallTypes DEF TypeOK
<1>3. InList = {} /\ Len(order) = 0 /\ \A i \in 1..Len(order) : FALSE
  BY <1>1 DEF InList
<1>4. Spare = allocated
  BY <1>1, Zenon DEF Spare, SpareSlots
<1>5. \A i, j \in SpareSlots : m_ppCashedEntries[i] = m_ppCashedEntries[j] => i = j
  BY <1>1, Zenon DEF Init, SpareSlots
<1>6. Linked /\ Distinct(order) /\ Running /\ Ending
  BY <1>1, <1>3, Zenon DEF Linked, Distinct, Running, Ending
<1>7. EachCellInOnePlace
  BY <1>3, <1>4, <1>5, Zenon DEF EachCellInOnePlace
<1>8. CashExact
  BY <1>1 DEF CashExact
<1> QED
  BY <1>2, <1>6, <1>7, <1>8, Zenon DEF IInv

-----------------------------------------------------------------------------
(* The theorems.                                                           *)

\* The invariant holds throughout.
THEOREM Invariance == Spec => []IInv
<1>1. IInv /\ [Next]_vars => IInv'
  <2> SUFFICES ASSUME IInv, [Next]_vars PROVE IInv'
    OBVIOUS
  <2>1. ASSUME NEW v \in Value, AddElement(v) PROVE IInv'
    BY <2>1, AddStep, Zenon
  <2>2. CASE Extract
    BY <2>2, ExtractStep, Zenon
  <2>3. CASE DestroyCash \/ DestroyList
    BY <2>3, DestroyStep, Zenon
  <2>4. CASE UNCHANGED vars
    <3>1. last \in Call
      BY Zenon DEF IInv, TypeOK
    <3> QED
      BY <2>4, <3>1, Unmoved, Zenon DEF vars
  <2> QED
    BY <2>1, <2>2, <2>3, <2>4, Zenon DEF Next
<1> QED
  BY <1>1, InitIInv, PTL DEF Spec

\* The index of the array and the number of elements stay within their bounds, and
\* every pointer of the queue is a cell or NULL.
THEOREM Typing == Spec => []TypeOK
<1>1. IInv => TypeOK
  BY Zenon DEF IInv
<1> QED
  BY <1>1, Invariance, PTL

\* AddElement and Extract never use a cell twice, delete one in use or lose one.
THEOREM CellsInOnePlace == Spec => []EachCellInOnePlace
<1>1. IInv => EachCellInOnePlace
  BY Zenon DEF IInv
<1> QED
  BY <1>1, Invariance, PTL

\* Extract writes inside the array of spare cells, and fills it before it deletes.
THEOREM CashIsExact == Spec => []CashExact
<1>1. IInv => CashExact
  BY Zenon DEF IInv
<1> QED
  BY <1>1, Invariance, PTL

\* The destructor frees every cell.
THEOREM DestructorFreesAll == Spec => []NothingLeaks
<1>1. IInv => NothingLeaks
  BY Zenon DEF IInv, Ending, NothingLeaks
<1> QED
  BY <1>1, Invariance, PTL

-----------------------------------------------------------------------------
(* Refinement.                                                             *)

\* The abstract queue has as many values as the list has cells.
LEMMA QueueLength ==
  ASSUME IInv, phase = "run"
  PROVE  /\ Queue = [i \in 1..Len(order) |-> value[order[i]]]
         /\ Queue \in Seq(Value) /\ Len(Queue) = m_nNumOfElemets
<1>1. /\ order \in Seq(Cell) /\ Len(order) = m_nNumOfElemets /\ Len(order) \in Nat
      /\ value \in [Cell -> Value]
  BY DEF IInv, TypeOK, Running
<1>2. Queue = [i \in 1..Len(order) |-> value[order[i]]]
  BY Zenon DEF Queue
<1>3. \A i \in 1..Len(order) : value[order[i]] \in Value
  BY <1>1
<1> QED
  BY <1>1, <1>2, <1>3

\* AddElement is an addition to the abstract queue: the value goes into a cell that
\* is not in the list, so no other value changes.
LEMMA AddRefines ==
  ASSUME IInv, NEW v \in Value, AddElement(v)
  PROVE  Fifo!Add(v)
<1>1. phase = "run" /\ phase' = "run"
  BY Zenon DEF AddElement
<1>2. /\ Queue = [i \in 1..Len(order) |-> value[order[i]]]
      /\ Queue \in Seq(Value) /\ Len(Queue) = m_nNumOfElemets
  BY <1>1, QueueLength, Zenon
<1>3. CASE HasRoom
  <2>1. PICK c \in Cell :
          /\ TakeCell(c) /\ value' = [value EXCEPT ![c] = v]
          /\ order' = Append(order, c) /\ last' = <<"AddElement", v, TRUE>>
    BY <1>3, Zenon DEF AddElement, Store
  <2>2. c \notin InList
    BY <1>1, <1>3, <2>1, CellTaken, Zenon
  <2>3. /\ order \in Seq(Cell) /\ value \in [Cell -> Value] /\ Distinct(order)
        /\ c \notin Elements(order)
    BY <2>2, Zenon DEF IInv, TypeOK, InList, Elements
  <2> DEFINE n == Len(order)
             q == Append(order, c)
  <2>4. /\ Len(q) = n + 1 /\ n \in Nat /\ q[n + 1] = c
        /\ \A i \in 1..n : q[i] = order[i] /\ i \in 1..(n + 1)
        /\ \A i \in 1..(n + 1) : i = n + 1 \/ i \in 1..n
    BY <2>3, AppendCell, Zenon
  <2>5. /\ \A i \in 1..n : value'[q[i]] = value[order[i]]
        /\ value'[q[n + 1]] = v
    BY <2>1, <2>3, <2>4 DEF Elements
  <2>6. Queue' = [i \in 1..(n + 1) |-> value'[q[i]]]
    BY <1>1, <2>1, <2>4 DEF Queue
  <2>7. Append(Queue, v) = [i \in 1..(n + 1) |-> IF i \in 1..n THEN Queue[i] ELSE v]
    <3> DEFINE a == Append(Queue, v)
    <3>1. Len(Queue) = n /\ Queue \in Seq(Value)
      BY <1>2, <2>4
    <3>2. /\ a \in Seq(Value) /\ Len(a) = n + 1 /\ a[n + 1] = v
          /\ \A i \in 1..n : a[i] = Queue[i]
      BY <3>1
    <3> HIDE DEF a
    <3>3. a \in [1..(n + 1) -> Value]
      BY <3>2
    <3>4. \A i \in 1..(n + 1) : a[i] = IF i \in 1..n THEN Queue[i] ELSE v
      BY <2>4, <3>2, Zenon
    <3>5. a = [i \in 1..(n + 1) |-> IF i \in 1..n THEN Queue[i] ELSE v]
      BY <3>3, <3>4, Zenon
    <3> QED
      BY <3>5, Zenon DEF a
  <2>8. \A i \in 1..(n + 1) : value'[q[i]] = IF i \in 1..n THEN Queue[i] ELSE v
    BY <1>2, <2>4, <2>5, Zenon
  <2>9. Queue' = Append(Queue, v)
    BY <2>6, <2>7, <2>8, Zenon
  <2> QED
    BY <1>1, <1>2, <1>3, <2>1, <2>9, Zenon DEF Fifo!Add, HasRoom
<1>4. CASE ~HasRoom
  <2>1. last' = <<"AddElement", v, FALSE>> /\ order' = order /\ value' = value
    BY <1>4, Zenon DEF AddElement, listVars
  <2>2. Queue' = Queue
    BY <1>1, <2>1, Zenon DEF Queue
  <2> QED
    BY <1>1, <1>2, <1>4, <2>1, <2>2, Zenon DEF Fifo!Add, HasRoom
<1> QED
  BY <1>3, <1>4, Zenon

\* Extract takes the first value of the abstract queue.
LEMMA ExtractRefines ==
  ASSUME IInv, Extract
  PROVE  Fifo!Remove
<1>1. phase = "run" /\ phase' = "run" /\ value' = value
  BY Zenon DEF Extract
<1>2. /\ Queue = [i \in 1..Len(order) |-> value[order[i]]]
      /\ Queue \in Seq(Value) /\ Len(Queue) = m_nNumOfElemets
  BY <1>1, QueueLength, Zenon
<1>3. Queue = <<>> <=> m_nNumOfElemets = 0
  BY <1>2
<1>4. CASE m_nNumOfElemets # 0
  <2>1. last' = <<"Extract", value[m_pFirst], TRUE>> /\ order' = Tail(order)
    BY <1>4, Zenon DEF Extract
  <2>2. order # <<>> /\ order \in Seq(Cell) /\ Distinct(order) /\ m_pFirst = order[1]
    BY <1>1, <1>4, NotEmpty, Zenon DEF IInv, TypeOK, Linked
  <2> DEFINE n == Len(order)
             q == Tail(order)
  <2>3. /\ n \in Nat /\ n # 0 /\ Len(q) = n - 1
        /\ \A i \in 1..(n - 1) : q[i] = order[i + 1] /\ i + 1 \in 1..n
    BY <2>2, TailCell, Zenon
  <2>4. value[m_pFirst] = Head(Queue)
    <3>1. 1 \in 1..n
      BY <2>3
    <3>2. Queue[1] = value[order[1]]
      BY <1>2, <3>1, Zenon
    <3> QED
      BY <1>2, <1>3, <1>4, <2>2, <3>2
  <2>5. Queue' = [i \in 1..(n - 1) |-> value[q[i]]]
    BY <1>1, <2>1, <2>3, Zenon DEF Queue
  <2>6. Tail(Queue) = [i \in 1..(n - 1) |-> Queue[i + 1]]
    <3>1. Len(Queue) = n /\ Queue # <<>>
      BY <1>2, <1>3, <1>4, <2>3
    <3> QED
      BY <1>2, <3>1
  <2>7. \A i \in 1..(n - 1) : value[q[i]] = Queue[i + 1]
    BY <1>2, <2>3, Zenon
  <2>8. Queue' = Tail(Queue)
    BY <2>5, <2>6, <2>7, Zenon
  <2> QED
    BY <1>1, <1>3, <1>4, <2>1, <2>4, <2>8, Zenon DEF Fifo!Remove
<1>5. CASE m_nNumOfElemets = 0
  <2>1. last' = <<"Extract", FALSE>> /\ order' = order
    BY <1>5, Zenon DEF Extract, listVars
  <2>2. Queue' = Queue
    BY <1>1, <2>1, Zenon DEF Queue
  <2> QED
    BY <1>1, <1>3, <1>5, <2>1, <2>2, Zenon DEF Fifo!Remove
<1> QED
  BY <1>4, <1>5, Zenon

\* FifoFast implements the bounded queue, for every capacity and every number of
\* spare cells.
THEOREM Refinement == Spec => IsBoundedFifo
<1>1. Init => Fifo!Init
  <2> SUFFICES ASSUME Init PROVE Fifo!Init
    OBVIOUS
  <2>1. phase = "run" /\ order = <<>> /\ last = <<"Extract", FALSE>>
    BY Zenon DEF Init
  <2>2. Queue = <<>>
    BY <2>1 DEF Queue
  <2> QED
    BY <2>1, <2>2, Zenon DEF Fifo!Init
<1>2. IInv /\ [Next]_vars => [Fifo!Next]_(Fifo!vars)
  <2> SUFFICES ASSUME IInv, [Next]_vars PROVE [Fifo!Next]_(Fifo!vars)
    OBVIOUS
  <2>1. ASSUME NEW v \in Value, AddElement(v) PROVE Fifo!Next
    BY <2>1, AddRefines, Zenon DEF Fifo!Next
  <2>2. CASE Extract
    BY <2>2, ExtractRefines, Zenon DEF Fifo!Next
  <2>3. CASE DestroyCash
    <3>1. phase = "run" /\ phase' = "list" /\ last' = last
      BY <2>3, Zenon DEF DestroyCash
    <3>2. Queue' = <<>>
      BY <3>1, Zenon DEF Queue
    <3> QED
      BY <3>1, <3>2, Zenon DEF Fifo!Close, Fifo!Next
  <2>4. CASE DestroyList
    <3>1. phase # "run" /\ phase' # "run" /\ last' = last
      BY <2>4, Zenon DEF DestroyList
    <3>2. Queue' = Queue
      BY <3>1, Zenon DEF Queue
    <3> QED
      BY <3>1, <3>2, Zenon DEF Fifo!vars
  <2>5. CASE UNCHANGED vars
    BY <2>5, Zenon DEF vars, listVars, cashVars, Queue, Fifo!vars
  <2> QED
    BY <2>1, <2>2, <2>3, <2>4, <2>5, Zenon DEF Next
<1> QED
  BY <1>1, <1>2, Invariance, PTL DEF Spec, IsBoundedFifo, Fifo!Spec

-----------------------------------------------------------------------------
(* The lock, for every finite set of threads: what its two semaphores and  *)
(* its counter exclude.                                                    *)

Label == {"idle", "first", "next", "nextPost", "reading", "leaving",
          "lock", "permanent", "lockPost", "writing"}

\* the readers that *m_plReadersCount counts
Counted == {t \in Thread : pc[t] \in {"first", "next", "nextPost", "reading"}}

\* the readers hold m_lockPermanent together once their first one has it
ReadersOwn == Counted # {} /\ At("first") = {}

\* the threads that each hold one of the semaphores by themselves
OwnPermanent == {t \in Thread : pc[t] \in {"lockPost", "writing", "leaving"}}
OwnConcurse == {t \in Thread : pc[t] \in {"nextPost", "permanent", "lockPost"}}

\* m_lockPermanent has one owner: a thread, or the readers.
OneOwner ==
  /\ lockPermanent \in {0, 1}
  /\ \A t, u \in OwnPermanent : t = u
  /\ OwnPermanent # {} => ~ReadersOwn
  /\ lockPermanent = 1 => OwnPermanent = {} /\ ~ReadersOwn

\* m_semaNewConcurse has one owner.
OneConcurse ==
  /\ semaNewConcurse \in {0, 1}
  /\ \A t, u \in OwnConcurse : t = u
  /\ semaNewConcurse = 1 => OwnConcurse = {}

\* The counter is exact, and only one reader finds it at 0.
CountExact ==
  /\ readersCount = Cardinality(Counted)
  /\ \A t, u \in At("first") : t = u

\* The inductive invariant.
LockInv ==
  /\ pc \in [Thread -> Label]
  /\ OneOwner /\ OneConcurse /\ CountExact

\* Counted is finite, and the counter tells whether it is empty.
LEMMA CountedFinite ==
  /\ IsFiniteSet(Counted) /\ Cardinality(Counted) \in Nat
  /\ Cardinality(Counted) = 0 <=> Counted = {}
<1>1. IsFiniteSet(Counted)
  BY SharedMutexAssumption, FS_Subset, Zenon DEF Counted
<1> QED BY <1>1, FS_CardinalityType, FS_EmptySet, Zenon

\* A thread that is not counted makes the count one more.
LEMMA CountMore ==
  ASSUME NEW t \in Thread, t \notin Counted, Counted' = Counted \cup {t}
  PROVE  Cardinality(Counted') = Cardinality(Counted) + 1
BY CountedFinite, FS_AddElement, Zenon

\* One that is counted makes it one less, 0 if it was the only one.
LEMMA CountLess ==
  ASSUME NEW t \in Counted, Counted' = Counted \ {t}
  PROVE  /\ Cardinality(Counted') = Cardinality(Counted) - 1
         /\ Cardinality(Counted) = 1 <=> Counted' = {}
<1>1. /\ IsFiniteSet(Counted \ {t})
      /\ Cardinality(Counted \ {t}) = Cardinality(Counted) - 1
  BY CountedFinite, FS_RemoveElement, Zenon
<1>2. Cardinality(Counted \ {t}) = 0 <=> Counted \ {t} = {}
  BY <1>1, FS_EmptySet, Zenon
<1> QED BY <1>1, <1>2, CountedFinite

\* The constructor establishes the invariant.
LEMMA LockInitInv ==
  ASSUME LockInit
  PROVE  LockInv
<1>1. Counted = {} /\ OwnPermanent = {} /\ OwnConcurse = {} /\ At("first") = {}
  BY Zenon DEF LockInit, Counted, OwnPermanent, OwnConcurse, At
<1>2. pc \in [Thread -> Label]
  BY Zenon DEF LockInit, Label
<1> QED BY <1>1, <1>2, CountedFinite, Zenon
    DEF LockInit, LockInv, OneOwner, OneConcurse, CountExact, ReadersOwn

\* Every step of every thread keeps it.
LEMMA LockNextInv ==
  ASSUME LockInv, [LockNext]_lockVars
  PROVE  LockInv'
<1>1. CASE UNCHANGED lockVars
  BY <1>1, Zenon
      DEF lockVars, LockInv, OneOwner, OneConcurse, CountExact, ReadersOwn, Counted, At,
        OwnPermanent, OwnConcurse
<1>2. ASSUME NEW t \in Thread, lock_shared(t) PROVE LockInv'
  <2>1. pc \in [Thread -> Label] /\ readersCount = Cardinality(Counted)
    BY Zenon DEF LockInv, CountExact
  <2>2. CASE Counted = {}
    <3>0. ~EnterCount
      BY <2>1, <2>2, CountedFinite DEF EnterCount
    <3>1. pc[t] = "idle" /\ pc' = [pc EXCEPT ![t] = "first"]
      BY <1>2, <3>0, Zenon DEF lock_shared, Goto
    <3>2. /\ Counted' = Counted \cup {t} /\ t \notin Counted
          /\ At("first")' = At("first") \cup {t} /\ t \notin At("first")
          /\ OwnPermanent' = OwnPermanent
          /\ OwnConcurse' = OwnConcurse
      BY <2>1, <3>1, Zenon DEF Label, Counted, At, OwnPermanent, OwnConcurse
    <3>3. pc' \in [Thread -> Label]
      BY <2>1, <3>1, Zenon DEF Label
    <3>4. readersCount' = Cardinality(Counted')
      BY <1>2, <2>1, <3>2, CountMore, Zenon DEF lock_shared
    <3>5. At("first") = {}
      BY <2>2, Zenon DEF At, Counted
    <3> QED BY <1>2, <2>2, <3>2, <3>3, <3>4, <3>5, Zenon
        DEF LockInv, OneOwner, OneConcurse, CountExact, ReadersOwn, lock_shared
  <2>3. CASE Counted # {}
    <3>0. EnterCount
      BY <2>1, <2>3, CountedFinite DEF EnterCount
    <3>1. pc[t] = "idle" /\ pc' = [pc EXCEPT ![t] = "next"]
      BY <1>2, <3>0, Zenon DEF lock_shared, Goto
    <3>2. /\ Counted' = Counted \cup {t} /\ t \notin Counted
          /\ At("first")' = At("first")
          /\ OwnPermanent' = OwnPermanent
          /\ OwnConcurse' = OwnConcurse
      BY <2>1, <3>1, Zenon DEF Label, Counted, At, OwnPermanent, OwnConcurse
    <3>3. pc' \in [Thread -> Label]
      BY <2>1, <3>1, Zenon DEF Label
    <3>4. readersCount' = Cardinality(Counted')
      BY <1>2, <2>1, <3>2, CountMore, Zenon DEF lock_shared
    <3> QED BY <1>2, <2>3, <3>2, <3>3, <3>4, Zenon
        DEF LockInv, OneOwner, OneConcurse, CountExact, ReadersOwn, lock_shared
  <2> QED BY <2>2, <2>3, Zenon
<1>3. ASSUME NEW t \in Thread, unlock_shared(t) PROVE LockInv'
  <2>1. pc \in [Thread -> Label] /\ readersCount = Cardinality(Counted)
    BY Zenon DEF LockInv, CountExact
  <2>2. CASE LastLeaves
    <3>1. pc[t] = "reading" /\ pc' = [pc EXCEPT ![t] = "leaving"]
      BY <1>3, <2>2, Zenon DEF unlock_shared, Goto
    <3>2. /\ Counted' = Counted \ {t} /\ t \in Counted
          /\ At("first")' = At("first")
          /\ OwnPermanent' = OwnPermanent \cup {t} /\ t \notin OwnPermanent
          /\ OwnConcurse' = OwnConcurse
      BY <2>1, <3>1, Zenon DEF Label, Counted, At, OwnPermanent, OwnConcurse
    <3>3. pc' \in [Thread -> Label]
      BY <2>1, <3>1, Zenon DEF Label
    <3>4. readersCount' = Cardinality(Counted') /\ Counted' = {}
      BY <1>3, <2>1, <2>2, <3>2, CountLess, CountedFinite DEF unlock_shared, LastLeaves
    <3>5. At("first") = {}
      BY <2>1, <3>1, <3>2, <3>4, Zenon DEF At, Counted
    <3> QED BY <1>3, <3>2, <3>3, <3>4, <3>5, Zenon
        DEF LockInv, OneOwner, OneConcurse, CountExact, ReadersOwn, unlock_shared
  <2>3. CASE ~LastLeaves
    <3>1. pc[t] = "reading" /\ pc' = [pc EXCEPT ![t] = "idle"]
      BY <1>3, <2>3, Zenon DEF unlock_shared, Goto
    <3>2. /\ Counted' = Counted \ {t} /\ t \in Counted
          /\ At("first")' = At("first")
          /\ OwnPermanent' = OwnPermanent
          /\ OwnConcurse' = OwnConcurse
      BY <2>1, <3>1, Zenon DEF Label, Counted, At, OwnPermanent, OwnConcurse
    <3>3. pc' \in [Thread -> Label]
      BY <2>1, <3>1, Zenon DEF Label
    <3>4. readersCount' = Cardinality(Counted') /\ Counted' # {}
      BY <1>3, <2>1, <2>3, <3>2, CountLess, CountedFinite DEF unlock_shared, LastLeaves
    <3> QED BY <1>3, <3>2, <3>3, <3>4, Zenon
        DEF LockInv, OneOwner, OneConcurse, CountExact, ReadersOwn, unlock_shared
  <2> QED BY <2>2, <2>3, Zenon
<1>4. ASSUME NEW t \in Thread, FirstReader(t) PROVE LockInv'
  <2>1. pc \in [Thread -> Label] /\ pc[t] = "first" /\ pc' = [pc EXCEPT ![t] = "reading"]
    BY <1>4, Zenon DEF LockInv, FirstReader, Goto
  <2>2. /\ Counted' = Counted /\ t \in Counted
        /\ At("first")' = At("first") \ {t} /\ t \in At("first")
        /\ OwnPermanent' = OwnPermanent
        /\ OwnConcurse' = OwnConcurse
    BY <2>1, Zenon DEF Label, Counted, At, OwnPermanent, OwnConcurse
  <2>3. pc' \in [Thread -> Label]
    BY <2>1, Zenon DEF Label
  <2> QED BY <1>4, <2>2, <2>3
      DEF LockInv, OneOwner, OneConcurse, CountExact, ReadersOwn, FirstReader, Taken
<1>5. ASSUME NEW t \in Thread, NextReader(t) PROVE LockInv'
  <2>1. pc \in [Thread -> Label] /\ pc[t] = "next" /\ pc' = [pc EXCEPT ![t] = "nextPost"]
    BY <1>5, Zenon DEF LockInv, NextReader, Goto
  <2>2. /\ Counted' = Counted /\ t \in Counted
        /\ At("first")' = At("first")
        /\ OwnPermanent' = OwnPermanent
        /\ OwnConcurse' = OwnConcurse \cup {t} /\ t \notin OwnConcurse
    BY <2>1, Zenon DEF Label, Counted, At, OwnPermanent, OwnConcurse
  <2>3. pc' \in [Thread -> Label]
    BY <2>1, Zenon DEF Label
  <2> QED BY <1>5, <2>2, <2>3
      DEF LockInv, OneOwner, OneConcurse, CountExact, ReadersOwn, NextReader, Taken
<1>6. ASSUME NEW t \in Thread, NextReaderPost(t) PROVE LockInv'
  <2>1. pc \in [Thread -> Label] /\ pc[t] = "nextPost" /\ pc' = [pc EXCEPT ![t] = "reading"]
    BY <1>6, Zenon DEF LockInv, NextReaderPost, Goto
  <2>2. /\ Counted' = Counted /\ t \in Counted
        /\ At("first")' = At("first")
        /\ OwnPermanent' = OwnPermanent
        /\ OwnConcurse' = OwnConcurse \ {t} /\ t \in OwnConcurse
    BY <2>1, Zenon DEF Label, Counted, At, OwnPermanent, OwnConcurse
  <2>3. pc' \in [Thread -> Label]
    BY <2>1, Zenon DEF Label
  <2> QED BY <1>6, <2>2, <2>3
      DEF LockInv, OneOwner, OneConcurse, CountExact, ReadersOwn, NextReaderPost, Posted,
        SemaphoreMax
<1>7. ASSUME NEW t \in Thread, LastReaderPost(t) PROVE LockInv'
  <2>1. pc \in [Thread -> Label] /\ pc[t] = "leaving" /\ pc' = [pc EXCEPT ![t] = "idle"]
    BY <1>7, Zenon DEF LockInv, LastReaderPost, Goto
  <2>2. /\ Counted' = Counted
        /\ At("first")' = At("first")
        /\ OwnPermanent' = OwnPermanent \ {t} /\ t \in OwnPermanent
        /\ OwnConcurse' = OwnConcurse
    BY <2>1, Zenon DEF Label, Counted, At, OwnPermanent, OwnConcurse
  <2>3. pc' \in [Thread -> Label]
    BY <2>1, Zenon DEF Label
  <2> QED BY <1>7, <2>2, <2>3
      DEF LockInv, OneOwner, OneConcurse, CountExact, ReadersOwn, LastReaderPost, Posted,
        SemaphoreMax
<1>8. ASSUME NEW t \in Thread, lock(t) PROVE LockInv'
  <2>1. pc \in [Thread -> Label] /\ pc[t] = "idle" /\ pc' = [pc EXCEPT ![t] = "lock"]
    BY <1>8, Zenon DEF LockInv, lock, Goto
  <2>2. /\ Counted' = Counted
        /\ At("first")' = At("first")
        /\ OwnPermanent' = OwnPermanent
        /\ OwnConcurse' = OwnConcurse
    BY <2>1, Zenon DEF Label, Counted, At, OwnPermanent, OwnConcurse
  <2>3. pc' \in [Thread -> Label]
    BY <2>1, Zenon DEF Label
  <2> QED BY <1>8, <2>2, <2>3, Zenon
      DEF LockInv, OneOwner, OneConcurse, CountExact, ReadersOwn, lock
<1>9. ASSUME NEW t \in Thread, LockNewConcurse(t) PROVE LockInv'
  <2>1. pc \in [Thread -> Label] /\ pc[t] = "lock" /\ pc' = [pc EXCEPT ![t] = "permanent"]
    BY <1>9, Zenon DEF LockInv, LockNewConcurse, Goto
  <2>2. /\ Counted' = Counted
        /\ At("first")' = At("first")
        /\ OwnPermanent' = OwnPermanent
        /\ OwnConcurse' = OwnConcurse \cup {t} /\ t \notin OwnConcurse
    BY <2>1, Zenon DEF Label, Counted, At, OwnPermanent, OwnConcurse
  <2>3. pc' \in [Thread -> Label]
    BY <2>1, Zenon DEF Label
  <2> QED BY <1>9, <2>2, <2>3
      DEF LockInv, OneOwner, OneConcurse, CountExact, ReadersOwn, LockNewConcurse, Taken
<1>10. ASSUME NEW t \in Thread, LockPermanent(t) PROVE LockInv'
  <2>1. pc \in [Thread -> Label] /\ pc[t] = "permanent" /\ pc' = [pc EXCEPT ![t] = "lockPost"]
    BY <1>10, Zenon DEF LockInv, LockPermanent, Goto
  <2>2. /\ Counted' = Counted
        /\ At("first")' = At("first")
        /\ OwnPermanent' = OwnPermanent \cup {t} /\ t \notin OwnPermanent
        /\ OwnConcurse' = OwnConcurse /\ t \in OwnConcurse
    BY <2>1, Zenon DEF Label, Counted, At, OwnPermanent, OwnConcurse
  <2>3. pc' \in [Thread -> Label]
    BY <2>1, Zenon DEF Label
  <2> QED BY <1>10, <2>2, <2>3
      DEF LockInv, OneOwner, OneConcurse, CountExact, ReadersOwn, LockPermanent, Taken
<1>11. ASSUME NEW t \in Thread, LockPost(t) PROVE LockInv'
  <2>1. pc \in [Thread -> Label] /\ pc[t] = "lockPost" /\ pc' = [pc EXCEPT ![t] = "writing"]
    BY <1>11, Zenon DEF LockInv, LockPost, Goto
  <2>2. /\ Counted' = Counted
        /\ At("first")' = At("first")
        /\ OwnPermanent' = OwnPermanent /\ t \in OwnPermanent
        /\ OwnConcurse' = OwnConcurse \ {t} /\ t \in OwnConcurse
    BY <2>1, Zenon DEF Label, Counted, At, OwnPermanent, OwnConcurse
  <2>3. pc' \in [Thread -> Label]
    BY <2>1, Zenon DEF Label
  <2> QED BY <1>11, <2>2, <2>3
      DEF LockInv, OneOwner, OneConcurse, CountExact, ReadersOwn, LockPost, Posted, SemaphoreMax
<1>12. ASSUME NEW t \in Thread, unlock(t) PROVE LockInv'
  <2>1. pc \in [Thread -> Label] /\ pc[t] = "writing" /\ pc' = [pc EXCEPT ![t] = "idle"]
    BY <1>12, Zenon DEF LockInv, unlock, Goto
  <2>2. /\ Counted' = Counted
        /\ At("first")' = At("first")
        /\ OwnPermanent' = OwnPermanent \ {t} /\ t \in OwnPermanent
        /\ OwnConcurse' = OwnConcurse
    BY <2>1, Zenon DEF Label, Counted, At, OwnPermanent, OwnConcurse
  <2>3. pc' \in [Thread -> Label]
    BY <2>1, Zenon DEF Label
  <2> QED BY <1>12, <2>2, <2>3
      DEF LockInv, OneOwner, OneConcurse, CountExact, ReadersOwn, unlock, Posted, SemaphoreMax
<1> QED
  BY <1>1, <1>2, <1>3, <1>4, <1>5, <1>6, <1>7, <1>8, <1>9, <1>10, <1>11, <1>12, Zenon DEF LockNext

\* The invariant holds in every reachable state.
LEMMA LockInvariance == LockSpec => []LockInv
<1>1. LockInit => LockInv
  BY LockInitInv, Zenon
<1>2. LockInv /\ [LockNext]_lockVars => LockInv'
  BY LockNextInv, Zenon
<1> QED BY <1>1, <1>2, PTL DEF LockSpec

\* The members of the lock stay well-typed, whatever the number of threads: in
\* particular no call posts a semaphore it has not taken, so both stay at 0 or
\* 1 although they are created with the limit 5, and a second thread is never
\* let in by a post too many.
THEOREM LockTyping == LockSpec => []LockTypeOK
<1>1. LockInv => LockTypeOK
  BY CountedFinite
      DEF LockInv, LockTypeOK, OneOwner, OneConcurse, CountExact, Label
<1> QED BY <1>1, LockInvariance, PTL

\* For any number of threads, lock() lets one writer in at a time, and a reader
\* is inside beside a writer only while the first reader of its group waits.
THEOREM LockExclusion == LockSpec => []ExclusionButBehindFirst
<1>1. ASSUME LockInv PROVE ExclusionButBehindFirst
  <2>1. \A t, u \in At("writing") : t = u
    <3>1. At("writing") \subseteq OwnPermanent
      BY Zenon DEF At, OwnPermanent
    <3> QED BY <1>1, <3>1, Zenon DEF LockInv, OneOwner
  <2>2. At("writing") # {} /\ At("reading") # {} => At("first") # {}
    <3>1. At("writing") \subseteq OwnPermanent /\ At("reading") \subseteq Counted
      BY Zenon DEF At, OwnPermanent, Counted
    <3> QED BY <1>1, <3>1, Zenon DEF LockInv, OneOwner, ReadersOwn
  <2> QED BY <2>1, <2>2, Zenon DEF ExclusionButBehindFirst
<1> QED BY <1>1, LockInvariance, PTL
=============================================================================
