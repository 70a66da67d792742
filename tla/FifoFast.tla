------------------------------ MODULE FifoFast ------------------------------
(***************************************************************************)
(* common::FifoFast_base (include/common/impl.common_fifofast.hpp): a      *)
(* bounded queue kept as a linked list of SListStr cells, with an array of *)
(* spare cells, m_ppCashedEntries, that saves calls of new and delete.     *)
(* Every operation runs under m_Mutex, so it is one step; the destructor's *)
(* loop over the list is one step per cell.                                *)
(***************************************************************************)
EXTENDS Naturals, Sequences, FiniteSets

CONSTANTS
  Cell, NULL,   \* heap addresses of SListStr objects
  Value,
  MaxSize,      \* m_cnMaxSize
  CashSize      \* m_cnCashSize

ASSUME FifoFastAssumption ==
  /\ NULL \notin Cell
  /\ MaxSize \in Nat /\ CashSize \in Nat

VARIABLES
  m_nIndexInCashPlus1, m_nNumOfElemets, m_pFirst, m_pLast,
  m_ppCashedEntries,
  allocated, next, value,   \* the heap: live cells and their members
  order,                    \* history: the cells of the list, oldest first
  phase,                    \* "run", "list" (the destructor's loop), "end"
  last                      \* the last call: its name, the value and the result

cashVars == <<m_nIndexInCashPlus1, m_ppCashedEntries>>
listVars == <<m_pFirst, m_pLast, m_nNumOfElemets, next, order>>
vars == <<cashVars, listVars, allocated, value, phase, last>>

Call == ({"AddElement"} \X Value \X BOOLEAN) \cup ({"Extract"} \X Value \X {TRUE})
          \cup {<<"Extract", FALSE>>}

TypeOK ==
  /\ m_nIndexInCashPlus1 \in 0..CashSize /\ m_nNumOfElemets \in 0..MaxSize
  /\ m_pFirst \in Cell \cup {NULL} /\ m_pLast \in Cell \cup {NULL}
  /\ m_ppCashedEntries \in [0..(CashSize - 1) -> Cell]
  /\ allocated \in SUBSET Cell
  /\ next \in [Cell -> Cell \cup {NULL}] /\ value \in [Cell -> Value]
  /\ order \in Seq(Cell)
  /\ phase \in {"run", "list", "end"}
  /\ last \in Call

\* the slots of m_ppCashedEntries that hold a spare cell
SpareSlots == 0..(m_nIndexInCashPlus1 - 1)

Init ==
  /\ m_nIndexInCashPlus1 = CashSize /\ m_nNumOfElemets = 0
  /\ m_pFirst = NULL /\ m_pLast = NULL
  /\ m_ppCashedEntries \in [0..(CashSize - 1) -> Cell]
  /\ \A i, j \in 0..(CashSize - 1) : m_ppCashedEntries[i] = m_ppCashedEntries[j] => i = j
  /\ allocated = {m_ppCashedEntries[i] : i \in 0..(CashSize - 1)}
  /\ next = [c \in Cell |-> NULL] /\ value \in [Cell -> Value]
  /\ order = <<>> /\ phase = "run" /\ last = <<"Extract", FALSE>>

-----------------------------------------------------------------------------
\* mutant: the spare cell is used without counting it out
TakeCellKeeps(c) ==
  IF m_nIndexInCashPlus1 # 0
  THEN /\ c = m_ppCashedEntries[m_nIndexInCashPlus1 - 1]
       /\ UNCHANGED <<m_nIndexInCashPlus1, m_ppCashedEntries, allocated>>
  ELSE /\ c \notin allocated
       /\ allocated' = allocated \cup {c}
       /\ UNCHANGED cashVars

\* the cell for a new element: the last spare one, or a new one
TakeCell(c) ==
  IF m_nIndexInCashPlus1 # 0
  THEN /\ c = m_ppCashedEntries[m_nIndexInCashPlus1 - 1]
       /\ m_nIndexInCashPlus1' = m_nIndexInCashPlus1 - 1
       /\ UNCHANGED <<m_ppCashedEntries, allocated>>
  ELSE /\ c \notin allocated
       /\ allocated' = allocated \cup {c}
       /\ UNCHANGED cashVars

\* c becomes the last cell of the list
Link(c) ==
  IF m_nNumOfElemets = 0
  THEN m_pFirst' = c /\ m_pLast' = c /\ next' = [next EXCEPT ![c] = NULL]
  ELSE /\ next' = [next EXCEPT ![c] = NULL, ![m_pLast] = c]
       /\ m_pLast' = c
       /\ m_pFirst' = m_pFirst

\* mutant: the value is only stored in a new cell
StoreIfNew(c, v) ==
  value' = IF m_nIndexInCashPlus1 # 0 THEN value ELSE [value EXCEPT ![c] = v]

Store(c, v) == value' = [value EXCEPT ![c] = v]

HasRoomOneMore == m_nNumOfElemets <= MaxSize   \* mutant: off by one

HasRoom == m_nNumOfElemets < MaxSize

\* AddElement1 and AddElement2 (which moves the value)
AddElement(v) ==
  /\ phase = "run"
  /\ IF HasRoom
     THEN \E c \in Cell :
            /\ TakeCell(c)
            /\ Store(c, v)
            /\ Link(c)
            /\ m_nNumOfElemets' = m_nNumOfElemets + 1
            /\ order' = Append(order, c)
            /\ last' = <<"AddElement", v, TRUE>>
     ELSE last' = <<"AddElement", v, FALSE>> /\ UNCHANGED <<cashVars, listVars, allocated, value>>
  /\ phase' = phase

KeepsCellBelow == m_nNumOfElemets < CashSize   \* mutant: off by one

KeepsCell == m_nNumOfElemets <= CashSize

\* Extract and ExtractMv: the first cell is kept as a spare one or deleted
Extract ==
  /\ phase = "run"
  /\ IF m_nNumOfElemets # 0
     THEN /\ last' = <<"Extract", value[m_pFirst], TRUE>>
          /\ IF KeepsCell
             THEN /\ m_ppCashedEntries' =
                       [m_ppCashedEntries EXCEPT ![m_nIndexInCashPlus1] = m_pFirst]
                  /\ m_nIndexInCashPlus1' = m_nIndexInCashPlus1 + 1
                  /\ UNCHANGED allocated
             ELSE allocated' = allocated \ {m_pFirst} /\ UNCHANGED cashVars
          /\ m_pFirst' = next[m_pFirst]
          /\ m_nNumOfElemets' = m_nNumOfElemets - 1
          /\ order' = Tail(order)
          /\ UNCHANGED <<m_pLast, next>>
     ELSE last' = <<"Extract", FALSE>> /\ UNCHANGED <<cashVars, listVars, allocated>>
  /\ UNCHANGED <<value, phase>>

\* mutant: the last spare cell is forgotten
DestroyCashButLast ==
  /\ phase = "run"
  /\ allocated' = allocated \ {m_ppCashedEntries[i] :
                                i \in SpareSlots \ {m_nIndexInCashPlus1 - 1}}
  /\ phase' = "list"
  /\ UNCHANGED <<cashVars, listVars, value, last>>

\* ~FifoFast_base: the spare cells, then the list cell by cell
DestroyCash ==
  /\ phase = "run"
  /\ allocated' = allocated \ {m_ppCashedEntries[i] : i \in SpareSlots}
  /\ phase' = "list"
  /\ UNCHANGED <<cashVars, listVars, value, last>>

DestroyList ==
  /\ phase = "list"
  /\ IF m_pFirst # NULL
     THEN /\ m_pFirst' = next[m_pFirst]
          /\ allocated' = allocated \ {m_pFirst}
          /\ order' = Tail(order)
          /\ phase' = phase
     ELSE phase' = "end" /\ UNCHANGED <<m_pFirst, allocated, order>>
  /\ UNCHANGED <<cashVars, m_pLast, m_nNumOfElemets, next, value, last>>

Next ==
  \/ \E v \in Value : AddElement(v)
  \/ Extract
  \/ DestroyCash \/ DestroyList

Spec == Init /\ [][Next]_vars

-----------------------------------------------------------------------------
(* Properties.                                                             *)

Spare == {m_ppCashedEntries[i] : i \in SpareSlots}

InList == {order[i] : i \in 1..Len(order)}

(* Every live cell is in exactly one place: one slot of the array of spare *)
(* cells or one position of the list.  A cell is never handed out twice by *)
(* AddElement, deleted while in use, or lost.                              *)
EachCellInOnePlace ==
  phase = "run" =>
    /\ Spare \cap InList = {}
    /\ allocated = Spare \cup InList
    /\ \A i, j \in 1..Len(order) : order[i] = order[j] => i = j
    /\ \A i, j \in SpareSlots :
         m_ppCashedEntries[i] = m_ppCashedEntries[j] => i = j

(* The test of Extract (number of elements against the size of the array)  *)
(* is exact, although the array's own index is not consulted: there is     *)
(* always room for the cell it keeps, and none is deleted while there is.  *)
CashExact ==
  IF m_nNumOfElemets <= CashSize
  THEN m_nIndexInCashPlus1 + m_nNumOfElemets = CashSize
  ELSE m_nIndexInCashPlus1 = 0

(* The destructor leaves no cell allocated.                                *)
NothingLeaks == phase = "end" => allocated = {}

\* the values in the list
Queue == IF phase = "run" THEN [i \in 1..Len(order) |-> value[order[i]]] ELSE <<>>

Fifo == INSTANCE BoundedFifo WITH queue <- Queue, open <- phase = "run"

(* FifoFast is the bounded queue of BoundedFifo: values come out in the    *)
(* order they went in, none is lost, duplicated or overwritten by the      *)
(* reuse of cells, and false is returned exactly on full and on empty.     *)
IsBoundedFifo == Fifo!Spec
=============================================================================
