-------------------------- MODULE MembershipProofs --------------------------
(* Proofs about Membership, for any hosts, seeds and number of workers: what *)
(* the shared lock of the adder protects while a process joins, and that   *)
(* the tables agree when the cluster has come to rest.                     *)
EXTENDS Membership, FiniteSetTheorems, TLAPS

Stage == {"first", "listed", "exclusive", "after", "confirm"}
Conn == [adder : Host \cup {NULL}, step : Step, list : SUBSET Host,
         leader : Host \cup {NULL}]

Queued == {j \in Job : j.stage = "first"}   \* no job comes back to the queue

\* TypeOK, by groups of variables.
StatesOK == state \in [Host -> {"off", "joining", "up"}]
TablesOK ==
  /\ m_Nodes \in [Host -> SUBSET Host]
  /\ m_pLeaderNode \in [Host -> Host \cup {NULL}]
  /\ m_thisNode \in [Host -> Host \cup {NULL}]
ConnOK == conn \in [Host -> Conn]
FifoOK == fifo \in [Host -> Seq(Queued)]
HandOK ==
  /\ hand \in [Host -> SUBSET Job]
  /\ \A h \in Host : IsFiniteSet(hand[h]) /\ Cardinality(hand[h]) <= Workers
NetOK == net \in [Host -> [Host -> Seq(Request)]]
HistoryOK == starts \in 0..MaxStarts /\ alone \in BOOLEAN

\* A process that has connected tries a seed of the list.
SeedOK ==
  /\ seed \in [Host -> 1..(Len(Seeds) + 1)]
  /\ \A h \in Host : /\ conn[h].adder # NULL => conn[h].step # "none"
                     /\ conn[h].step # "none" => seed[h] <= Len(Seeds)

\* Only a running process has jobs.
HandsUp == \A h \in Host : state[h] # "up" => hand[h] = {} /\ fifo[h] = <<>>

\* As long as the adder a waits for the answer, the list it has sent is its
\* table, and the joiner that has answered knows the nodes of it.
ListTrue ==
  \A a \in Host : \A b \in hand[a] : b.type = "con" /\ b.stage = "listed" =>
    /\ Waits(b.key, a, "listed") => conn[b.key].list = m_Nodes[a]
    /\ Waits(b.key, a, "answered") => m_Nodes[a] \subseteq m_Nodes[b.key]

\* The inductive invariant.
IInv ==
  /\ StatesOK /\ TablesOK /\ ConnOK /\ FifoOK /\ HandOK /\ NetOK /\ HistoryOK /\ SeedOK
  /\ HandsUp /\ ListTrue

-----------------------------------------------------------------------------
(* The jobs in the hands of the workers                                    *)

\* A job that goes on to a later phase: no more jobs than before, and the other
\* processes keep theirs.
LEMMA AdvanceFacts ==
  ASSUME HandOK, NEW h \in Host, NEW j \in hand[h], NEW s \in Stage, Advance(h, j, s)
  PROVE  /\ HandOK'
         /\ hand'[h] = (hand[h] \ {j}) \cup {[j EXCEPT !.stage = s]}
         /\ \A g \in Host \ {h} : hand'[g] = hand[g]
<1>1. /\ hand' = [hand EXCEPT ![h] = (hand[h] \ {j}) \cup {[j EXCEPT !.stage = s]}]
      /\ hand \in [Host -> SUBSET Job]
  BY Zenon DEF Advance, HandOK
<1>2. [j EXCEPT !.stage = s] \in Job
  BY <1>1 DEF Job, Stage
<1>3. /\ hand' \in [Host -> SUBSET Job]
      /\ hand'[h] = (hand[h] \ {j}) \cup {[j EXCEPT !.stage = s]}
      /\ \A g \in Host \ {h} : hand'[g] = hand[g]
  BY <1>1, <1>2, Zenon
<1>4. IsFiniteSet(hand'[h]) /\ Cardinality(hand'[h]) <= Workers
  <2> DEFINE R == hand[h] \ {j}
             x == [j EXCEPT !.stage = s]
  <2>1. /\ IsFiniteSet(hand[h]) /\ Cardinality(hand[h]) <= Workers
        /\ Cardinality(hand[h]) \in Nat
    BY FS_CardinalityType, Zenon DEF HandOK
  <2>2. IsFiniteSet(R) /\ Cardinality(R) = Cardinality(hand[h]) - 1
    BY <2>1, FS_RemoveElement, Zenon
  <2>3. /\ IsFiniteSet(R \cup {x})
        /\ Cardinality(R \cup {x}) = Cardinality(R) \/ Cardinality(R \cup {x}) = Cardinality(R) + 1
    BY <2>2, FS_AddElement, Zenon
  <2>4. Workers \in Nat
    BY MembershipAssumption, Zenon
  <2> HIDE DEF R, x
  <2>5. Cardinality(R \cup {x}) <= Workers
    BY <2>1, <2>2, <2>3, <2>4
  <2> QED
    BY <1>3, <2>3, <2>5, Zenon DEF R, x
<1>5. \A g \in Host : IsFiniteSet(hand'[g]) /\ Cardinality(hand'[g]) <= Workers
  BY <1>3, <1>4, Zenon DEF HandOK
<1> QED
  BY <1>3, <1>5, Zenon DEF HandOK

\* A job that is done.
LEMMA FinishFacts ==
  ASSUME HandOK, NEW h \in Host, NEW j \in hand[h], Finish(h, j)
  PROVE  /\ HandOK'
         /\ hand'[h] = hand[h] \ {j}
         /\ \A g \in Host \ {h} : hand'[g] = hand[g]
<1>1. /\ hand' = [hand EXCEPT ![h] = hand[h] \ {j}]
      /\ hand \in [Host -> SUBSET Job]
  BY Zenon DEF Finish, HandOK
<1>2. /\ hand' \in [Host -> SUBSET Job]
      /\ hand'[h] = hand[h] \ {j}
      /\ \A g \in Host \ {h} : hand'[g] = hand[g]
  BY <1>1, Zenon
<1>3. IsFiniteSet(hand'[h]) /\ Cardinality(hand'[h]) <= Workers
  <2>1. /\ IsFiniteSet(hand[h]) /\ Cardinality(hand[h]) <= Workers
        /\ Cardinality(hand[h]) \in Nat
    BY FS_CardinalityType, Zenon DEF HandOK
  <2>2. IsFiniteSet(hand[h] \ {j}) /\ Cardinality(hand[h] \ {j}) = Cardinality(hand[h]) - 1
    BY <2>1, FS_RemoveElement, Zenon
  <2>3. Workers \in Nat
    BY MembershipAssumption, Zenon
  <2> QED
    BY <1>2, <2>1, <2>2, <2>3
<1>4. \A g \in Host : IsFiniteSet(hand'[g]) /\ Cardinality(hand'[g]) <= Workers
  BY <1>2, <1>3, Zenon DEF HandOK
<1> QED
  BY <1>2, <1>4, Zenon DEF HandOK

\* A free worker takes a job of the queue.
LEMMA ExtractFacts ==
  ASSUME HandOK, FifoOK, NEW h \in Host, Extract(h)
  PROVE  /\ HandOK' /\ FifoOK'
         /\ \A b \in hand'[h] : b \in hand[h] \/ b.stage # "listed"
         /\ \A g \in Host \ {h} : hand'[g] = hand[g] /\ fifo'[g] = fifo[g]
<1> DEFINE q == Head(fifo[h])
           x == IF q.type = "con" THEN q ELSE [q EXCEPT !.stage = "exclusive"]
<1>1. /\ fifo[h] \in Seq(Queued) /\ fifo[h] # <<>> /\ FreeWorker(h)
      /\ hand' = [hand EXCEPT ![h] = hand[h] \cup {x}]
      /\ fifo' = [fifo EXCEPT ![h] = Tail(fifo[h])]
      /\ hand \in [Host -> SUBSET Job] /\ fifo \in [Host -> Seq(Queued)]
  BY Zenon DEF Extract, HandOK, FifoOK
<1>2. q \in Queued /\ Tail(fifo[h]) \in Seq(Queued)
  BY <1>1
<1>3. x \in Job /\ x.stage # "listed"
  BY <1>2, Zenon DEF Queued, Job
<1> HIDE DEF x, q
<1>4. /\ hand' \in [Host -> SUBSET Job] /\ FifoOK'
      /\ hand'[h] = hand[h] \cup {x}
      /\ \A g \in Host \ {h} : hand'[g] = hand[g] /\ fifo'[g] = fifo[g]
  BY <1>1, <1>2, <1>3, Zenon DEF FifoOK
<1>5. IsFiniteSet(hand'[h]) /\ Cardinality(hand'[h]) <= Workers
  <2>1. IsFiniteSet(hand[h]) /\ Cardinality(hand[h]) < Workers /\ Cardinality(hand[h]) \in Nat
    BY <1>1, FS_CardinalityType, Zenon DEF HandOK, FreeWorker
  <2>2. /\ IsFiniteSet(hand[h] \cup {x})
        /\ \/ Cardinality(hand[h] \cup {x}) = Cardinality(hand[h])
           \/ Cardinality(hand[h] \cup {x}) = Cardinality(hand[h]) + 1
    BY <2>1, FS_AddElement, Zenon
  <2>3. Workers \in Nat
    BY MembershipAssumption, Zenon
  <2> QED
    BY <1>4, <2>1, <2>2, <2>3
<1>6. \A g \in Host : IsFiniteSet(hand'[g]) /\ Cardinality(hand'[g]) <= Workers
  BY <1>4, <1>5, Zenon DEF HandOK
<1> QED
  BY <1>3, <1>4, <1>6, Zenon DEF HandOK

-----------------------------------------------------------------------------
(* The news to the other nodes                                             *)

\* A request to all nodes leaves the queues typed, and takes no joiner but out of
\* its wait.
LEMMA SendFacts ==
  ASSUME NetOK, NEW h \in Host, NEW r \in Request, NEW skip \in Host,
         SendInformationToAllNodes(h, r, skip)
  PROVE  NetOK'
<1> DEFINE row == [g \in Host |->
             IF g \in m_Nodes[h] \ {skip, h} /\ Reaches(h, g) THEN Append(net[h][g], r)
             ELSE net[h][g]]
<1>1. net' = [net EXCEPT ![h] = row]
  BY Zenon DEF SendInformationToAllNodes, NetOK
<1>2. \A g \in Host : net[h][g] \in Seq(Request) /\ Append(net[h][g], r) \in Seq(Request)
  BY DEF NetOK
<1>3. row \in [Host -> Seq(Request)]
  BY <1>2, Zenon
<1> QED
  BY <1>1, <1>3, Zenon DEF NetOK

LEMMA GarbleFacts ==
  ASSUME ConnOK, NEW h \in Host, NEW skip \in Host, conn' = Garble(h, skip)
  PROVE  /\ ConnOK'
         /\ \A k \in Host : \/ conn'[k] = conn[k]
                            \/ conn'[k].step = "garbled" /\ conn[k].step = "answered"
<1>1. \A k \in Host : conn[k] \in Conn
  BY Zenon DEF ConnOK
<1>2. \A k \in Host : [conn[k] EXCEPT !.step = "garbled"] \in Conn
  BY <1>1 DEF Conn, Step
<1>3. \A k \in Host : /\ k \in Garbled(h, skip) => conn[k].step = "answered"
                      /\ conn'[k] = IF k \in Garbled(h, skip)
                                      THEN [conn[k] EXCEPT !.step = "garbled"] ELSE conn[k]
  BY Zenon DEF Garble, Garbled
<1>4. \A k \in Host : \/ conn'[k] = conn[k]
                      \/ conn'[k].step = "garbled" /\ conn[k].step = "answered"
  BY <1>1, <1>3, Zenon DEF Conn
<1>5. ConnOK'
  BY <1>1, <1>2, Zenon DEF ConnOK, Garble
<1> QED
  BY <1>4, <1>5, Zenon

-----------------------------------------------------------------------------
(* The list                                                                *)

\* ListTrue stays true when no adder that waits changes its table, no joiner that
\* has answered changes its own, and no joiner begins to wait.
LEMMA ListKept ==
  ASSUME HandOK, ListTrue, HandOK',
         \A a \in Host : \A b \in hand'[a] : b.type = "con" /\ b.stage = "listed" =>
           b \in hand[a] /\ m_Nodes'[a] = m_Nodes[a],
         \A k, a \in Host : Waits(k, a, "listed")' =>
           Waits(k, a, "listed") /\ conn'[k].list = conn[k].list,
         \A k, a \in Host : Waits(k, a, "answered")' =>
           Waits(k, a, "answered") /\ m_Nodes'[k] = m_Nodes[k]
  PROVE  ListTrue'
<1> SUFFICES ASSUME NEW a \in Host, NEW b \in hand'[a], b.type = "con", b.stage = "listed"
             PROVE  /\ Waits(b.key, a, "listed")' => conn'[b.key].list = m_Nodes'[a]
                    /\ Waits(b.key, a, "answered")' => m_Nodes'[a] \subseteq m_Nodes'[b.key]
  BY Zenon DEF ListTrue
<1>1. b \in hand[a] /\ m_Nodes'[a] = m_Nodes[a]
  OBVIOUS
<1>2. b.key \in Host
  BY <1>1 DEF HandOK, Job
<1>3. /\ Waits(b.key, a, "listed") => conn[b.key].list = m_Nodes[a]
      /\ Waits(b.key, a, "answered") => m_Nodes[a] \subseteq m_Nodes[b.key]
  BY <1>1, Zenon DEF ListTrue
<1> QED
  BY <1>1, <1>2, <1>3, Zenon

-----------------------------------------------------------------------------
(* The induction                                                           *)

LEMMA InitIInv == Init => IInv
<1> SUFFICES ASSUME Init PROVE IInv
  OBVIOUS
<1>1. NoConn \in Conn /\ NoConn.step = "none" /\ NoConn.adder = NULL
  BY Zenon DEF NoConn, Conn, Step
<1>2. Len(Seeds) \in Nat /\ Workers \in Nat /\ MaxStarts \in Nat
  BY MembershipAssumption
<1>3. StatesOK /\ TablesOK
  BY MembershipAssumption, Zenon DEF Init, StatesOK, TablesOK
<1>4. ConnOK /\ \A h \in Host : conn[h].step = "none" /\ conn[h].adder = NULL
  BY <1>1, Zenon DEF Init, ConnOK
<1>5. FifoOK /\ NetOK
  BY DEF Init, FifoOK, NetOK
<1>6. HandOK
  BY <1>2, FS_EmptySet DEF Init, HandOK
<1>7. HistoryOK
  BY <1>2 DEF Init, HistoryOK
<1>8. SeedOK
  BY <1>2, <1>4 DEF Init, SeedOK
<1>9. HandsUp /\ ListTrue
  BY Zenon DEF Init, HandsUp, ListTrue
<1> QED
  BY <1>3, <1>4, <1>5, <1>6, <1>7, <1>8, <1>9, Zenon DEF IInv

\* A process is started.
LEMMA StartStep ==
  ASSUME IInv, NEW j \in Host, Start(j)
  PROVE  IInv'
<1> USE DEF IInv
<1>n. Len(Seeds) \in Nat /\ MaxStarts \in Nat
  BY MembershipAssumption
<1>s. TablesOK' /\ ConnOK' /\ FifoOK' /\ HandOK' /\ NetOK'
  BY Zenon DEF Start, TablesOK, ConnOK, FifoOK, HandOK, NetOK, tableVars, jobVars, history
<1>t0. StatesOK'
  BY Zenon DEF Start, StatesOK
<1>t1. HistoryOK'
  BY <1>n DEF Start, HistoryOK
<1>t2. SeedOK'
  BY <1>n DEF Start, SeedOK
<1>h. HandsUp'
  BY Zenon DEF Start, HandsUp, StatesOK, jobVars
<1>a. \A a \in Host : \A b \in hand'[a] : b.type = "con" /\ b.stage = "listed" =>
        b \in hand[a] /\ m_Nodes'[a] = m_Nodes[a]
  BY Zenon DEF Start, tableVars, jobVars
<1>b. \A k, a \in Host : Waits(k, a, "listed")' =>
        Waits(k, a, "listed") /\ conn'[k].list = conn[k].list
  BY Zenon DEF Start, Waits, StatesOK, ConnOK
<1>c. \A k, a \in Host : Waits(k, a, "answered")' =>
        Waits(k, a, "answered") /\ m_Nodes'[k] = m_Nodes[k]
  BY Zenon DEF Start, Waits, StatesOK, tableVars
<1>l. ListTrue'
  BY <1>s, <1>a, <1>b, <1>c, ListKept, Zenon
<1> QED
  BY <1>s, <1>t0, <1>t1, <1>t2, <1>h, <1>l, Zenon

\* A seed is passed over.
LEMMA NextSeedStep ==
  ASSUME IInv, NEW j \in Host, NextSeed(j)
  PROVE  IInv'
<1> USE DEF IInv
<1>n. Len(Seeds) \in Nat /\ MaxStarts \in Nat
  BY MembershipAssumption
<1>s. StatesOK' /\ TablesOK' /\ ConnOK' /\ FifoOK' /\ HandOK' /\ NetOK' /\ HistoryOK'
  BY Zenon DEF NextSeed, StatesOK, TablesOK, ConnOK, FifoOK, HandOK, NetOK, HistoryOK,
     tableVars, jobVars, history
<1>t0. SeedOK'
  BY <1>n DEF NextSeed, SeedOK
<1>h. HandsUp'
  BY Zenon DEF NextSeed, HandsUp, jobVars
<1>a. \A a \in Host : \A b \in hand'[a] : b.type = "con" /\ b.stage = "listed" =>
        b \in hand[a] /\ m_Nodes'[a] = m_Nodes[a]
  BY Zenon DEF NextSeed, tableVars, jobVars
<1>b. \A k, a \in Host : Waits(k, a, "listed")' =>
        Waits(k, a, "listed") /\ conn'[k].list = conn[k].list
  BY Zenon DEF NextSeed, Waits
<1>c. \A k, a \in Host : Waits(k, a, "answered")' =>
        Waits(k, a, "answered") /\ m_Nodes'[k] = m_Nodes[k]
  BY Zenon DEF NextSeed, Waits, tableVars
<1>l. ListTrue'
  BY <1>s, <1>a, <1>b, <1>c, ListKept, Zenon
<1> QED
  BY <1>s, <1>t0, <1>h, <1>l, Zenon

\* A seed answers; its listener queues a job.
LEMMA ConnectStep ==
  ASSUME IInv, NEW j \in Host, Connect(j)
  PROVE  IInv'
<1> USE DEF IInv
<1>n. Len(Seeds) \in Nat /\ MaxStarts \in Nat
  BY MembershipAssumption
<1> DEFINE s == Seeds[seed[j]]
           q == [type |-> "con", request |-> "newNode", key |-> j, stage |-> "first"]
<1>0. seed[j] \in 1..Len(Seeds) /\ Seeds \in Seq(Host)
  BY <1>n, MembershipAssumption DEF Connect, SeedOK
<1>1. /\ s \in Host /\ q \in Queued /\ state[s] = "up" /\ seed[j] <= Len(Seeds)
      /\ conn' = [conn EXCEPT ![j].adder = s, ![j].step = "connected"]
      /\ fifo' = [fifo EXCEPT ![s] = Append(@, q)]
  BY <1>0 DEF Connect, Queued, Job
<1> HIDE DEF s, q
<1>k. /\ \A k \in Host \ {j} : conn'[k] = conn[k]
      /\ conn'[j].step = "connected"
  BY <1>1 DEF ConnOK, Conn
<1>s. StatesOK' /\ TablesOK' /\ HandOK' /\ NetOK' /\ HistoryOK'
  BY Zenon DEF Connect, StatesOK, TablesOK, HandOK, NetOK, HistoryOK, tableVars, jobVars, history
<1>t0. ConnOK'
  BY <1>1, ZenonT(60) DEF ConnOK, Conn, Step
<1>t1. FifoOK'
  BY <1>1 DEF FifoOK
<1>t2. SeedOK'
  BY <1>n, <1>1, <1>k, ZenonT(60) DEF Connect, SeedOK
<1>h. HandsUp'
  BY <1>1, Zenon DEF Connect, HandsUp, FifoOK
<1>a. \A a \in Host : \A b \in hand'[a] : b.type = "con" /\ b.stage = "listed" =>
        b \in hand[a] /\ m_Nodes'[a] = m_Nodes[a]
  BY Zenon DEF Connect, tableVars
<1>b. \A k, a \in Host : Waits(k, a, "listed")' =>
        Waits(k, a, "listed") /\ conn'[k].list = conn[k].list
  BY <1>k, <1>1, Zenon DEF Connect, Waits
<1>c. \A k, a \in Host : Waits(k, a, "answered")' =>
        Waits(k, a, "answered") /\ m_Nodes'[k] = m_Nodes[k]
  BY <1>k, <1>1, Zenon DEF Connect, Waits, tableVars
<1>l. ListTrue'
  BY <1>s, <1>a, <1>b, <1>c, ListKept, Zenon
<1> QED
  BY <1>s, <1>t0, <1>t1, <1>t2, <1>h, <1>l, Zenon

\* A process founds a cluster.
LEMMA AddOwnNodeAsLeaderStep ==
  ASSUME IInv, NEW j \in Host, AddOwnNodeAsLeader(j)
  PROVE  IInv'
<1> USE DEF IInv
<1>s. ConnOK' /\ FifoOK' /\ HandOK' /\ NetOK' /\ HistoryOK' /\ SeedOK'
  BY Zenon DEF AddOwnNodeAsLeader, ConnOK, FifoOK, HandOK, NetOK, HistoryOK, SeedOK, tableVars,
     jobVars, history
<1>t0. StatesOK'
  BY Zenon DEF AddOwnNodeAsLeader, StatesOK
<1>t1. TablesOK'
  BY Zenon DEF AddOwnNodeAsLeader, TablesOK
<1>h. HandsUp'
  BY Zenon DEF AddOwnNodeAsLeader, HandsUp, StatesOK, jobVars
<1>a. \A a \in Host : \A b \in hand'[a] : b.type = "con" /\ b.stage = "listed" =>
        b \in hand[a] /\ m_Nodes'[a] = m_Nodes[a]
  BY Zenon DEF AddOwnNodeAsLeader, HandsUp, TablesOK, jobVars
<1>b. \A k, a \in Host : Waits(k, a, "listed")' =>
        Waits(k, a, "listed") /\ conn'[k].list = conn[k].list
  BY Zenon DEF AddOwnNodeAsLeader, Waits, StatesOK
<1>c. \A k, a \in Host : Waits(k, a, "answered")' =>
        Waits(k, a, "answered") /\ m_Nodes'[k] = m_Nodes[k]
  BY Zenon DEF AddOwnNodeAsLeader, Waits, StatesOK, TablesOK
<1>l. ListTrue'
  BY <1>s, <1>a, <1>b, <1>c, ListKept, Zenon
<1> QED
  BY <1>s, <1>t0, <1>t1, <1>h, <1>l, Zenon

\* The joiner adds the nodes of the list.
LEMMA AddListedStep ==
  ASSUME IInv, NEW j \in Host, AddListed(j)
  PROVE  IInv'
<1> USE DEF IInv
<1>0. conn[j] \in Conn /\ conn[j].list \subseteq Host /\ conn[j].leader \in Host \cup {NULL}
  BY Zenon DEF ConnOK, Conn
<1>k. /\ \A k \in Host \ {j} : conn'[k] = conn[k]
      /\ conn'[j].step = "answered" /\ conn'[j].adder = conn[j].adder
      /\ conn[j].step = "listed"
  BY DEF AddListed, ConnOK, Conn
<1>s. StatesOK' /\ FifoOK' /\ HandOK' /\ NetOK' /\ HistoryOK'
  BY Zenon DEF AddListed, StatesOK, FifoOK, HandOK, NetOK, HistoryOK, tableVars, jobVars, history
<1>t0. TablesOK'
  BY <1>0, Zenon DEF AddListed, TablesOK
<1>t1. ConnOK'
  BY <1>0, Zenon DEF AddListed, ConnOK, Conn, Step
<1>t2. SeedOK'
  BY <1>k, Zenon DEF AddListed, SeedOK
<1>h. HandsUp'
  BY Zenon DEF AddListed, HandsUp, jobVars
<1>l. ListTrue'
  <2> SUFFICES ASSUME NEW a \in Host, NEW b \in hand[a], b.type = "con", b.stage = "listed"
               PROVE  /\ Waits(b.key, a, "listed")' => conn'[b.key].list = m_Nodes'[a]
                      /\ Waits(b.key, a, "answered")' => m_Nodes'[a] \subseteq m_Nodes'[b.key]
    BY Zenon DEF ListTrue, AddListed, jobVars
  <2>1. b.key \in Host
    BY DEF HandOK, Job
  <2>2. a # j /\ m_Nodes'[a] = m_Nodes[a]
    BY Zenon DEF AddListed, HandsUp, TablesOK
  <2>3. /\ Waits(b.key, a, "listed") => conn[b.key].list = m_Nodes[a]
        /\ Waits(b.key, a, "answered") => m_Nodes[a] \subseteq m_Nodes[b.key]
    BY Zenon DEF ListTrue
  <2>4. CASE b.key # j
    BY <2>1, <2>2, <2>3, <2>4, <1>k, Zenon DEF AddListed, Waits, TablesOK
  <2>5. CASE b.key = j
    <3>1. conn'[j].step = "answered" /\ conn'[j].adder = conn[j].adder
      BY <1>k, Zenon
    <3>2. m_Nodes'[j] = conn[j].list
      BY Zenon DEF AddListed, TablesOK
    <3> QED
      BY <2>2, <2>3, <2>5, <3>1, <3>2, Zenon DEF AddListed, Waits
  <2> QED
    BY <2>4, <2>5, Zenon
<1> QED
  BY <1>s, <1>t0, <1>t1, <1>t2, <1>h, <1>l, Zenon

\* The joiner is confirmed.
LEMMA JoinedStep ==
  ASSUME IInv, NEW j \in Host, Joined(j)
  PROVE  IInv'
<1> USE DEF IInv
<1>n. Len(Seeds) \in Nat /\ MaxStarts \in Nat
  BY MembershipAssumption
<1>m. NoConn \in Conn /\ NoConn.step = "none" /\ NoConn.adder = NULL
  BY Zenon DEF NoConn, Conn, Step
<1>k. conn'[j] = NoConn /\ \A k \in Host \ {j} : conn'[k] = conn[k]
  BY Zenon DEF Joined, ConnOK
<1>s. FifoOK' /\ HandOK' /\ NetOK' /\ HistoryOK'
  BY Zenon DEF Joined, FifoOK, HandOK, NetOK, HistoryOK, tableVars, jobVars, history
<1>t0. StatesOK'
  BY Zenon DEF Joined, StatesOK
<1>t1. TablesOK'
  BY Zenon DEF Joined, TablesOK
<1>t2. ConnOK'
  BY <1>m, Zenon DEF Joined, ConnOK
<1>t3. SeedOK'
  BY <1>k, <1>m, Zenon DEF Joined, SeedOK
<1>h. HandsUp'
  BY Zenon DEF Joined, HandsUp, StatesOK, jobVars
<1>a. \A a \in Host : \A b \in hand'[a] : b.type = "con" /\ b.stage = "listed" =>
        b \in hand[a] /\ m_Nodes'[a] = m_Nodes[a]
  BY Zenon DEF Joined, HandsUp, TablesOK, jobVars
<1>b. \A k, a \in Host : Waits(k, a, "listed")' =>
        Waits(k, a, "listed") /\ conn'[k].list = conn[k].list
  BY <1>k, <1>m, Zenon DEF Joined, Waits, StatesOK
<1>c. \A k, a \in Host : Waits(k, a, "answered")' =>
        Waits(k, a, "answered") /\ m_Nodes'[k] = m_Nodes[k]
  BY <1>k, <1>m, Zenon DEF Joined, Waits, StatesOK, TablesOK
<1>l. ListTrue'
  BY <1>s, <1>a, <1>b, <1>c, ListKept, Zenon
<1> QED
  BY <1>s, <1>t0, <1>t1, <1>t2, <1>t3, <1>h, <1>l, Zenon

\* The joiner is refused.
LEMMA RefusedStep ==
  ASSUME IInv, NEW j \in Host, Refused(j)
  PROVE  IInv'
<1> USE DEF IInv
<1>n. Len(Seeds) \in Nat /\ MaxStarts \in Nat
  BY MembershipAssumption
<1>m. NoConn \in Conn /\ NoConn.step = "none" /\ NoConn.adder = NULL
  BY Zenon DEF NoConn, Conn, Step
<1>k. conn'[j] = NoConn /\ \A k \in Host \ {j} : conn'[k] = conn[k]
  BY Zenon DEF Refused, ConnOK
<1>s. FifoOK' /\ HandOK' /\ NetOK' /\ HistoryOK'
  BY Zenon DEF Refused, FifoOK, HandOK, NetOK, HistoryOK, tableVars, jobVars, history
<1>t0. StatesOK'
  BY Zenon DEF Refused, StatesOK
<1>t1. TablesOK'
  BY Zenon DEF Refused, TablesOK
<1>t2. ConnOK'
  BY <1>m, Zenon DEF Refused, ConnOK
<1>t3. SeedOK'
  BY <1>k, <1>m, Zenon DEF Refused, SeedOK
<1>h. HandsUp'
  BY Zenon DEF Refused, HandsUp, StatesOK, jobVars
<1>a. \A a \in Host : \A b \in hand'[a] : b.type = "con" /\ b.stage = "listed" =>
        b \in hand[a] /\ m_Nodes'[a] = m_Nodes[a]
  BY Zenon DEF Refused, HandsUp, TablesOK, jobVars
<1>b. \A k, a \in Host : Waits(k, a, "listed")' =>
        Waits(k, a, "listed") /\ conn'[k].list = conn[k].list
  BY <1>k, <1>m, Zenon DEF Refused, Waits, StatesOK
<1>c. \A k, a \in Host : Waits(k, a, "answered")' =>
        Waits(k, a, "answered") /\ m_Nodes'[k] = m_Nodes[k]
  BY <1>k, <1>m, Zenon DEF Refused, Waits, StatesOK, TablesOK
<1>l. ListTrue'
  BY <1>s, <1>a, <1>b, <1>c, ListKept, Zenon
<1> QED
  BY <1>s, <1>t0, <1>t1, <1>t2, <1>t3, <1>h, <1>l, Zenon

\* The joiner gives up this seed.
LEMMA FailedStep ==
  ASSUME IInv, NEW j \in Host, Failed(j)
  PROVE  IInv'
<1> USE DEF IInv
<1>n. Len(Seeds) \in Nat /\ MaxStarts \in Nat
  BY MembershipAssumption
<1>m. NoConn \in Conn /\ NoConn.step = "none" /\ NoConn.adder = NULL
  BY Zenon DEF NoConn, Conn, Step
<1>k. conn'[j] = NoConn /\ \A k \in Host \ {j} : conn'[k] = conn[k]
  BY Zenon DEF Failed, ConnOK
<1>s. StatesOK' /\ FifoOK' /\ HandOK' /\ NetOK' /\ HistoryOK'
  BY Zenon DEF Failed, StatesOK, FifoOK, HandOK, NetOK, HistoryOK, tableVars, jobVars, history
<1>t0. TablesOK'
  BY Zenon DEF Failed, TablesOK
<1>t1. ConnOK'
  BY <1>m, Zenon DEF Failed, ConnOK
<1>t2. SeedOK'
  BY <1>n, <1>k, <1>m DEF Failed, SeedOK
<1>h. HandsUp'
  BY Zenon DEF Failed, HandsUp, StatesOK, jobVars
<1>a. \A a \in Host : \A b \in hand'[a] : b.type = "con" /\ b.stage = "listed" =>
        b \in hand[a] /\ m_Nodes'[a] = m_Nodes[a]
  BY Zenon DEF Failed, HandsUp, TablesOK, jobVars
<1>b. \A k, a \in Host : Waits(k, a, "listed")' =>
        Waits(k, a, "listed") /\ conn'[k].list = conn[k].list
  BY <1>k, <1>m, Zenon DEF Failed, Waits, StatesOK
<1>c. \A k, a \in Host : Waits(k, a, "answered")' =>
        Waits(k, a, "answered") /\ m_Nodes'[k] = m_Nodes[k]
  BY <1>k, <1>m, Zenon DEF Failed, Waits, StatesOK, TablesOK
<1>l. ListTrue'
  BY <1>s, <1>a, <1>b, <1>c, ListKept, Zenon
<1> QED
  BY <1>s, <1>t0, <1>t1, <1>t2, <1>h, <1>l, Zenon

\* The joiner gives up this seed after a time-out.
LEMMA JoinTimeoutStep ==
  ASSUME IInv, NEW j \in Host, JoinTimeout(j)
  PROVE  IInv'
<1> USE DEF IInv
<1>n. Len(Seeds) \in Nat /\ MaxStarts \in Nat
  BY MembershipAssumption
<1>m. NoConn \in Conn /\ NoConn.step = "none" /\ NoConn.adder = NULL
  BY Zenon DEF NoConn, Conn, Step
<1>k. conn'[j] = NoConn /\ \A k \in Host \ {j} : conn'[k] = conn[k]
  BY Zenon DEF JoinTimeout, ConnOK
<1>s. StatesOK' /\ FifoOK' /\ HandOK' /\ NetOK'
  BY Zenon DEF JoinTimeout, StatesOK, FifoOK, HandOK, NetOK, jobVars
<1>t0. TablesOK'
  BY Zenon DEF JoinTimeout, TablesOK
<1>t1. ConnOK'
  BY <1>m, Zenon DEF JoinTimeout, ConnOK
<1>t2. SeedOK'
  BY <1>n, <1>k, <1>m DEF JoinTimeout, SeedOK
<1>t3. HistoryOK'
  <2>1. /\ starts \in 0..MaxStarts /\ starts < MaxStarts /\ starts' = starts + 1
        /\ alone' \in BOOLEAN
    BY Zenon DEF JoinTimeout, HistoryOK
  <2>2. starts' \in 0..MaxStarts
    BY <1>n, <2>1
  <2> QED
    BY <2>1, <2>2, Zenon DEF HistoryOK
<1>h. HandsUp'
  BY Zenon DEF JoinTimeout, HandsUp, StatesOK, jobVars
<1>a. \A a \in Host : \A b \in hand'[a] : b.type = "con" /\ b.stage = "listed" =>
        b \in hand[a] /\ m_Nodes'[a] = m_Nodes[a]
  BY Zenon DEF JoinTimeout, HandsUp, TablesOK, jobVars
<1>b. \A k, a \in Host : Waits(k, a, "listed")' =>
        Waits(k, a, "listed") /\ conn'[k].list = conn[k].list
  BY <1>k, <1>m, Zenon DEF JoinTimeout, Waits, StatesOK
<1>c. \A k, a \in Host : Waits(k, a, "answered")' =>
        Waits(k, a, "answered") /\ m_Nodes'[k] = m_Nodes[k]
  BY <1>k, <1>m, Zenon DEF JoinTimeout, Waits, StatesOK, TablesOK
<1>l. ListTrue'
  BY <1>s, <1>a, <1>b, <1>c, ListKept, Zenon
<1> QED
  BY <1>s, <1>t0, <1>t1, <1>t2, <1>t3, <1>h, <1>l, Zenon

\* The adder gives up the joiner.
LEMMA AnswerTimeoutStep ==
  ASSUME IInv, NEW h \in Host, NEW j \in hand[h], AnswerTimeout(h, j)
  PROVE  IInv'
<1> USE DEF IInv
<1>n. MaxStarts \in Nat
  BY MembershipAssumption
<1>u. state[h] = "up" /\ j \in Job /\ j.key \in Host
  BY DEF HandsUp, HandOK, Job
<1>g. /\ HandOK' /\ \A b \in hand'[h] : b \in hand[h]
      /\ \A g \in Host \ {h} : hand'[g] = hand[g]
  BY FinishFacts, Zenon DEF AnswerTimeout
<1>m. conn[j.key] \in Conn /\ conn[j.key].step # "none"
  BY <1>u, Zenon DEF AnswerTimeout, Waits, ConnOK
<1>1. conn' = [conn EXCEPT ![j.key] = [conn[j.key] EXCEPT !.step = "broken"]]
  BY Zenon DEF AnswerTimeout
<1>2. /\ [conn[j.key] EXCEPT !.step = "broken"] \in Conn
      /\ [conn[j.key] EXCEPT !.step = "broken"].step = "broken"
  BY <1>m DEF Conn, Step
<1>k. conn'[j.key].step = "broken" /\ \A k \in Host \ {j.key} : conn'[k] = conn[k]
  BY <1>u, <1>1, <1>2, Zenon DEF ConnOK
<1>s. StatesOK' /\ TablesOK' /\ FifoOK' /\ NetOK'
  BY Zenon DEF AnswerTimeout, StatesOK, TablesOK, FifoOK, NetOK, tableVars
<1>t0. HandOK'
  BY <1>g, Zenon
<1>t1. ConnOK'
  BY <1>u, <1>1, <1>2, Zenon DEF ConnOK
<1>t2. HistoryOK'
  <2>1. /\ starts \in 0..MaxStarts /\ starts < MaxStarts /\ starts' = starts + 1
        /\ alone' \in BOOLEAN
    BY Zenon DEF AnswerTimeout, HistoryOK
  <2>2. starts' \in 0..MaxStarts
    BY <1>n, <2>1
  <2> QED
    BY <2>1, <2>2, Zenon DEF HistoryOK
<1>t3. SeedOK'
  BY <1>u, <1>m, <1>k, Zenon DEF AnswerTimeout, SeedOK
<1>h. HandsUp'
  BY <1>g, <1>u, Zenon DEF AnswerTimeout, HandsUp
<1>a. \A a \in Host : \A b \in hand'[a] : b.type = "con" /\ b.stage = "listed" =>
        b \in hand[a] /\ m_Nodes'[a] = m_Nodes[a]
  BY <1>g, Zenon DEF AnswerTimeout, tableVars
<1>b. \A k, a \in Host : Waits(k, a, "listed")' =>
        Waits(k, a, "listed") /\ conn'[k].list = conn[k].list
  BY <1>k, Zenon DEF AnswerTimeout, Waits
<1>c. \A k, a \in Host : Waits(k, a, "answered")' =>
        Waits(k, a, "answered") /\ m_Nodes'[k] = m_Nodes[k]
  BY <1>k, Zenon DEF AnswerTimeout, Waits, tableVars
<1>l. ListTrue'
  BY <1>g, <1>a, <1>b, <1>c, ListKept, Zenon
<1> QED
  BY <1>s, <1>t0, <1>t1, <1>t2, <1>t3, <1>h, <1>l, Zenon

\* The answer has come, or the joiner has gone.
LEMMA ReceiveExtraDataStep ==
  ASSUME IInv, NEW h \in Host, NEW j \in hand[h], ReceiveExtraData(h, j)
  PROVE  IInv'
<1> USE DEF IInv
<1>u. state[h] = "up" /\ j \in Job /\ j.key \in Host
  BY DEF HandsUp, HandOK, Job
<1>g. /\ HandOK' /\ \A b \in hand'[h] : b \in hand[h] \/ b.stage = "exclusive"
      /\ \A g \in Host \ {h} : hand'[g] = hand[g]
  <2>1. CASE Advance(h, j, "exclusive")
    BY <2>1, <1>u, AdvanceFacts DEF Stage, Job
  <2>2. CASE Finish(h, j)
    BY <2>2, FinishFacts, Zenon
  <2> QED
    BY <2>1, <2>2, Zenon DEF ReceiveExtraData
<1>o. \A a \in Host : \A b \in hand'[a] : b.stage = "listed" => b \in hand[a]
  BY <1>g, Zenon
<1>s. StatesOK' /\ TablesOK' /\ ConnOK' /\ FifoOK' /\ NetOK' /\ HistoryOK' /\ SeedOK'
  BY Zenon DEF ReceiveExtraData, StatesOK, TablesOK, ConnOK, FifoOK, NetOK, HistoryOK, SeedOK,
     tableVars, jobVars, history
<1>t0. HandOK'
  BY <1>g, Zenon
<1>h. HandsUp'
  BY <1>g, <1>u, Zenon DEF ReceiveExtraData, HandsUp
<1>a. \A a \in Host : \A b \in hand'[a] : b.type = "con" /\ b.stage = "listed" =>
        b \in hand[a] /\ m_Nodes'[a] = m_Nodes[a]
  BY <1>o, Zenon DEF ReceiveExtraData, tableVars
<1>b. \A k, a \in Host : Waits(k, a, "listed")' =>
        Waits(k, a, "listed") /\ conn'[k].list = conn[k].list
  BY Zenon DEF ReceiveExtraData, Waits
<1>c. \A k, a \in Host : Waits(k, a, "answered")' =>
        Waits(k, a, "answered") /\ m_Nodes'[k] = m_Nodes[k]
  BY Zenon DEF ReceiveExtraData, Waits, tableVars
<1>l. ListTrue'
  BY <1>g, <1>a, <1>b, <1>c, ListKept, Zenon
<1> QED
  BY <1>s, <1>t0, <1>h, <1>l, Zenon

\* The node is added or refused; nobody waits for an answer here.
LEMMA NewConnectionLockedStep ==
  ASSUME IInv, NEW h \in Host, NEW j \in hand[h], NewConnectionLocked(h, j)
  PROVE  IInv'
<1> USE DEF IInv
<1>u. state[h] = "up" /\ j \in Job /\ j.key \in Host
  BY DEF HandsUp, HandOK, Job
<1>f. \A b \in hand[h] : b.stage # "listed"
  BY Zenon DEF NewConnectionLocked, SharedHeld
<1>g. /\ HandOK' /\ \A b \in hand'[h] : b \in hand[h] \/ b.stage = "after"
      /\ \A g \in Host \ {h} : hand'[g] = hand[g]
  <2>1. CASE Advance(h, j, "after")
    BY <2>1, <1>u, AdvanceFacts DEF Stage, Job
  <2>2. CASE Finish(h, j)
    BY <2>2, FinishFacts, Zenon
  <2> QED
    BY <2>1, <2>2, Zenon DEF NewConnectionLocked
<1>v. \A g \in Host \ {h} : m_Nodes'[g] = m_Nodes[g]
  BY Zenon DEF NewConnectionLocked, TablesOK
<1>k. \A k \in Host : \/ conn'[k] = conn[k]
                      \/ conn'[k].step = "refused" /\ conn[k].step = "answered"
  BY <1>u, Zenon DEF NewConnectionLocked, Waits, ConnOK, Conn
<1>s. StatesOK' /\ FifoOK' /\ NetOK' /\ HistoryOK'
  BY Zenon DEF NewConnectionLocked, StatesOK, FifoOK, NetOK, HistoryOK, tableVars, jobVars,
     history
<1>t0. HandOK'
  BY <1>g, Zenon
<1>t1. TablesOK'
  BY <1>u DEF NewConnectionLocked, TablesOK
<1>t2. ConnOK'
  BY <1>u DEF NewConnectionLocked, ConnOK, Conn, Step
<1>t3. SeedOK'
  BY <1>k, Zenon DEF NewConnectionLocked, SeedOK
<1>h. HandsUp'
  BY <1>g, <1>u, Zenon DEF NewConnectionLocked, HandsUp
<1>a. \A a \in Host : \A b \in hand'[a] : b.type = "con" /\ b.stage = "listed" =>
        b \in hand[a] /\ m_Nodes'[a] = m_Nodes[a]
  BY <1>g, <1>f, <1>v, Zenon DEF NewConnectionLocked
<1>b. \A k, a \in Host : Waits(k, a, "listed")' =>
        Waits(k, a, "listed") /\ conn'[k].list = conn[k].list
  BY <1>k, Zenon DEF NewConnectionLocked, Waits
<1>c. \A k, a \in Host : Waits(k, a, "answered")' =>
        Waits(k, a, "answered") /\ m_Nodes'[k] = m_Nodes[k]
  BY <1>k, <1>u, <1>v, Zenon DEF NewConnectionLocked, Waits
<1>l. ListTrue'
  BY <1>g, <1>a, <1>b, <1>c, ListKept, Zenon
<1> QED
  BY <1>s, <1>t0, <1>t1, <1>t2, <1>t3, <1>h, <1>l, Zenon

\* The others get the news of the new node.
LEMMA NewConnectionAfterLockStep ==
  ASSUME IInv, NEW h \in Host, NEW j \in hand[h], NewConnectionAfterLock(h, j)
  PROVE  IInv'
<1> USE DEF IInv
<1>u. state[h] = "up" /\ j \in Job /\ j.key \in Host
  BY DEF HandsUp, HandOK, Job
<1>g. /\ HandOK' /\ hand'[h] = (hand[h] \ {j}) \cup {[j EXCEPT !.stage = "confirm"]}
      /\ \A g \in Host \ {h} : hand'[g] = hand[g]
  BY AdvanceFacts, Zenon DEF NewConnectionAfterLock, Stage
<1>o. \A a \in Host : \A b \in hand'[a] : b.stage = "listed" => b \in hand[a]
  BY <1>g, <1>u DEF Job
<1>k. /\ ConnOK'
      /\ \A k \in Host : \/ conn'[k] = conn[k]
                         \/ conn'[k].step = "garbled" /\ conn[k].step = "answered"
  BY <1>u, GarbleFacts, Zenon DEF NewConnectionAfterLock
<1>s. StatesOK' /\ TablesOK' /\ FifoOK' /\ HistoryOK'
  BY Zenon DEF NewConnectionAfterLock, StatesOK, TablesOK, FifoOK, HistoryOK, tableVars,
     jobVars, history
<1>t0. HandOK'
  BY <1>g, Zenon
<1>t1. NetOK'
  BY <1>u, SendFacts, Zenon DEF NewConnectionAfterLock, Request
<1>t2. ConnOK'
  BY <1>k, Zenon
<1>t3. SeedOK'
  BY <1>k, Zenon DEF NewConnectionAfterLock, SeedOK
<1>h. HandsUp'
  BY <1>g, <1>u, Zenon DEF NewConnectionAfterLock, HandsUp
<1>a. \A a \in Host : \A b \in hand'[a] : b.type = "con" /\ b.stage = "listed" =>
        b \in hand[a] /\ m_Nodes'[a] = m_Nodes[a]
  BY <1>o, Zenon DEF NewConnectionAfterLock, tableVars
<1>b. \A k, a \in Host : Waits(k, a, "listed")' =>
        Waits(k, a, "listed") /\ conn'[k].list = conn[k].list
  BY <1>k, Zenon DEF NewConnectionAfterLock, Waits
<1>c. \A k, a \in Host : Waits(k, a, "answered")' =>
        Waits(k, a, "answered") /\ m_Nodes'[k] = m_Nodes[k]
  BY <1>k, Zenon DEF NewConnectionAfterLock, Waits, tableVars
<1>l. ListTrue'
  BY <1>g, <1>a, <1>b, <1>c, ListKept, Zenon
<1> QED
  BY <1>s, <1>t0, <1>t1, <1>t2, <1>t3, <1>h, <1>l, Zenon

\* The new node is confirmed.
LEMMA ConfirmStep ==
  ASSUME IInv, NEW h \in Host, NEW j \in hand[h], Confirm(h, j)
  PROVE  IInv'
<1> USE DEF IInv
<1>u. state[h] = "up" /\ j \in Job /\ j.key \in Host
  BY DEF HandsUp, HandOK, Job
<1>g. /\ HandOK' /\ hand'[h] = hand[h] \ {j}
      /\ \A g \in Host \ {h} : hand'[g] = hand[g]
  BY FinishFacts, Zenon DEF Confirm
<1>o. \A a \in Host : \A b \in hand'[a] : b.stage = "listed" => b \in hand[a]
  BY <1>g, <1>u, Zenon DEF Job
<1>k. \A k \in Host : \/ conn'[k] = conn[k]
                      \/ conn'[k].step = "confirmed" /\ conn[k].step = "answered"
  BY <1>u, Zenon DEF Confirm, Waits, ConnOK, Conn
<1>s. StatesOK' /\ TablesOK' /\ FifoOK' /\ NetOK' /\ HistoryOK'
  BY Zenon DEF Confirm, StatesOK, TablesOK, FifoOK, NetOK, HistoryOK, tableVars, jobVars, history
<1>t0. HandOK'
  BY <1>g, Zenon
<1>t1. ConnOK'
  BY <1>u DEF Confirm, ConnOK, Conn, Step
<1>t2. SeedOK'
  BY <1>k, Zenon DEF Confirm, SeedOK
<1>h. HandsUp'
  BY <1>g, <1>u, Zenon DEF Confirm, HandsUp
<1>a. \A a \in Host : \A b \in hand'[a] : b.type = "con" /\ b.stage = "listed" =>
        b \in hand[a] /\ m_Nodes'[a] = m_Nodes[a]
  BY <1>o, Zenon DEF Confirm, tableVars
<1>b. \A k, a \in Host : Waits(k, a, "listed")' =>
        Waits(k, a, "listed") /\ conn'[k].list = conn[k].list
  BY <1>k, Zenon DEF Confirm, Waits
<1>c. \A k, a \in Host : Waits(k, a, "answered")' =>
        Waits(k, a, "answered") /\ m_Nodes'[k] = m_Nodes[k]
  BY <1>k, Zenon DEF Confirm, Waits, tableVars
<1>l. ListTrue'
  BY <1>g, <1>a, <1>b, <1>c, ListKept, Zenon
<1> QED
  BY <1>s, <1>t0, <1>t1, <1>t2, <1>h, <1>l, Zenon

\* A request of another node changes the table; nobody waits for an answer here.
LEMMA ReceiveFromNodeLockedStep ==
  ASSUME IInv, NEW h \in Host, NEW j \in hand[h], ReceiveFromNodeLocked(h, j)
  PROVE  IInv'
<1> USE DEF IInv
<1>u. state[h] = "up" /\ j \in Job /\ j.key \in Host
  BY DEF HandsUp, HandOK, Job
<1>f. \A b \in hand[h] : b.stage # "listed"
  BY Zenon DEF ReceiveFromNodeLocked, SharedHeld
<1>g. /\ HandOK' /\ hand'[h] = hand[h] \ {j}
      /\ \A g \in Host \ {h} : hand'[g] = hand[g]
  BY FinishFacts, Zenon DEF ReceiveFromNodeLocked
<1>o. \A a \in Host : \A b \in hand'[a] : b.stage = "listed" => b \in hand[a]
  BY <1>g, <1>u, Zenon DEF Job
<1>v. \A g \in Host \ {h} : m_Nodes'[g] = m_Nodes[g]
  BY Zenon DEF ReceiveFromNodeLocked, TablesOK
<1>s. StatesOK' /\ ConnOK' /\ FifoOK' /\ NetOK' /\ HistoryOK' /\ SeedOK'
  BY Zenon DEF ReceiveFromNodeLocked, StatesOK, ConnOK, FifoOK, NetOK, HistoryOK, SeedOK,
     tableVars, jobVars, history
<1>t0. HandOK'
  BY <1>g, Zenon
<1>t1. TablesOK'
  BY <1>u, Zenon DEF ReceiveFromNodeLocked, TablesOK
<1>h. HandsUp'
  BY <1>g, <1>u, Zenon DEF ReceiveFromNodeLocked, HandsUp
<1>a. \A a \in Host : \A b \in hand'[a] : b.type = "con" /\ b.stage = "listed" =>
        b \in hand[a] /\ m_Nodes'[a] = m_Nodes[a]
  BY <1>o, <1>f, <1>v, Zenon
<1>b. \A k, a \in Host : Waits(k, a, "listed")' =>
        Waits(k, a, "listed") /\ conn'[k].list = conn[k].list
  BY Zenon DEF ReceiveFromNodeLocked, Waits
<1>c. \A k, a \in Host : Waits(k, a, "answered")' =>
        Waits(k, a, "answered") /\ m_Nodes'[k] = m_Nodes[k]
  BY <1>u, <1>v, Zenon DEF ReceiveFromNodeLocked, Waits
<1>l. ListTrue'
  BY <1>g, <1>a, <1>b, <1>c, ListKept, Zenon
<1> QED
  BY <1>s, <1>t0, <1>t1, <1>h, <1>l, Zenon

\* The leader removes a node; nobody waits for an answer here.
LEMMA InternalLockedStep ==
  ASSUME IInv, NEW h \in Host, NEW j \in hand[h], InternalLocked(h, j)
  PROVE  IInv'
<1> USE DEF IInv
<1>u. state[h] = "up" /\ j \in Job /\ j.key \in Host
  BY DEF HandsUp, HandOK, Job
<1>f. \A b \in hand[h] : b.stage # "listed"
  BY Zenon DEF InternalLocked, SharedHeld
<1>g. /\ HandOK' /\ hand'[h] = (hand[h] \ {j}) \cup {[j EXCEPT !.stage = "after"]}
      /\ \A g \in Host \ {h} : hand'[g] = hand[g]
  BY AdvanceFacts, Zenon DEF InternalLocked, Stage
<1>o. \A a \in Host : \A b \in hand'[a] : b.stage = "listed" => b \in hand[a]
  BY <1>g, <1>u, Zenon DEF Job
<1>v. \A g \in Host \ {h} : m_Nodes'[g] = m_Nodes[g]
  BY Zenon DEF InternalLocked, TablesOK
<1>s. StatesOK' /\ ConnOK' /\ FifoOK' /\ NetOK' /\ HistoryOK' /\ SeedOK'
  BY Zenon DEF InternalLocked, StatesOK, ConnOK, FifoOK, NetOK, HistoryOK, SeedOK, tableVars,
     jobVars, history
<1>t0. HandOK'
  BY <1>g, Zenon
<1>t1. TablesOK'
  BY <1>u, Zenon DEF InternalLocked, TablesOK
<1>h. HandsUp'
  BY <1>g, <1>u, Zenon DEF InternalLocked, HandsUp
<1>a. \A a \in Host : \A b \in hand'[a] : b.type = "con" /\ b.stage = "listed" =>
        b \in hand[a] /\ m_Nodes'[a] = m_Nodes[a]
  BY <1>o, <1>f, <1>v, Zenon
<1>b. \A k, a \in Host : Waits(k, a, "listed")' =>
        Waits(k, a, "listed") /\ conn'[k].list = conn[k].list
  BY Zenon DEF InternalLocked, Waits
<1>c. \A k, a \in Host : Waits(k, a, "answered")' =>
        Waits(k, a, "answered") /\ m_Nodes'[k] = m_Nodes[k]
  BY <1>u, <1>v, Zenon DEF InternalLocked, Waits
<1>l. ListTrue'
  BY <1>g, <1>a, <1>b, <1>c, ListKept, Zenon
<1> QED
  BY <1>s, <1>t0, <1>t1, <1>h, <1>l, Zenon

\* The others get the news of the removal.
LEMMA InternalAfterLockStep ==
  ASSUME IInv, NEW h \in Host, NEW j \in hand[h], InternalAfterLock(h, j)
  PROVE  IInv'
<1> USE DEF IInv
<1>u. state[h] = "up" /\ j \in Job /\ j.key \in Host
  BY DEF HandsUp, HandOK, Job
<1>g. /\ HandOK' /\ hand'[h] = hand[h] \ {j}
      /\ \A g \in Host \ {h} : hand'[g] = hand[g]
  BY FinishFacts, Zenon DEF InternalAfterLock
<1>o. \A a \in Host : \A b \in hand'[a] : b.stage = "listed" => b \in hand[a]
  BY <1>g, <1>u, Zenon DEF Job
<1>k. /\ ConnOK'
      /\ \A k \in Host : \/ conn'[k] = conn[k]
                         \/ conn'[k].step = "garbled" /\ conn[k].step = "answered"
  BY <1>u, GarbleFacts, Zenon DEF InternalAfterLock
<1>s. StatesOK' /\ TablesOK' /\ FifoOK' /\ HistoryOK'
  BY Zenon DEF InternalAfterLock, StatesOK, TablesOK, FifoOK, HistoryOK, tableVars, jobVars,
     history
<1>t0. HandOK'
  BY <1>g, Zenon
<1>t1. NetOK'
  BY <1>u, SendFacts, Zenon DEF InternalAfterLock, Request
<1>t2. ConnOK'
  BY <1>k, Zenon
<1>t3. SeedOK'
  BY <1>k, Zenon DEF InternalAfterLock, SeedOK
<1>h. HandsUp'
  BY <1>g, <1>u, Zenon DEF InternalAfterLock, HandsUp
<1>a. \A a \in Host : \A b \in hand'[a] : b.type = "con" /\ b.stage = "listed" =>
        b \in hand[a] /\ m_Nodes'[a] = m_Nodes[a]
  BY <1>o, Zenon DEF InternalAfterLock, tableVars
<1>b. \A k, a \in Host : Waits(k, a, "listed")' =>
        Waits(k, a, "listed") /\ conn'[k].list = conn[k].list
  BY <1>k, Zenon DEF InternalAfterLock, Waits
<1>c. \A k, a \in Host : Waits(k, a, "answered")' =>
        Waits(k, a, "answered") /\ m_Nodes'[k] = m_Nodes[k]
  BY <1>k, Zenon DEF InternalAfterLock, Waits, tableVars
<1>l. ListTrue'
  BY <1>g, <1>a, <1>b, <1>c, ListKept, Zenon
<1> QED
  BY <1>s, <1>t0, <1>t1, <1>t2, <1>t3, <1>h, <1>l, Zenon

\* A worker takes a job: none in the queue waits for an answer.
LEMMA ExtractStep ==
  ASSUME IInv, NEW h \in Host, Extract(h)
  PROVE  IInv'
<1> USE DEF IInv
<1>1. /\ state[h] = "up"
      /\ \A a \in Host : \A b \in hand'[a] : b \in hand[a] \/ b.stage # "listed"
      /\ \A g \in Host \ {h} : hand'[g] = hand[g] /\ fifo'[g] = fifo[g]
  <2>1. fifo[h] # <<>>
    BY Zenon DEF Extract
  <2> QED
    BY <2>1, ExtractFacts, Zenon DEF HandsUp
<1>s. StatesOK' /\ TablesOK' /\ ConnOK' /\ NetOK' /\ HistoryOK' /\ SeedOK'
  BY Zenon DEF Extract, StatesOK, TablesOK, ConnOK, NetOK, HistoryOK, SeedOK, tableVars,
     jobVars, history
<1>t0. FifoOK'
  BY ExtractFacts, Zenon
<1>t1. HandOK'
  BY ExtractFacts, Zenon
<1>h. HandsUp'
  BY <1>1, Zenon DEF Extract, HandsUp
<1>a. \A a \in Host : \A b \in hand'[a] : b.type = "con" /\ b.stage = "listed" =>
        b \in hand[a] /\ m_Nodes'[a] = m_Nodes[a]
  BY <1>1, Zenon DEF Extract, tableVars
<1>b. \A k, a \in Host : Waits(k, a, "listed")' =>
        Waits(k, a, "listed") /\ conn'[k].list = conn[k].list
  BY Zenon DEF Extract, Waits
<1>c. \A k, a \in Host : Waits(k, a, "answered")' =>
        Waits(k, a, "answered") /\ m_Nodes'[k] = m_Nodes[k]
  BY Zenon DEF Extract, Waits, tableVars
<1>l. ListTrue'
  BY <1>t1, <1>a, <1>b, <1>c, ListKept, Zenon
<1> QED
  BY <1>s, <1>t0, <1>t1, <1>h, <1>l, Zenon

\* The adder sends its table, and waits for the answer.
LEMMA SendListStep ==
  ASSUME IInv, NEW h \in Host, NEW j \in hand[h], SendList(h, j)
  PROVE  IInv'
<1> USE DEF IInv
<1>u. state[h] = "up" /\ j \in Job /\ j.key \in Host
  BY DEF HandsUp, HandOK, Job
<1>v. /\ m_Nodes[h] \in SUBSET Host
      /\ (IF m_pLeaderNode[h] \in m_Nodes[h] THEN m_pLeaderNode[h] ELSE NULL) \in Host \cup {NULL}
  BY Zenon DEF TablesOK
<1>g. /\ HandOK'
      /\ \A b \in hand'[h] : b \in hand[h] \/ (Waits(j.key, h, "connected") /\ b.key = j.key)
      /\ \A g \in Host \ {h} : hand'[g] = hand[g]
  <2>1. CASE Waits(j.key, h, "connected") /\ Advance(h, j, "listed")
    BY <2>1, <1>u, AdvanceFacts DEF Stage, Job
  <2>2. CASE Finish(h, j)
    BY <2>2, FinishFacts, Zenon
  <2> QED
    BY <2>1, <2>2, Zenon DEF SendList
<1>k. \A k \in Host :
        IF k = j.key /\ Waits(j.key, h, "connected")
        THEN /\ conn[k].step = "connected" /\ conn[k].adder = h
             /\ conn'[k].step = "listed" /\ conn'[k].adder = h /\ conn'[k].list = m_Nodes[h]
        ELSE conn'[k] = conn[k]
  BY <1>u DEF SendList, Waits, ConnOK, Conn
<1>s. StatesOK' /\ TablesOK' /\ FifoOK' /\ NetOK' /\ HistoryOK'
  BY Zenon DEF SendList, StatesOK, TablesOK, FifoOK, NetOK, HistoryOK, tableVars, jobVars, history
<1>t0. HandOK'
  BY <1>g, Zenon
<1>t1. ConnOK'
  BY <1>u, <1>v DEF SendList, ConnOK, Conn, Step
<1>t2. SeedOK'
  BY <1>k, Zenon DEF SendList, SeedOK
<1>h. HandsUp'
  BY <1>g, <1>u, Zenon DEF SendList, HandsUp
<1>l. ListTrue'
  <2> SUFFICES ASSUME NEW a \in Host, NEW b \in hand'[a], b.type = "con", b.stage = "listed"
               PROVE  /\ Waits(b.key, a, "listed")' => conn'[b.key].list = m_Nodes[a]
                      /\ Waits(b.key, a, "answered")' => m_Nodes[a] \subseteq m_Nodes[b.key]
    BY Zenon DEF ListTrue, SendList, tableVars
  <2>1. b.key \in Host
    BY <1>g DEF HandOK, Job
  <2>2. CASE b.key = j.key /\ Waits(j.key, h, "connected")
    BY <2>1, <2>2, <1>k DEF SendList, Waits
  <2>3. CASE ~(b.key = j.key /\ Waits(j.key, h, "connected"))
    <3>1. conn'[b.key] = conn[b.key]
      BY <2>1, <2>3, <1>k, Zenon
    <3>2. b \in hand[a]
      BY <2>3, <1>g, Zenon
    <3> QED
      BY <3>1, <3>2 DEF ListTrue, SendList, Waits
  <2> QED
    BY <2>2, <2>3, Zenon
<1> QED
  BY <1>s, <1>t0, <1>t1, <1>t2, <1>h, <1>l, Zenon

\* A request is read, and queued if it is accepted.
LEMMA ReceiveFromSocketAndInformStep ==
  ASSUME IInv, NEW h \in Host, NEW g \in Host, ReceiveFromSocketAndInform(h, g)
  PROVE  IInv'
<1> USE DEF IInv
<1> DEFINE r == Head(net[g][h])
           q == [type |-> "rcv", request |-> r.request, key |-> r.key, stage |-> "first"]
<1>0. net[g][h] \in Seq(Request) /\ net[g][h] # <<>>
  BY Zenon DEF ReceiveFromSocketAndInform, NetOK
<1>1. /\ q \in Queued /\ Tail(net[g][h]) \in Seq(Request) /\ state[h] = "up"
      /\ fifo' = fifo \/ fifo' = [fifo EXCEPT ![h] = Append(@, q)]
  <2>1. r \in Request /\ Tail(net[g][h]) \in Seq(Request)
    BY <1>0
  <2>2. q \in Queued
    BY <2>1, Zenon DEF Request, Queued, Job
  <2> QED
    BY <2>1, <2>2, Zenon DEF ReceiveFromSocketAndInform
<1> HIDE DEF r, q
<1>s. StatesOK' /\ TablesOK' /\ ConnOK' /\ HandOK' /\ HistoryOK' /\ SeedOK'
  BY Zenon DEF ReceiveFromSocketAndInform, StatesOK, TablesOK, ConnOK, HandOK, HistoryOK,
     SeedOK, tableVars, jobVars, history
<1>t0. FifoOK'
  <2>1. CASE fifo' = fifo
    BY <2>1, Zenon DEF FifoOK
  <2>2. CASE fifo' = [fifo EXCEPT ![h] = Append(@, q)]
    BY <1>1, <2>2 DEF FifoOK
  <2> QED
    BY <1>1, <2>1, <2>2, Zenon
<1>t1. NetOK'
  BY <1>1, Zenon DEF ReceiveFromSocketAndInform, NetOK
<1>h. HandsUp'
  BY <1>1, Zenon DEF ReceiveFromSocketAndInform, HandsUp, FifoOK
<1>a. \A a \in Host : \A b \in hand'[a] : b.type = "con" /\ b.stage = "listed" =>
        b \in hand[a] /\ m_Nodes'[a] = m_Nodes[a]
  BY Zenon DEF ReceiveFromSocketAndInform, tableVars
<1>b. \A k, a \in Host : Waits(k, a, "listed")' =>
        Waits(k, a, "listed") /\ conn'[k].list = conn[k].list
  BY Zenon DEF ReceiveFromSocketAndInform, Waits
<1>c. \A k, a \in Host : Waits(k, a, "answered")' =>
        Waits(k, a, "answered") /\ m_Nodes'[k] = m_Nodes[k]
  BY Zenon DEF ReceiveFromSocketAndInform, Waits, tableVars
<1>l. ListTrue'
  BY <1>s, <1>a, <1>b, <1>c, ListKept, Zenon
<1> QED
  BY <1>s, <1>t0, <1>t1, <1>h, <1>l, Zenon

\* The bridge of an unknown node is closed.
LEMMA RefuseBridgeStep ==
  ASSUME IInv, NEW h \in Host, NEW g \in Host, RefuseBridge(h, g)
  PROVE  IInv'
<1> USE DEF IInv
<1>s. StatesOK' /\ TablesOK' /\ ConnOK' /\ FifoOK' /\ HandOK' /\ HistoryOK' /\ SeedOK'
  BY Zenon DEF RefuseBridge, StatesOK, TablesOK, ConnOK, FifoOK, HandOK, HistoryOK, SeedOK,
     tableVars, jobVars, history
<1>t0. NetOK'
  BY DEF RefuseBridge, NetOK
<1>h. HandsUp'
  BY Zenon DEF RefuseBridge, HandsUp, jobVars
<1>a. \A a \in Host : \A b \in hand'[a] : b.type = "con" /\ b.stage = "listed" =>
        b \in hand[a] /\ m_Nodes'[a] = m_Nodes[a]
  BY Zenon DEF RefuseBridge, tableVars, jobVars
<1>b. \A k, a \in Host : Waits(k, a, "listed")' =>
        Waits(k, a, "listed") /\ conn'[k].list = conn[k].list
  BY Zenon DEF RefuseBridge, Waits
<1>c. \A k, a \in Host : Waits(k, a, "answered")' =>
        Waits(k, a, "answered") /\ m_Nodes'[k] = m_Nodes[k]
  BY Zenon DEF RefuseBridge, Waits, tableVars
<1>l. ListTrue'
  BY <1>s, <1>a, <1>b, <1>c, ListKept, Zenon
<1> QED
  BY <1>s, <1>t0, <1>h, <1>l, Zenon

\* The leader queues the removal of a silent node.
LEMMA ReportSilentStep ==
  ASSUME IInv, NEW h \in Host, NEW g \in Host, ReportSilent(h, g)
  PROVE  IInv'
<1> USE DEF IInv
<1> DEFINE q == [type |-> "int", request |-> "removeNode", key |-> g, stage |-> "first"]
<1>1. /\ q \in Queued /\ state[h] = "up"
      /\ fifo' = [fifo EXCEPT ![h] = Append(@, q)]
  BY Zenon DEF ReportSilent, Queued, Job
<1> HIDE DEF q
<1>s. StatesOK' /\ TablesOK' /\ ConnOK' /\ HandOK' /\ NetOK' /\ HistoryOK' /\ SeedOK'
  BY Zenon DEF ReportSilent, StatesOK, TablesOK, ConnOK, HandOK, NetOK, HistoryOK, SeedOK,
     tableVars, jobVars, history
<1>t0. FifoOK'
  BY <1>1 DEF FifoOK
<1>h. HandsUp'
  BY <1>1, Zenon DEF ReportSilent, HandsUp, FifoOK
<1>a. \A a \in Host : \A b \in hand'[a] : b.type = "con" /\ b.stage = "listed" =>
        b \in hand[a] /\ m_Nodes'[a] = m_Nodes[a]
  BY Zenon DEF ReportSilent, tableVars
<1>b. \A k, a \in Host : Waits(k, a, "listed")' =>
        Waits(k, a, "listed") /\ conn'[k].list = conn[k].list
  BY Zenon DEF ReportSilent, Waits
<1>c. \A k, a \in Host : Waits(k, a, "answered")' =>
        Waits(k, a, "answered") /\ m_Nodes'[k] = m_Nodes[k]
  BY Zenon DEF ReportSilent, Waits, tableVars
<1>l. ListTrue'
  BY <1>s, <1>a, <1>b, <1>c, ListKept, Zenon
<1> QED
  BY <1>s, <1>t0, <1>h, <1>l, Zenon

\* A process ends.
LEMMA CrashStep ==
  ASSUME IInv, NEW h \in Host, Crash(h)
  PROVE  IInv'
<1> USE DEF IInv
<1>m. NoConn \in Conn /\ NoConn.step = "none" /\ NoConn.adder = NULL
  BY Zenon DEF NoConn, Conn, Step
<1>n. Workers \in Nat
  BY MembershipAssumption, Zenon
<1>k. \A g \in Host : /\ conn'[g] \in Conn
                      /\ g = h => conn'[g] = NoConn
                      /\ g # h => \/ conn'[g] = conn[g]
                                  \/ conn'[g].step = "broken" /\ conn[g].adder = h
  BY <1>m, ZenonT(30) DEF Crash, ConnOK, Conn, Step
<1>t0. StatesOK'
  BY Zenon DEF Crash, StatesOK
<1>t1. TablesOK'
  BY Zenon DEF Crash, TablesOK
<1>t2. ConnOK'
  BY <1>m, <1>k, Zenon DEF Crash, ConnOK
<1>t3. FifoOK'
  BY DEF Crash, FifoOK
<1>t4. HandOK'
  BY <1>n, FS_EmptySet DEF Crash, HandOK
<1>t5. NetOK'
  BY DEF Crash, NetOK
<1>t6. HistoryOK'
  BY Zenon DEF Crash, HistoryOK
<1>t7. SeedOK'
  BY <1>m, <1>k, MembershipAssumption DEF Crash, SeedOK
<1>h. HandsUp'
  BY Zenon DEF Crash, HandsUp, StatesOK, FifoOK, HandOK
<1>a. \A a \in Host : \A b \in hand'[a] : b.type = "con" /\ b.stage = "listed" =>
        b \in hand[a] /\ m_Nodes'[a] = m_Nodes[a]
  BY Zenon DEF Crash, HandOK, TablesOK
<1>b. \A k, a \in Host : Waits(k, a, "listed")' =>
        Waits(k, a, "listed") /\ conn'[k].list = conn[k].list
  BY <1>m, <1>k, Zenon DEF Crash, Waits, StatesOK
<1>c. \A k, a \in Host : Waits(k, a, "answered")' =>
        Waits(k, a, "answered") /\ m_Nodes'[k] = m_Nodes[k]
  BY <1>m, <1>k, Zenon DEF Crash, Waits, StatesOK, TablesOK
<1>l. ListTrue'
  BY <1>t4, <1>a, <1>b, <1>c, ListKept, Zenon
<1> QED
  BY <1>t0, <1>t1, <1>t2, <1>t3, <1>t4, <1>t5, <1>t6, <1>t7, <1>h, <1>l, Zenon

LEMMA NextIInv == IInv /\ [Next]_vars => IInv'
<1> SUFFICES ASSUME IInv, [Next]_vars PROVE IInv'
  OBVIOUS
<1>1. ASSUME NEW h \in Host, Join(h) PROVE IInv'
  BY <1>1, NextSeedStep, ConnectStep, AddOwnNodeAsLeaderStep, AddListedStep, JoinedStep,
     RefusedStep, FailedStep, Zenon DEF Join
<1>2. ASSUME NEW h \in Host, Work(h) PROVE IInv'
  <2>1. ASSUME NEW j \in hand[h],
               SendList(h, j) \/ ReceiveExtraData(h, j) \/ NewConnectionLocked(h, j)
                 \/ NewConnectionAfterLock(h, j) \/ Confirm(h, j)
        PROVE  IInv'
    BY <2>1, SendListStep, ReceiveExtraDataStep, NewConnectionLockedStep,
       NewConnectionAfterLockStep, ConfirmStep, Zenon
  <2>2. ASSUME NEW j \in hand[h],
               ReceiveFromNodeLocked(h, j) \/ InternalLocked(h, j) \/ InternalAfterLock(h, j)
        PROVE  IInv'
    BY <2>2, ReceiveFromNodeLockedStep, InternalLockedStep, InternalAfterLockStep, Zenon
  <2> QED
    BY <1>2, <2>1, <2>2, ExtractStep, Zenon DEF Work
<1>3. ASSUME NEW h \in Host, NEW g \in Host, Receive(h, g) \/ ReportSilent(h, g) PROVE IInv'
  BY <1>3, ReceiveFromSocketAndInformStep, RefuseBridgeStep, ReportSilentStep, Zenon DEF Receive
<1>4. CASE UNCHANGED vars
  BY <1>4, Zenon DEF vars, tableVars, jobVars, history, IInv, StatesOK, TablesOK, ConnOK, FifoOK,
     HandOK, NetOK, HistoryOK, SeedOK, HandsUp, ListTrue, Waits
<1> QED
  BY <1>1, <1>2, <1>3, <1>4, StartStep, CrashStep, JoinTimeoutStep, AnswerTimeoutStep, Zenon
     DEF Next

LEMMA Invariance == Spec => []IInv
  BY InitIInv, NextIInv, PTL DEF Spec

-----------------------------------------------------------------------------
(* The theorems                                                            *)

\* Type correctness: no process ever has more jobs in hand than the Workers
\* threads that RunAllThreadPrivate started, and no seed past the end of the list
\* is tried.
THEOREM Typing == Spec => []TypeOK
<1>1. IInv => TypeOK
  <2> SUFFICES ASSUME IInv PROVE TypeOK
    OBVIOUS
  <2>1. fifo \in [Host -> Seq(Job)]
    <3>1. \A q \in Seq(Queued) : q \in Seq(Job)
      BY DEF Queued
    <3> QED
      BY <3>1, Zenon DEF IInv, FifoOK
  <2> QED
    BY <2>1, Zenon DEF IInv, TypeOK, StatesOK, TablesOK, ConnOK, Conn, HandOK, NetOK, HistoryOK,
       SeedOK
<1> QED
  BY <1>1, Invariance, PTL

\* However many processes join at a time, at whatever adders, and whatever crashes
\* or times out:
\* when the adder takes the answer of a joiner (tcp/raft_tcp_server.cpp:350), the
\* joiner has every node of the adder's table, which the shared lock has protected
\* since the list was sent.
THEOREM AnswerConfirms == Spec => AnswerConfirmsList
<1>1. ASSUME IInv, NEW a \in Host, NEW j \in hand[a],
             ReceiveExtraData(a, j), Waits(j.key, a, "answered")
      PROVE  m_Nodes[a] \subseteq m_Nodes[j.key]
  BY <1>1, Zenon DEF IInv, ListTrue, ReceiveExtraData
<1>2. IInv => [\A a \in Host : \A j \in hand[a] :
                 ReceiveExtraData(a, j) /\ Waits(j.key, a, "answered")
                   => m_Nodes[a] \subseteq m_Nodes[j.key]]_vars
  BY <1>1, Zenon
<1> QED
  BY <1>2, Invariance, PTL DEF AnswerConfirmsList

-----------------------------------------------------------------------------
(* Agreement.  While every process has started or crashed in a quiet        *)
(* cluster and nothing timed out, at most one process s is on its way in   *)
(* or out, and the cluster is in one of the phases below.  a is the        *)
(* process that spreads the news: the adder of s, or the leader.           *)

Up == {h \in Host : state[h] = "up"}

ConJob(s, stage) == [type |-> "con", request |-> "newNode", key |-> s, stage |-> stage]
IntJob(s, stage) == [type |-> "int", request |-> "removeNode", key |-> s, stage |-> stage]
RcvJob(r, s, stage) == [type |-> "rcv", request |-> r, key |-> s, stage |-> stage]

Nothing(h) == fifo[h] = <<>> /\ hand[h] = {}
Holds(h, q) == fifo[h] = <<>> /\ hand[h] = {q}
NothingBut(a) == \A h \in Host \ {a} : Nothing(h)
NoNews == \A g, h \in Host : net[g][h] = <<>>

Knows(h, s) == s \in m_Nodes[h]
Unknown(s) == \A h \in Up : ~Knows(h, s)

\* All but s has long settled: the tables differ in s at most.
Settled(s) ==
  /\ state[Founder] = "up"
  /\ \A g \in Host \ {s} : state[g] # "joining" /\ conn[g] = NoConn
  /\ \A h \in Up : /\ m_pLeaderNode[h] = Founder
                   /\ \A g \in Host \ {s} : Knows(h, g) <=> g \in Up

\* s has the table of its adder.
HasTable(s) == m_Nodes[s] = Up /\ m_pLeaderNode[s] = Founder

WaitsFor(s, a, step) == Waits(s, a, step) /\ s # a

\* s looks for a seed that answers, and has not passed over the founder.
Trying(s) ==
  /\ state[s] = "joining" /\ conn[s] = NoConn /\ Unknown(s)
  /\ NoNews /\ \A h \in Host : Nothing(h)
  /\ \E i \in 1..Len(Seeds) : Seeds[i] = Founder /\ seed[s] <= i

\* The adder has the connection of s in its queue, or its job in hand: before
\* the list is sent, before and after s has answered, before s is added.
Asked(s, a) ==
  /\ WaitsFor(s, a, "connected") /\ Unknown(s) /\ NoNews /\ NothingBut(a)
  /\ \/ fifo[a] = <<ConJob(s, "first")>> /\ hand[a] = {}
     \/ Holds(a, ConJob(s, "first"))

Listed(s, a) ==
  /\ WaitsFor(s, a, "listed") /\ conn[s].list = Up /\ conn[s].leader = Founder
  /\ Unknown(s) /\ NoNews /\ NothingBut(a) /\ Holds(a, ConJob(s, "listed"))

Answered(s, a) ==
  /\ WaitsFor(s, a, "answered") /\ HasTable(s)
  /\ Unknown(s) /\ NoNews /\ NothingBut(a)
  /\ Holds(a, ConJob(s, "listed")) \/ Holds(a, ConJob(s, "exclusive"))

\* The adder knows s, and nobody else does.
Added(s, a) ==
  /\ WaitsFor(s, a, "answered") /\ HasTable(s)
  /\ \A h \in Up : Knows(h, s) <=> h = a
  /\ NoNews /\ NothingBut(a) /\ Holds(a, ConJob(s, "after"))

\* The news r of s is in one place at each process it has not reached: on its way
\* from a, in the queue, or in the hands of a worker.
Pending(h, a, s, r) ==
  \/ net[a][h] = <<[request |-> r, key |-> s]>> /\ Nothing(h)
  \/ net[a][h] = <<>> /\ fifo[h] = <<RcvJob(r, s, "first")>> /\ hand[h] = {}
  \/ net[a][h] = <<>> /\ Holds(h, RcvJob(r, s, "exclusive"))

Spread(s, a, r) ==
  /\ \A h \in Up \ {a} : IF Knows(h, s) <=> r = "newNode" THEN net[a][h] = <<>> /\ Nothing(h)
                         ELSE Pending(h, a, s, r)
  /\ \A g, h \in Host : g # a \/ h = a \/ h \notin Up => net[g][h] = <<>>

\* The news of the new node is on its way, before and after it is confirmed and
\* has joined.
Joining(s, a) ==
  /\ Knows(a, s) /\ Spread(s, a, "newNode")
  /\ \/ WaitsFor(s, a, "answered") /\ HasTable(s) /\ Holds(a, ConJob(s, "confirm"))
     \/ WaitsFor(s, a, "confirmed") /\ HasTable(s) /\ Nothing(a)
     \/ /\ state[s] = "up" /\ conn[s] = NoConn /\ Nothing(a)
        /\ s = a => \A h \in Up : Knows(h, s)

\* s has crashed, and the leader has not removed it yet, ...
Silent(s) ==
  /\ state[s] = "off" /\ conn[s] = NoConn
  /\ \A h \in Up : Knows(h, s)
  /\ NoNews /\ NothingBut(Founder)
  /\ \/ Nothing(Founder)
     \/ fifo[Founder] = <<IntJob(s, "first")>> /\ hand[Founder] = {}
     \/ Holds(Founder, IntJob(s, "exclusive"))

\* ... has removed it, ...
Removed(s) ==
  /\ state[s] = "off" /\ conn[s] = NoConn
  /\ \A h \in Up : Knows(h, s) <=> h # Founder
  /\ NoNews /\ NothingBut(Founder) /\ Holds(Founder, IntJob(s, "after"))

\* ... and has told the others.
Leaving(s) ==
  /\ state[s] = "off" /\ conn[s] = NoConn
  /\ ~Knows(Founder, s) /\ Spread(s, Founder, "removeNode") /\ Nothing(Founder)

Phase(s) ==
  \/ Trying(s)
  \/ \E a \in Up : Asked(s, a) \/ Listed(s, a) \/ Answered(s, a) \/ Added(s, a)
                     \/ Joining(s, a)
  \/ Silent(s) \/ Removed(s) \/ Leaving(s)

\* The inductive invariant of agreement.
Orderly == alone => \E s \in Host : Settled(s) /\ Phase(s)

\* The founder is one of the configured seeds: without this a process may found a
\* cluster of its own.
FounderIsSeed == \E i \in 1..Len(Seeds) : Seeds[i] = Founder

\* The steps other than the start and the end of a process.
Move ==
  \/ \E h \in Host : Join(h) \/ Work(h)
  \/ \E h, g \in Host : Receive(h, g) \/ ReportSilent(h, g)

\* A worker has nothing to do without a job; with one in hand it does its next
\* phase; one in the queue is extracted.
LEMMA NoWork ==
  ASSUME NEW h \in Host, Nothing(h)
  PROVE  ~Work(h)
BY Zenon DEF Nothing, Work, Extract

LEMMA OneJob ==
  ASSUME NEW h \in Host, NEW q, Holds(h, q), Work(h)
  PROVE  \/ SendList(h, q) \/ ReceiveExtraData(h, q) \/ NewConnectionLocked(h, q)
         \/ NewConnectionAfterLock(h, q) \/ Confirm(h, q)
         \/ ReceiveFromNodeLocked(h, q) \/ InternalLocked(h, q) \/ InternalAfterLock(h, q)
BY Zenon DEF Holds, Work, Extract

LEMMA OneQueued ==
  ASSUME FifoOK, HandOK, NEW h \in Host, NEW q \in Queued, NEW y, fifo[h] = <<q>>, hand[h] = {},
         y = (IF q.type = "con" THEN q ELSE [q EXCEPT !.stage = "exclusive"]), Work(h)
  PROVE  /\ Holds(h, y)'
         /\ \A g \in Host \ {h} : fifo'[g] = fifo[g] /\ hand'[g] = hand[g]
         /\ UNCHANGED <<state, seed, tableVars, conn, net, history>>
<1>1. Extract(h)
  BY Zenon DEF Work
<1>2. Head(fifo[h]) = q /\ Tail(fifo[h]) = <<>>
  OBVIOUS
<1>3. /\ hand' = [hand EXCEPT ![h] = hand[h] \cup {y}]
      /\ fifo' = [fifo EXCEPT ![h] = <<>>]
  BY <1>1, <1>2, Zenon DEF Extract
<1>4. {} \cup {y} = {y}
  BY Zenon
<1> QED
  BY <1>1, <1>3, <1>4, Zenon DEF Holds, Extract, FifoOK, HandOK

\* The only job of a host goes on, or is done.
LEMMA HoldsAdvance ==
  ASSUME HandOK, NEW h \in Host, NEW q, NEW x, NEW y, Holds(h, q), Advance(h, q, x),
         fifo' = fifo, y = [q EXCEPT !.stage = x]
  PROVE  /\ Holds(h, y)'
         /\ \A g \in Host \ {h} : hand'[g] = hand[g]
<1>1. ({q} \ {q}) \cup {y} = {y}
  BY Zenon
<1> QED
  BY <1>1, Zenon DEF Holds, Advance, HandOK

LEMMA HoldsFinish ==
  ASSUME HandOK, NEW h \in Host, NEW q, Holds(h, q), Finish(h, q), fifo' = fifo
  PROVE  /\ Nothing(h)'
         /\ \A g \in Host \ {h} : hand'[g] = hand[g]
<1>1. {q} \ {q} = {}
  BY Zenon
<1> QED
  BY <1>1, Zenon DEF Holds, Nothing, Finish, HandOK

\* The jobs.
LEMMA ConFacts ==
  ASSUME NEW s \in Host, NEW x
  PROVE  /\ ConJob(s, x).type = "con" /\ ConJob(s, x).key = s /\ ConJob(s, x).stage = x
         /\ ConJob(s, "first") \in Queued
         /\ \A y : [ConJob(s, x) EXCEPT !.stage = y] = ConJob(s, y)
BY DEF ConJob, Queued, Job

LEMMA IntFacts ==
  ASSUME NEW s \in Host, NEW x
  PROVE  /\ IntJob(s, x).type = "int" /\ IntJob(s, x).key = s /\ IntJob(s, x).stage = x
         /\ IntJob(s, "first") \in Queued
         /\ \A y : [IntJob(s, x) EXCEPT !.stage = y] = IntJob(s, y)
BY DEF IntJob, Queued, Job

LEMMA RcvFacts ==
  ASSUME NEW s \in Host, NEW r \in {"newNode", "removeNode"}, NEW x
  PROVE  /\ RcvJob(r, s, x).type = "rcv" /\ RcvJob(r, s, x).key = s
         /\ RcvJob(r, s, x).stage = x /\ RcvJob(r, s, x).request = r
         /\ RcvJob(r, s, "first") \in Queued
         /\ \A y : [RcvJob(r, s, x) EXCEPT !.stage = y] = RcvJob(r, s, y)
BY DEF RcvJob, Queued, Job

\* Who is settled stays settled while only s, its connection and what the others
\* know of s change.
LEMMA SettledKept ==
  ASSUME NEW s \in Host, Settled(s), UNCHANGED state,
         \A h \in Up : m_pLeaderNode'[h] = m_pLeaderNode[h],
         \A h \in Up : \A g \in Host \ {s} : g \in m_Nodes'[h] <=> g \in m_Nodes[h],
         \A g \in Host \ {s} : conn'[g] = conn[g]
  PROVE  Settled(s)' /\ Up' = Up
BY Zenon DEF Settled, Up, Knows

\* What can happen while no news is on its way and only a has jobs: s goes on, or a
\* works, or the leader finds s silent.
LEMMA OnlyTwo ==
  ASSUME IInv, NEW s \in Host, NEW a \in Host, Settled(s), NoNews, NothingBut(a), Move
  PROVE  Join(s) \/ Work(a) \/ (ReportSilent(Founder, s) /\ state[s] = "off" /\ Knows(Founder, s))
<1>1. ASSUME NEW h \in Host, Join(h) PROVE h = s
  BY <1>1, Zenon DEF Join, NextSeed, Connect, AddOwnNodeAsLeader, AddListed, Joined, Refused,
     Failed, Settled
<1>2. ASSUME NEW h \in Host, Work(h) PROVE h = a
  BY <1>2, NoWork, Zenon DEF NothingBut
<1>3. \A h, g \in Host : ~Receive(h, g)
  BY Zenon DEF NoNews, Receive, ReceiveFromSocketAndInform, RefuseBridge
<1>4. ASSUME NEW h \in Host, NEW k \in Host, ReportSilent(h, k)
      PROVE  h = Founder /\ k = s /\ state[k] = "off" /\ Knows(h, k)
  <2>1. /\ state[h] = "up" /\ m_pLeaderNode[h] = h /\ k \in m_Nodes[h] /\ state[k] = "off"
    BY <1>4, Zenon DEF ReportSilent
  <2>2. h \in Up /\ k \notin Up
    BY <2>1, Zenon DEF Up
  <2> QED
    BY <2>1, <2>2, Zenon DEF Settled, Knows
<1> QED
  BY <1>1, <1>2, <1>3, <1>4, Zenon DEF Move

-----------------------------------------------------------------------------
(* The phases of a process that joins                                      *)

\* The connection of s and the queue of its adder are all that changes.
LEMMA CalmKept ==
  ASSUME NEW s \in Host, NEW a \in Host, Unknown(s), NoNews, NothingBut(a),
         UNCHANGED <<state, m_Nodes, net>>,
         \A g \in Host \ {a} : fifo'[g] = fifo[g] /\ hand'[g] = hand[g]
  PROVE  Unknown(s)' /\ NoNews' /\ NothingBut(a)'
BY Zenon DEF Unknown, NoNews, NothingBut, Nothing, Up, Knows

\* A joiner that tries the seeds finds one at the founder at the latest.
LEMMA TryingStep ==
  ASSUME IInv, NEW s \in Host, Settled(s), Trying(s), Move
  PROVE  Settled(s)' /\ Phase(s)'
<1>n. Len(Seeds) \in Nat /\ Seeds \in Seq(Host) /\ Founder \in Host
  BY MembershipAssumption
<1>0. /\ state[s] = "joining" /\ conn[s] = NoConn /\ Unknown(s) /\ NoNews
      /\ \A h \in Host : Nothing(h)
      /\ state[Founder] = "up" /\ s # Founder
  BY Zenon DEF Trying, Settled
<1>1. NoConn.step = "none"
  BY Zenon DEF NoConn
<1>2. PICK i \in 1..Len(Seeds) : Seeds[i] = Founder /\ seed[s] <= i
  BY Zenon DEF Trying
<1>3. seed[s] \in 1..(Len(Seeds) + 1)
  BY Zenon DEF IInv, SeedOK
<1>4. seed[s] \in 1..Len(Seeds) /\ seed[s] <= Len(Seeds)
  BY <1>n, <1>2, <1>3
<1>5. Join(s)
  BY <1>0, <1>n, OnlyTwo, NoWork, Zenon DEF NothingBut
<1>6. NextSeed(s) \/ Connect(s)
  <2>1. ~(seed[s] > Len(Seeds))
    BY <1>4, <1>n
  <2>2. conn[s].step = "none"
    BY <1>0, <1>1, Zenon
  <2> QED
    BY <1>5, <2>1, <2>2, Zenon DEF Join, AddOwnNodeAsLeader, AddListed, Joined, Refused, Failed
<1>7. CASE NextSeed(s)
  <2>1. /\ Seeds[seed[s]] = s \/ state[Seeds[seed[s]]] # "up"
        /\ seed' = [seed EXCEPT ![s] = seed[s] + 1]
        /\ UNCHANGED <<state, m_Nodes, m_pLeaderNode, conn, fifo, hand, net>>
    BY <1>7, Zenon DEF NextSeed, tableVars, jobVars
  <2>2. Seeds[seed[s]] # Founder
    BY <1>0, <2>1, Zenon
  <2>3. seed[s] # i
    BY <1>2, <2>2, Zenon
  <2>4. seed'[s] = seed[s] + 1
    BY <2>1, Zenon DEF IInv, SeedOK
  <2>5. seed'[s] <= i
    BY <1>2, <1>4, <1>n, <2>3, <2>4
  <2>6. Settled(s)' /\ Up' = Up
    BY <2>1, SettledKept, Zenon
  <2>7. Trying(s)'
    BY <1>0, <1>2, <2>1, <2>5, <2>6, Zenon DEF Trying, Unknown, NoNews, Nothing, Knows
  <2> QED
    BY <2>6, <2>7, Zenon DEF Phase
<1>8. CASE Connect(s)
  <2>0. Seeds[seed[s]] \in Host
    BY <1>4, <1>n
  <2>1. PICK a \in Host : a = Seeds[seed[s]]
    BY <2>0, Zenon
  <2>2. /\ a # s /\ state[a] = "up"
        /\ conn' = [conn EXCEPT ![s].adder = a, ![s].step = "connected"]
        /\ fifo' = [fifo EXCEPT ![a] = Append(fifo[a], ConJob(s, "first"))]
        /\ UNCHANGED <<state, m_Nodes, m_pLeaderNode, hand, net>>
    BY <1>8, <2>1, Zenon DEF Connect, ConJob, tableVars
  <2>3. /\ \A g \in Host \ {s} : conn'[g] = conn[g]
        /\ conn'[s].adder = a /\ conn'[s].step = "connected"
    BY <2>2 DEF IInv, ConnOK, Conn
  <2>4. Append(<<>>, ConJob(s, "first")) = <<ConJob(s, "first")>>
    OBVIOUS
  <2>5. /\ fifo'[a] = <<ConJob(s, "first")>> /\ hand'[a] = {}
        /\ \A g \in Host \ {a} : fifo'[g] = fifo[g] /\ hand'[g] = hand[g]
    BY <1>0, <2>1, <2>2, <2>4, Zenon DEF IInv, FifoOK, Nothing
  <2>6. NothingBut(a)
    BY <1>0, Zenon DEF NothingBut
  <2>7. Unknown(s)' /\ NoNews' /\ NothingBut(a)'
    BY <1>0, <2>1, <2>2, <2>5, <2>6, CalmKept, Zenon
  <2>8. Settled(s)' /\ Up' = Up
    BY <2>2, <2>3, SettledKept, Zenon
  <2>9. Waits(s, a, "connected")'
    BY <1>0, <2>2, <2>3, Zenon DEF Waits
  <2>10. Asked(s, a)'
    BY <2>2, <2>5, <2>7, <2>9, Zenon DEF Asked, WaitsFor
  <2>11. a \in Up'
    BY <2>1, <2>2, <2>8, Zenon DEF Up
  <2> QED
    BY <2>8, <2>10, <2>11, Zenon DEF Phase
<1> QED
  BY <1>6, <1>7, <1>8, Zenon

\* The adder takes the connection and sends its table, in which s is not.
LEMMA AskedStep ==
  ASSUME IInv, NEW s \in Host, NEW a \in Up, Settled(s), Asked(s, a), Move
  PROVE  Settled(s)' /\ Phase(s)'
<1>0. /\ a \in Host /\ state[a] = "up" /\ s # a /\ Waits(s, a, "connected")
      /\ Unknown(s) /\ NoNews /\ NothingBut(a)
      /\ state[s] = "joining" /\ conn[s].step = "connected" /\ conn[s].adder = a
  BY Zenon DEF Asked, WaitsFor, Waits, Up
<1>1. Work(a)
  <2>1. ~Join(s)
    BY <1>0, Zenon DEF Join, NextSeed, Connect, AddOwnNodeAsLeader, AddListed, Joined, Refused,
       Failed
  <2> QED
    BY <1>0, <2>1, OnlyTwo, Zenon
<1>2. CASE fifo[a] = <<ConJob(s, "first")>> /\ hand[a] = {}
  <2>0. ConJob(s, "first") \in Queued /\ ConJob(s, "first").type = "con"
    BY ConFacts
  <2>1. /\ Holds(a, ConJob(s, "first"))'
        /\ \A g \in Host \ {a} : fifo'[g] = fifo[g] /\ hand'[g] = hand[g]
        /\ UNCHANGED <<state, m_Nodes, m_pLeaderNode, conn, net>>
    BY <1>0, <1>1, <1>2, <2>0, OneQueued, Zenon DEF IInv, tableVars
  <2>2. Unknown(s)' /\ NoNews' /\ NothingBut(a)'
    BY <1>0, <2>1, CalmKept, Zenon
  <2>3. Settled(s)' /\ Up' = Up
    BY <2>1, SettledKept, Zenon
  <2>4. Waits(s, a, "connected")'
    BY <1>0, <2>1, Zenon DEF Waits
  <2>5. Asked(s, a)'
    BY <1>0, <2>1, <2>2, <2>4, Zenon DEF Asked, WaitsFor
  <2> QED
    BY <2>3, <2>5, Zenon DEF Phase
<1>3. CASE Holds(a, ConJob(s, "first"))
  <2>1. SendList(a, ConJob(s, "first"))
    BY <1>0, <1>1, <1>3, OneJob, ConFacts, Zenon DEF ReceiveExtraData, NewConnectionLocked,
       NewConnectionAfterLock, Confirm, ReceiveFromNodeLocked, InternalLocked, InternalAfterLock
  <2>2. /\ conn' = [conn EXCEPT ![s].step = "listed", ![s].list = m_Nodes[a],
                      ![s].leader = IF m_pLeaderNode[a] \in m_Nodes[a]
                                      THEN m_pLeaderNode[a] ELSE NULL]
        /\ Advance(a, ConJob(s, "first"), "listed")
        /\ UNCHANGED <<state, m_Nodes, m_pLeaderNode, fifo, net>>
    <3>1. ConJob(s, "first").key = s
      BY ConFacts
    <3> HIDE DEF ConJob
    <3> QED
      BY <1>0, <2>1, <3>1, Zenon DEF SendList, tableVars
  <2>3. m_Nodes[a] = Up /\ m_pLeaderNode[a] = Founder /\ Founder \in m_Nodes[a]
    <3>1. s \notin m_Nodes[a] /\ s \notin Up /\ m_Nodes[a] \subseteq Host /\ Up \subseteq Host
      BY <1>0, Zenon DEF Unknown, Knows, Up, IInv, TablesOK
    <3>2. \A g \in Host \ {s} : g \in m_Nodes[a] <=> g \in Up
      BY Zenon DEF Settled, Knows
    <3>3. m_Nodes[a] = Up
      BY <3>1, <3>2
    <3>4. Founder \in Up /\ m_pLeaderNode[a] = Founder
      BY MembershipAssumption, Zenon DEF Settled, Up
    <3> QED
      BY <3>3, <3>4, Zenon
  <2>4. /\ \A g \in Host \ {s} : conn'[g] = conn[g]
        /\ conn'[s].adder = a /\ conn'[s].step = "listed"
        /\ conn'[s].list = Up /\ conn'[s].leader = Founder
    BY <1>0, <2>2, <2>3 DEF IInv, ConnOK, Conn
  <2>5. /\ Holds(a, ConJob(s, "listed"))'
        /\ \A g \in Host \ {a} : hand'[g] = hand[g]
    <3>1. [ConJob(s, "first") EXCEPT !.stage = "listed"] = ConJob(s, "listed")
      BY ConFacts
    <3> QED
      BY <1>0, <1>3, <2>2, <3>1, HoldsAdvance, Zenon DEF IInv
  <2>6. Unknown(s)' /\ NoNews' /\ NothingBut(a)'
    BY <1>0, <2>2, <2>5, CalmKept, Zenon
  <2>7. Settled(s)' /\ Up' = Up
    BY <2>2, <2>4, SettledKept, Zenon
  <2>8. Waits(s, a, "listed")'
    BY <1>0, <2>2, <2>4, Zenon DEF Waits
  <2>9. Listed(s, a)'
    BY <1>0, <2>4, <2>5, <2>6, <2>7, <2>8, Zenon DEF Listed, WaitsFor
  <2> QED
    BY <2>7, <2>9, Zenon DEF Phase
<1> QED
  BY <1>2, <1>3, Zenon DEF Asked

\* s adds the nodes of the list; until then the adder waits.
LEMMA ListedStep ==
  ASSUME IInv, NEW s \in Host, NEW a \in Up, Settled(s), Listed(s, a), Move
  PROVE  Settled(s)' /\ Phase(s)'
<1>0. /\ a \in Host /\ state[a] = "up" /\ s # a /\ Waits(s, a, "listed")
      /\ Unknown(s) /\ NoNews /\ NothingBut(a) /\ Holds(a, ConJob(s, "listed"))
      /\ state[s] = "joining" /\ conn[s].step = "listed" /\ conn[s].adder = a
      /\ conn[s].list = Up /\ conn[s].leader = Founder /\ s \notin Up
  BY Zenon DEF Listed, WaitsFor, Waits, Up
<1>f. ConJob(s, "listed").type = "con" /\ ConJob(s, "listed").key = s
      /\ ConJob(s, "listed").stage = "listed"
  BY ConFacts
<1>1. ~Work(a)
  <2>1. ~ReceiveExtraData(a, ConJob(s, "listed"))
    BY <1>0, <1>f, Zenon DEF ReceiveExtraData, Waits
  <2> QED
    BY <1>0, <1>f, <2>1, OneJob, Zenon DEF SendList, NewConnectionLocked,
       NewConnectionAfterLock, Confirm, ReceiveFromNodeLocked, InternalLocked, InternalAfterLock
<1>2. AddListed(s)
  <2>1. Join(s)
    BY <1>0, <1>1, OnlyTwo, Zenon
  <2> QED
    BY <1>0, <2>1, Zenon DEF Join, NextSeed, Connect, AddOwnNodeAsLeader, Joined, Refused, Failed
<1>3. /\ m_Nodes' = [m_Nodes EXCEPT ![s] = Up]
      /\ m_pLeaderNode' = [m_pLeaderNode EXCEPT ![s] = Founder]
      /\ conn' = [conn EXCEPT ![s].step = "answered"]
      /\ UNCHANGED <<state, fifo, hand, net>>
  BY <1>0, <1>2, Zenon DEF AddListed, jobVars
<1>4. /\ \A g \in Host \ {s} : conn'[g] = conn[g]
      /\ conn'[s].adder = a /\ conn'[s].step = "answered"
  BY <1>0, <1>3 DEF IInv, ConnOK, Conn
<1>5. /\ m_Nodes'[s] = Up /\ m_pLeaderNode'[s] = Founder
      /\ \A h \in Up : m_Nodes'[h] = m_Nodes[h] /\ m_pLeaderNode'[h] = m_pLeaderNode[h]
  BY <1>0, <1>3, Zenon DEF IInv, TablesOK, Up
<1>6. Settled(s)' /\ Up' = Up
  BY <1>3, <1>4, <1>5, SettledKept, Zenon
<1>7. Unknown(s)' /\ NoNews' /\ NothingBut(a)' /\ Holds(a, ConJob(s, "listed"))'
  BY <1>0, <1>3, <1>5, <1>6, Zenon DEF Unknown, NoNews, NothingBut, Nothing, Holds, Knows
<1>8. WaitsFor(s, a, "answered")' /\ HasTable(s)'
  BY <1>0, <1>3, <1>4, <1>5, <1>6, Zenon DEF WaitsFor, Waits, HasTable
<1>9. Answered(s, a)'
  BY <1>7, <1>8, Zenon DEF Answered
<1> QED
  BY <1>6, <1>9, Zenon DEF Phase

\* The adder has the answer, and adds s under the exclusive lock.
LEMMA AnsweredStep ==
  ASSUME IInv, NEW s \in Host, NEW a \in Up, Settled(s), Answered(s, a), Move
  PROVE  Settled(s)' /\ Phase(s)'
<1>0. /\ a \in Host /\ state[a] = "up" /\ s # a /\ Waits(s, a, "answered") /\ HasTable(s)
      /\ Unknown(s) /\ NoNews /\ NothingBut(a)
      /\ state[s] = "joining" /\ conn[s].step = "answered" /\ conn[s].adder = a
  BY Zenon DEF Answered, WaitsFor, Waits, Up
<1>1. Work(a)
  <2>1. ~Join(s)
    BY <1>0, Zenon DEF Join, NextSeed, Connect, AddOwnNodeAsLeader, AddListed, Joined, Refused,
       Failed
  <2> QED
    BY <1>0, <2>1, OnlyTwo, Zenon
<1>2. CASE Holds(a, ConJob(s, "listed"))
  <2>f. ConJob(s, "listed").type = "con" /\ ConJob(s, "listed").key = s
        /\ ConJob(s, "listed").stage = "listed"
    BY ConFacts
  <2>1. ReceiveExtraData(a, ConJob(s, "listed"))
    BY <1>0, <1>1, <1>2, <2>f, OneJob, Zenon DEF SendList, NewConnectionLocked,
       NewConnectionAfterLock, Confirm, ReceiveFromNodeLocked, InternalLocked, InternalAfterLock
  <2>2. /\ Advance(a, ConJob(s, "listed"), "exclusive")
        /\ UNCHANGED <<state, m_Nodes, m_pLeaderNode, conn, fifo, net>>
    BY <1>0, <2>1, <2>f, Zenon DEF ReceiveExtraData, tableVars
  <2>3. ConJob(s, "exclusive") = [ConJob(s, "listed") EXCEPT !.stage = "exclusive"]
    BY ConFacts
  <2>4. /\ Holds(a, ConJob(s, "exclusive"))'
        /\ \A g \in Host \ {a} : hand'[g] = hand[g]
    BY <1>0, <1>2, <2>2, <2>3, HoldsAdvance, Zenon DEF IInv
  <2>5. Unknown(s)' /\ NoNews' /\ NothingBut(a)'
    BY <1>0, <2>2, <2>4, CalmKept, Zenon
  <2>6. Settled(s)' /\ Up' = Up
    BY <2>2, SettledKept, Zenon
  <2>7. WaitsFor(s, a, "answered")' /\ HasTable(s)'
    BY <1>0, <2>2, <2>6, Zenon DEF WaitsFor, Waits, HasTable
  <2>8. Answered(s, a)'
    BY <2>4, <2>5, <2>7, Zenon DEF Answered
  <2> QED
    BY <2>6, <2>8, Zenon DEF Phase
<1>3. CASE Holds(a, ConJob(s, "exclusive"))
  <2>f. ConJob(s, "exclusive").type = "con" /\ ConJob(s, "exclusive").key = s
        /\ ConJob(s, "exclusive").stage = "exclusive"
    BY ConFacts
  <2>1. NewConnectionLocked(a, ConJob(s, "exclusive"))
    BY <1>0, <1>1, <1>3, <2>f, OneJob, Zenon DEF SendList, ReceiveExtraData,
       NewConnectionAfterLock, Confirm, ReceiveFromNodeLocked, InternalLocked, InternalAfterLock
  <2>2. s \notin m_Nodes[a]
    BY <1>0, Zenon DEF Unknown, Knows
  <2>3. /\ m_Nodes' = [m_Nodes EXCEPT ![a] = m_Nodes[a] \cup {s}]
        /\ Advance(a, ConJob(s, "exclusive"), "after")
        /\ UNCHANGED <<state, m_pLeaderNode, conn, fifo, net>>
    BY <2>1, <2>2, <2>f, Zenon DEF NewConnectionLocked
  <2>4. ConJob(s, "after") = [ConJob(s, "exclusive") EXCEPT !.stage = "after"]
    BY ConFacts
  <2>5. /\ Holds(a, ConJob(s, "after"))'
        /\ \A g \in Host \ {a} : hand'[g] = hand[g]
    BY <1>0, <1>3, <2>3, <2>4, HoldsAdvance, Zenon DEF IInv
  <2>6. /\ m_Nodes'[a] = m_Nodes[a] \cup {s}
        /\ \A h \in Host \ {a} : m_Nodes'[h] = m_Nodes[h]
    BY <1>0, <2>3, Zenon DEF IInv, TablesOK
  <2>7. Settled(s)' /\ Up' = Up
    <3>1. \A h \in Up : \A g \in Host \ {s} : g \in m_Nodes'[h] <=> g \in m_Nodes[h]
      BY <2>6, Zenon DEF Up
    <3> QED
      BY <2>3, <3>1, SettledKept, Zenon
  <2>8. NoNews' /\ NothingBut(a)'
    BY <1>0, <2>3, <2>5, Zenon DEF NoNews, NothingBut, Nothing
  <2>9. WaitsFor(s, a, "answered")' /\ HasTable(s)'
    BY <1>0, <2>3, <2>6, <2>7, Zenon DEF WaitsFor, Waits, HasTable
  <2>10. \A h \in Up' : Knows(h, s)' <=> h = a
    BY <1>0, <2>6, <2>7, Zenon DEF Unknown, Knows, Up
  <2>11. Added(s, a)'
    BY <2>5, <2>8, <2>9, <2>10, Zenon DEF Added
  <2> QED
    BY <2>7, <2>11, Zenon DEF Phase
<1> QED
  BY <1>2, <1>3, Zenon DEF Answered

\* A request of a to the nodes it knows is on its way to each running process, and to
\* no other.
LEMMA SendToUp ==
  ASSUME NetOK, NEW a \in Up, NEW r, NEW skip \in Host, NoNews,
         SendInformationToAllNodes(a, r, skip),
         \A h \in Host : h \in m_Nodes[a] \ {skip, a} <=> h \in Up \ {a}
  PROVE  /\ \A h \in Up \ {a} : net'[a][h] = <<r>>
         /\ \A g, h \in Host : g # a \/ h = a \/ h \notin Up => net'[g][h] = <<>>
<1>0. a \in Host /\ \A h \in Up : h \in Host /\ Reaches(a, h)
  BY Zenon DEF Up, Reaches
<1> DEFINE row == [g \in Host |->
             IF g \in m_Nodes[a] \ {skip, a} /\ Reaches(a, g) THEN Append(net[a][g], r)
             ELSE net[a][g]]
<1>1. net' = [net EXCEPT ![a] = row]
  BY Zenon DEF SendInformationToAllNodes, NetOK
<1>2. Append(<<>>, r) = <<r>>
  OBVIOUS
<1>3. \A g \in Host : net[a][g] = <<>>
  BY <1>0, Zenon DEF NoNews
<1>4. /\ \A h \in Up \ {a} : row[h] = <<r>>
      /\ \A h \in Host : h = a \/ h \notin Up => row[h] = <<>>
  BY <1>0, <1>2, <1>3, Zenon
<1>5. net'[a] = row /\ \A g \in Host \ {a} : net'[g] = net[g]
  BY <1>0, <1>1, Zenon DEF NetOK
<1> HIDE DEF row
<1>6. \A g \in Host \ {a} : \A h \in Host : net'[g][h] = <<>>
  BY <1>5, Zenon DEF NoNews
<1>7. \A h \in Up \ {a} : net'[a][h] = <<r>>
  BY <1>4, <1>5, Zenon
<1>8. \A h \in Host : h = a \/ h \notin Up => net'[a][h] = <<>>
  BY <1>4, <1>5, Zenon
<1> QED
  BY <1>6, <1>7, <1>8, Zenon

\* No joiner but s reads a request in place of its confirmation.
LEMMA NobodyGarbled ==
  ASSUME NEW s \in Host, NEW h \in Host, NEW skip \in Host, conn' = Garble(h, skip),
         \A g \in Host \ {skip} : conn[g] = NoConn
  PROVE  \A g \in Host : conn'[g] = conn[g]
<1>1. NoConn.step # "answered"
  BY DEF NoConn
<1>2. \A g \in Host : g \notin Garbled(h, skip)
  BY <1>1, Zenon DEF Garbled
<1> QED
  BY <1>2, Zenon DEF Garble

\* The adder sends the news to the others.
LEMMA AddedStep ==
  ASSUME IInv, NEW s \in Host, NEW a \in Up, Settled(s), Added(s, a), Move
  PROVE  Settled(s)' /\ Phase(s)'
<1>0. /\ a \in Host /\ state[a] = "up" /\ s # a /\ Waits(s, a, "answered") /\ HasTable(s)
      /\ NoNews /\ NothingBut(a) /\ Holds(a, ConJob(s, "after"))
      /\ \A h \in Up : Knows(h, s) <=> h = a
      /\ state[s] = "joining" /\ conn[s].step = "answered" /\ conn[s].adder = a
  BY Zenon DEF Added, WaitsFor, Waits, Up
<1>f. ConJob(s, "after").type = "con" /\ ConJob(s, "after").key = s
      /\ ConJob(s, "after").stage = "after"
  BY ConFacts
<1>1. Work(a)
  <2>1. ~Join(s)
    BY <1>0, Zenon DEF Join, NextSeed, Connect, AddOwnNodeAsLeader, AddListed, Joined, Refused,
       Failed
  <2> QED
    BY <1>0, <2>1, OnlyTwo, Zenon
<1>2. NewConnectionAfterLock(a, ConJob(s, "after"))
  BY <1>0, <1>1, <1>f, OneJob, Zenon DEF SendList, ReceiveExtraData, NewConnectionLocked,
     Confirm, ReceiveFromNodeLocked, InternalLocked, InternalAfterLock
<1>3. /\ SendInformationToAllNodes(a, [request |-> "newNode", key |-> s], s)
      /\ conn' = Garble(a, s)
      /\ Advance(a, ConJob(s, "after"), "confirm")
      /\ UNCHANGED <<state, m_Nodes, m_pLeaderNode, fifo>>
  BY <1>2, <1>f, Zenon DEF NewConnectionAfterLock, tableVars
<1>4. \A g \in Host : conn'[g] = conn[g]
  BY <1>0, <1>3, NobodyGarbled, Zenon DEF Settled
<1>5. ConJob(s, "confirm") = [ConJob(s, "after") EXCEPT !.stage = "confirm"]
  BY ConFacts
<1>6. /\ Holds(a, ConJob(s, "confirm"))'
      /\ \A g \in Host \ {a} : hand'[g] = hand[g]
  BY <1>0, <1>3, <1>5, HoldsAdvance, Zenon DEF IInv
<1>7. Settled(s)' /\ Up' = Up
  BY <1>3, <1>4, SettledKept, Zenon
<1>8. \A h \in Host : h \in m_Nodes[a] \ {s, a} <=> h \in Up \ {a}
  BY <1>0, Zenon DEF Settled, Knows, Up
<1>9. /\ \A h \in Up \ {a} : net'[a][h] = <<[request |-> "newNode", key |-> s]>>
      /\ \A g, h \in Host : g # a \/ h = a \/ h \notin Up => net'[g][h] = <<>>
  BY <1>0, <1>3, <1>8, SendToUp, Zenon DEF IInv
<1>10. \A h \in Up \ {a} : Nothing(h)' /\ ~Knows(h, s)'
  BY <1>0, <1>3, <1>6, Zenon DEF NothingBut, Nothing, Knows, Up
<1>11. Spread(s, a, "newNode")'
  BY <1>7, <1>9, <1>10, Zenon DEF Spread, Pending
<1>12. WaitsFor(s, a, "answered")' /\ HasTable(s)' /\ Knows(a, s)'
  BY <1>0, <1>3, <1>4, <1>7, Zenon DEF WaitsFor, Waits, HasTable, Knows
<1>13. Joining(s, a)'
  BY <1>6, <1>11, <1>12, Zenon DEF Joining
<1> QED
  BY <1>7, <1>13, Zenon DEF Phase

-----------------------------------------------------------------------------
(* The news spreads                                                        *)

\* The news r of s has come to h.
Done(h, s, r) == Knows(h, s) <=> r = "newNode"

LEMMA SpreadCases ==
  ASSUME IInv, NEW s \in Host, NEW a \in Up, NEW r, Settled(s), Spread(s, a, r), Move,
         ~(state[s] = "off" /\ Knows(Founder, s))
  PROVE  \/ Join(s) \/ Work(a)
         \/ \E h \in Up \ {a} : ~Done(h, s, r) /\ (Work(h) \/ Receive(h, a))
<1>1. ASSUME NEW h \in Host, Join(h) PROVE h = s
  BY <1>1, Zenon DEF Join, NextSeed, Connect, AddOwnNodeAsLeader, AddListed, Joined, Refused,
     Failed, Settled
<1>2. ASSUME NEW h \in Host, Work(h), h # a PROVE h \in Up \ {a} /\ ~Done(h, s, r)
  <2>1. ~Nothing(h)
    BY <1>2, NoWork, Zenon
  <2>2. h \in Up
    BY <2>1, Zenon DEF IInv, HandsUp, Nothing, Up
  <2> QED
    BY <1>2, <2>1, <2>2, Zenon DEF Spread, Done
<1>3. ASSUME NEW h \in Host, NEW g \in Host, Receive(h, g)
      PROVE  g = a /\ h \in Up \ {a} /\ ~Done(h, s, r)
  <2>1. net[g][h] # <<>>
    BY <1>3, Zenon DEF Receive, ReceiveFromSocketAndInform, RefuseBridge
  <2>2. g = a /\ h \in Up \ {a}
    BY <2>1, Zenon DEF Spread
  <2> QED
    BY <2>1, <2>2, Zenon DEF Spread, Done
<1>4. \A h, k \in Host : ~ReportSilent(h, k)
  <2> SUFFICES ASSUME NEW h \in Host, NEW k \in Host, ReportSilent(h, k) PROVE FALSE
    BY Zenon
  <2>1. state[h] = "up" /\ m_pLeaderNode[h] = h /\ k \in m_Nodes[h] /\ state[k] = "off"
    BY Zenon DEF ReportSilent
  <2>2. h \in Up /\ k \notin Up
    BY <2>1, Zenon DEF Up
  <2> QED
    BY <2>1, <2>2, Zenon DEF Settled, Knows
<1> QED
  BY <1>1, <1>2, <1>3, <1>4, Zenon DEF Move

\* The state of the news at one process h changes, and nothing else.
LEMMA SpreadKept ==
  ASSUME NEW s \in Host, NEW a \in Up, NEW r, Spread(s, a, r), NEW h \in Up \ {a}, Up' = Up,
         \A g \in Host \ {h} : /\ fifo'[g] = fifo[g] /\ hand'[g] = hand[g]
                               /\ m_Nodes'[g] = m_Nodes[g],
         \A g, k \in Host : g # a \/ k # h => net'[g][k] = net[g][k],
         IF Done(h, s, r)' THEN net'[a][h] = <<>> /\ Nothing(h)' ELSE Pending(h, a, s, r)'
  PROVE  Spread(s, a, r)'
<1>1. \A k \in Up : k \in Host
  BY Zenon DEF Up
<1>2. ASSUME NEW k \in Up \ {a}, k # h
      PROVE  IF Done(k, s, r)' THEN net'[a][k] = <<>> /\ Nothing(k)' ELSE Pending(k, a, s, r)'
  <2>1. IF Done(k, s, r) THEN net[a][k] = <<>> /\ Nothing(k) ELSE Pending(k, a, s, r)
    BY Zenon DEF Spread, Done
  <2>2. /\ fifo'[k] = fifo[k] /\ hand'[k] = hand[k] /\ m_Nodes'[k] = m_Nodes[k]
        /\ net'[a][k] = net[a][k]
    BY <1>1, <1>2, Zenon
  <2> QED
    BY <2>1, <2>2, Zenon DEF Done, Knows, Nothing, Pending, Holds
<1>3. \A g, k \in Host : g # a \/ k = a \/ k \notin Up => net'[g][k] = <<>>
  <2> SUFFICES ASSUME NEW g \in Host, NEW k \in Host, g # a \/ k = a \/ k \notin Up
               PROVE  net'[g][k] = <<>>
    BY Zenon
  <2>1. net'[g][k] = net[g][k]
    BY Zenon
  <2> QED
    BY <2>1, Zenon DEF Spread
<1> QED
  BY <1>2, <1>3, Zenon DEF Spread, Done

\* A process that has not heard the news goes on with it: it reads it, takes it
\* from the queue, and changes its table.
LEMMA SpreadMove ==
  ASSUME IInv, NEW s \in Host, NEW a \in Up, NEW r \in {"newNode", "removeNode"},
         Settled(s), Spread(s, a, r), a # s, r = "removeNode" => a = Founder,
         NEW h \in Up \ {a}, ~Done(h, s, r), Work(h) \/ Receive(h, a)
  PROVE  /\ Spread(s, a, r)' /\ Settled(s)' /\ Up' = Up
         /\ UNCHANGED <<state, conn, m_pLeaderNode>>
         /\ \A g \in Host \ {h} : /\ fifo'[g] = fifo[g] /\ hand'[g] = hand[g]
                                  /\ m_Nodes'[g] = m_Nodes[g]
         /\ Done(h, s, r)' \/ m_Nodes'[h] = m_Nodes[h]
<1>0. h \in Host /\ a \in Host /\ state[h] = "up" /\ Pending(h, a, s, r)
  BY Zenon DEF Up, Spread, Done
<1>q. /\ RcvJob(r, s, "first") \in Queued /\ RcvJob(r, s, "first").type = "rcv"
      /\ RcvJob(r, s, "exclusive") = [RcvJob(r, s, "first") EXCEPT !.stage = "exclusive"]
  BY RcvFacts
<1>1. CASE net[a][h] = <<[request |-> r, key |-> s]>> /\ Nothing(h)
  <2> DEFINE m == [request |-> r, key |-> s]
  <2>1. a \in m_Nodes[h] /\ m_pLeaderNode[h] = Founder
    BY <1>0, Zenon DEF Settled, Knows, Up
  <2>2. ReceiveFromSocketAndInform(h, a)
    BY <1>0, <1>1, <2>1, NoWork, Zenon DEF Receive, RefuseBridge
  <2>3. Head(net[a][h]) = m /\ Tail(net[a][h]) = <<>> /\ m.request = r /\ m.key = s
    BY <1>1
  <2>4. Accepts(h, a, m)
    BY <2>1, <2>3, Zenon DEF Accepts, Done, Knows
  <2> HIDE DEF m
  <2>5. /\ fifo' = [fifo EXCEPT ![h] = Append(fifo[h], RcvJob(r, s, "first"))]
        /\ net' = [net EXCEPT ![a][h] = <<>>]
        /\ UNCHANGED <<state, m_Nodes, m_pLeaderNode, conn, hand>>
    BY <2>2, <2>3, <2>4, Zenon DEF ReceiveFromSocketAndInform, RcvJob, tableVars
  <2>6. Append(<<>>, RcvJob(r, s, "first")) = <<RcvJob(r, s, "first")>>
    OBVIOUS
  <2>7. /\ fifo'[h] = <<RcvJob(r, s, "first")>> /\ hand'[h] = {}
        /\ \A g \in Host \ {h} : fifo'[g] = fifo[g]
    BY <1>0, <1>1, <2>5, <2>6, Zenon DEF IInv, FifoOK, Nothing
  <2>8. /\ net'[a][h] = <<>>
        /\ \A g, k \in Host : g # a \/ k # h => net'[g][k] = net[g][k]
    BY <1>0, <2>5 DEF IInv, NetOK
  <2>9. Settled(s)' /\ Up' = Up
    BY <2>5, SettledKept, Zenon
  <2>10. ~Done(h, s, r)' /\ Pending(h, a, s, r)'
    BY <2>5, <2>7, <2>8, Zenon DEF Done, Knows, Pending
  <2>11. Spread(s, a, r)'
    BY <2>5, <2>7, <2>8, <2>9, <2>10, SpreadKept, Zenon
  <2> QED
    BY <2>5, <2>7, <2>9, <2>11, Zenon
<1>2. CASE net[a][h] = <<>> /\ fifo[h] = <<RcvJob(r, s, "first")>> /\ hand[h] = {}
  <2>1. Work(h)
    BY <1>2, Zenon DEF Receive, ReceiveFromSocketAndInform, RefuseBridge
  <2>2. /\ Holds(h, RcvJob(r, s, "exclusive"))'
        /\ \A g \in Host \ {h} : fifo'[g] = fifo[g] /\ hand'[g] = hand[g]
        /\ UNCHANGED <<state, m_Nodes, m_pLeaderNode, conn, net>>
    <3>1. (IF RcvJob(r, s, "first").type = "con" THEN RcvJob(r, s, "first")
           ELSE [RcvJob(r, s, "first") EXCEPT !.stage = "exclusive"]) = RcvJob(r, s, "exclusive")
      BY <1>q
    <3> QED
      BY <1>0, <1>2, <1>q, <2>1, <3>1, OneQueued, Zenon DEF IInv, tableVars
  <2>3. Settled(s)' /\ Up' = Up
    BY <2>2, SettledKept, Zenon
  <2>4. ~Done(h, s, r)' /\ Pending(h, a, s, r)'
    BY <1>2, <2>2, Zenon DEF Done, Knows, Pending
  <2>5. Spread(s, a, r)'
    BY <2>2, <2>3, <2>4, SpreadKept, Zenon
  <2> QED
    BY <2>2, <2>3, <2>5, Zenon
<1>3. CASE net[a][h] = <<>> /\ Holds(h, RcvJob(r, s, "exclusive"))
  <2>f. /\ RcvJob(r, s, "exclusive").type = "rcv" /\ RcvJob(r, s, "exclusive").key = s
        /\ RcvJob(r, s, "exclusive").request = r
    BY RcvFacts
  <2>1. Work(h)
    BY <1>3, Zenon DEF Receive, ReceiveFromSocketAndInform, RefuseBridge
  <2>2. ReceiveFromNodeLocked(h, RcvJob(r, s, "exclusive"))
    BY <1>0, <1>3, <2>1, <2>f, OneJob, Zenon DEF SendList, ReceiveExtraData,
       NewConnectionLocked, NewConnectionAfterLock, Confirm, InternalLocked, InternalAfterLock
  <2>3. /\ m_Nodes' = [m_Nodes EXCEPT ![h] = IF r = "newNode" THEN m_Nodes[h] \cup {s}
                                             ELSE m_Nodes[h] \ {s}]
        /\ Finish(h, RcvJob(r, s, "exclusive"))
        /\ UNCHANGED <<state, m_pLeaderNode, conn, fifo, net>>
    BY <2>2, <2>f, Zenon DEF ReceiveFromNodeLocked
  <2>4. /\ Nothing(h)'
        /\ \A g \in Host \ {h} : hand'[g] = hand[g]
    BY <1>0, <1>3, <2>3, HoldsFinish, Zenon DEF IInv
  <2>5. /\ m_Nodes'[h] = IF r = "newNode" THEN m_Nodes[h] \cup {s} ELSE m_Nodes[h] \ {s}
        /\ \A g \in Host \ {h} : m_Nodes'[g] = m_Nodes[g]
    BY <1>0, <2>3, Zenon DEF IInv, TablesOK
  <2>6. Done(h, s, r)'
    BY <2>5, Zenon DEF Done, Knows
  <2>7. Settled(s)' /\ Up' = Up
    <3>1. \A k \in Up : \A g \in Host \ {s} : g \in m_Nodes'[k] <=> g \in m_Nodes[k]
      BY <2>5, Zenon DEF Up
    <3> QED
      BY <2>3, <3>1, SettledKept, Zenon
  <2>8. Spread(s, a, r)'
    BY <1>3, <2>3, <2>4, <2>5, <2>6, <2>7, SpreadKept, Zenon
  <2> QED
    BY <2>3, <2>4, <2>5, <2>6, <2>7, <2>8, Zenon
<1> QED
  BY <1>0, <1>1, <1>2, <1>3, Zenon DEF Pending

\* The adder confirms, s joins, and the news spreads meanwhile.
LEMMA JoiningStep ==
  ASSUME IInv, NEW s \in Host, NEW a \in Up, Settled(s), Joining(s, a), Move
  PROVE  Settled(s)' /\ Phase(s)'
<1>0. a \in Host /\ state[a] = "up" /\ Knows(a, s) /\ Spread(s, a, "newNode")
  BY Zenon DEF Joining, Up
<1>1. state[s] # "off"
  BY Zenon DEF Joining, WaitsFor, Waits
<1>2. \/ Join(s) \/ Work(a)
      \/ \E h \in Up \ {a} : ~Done(h, s, "newNode") /\ (Work(h) \/ Receive(h, a))
  BY <1>0, <1>1, SpreadCases, Zenon
<1>3. CASE Join(s)
  <2>0. state[s] = "joining" /\ conn[s].step # "answered"
    BY <1>3, Zenon DEF Join, NextSeed, Connect, AddOwnNodeAsLeader, AddListed, Joined, Refused,
       Failed
  <2>1. /\ Joined(s) /\ state[s] = "joining" /\ s # a /\ HasTable(s) /\ Nothing(a)
    <3>1. WaitsFor(s, a, "confirmed") /\ HasTable(s) /\ Nothing(a)
      BY <2>0, Zenon DEF Joining, WaitsFor, Waits
    <3>2. s # a /\ conn[s].step = "confirmed"
      BY <3>1, Zenon DEF WaitsFor, Waits
    <3>3. Joined(s)
      BY <1>3, <3>2, Zenon DEF Join, NextSeed, Connect, AddOwnNodeAsLeader, AddListed, Refused,
         Failed
    <3> QED
      BY <2>0, <3>1, <3>2, <3>3, Zenon
  <2>2. /\ m_Nodes' = [m_Nodes EXCEPT ![s] = m_Nodes[s] \cup {s}]
        /\ state' = [state EXCEPT ![s] = "up"]
        /\ conn' = [conn EXCEPT ![s] = NoConn]
        /\ UNCHANGED <<m_pLeaderNode, fifo, hand, net>>
    BY <2>1, Zenon DEF Joined, jobVars
  <2>3. /\ m_Nodes'[s] = Up \cup {s} /\ state'[s] = "up" /\ conn'[s] = NoConn
        /\ \A g \in Host \ {s} : m_Nodes'[g] = m_Nodes[g] /\ state'[g] = state[g]
                                   /\ conn'[g] = conn[g]
    BY <2>1, <2>2, Zenon DEF IInv, TablesOK, StatesOK, ConnOK, HasTable
  <2>4. \A h \in Host : h \in Up' <=> h \in Up \/ h = s
    BY <2>3, Zenon DEF Up
  <2>5. s \notin Up /\ Nothing(s) /\ net[a][s] = <<>>
    <3>1. s \notin Up
      BY <2>1, Zenon DEF Up
    <3> QED
      BY <1>0, <2>1, <3>1, Zenon DEF Spread, IInv, HandsUp, Nothing
  <2>6. Settled(s)'
    <3>1. state'[Founder] = "up"
      BY <2>3, MembershipAssumption, Zenon DEF Settled
    <3>2. \A g \in Host \ {s} : state'[g] # "joining" /\ conn'[g] = NoConn
      BY <2>3, Zenon DEF Settled
    <3>3. ASSUME NEW h \in Host, h \in Up', NEW g \in Host \ {s}
          PROVE  m_pLeaderNode'[h] = Founder /\ (g \in m_Nodes'[h] <=> g \in Up')
      BY <2>1, <2>2, <2>3, <2>4, <3>3, Zenon DEF Settled, Knows, HasTable
    <3>4. \A h \in Up' : h \in Host
      BY Zenon DEF Up
    <3>5. \A h \in Host : h \in Up' => m_pLeaderNode'[h] = Founder
      BY <2>1, <2>2, <2>4, Zenon DEF Settled, HasTable
    <3> QED
      BY <3>1, <3>2, <3>3, <3>4, <3>5, Zenon DEF Settled, Knows
  <2>7. Spread(s, a, "newNode")'
    <3>1. ASSUME NEW h \in Up \ {a}
          PROVE  IF Knows(h, s)' THEN net'[a][h] = <<>> /\ Nothing(h)'
                 ELSE Pending(h, a, s, "newNode")'
      <4>1. IF Knows(h, s) THEN net[a][h] = <<>> /\ Nothing(h) ELSE Pending(h, a, s, "newNode")
        BY <1>0, Zenon DEF Spread
      <4>2. m_Nodes'[h] = m_Nodes[h]
        BY <2>3, <2>5, Zenon DEF Up
      <4> QED
        BY <2>2, <4>1, <4>2, Zenon DEF Knows, Nothing, Pending, Holds
    <3>2. Knows(s, s)' /\ net'[a][s] = <<>> /\ Nothing(s)'
      BY <2>2, <2>3, <2>5, Zenon DEF Knows, Nothing
    <3>3. \A h \in Up' : h \in Host
      BY Zenon DEF Up
    <3>4. \A g, h \in Host : g # a \/ h = a \/ h \notin Up' => net'[g][h] = <<>>
      BY <1>0, <2>2, <2>4, Zenon DEF Spread
    <3>5. \A h \in Up' \ {a} : IF Knows(h, s)' THEN net'[a][h] = <<>> /\ Nothing(h)'
                               ELSE Pending(h, a, s, "newNode")'
      BY <2>4, <3>1, <3>2, <3>3, Zenon
    <3> QED
      BY <3>4, <3>5, Zenon DEF Spread
  <2>8. Joining(s, a)' /\ a \in Up'
    BY <1>0, <2>1, <2>2, <2>3, <2>4, <2>7, Zenon DEF Joining, Knows, Nothing
  <2> QED
    BY <2>6, <2>8, Zenon DEF Phase
<1>4. CASE Work(a)
  <2>1. WaitsFor(s, a, "answered") /\ HasTable(s) /\ Holds(a, ConJob(s, "confirm"))
    BY <1>0, <1>4, NoWork, Zenon DEF Joining
  <2>f. ConJob(s, "confirm").type = "con" /\ ConJob(s, "confirm").key = s
        /\ ConJob(s, "confirm").stage = "confirm"
    BY ConFacts
  <2>2. Confirm(a, ConJob(s, "confirm"))
    BY <1>0, <1>4, <2>1, <2>f, OneJob, Zenon DEF SendList, ReceiveExtraData,
       NewConnectionLocked, NewConnectionAfterLock, ReceiveFromNodeLocked, InternalLocked,
       InternalAfterLock
  <2>3. /\ conn' = [conn EXCEPT ![s].step = "confirmed"]
        /\ Finish(a, ConJob(s, "confirm"))
        /\ UNCHANGED <<state, m_Nodes, m_pLeaderNode, fifo, net>>
    BY <2>1, <2>2, <2>f, Zenon DEF Confirm, WaitsFor, tableVars
  <2>4. /\ \A g \in Host \ {s} : conn'[g] = conn[g]
        /\ conn'[s].adder = conn[s].adder /\ conn'[s].step = "confirmed"
    BY <2>3 DEF IInv, ConnOK, Conn
  <2>5. Nothing(a)' /\ \A g \in Host \ {a} : hand'[g] = hand[g]
    BY <1>0, <2>1, <2>3, HoldsFinish, Zenon DEF IInv
  <2>6. Settled(s)' /\ Up' = Up
    BY <2>3, <2>4, SettledKept, Zenon
  <2>7. Spread(s, a, "newNode")'
    <3>1. \A h \in Up \ {a} : hand'[h] = hand[h]
      BY <2>5, Zenon DEF Up
    <3> QED
      BY <1>0, <2>3, <2>6, <3>1, Zenon DEF Spread, Knows, Nothing, Pending, Holds
  <2>8. WaitsFor(s, a, "confirmed")' /\ HasTable(s)' /\ Knows(a, s)'
    BY <1>0, <2>1, <2>3, <2>4, <2>6, Zenon DEF WaitsFor, Waits, HasTable, Knows
  <2>9. Joining(s, a)'
    BY <2>5, <2>7, <2>8, Zenon DEF Joining
  <2> QED
    BY <2>6, <2>9, Zenon DEF Phase
<1>5. CASE \E h \in Up \ {a} : ~Done(h, s, "newNode") /\ (Work(h) \/ Receive(h, a))
  <2>1. PICK h \in Up \ {a} : ~Done(h, s, "newNode") /\ (Work(h) \/ Receive(h, a))
    BY <1>5, Zenon
  <2>2. s # a
    BY <2>1, Zenon DEF Joining, WaitsFor, Done
  <2>3. /\ Spread(s, a, "newNode")' /\ Settled(s)' /\ Up' = Up
        /\ UNCHANGED <<state, conn, m_pLeaderNode>>
        /\ \A g \in Host \ {h} : /\ fifo'[g] = fifo[g] /\ hand'[g] = hand[g]
                                 /\ m_Nodes'[g] = m_Nodes[g]
        /\ Done(h, s, "newNode")' \/ m_Nodes'[h] = m_Nodes[h]
    BY <1>0, <2>1, <2>2, SpreadMove, Zenon
  <2>4. fifo'[a] = fifo[a] /\ hand'[a] = hand[a] /\ m_Nodes'[a] = m_Nodes[a]
    BY <1>0, <2>1, <2>3, Zenon
  <2>5. state[s] = "joining" => m_Nodes'[s] = m_Nodes[s]
    BY <2>1, <2>3, Zenon DEF Up
  <2>6. Knows(a, s)' /\ (Nothing(a) => Nothing(a)')
    BY <1>0, <2>4, Zenon DEF Knows, Nothing
  <2>7. CASE WaitsFor(s, a, "answered") /\ HasTable(s) /\ Holds(a, ConJob(s, "confirm"))
    <3>1. WaitsFor(s, a, "answered")' /\ HasTable(s)' /\ Holds(a, ConJob(s, "confirm"))'
      BY <2>3, <2>4, <2>5, <2>7, Zenon DEF WaitsFor, Waits, HasTable, Holds
    <3> QED
      BY <2>3, <2>6, <3>1, Zenon DEF Joining, Phase
  <2>8. CASE WaitsFor(s, a, "confirmed") /\ HasTable(s) /\ Nothing(a)
    <3>1. WaitsFor(s, a, "confirmed")' /\ HasTable(s)'
      BY <2>3, <2>5, <2>8, Zenon DEF WaitsFor, Waits, HasTable
    <3> QED
      BY <2>3, <2>6, <2>8, <3>1, Zenon DEF Joining, Phase
  <2>9. CASE state[s] = "up" /\ conn[s] = NoConn /\ Nothing(a)
    BY <2>2, <2>3, <2>6, <2>9, Zenon DEF Joining, Phase
  <2> QED
    BY <2>7, <2>8, <2>9, Zenon DEF Joining
<1> QED
  BY <1>2, <1>3, <1>4, <1>5, Zenon

-----------------------------------------------------------------------------
(* The phases of a process that has crashed                                *)

\* The leader finds s silent and removes it under the exclusive lock.
LEMMA SilentStep ==
  ASSUME IInv, NEW s \in Host, Settled(s), Silent(s), Move
  PROVE  Settled(s)' /\ Phase(s)'
<1> DEFINE F == Founder
<1>0. /\ F \in Host /\ F \in Up /\ state[F] = "up" /\ state[s] = "off" /\ conn[s] = NoConn
      /\ \A h \in Up : Knows(h, s)
      /\ NoNews /\ NothingBut(F) /\ F # s
  BY MembershipAssumption, Zenon DEF Silent, Settled, Up
<1>j. ~Join(s)
  BY <1>0, Zenon DEF Join, NextSeed, Connect, AddOwnNodeAsLeader, AddListed, Joined, Refused,
     Failed
<1>1. Work(F) \/ ReportSilent(F, s)
  BY <1>0, <1>j, OnlyTwo, Zenon
<1>f. /\ IntJob(s, "first") \in Queued /\ IntJob(s, "first").type = "int"
      /\ IntJob(s, "exclusive") = [IntJob(s, "first") EXCEPT !.stage = "exclusive"]
      /\ IntJob(s, "exclusive").type = "int" /\ IntJob(s, "exclusive").key = s
      /\ IntJob(s, "exclusive").stage = "exclusive"
      /\ IntJob(s, "after") = [IntJob(s, "exclusive") EXCEPT !.stage = "after"]
  BY IntFacts
<1> HIDE DEF F
<1>c. ASSUME UNCHANGED <<state, m_Nodes, m_pLeaderNode, conn, net>>,
             \A g \in Host \ {F} : fifo'[g] = fifo[g] /\ hand'[g] = hand[g],
             \/ fifo'[F] = <<IntJob(s, "first")>> /\ hand'[F] = {}
             \/ Holds(F, IntJob(s, "exclusive"))'
      PROVE  Settled(s)' /\ Phase(s)'
  <2>1. Settled(s)' /\ Up' = Up
    BY <1>c, SettledKept, Zenon
  <2>2. Silent(s)'
    BY <1>0, <1>c, <2>1, Zenon DEF Silent, NoNews, NothingBut, Nothing, Knows, F
  <2> QED
    BY <2>1, <2>2, Zenon DEF Phase
<1>2. CASE Nothing(F)
  <2>1. ReportSilent(F, s)
    BY <1>0, <1>1, <1>2, NoWork, Zenon
  <2>2. /\ fifo' = [fifo EXCEPT ![F] = Append(fifo[F], IntJob(s, "first"))]
        /\ UNCHANGED <<state, m_Nodes, m_pLeaderNode, conn, hand, net>>
    BY <2>1, Zenon DEF ReportSilent, IntJob, tableVars
  <2>3. Append(<<>>, IntJob(s, "first")) = <<IntJob(s, "first")>>
    OBVIOUS
  <2>4. /\ fifo'[F] = <<IntJob(s, "first")>> /\ hand'[F] = {}
        /\ \A g \in Host \ {F} : fifo'[g] = fifo[g] /\ hand'[g] = hand[g]
    BY <1>0, <1>2, <2>2, <2>3, Zenon DEF IInv, FifoOK, Nothing
  <2> QED
    BY <1>c, <2>2, <2>4, Zenon
<1>3. CASE fifo[F] = <<IntJob(s, "first")>> /\ hand[F] = {}
  <2>1. ~ReportSilent(F, s)
    <3>1. Len(fifo[F]) = 1 /\ fifo[F][1] = IntJob(s, "first") /\ 1 \in 1..1
      BY <1>3
    <3> QED
      BY <3>1, Zenon DEF ReportSilent, IntJob
  <2>2. IntJob(s, "exclusive") = (IF IntJob(s, "first").type = "con" THEN IntJob(s, "first")
          ELSE [IntJob(s, "first") EXCEPT !.stage = "exclusive"])
    BY <1>f
  <2>3. /\ Holds(F, IntJob(s, "exclusive"))'
        /\ \A g \in Host \ {F} : fifo'[g] = fifo[g] /\ hand'[g] = hand[g]
        /\ UNCHANGED <<state, m_Nodes, m_pLeaderNode, conn, net>>
    BY <1>0, <1>1, <1>3, <1>f, <2>1, <2>2, OneQueued, Zenon DEF IInv, tableVars
  <2> QED
    BY <1>c, <2>3, Zenon
<1>4. CASE Holds(F, IntJob(s, "exclusive"))
  <2>1. ~ReportSilent(F, s)
    BY <1>4, <1>f, Zenon DEF ReportSilent, Holds
  <2>2. InternalLocked(F, IntJob(s, "exclusive"))
    BY <1>0, <1>1, <1>4, <1>f, <2>1, OneJob, Zenon DEF SendList, ReceiveExtraData,
       NewConnectionLocked, NewConnectionAfterLock, Confirm, ReceiveFromNodeLocked,
       InternalAfterLock
  <2>3. /\ m_Nodes' = [m_Nodes EXCEPT ![F] = m_Nodes[F] \ {s}]
        /\ Advance(F, IntJob(s, "exclusive"), "after")
        /\ UNCHANGED <<state, m_pLeaderNode, conn, fifo, net>>
    BY <1>f, <2>2, Zenon DEF InternalLocked
  <2>4. /\ Holds(F, IntJob(s, "after"))'
        /\ \A g \in Host \ {F} : hand'[g] = hand[g]
    BY <1>0, <1>4, <1>f, <2>3, HoldsAdvance, Zenon DEF IInv
  <2>5. /\ m_Nodes'[F] = m_Nodes[F] \ {s}
        /\ \A g \in Host \ {F} : m_Nodes'[g] = m_Nodes[g]
    BY <1>0, <2>3, Zenon DEF IInv, TablesOK
  <2>6. Settled(s)' /\ Up' = Up
    <3>1. \A k \in Up : \A g \in Host \ {s} : g \in m_Nodes'[k] <=> g \in m_Nodes[k]
      BY <2>5, Zenon DEF Up
    <3> QED
      BY <2>3, <3>1, SettledKept, Zenon
  <2>7. \A h \in Up' : Knows(h, s)' <=> h # F
    BY <1>0, <2>5, <2>6, Zenon DEF Knows, Up
  <2>8. Removed(s)'
    BY <1>0, <2>3, <2>4, <2>7, Zenon DEF Removed, NoNews, NothingBut, Nothing, F
  <2> QED
    BY <2>6, <2>8, Zenon DEF Phase
<1> QED
  BY <1>2, <1>3, <1>4, Zenon DEF Silent, F

\* The leader sends the news to the others.
LEMMA RemovedStep ==
  ASSUME IInv, NEW s \in Host, Settled(s), Removed(s), Move
  PROVE  Settled(s)' /\ Phase(s)'
<1>0. /\ Founder \in Host /\ Founder \in Up /\ state[s] = "off" /\ conn[s] = NoConn /\ s \notin Up
      /\ \A h \in Up : Knows(h, s) <=> h # Founder
      /\ NoNews /\ NothingBut(Founder) /\ Holds(Founder, IntJob(s, "after"))
  BY MembershipAssumption, Zenon DEF Removed, Settled, Up
<1>f. IntJob(s, "after").type = "int" /\ IntJob(s, "after").key = s
      /\ IntJob(s, "after").stage = "after"
  BY IntFacts
<1>1. Work(Founder)
  <2>1. ~Join(s)
    BY <1>0, Zenon DEF Join, NextSeed, Connect, AddOwnNodeAsLeader, AddListed, Joined, Refused,
       Failed
  <2> QED
    BY <1>0, <2>1, OnlyTwo, Zenon
<1>2. InternalAfterLock(Founder, IntJob(s, "after"))
  BY <1>0, <1>1, <1>f, OneJob, Zenon DEF SendList, ReceiveExtraData, NewConnectionLocked,
     NewConnectionAfterLock, Confirm, ReceiveFromNodeLocked, InternalLocked
<1>3. /\ SendInformationToAllNodes(Founder, [request |-> "removeNode", key |-> s], Founder)
      /\ conn' = Garble(Founder, Founder)
      /\ Finish(Founder, IntJob(s, "after"))
      /\ UNCHANGED <<state, m_Nodes, m_pLeaderNode, fifo>>
  BY <1>2, <1>f, Zenon DEF InternalAfterLock, tableVars
<1>4. \A g \in Host : conn'[g] = conn[g]
  BY <1>0, <1>3, NobodyGarbled, Zenon DEF Settled
<1>5. Nothing(Founder)' /\ \A g \in Host \ {Founder} : hand'[g] = hand[g]
  BY <1>0, <1>3, HoldsFinish, Zenon DEF IInv
<1>6. Settled(s)' /\ Up' = Up
  BY <1>3, <1>4, SettledKept, Zenon
<1>7. \A h \in Host : h \in m_Nodes[Founder] \ {Founder, Founder} <=> h \in Up \ {Founder}
  BY <1>0, Zenon DEF Settled, Knows, Up
<1>8. /\ \A h \in Up \ {Founder} :
           net'[Founder][h] = <<[request |-> "removeNode", key |-> s]>>
      /\ \A g, h \in Host : g # Founder \/ h = Founder \/ h \notin Up => net'[g][h] = <<>>
  BY <1>0, <1>3, <1>7, SendToUp, Zenon DEF IInv
<1>9. \A h \in Up \ {Founder} : Nothing(h)' /\ Knows(h, s)'
  BY <1>0, <1>3, <1>5, Zenon DEF NothingBut, Nothing, Knows, Up
<1>10. Spread(s, Founder, "removeNode")'
  BY <1>6, <1>8, <1>9, Zenon DEF Spread, Pending
<1>11. Leaving(s)'
  BY <1>0, <1>3, <1>4, <1>5, <1>10, Zenon DEF Leaving, Knows
<1> QED
  BY <1>6, <1>11, Zenon DEF Phase

\* The news of the removal spreads.
LEMMA LeavingStep ==
  ASSUME IInv, NEW s \in Host, Settled(s), Leaving(s), Move
  PROVE  Settled(s)' /\ Phase(s)'
<1>0. /\ Founder \in Host /\ Founder \in Up /\ state[s] = "off" /\ conn[s] = NoConn /\ s \notin Up
      /\ ~Knows(Founder, s) /\ Spread(s, Founder, "removeNode") /\ Nothing(Founder)
  BY MembershipAssumption, Zenon DEF Leaving, Settled, Up
<1>1. ~Join(s) /\ ~Work(Founder)
  BY <1>0, NoWork, Zenon DEF Join, NextSeed, Connect, AddOwnNodeAsLeader, AddListed, Joined,
     Refused, Failed
<1>2. PICK h \in Up \ {Founder} :
        ~Done(h, s, "removeNode") /\ (Work(h) \/ Receive(h, Founder))
  BY <1>0, <1>1, SpreadCases, Zenon
<1>3. /\ Spread(s, Founder, "removeNode")' /\ Settled(s)'
      /\ UNCHANGED <<state, conn, m_pLeaderNode>>
      /\ \A g \in Host \ {h} : /\ fifo'[g] = fifo[g] /\ hand'[g] = hand[g]
                               /\ m_Nodes'[g] = m_Nodes[g]
  BY <1>0, <1>2, SpreadMove, Zenon
<1>4. Leaving(s)'
  BY <1>0, <1>2, <1>3, Zenon DEF Leaving, Knows, Nothing
<1> QED
  BY <1>3, <1>4, Zenon DEF Phase

-----------------------------------------------------------------------------
(* A quiet cluster                                                         *)

\* When nothing is on its way the tables are exact.
LEMMA QuietExact ==
  ASSUME IInv, NEW s \in Host, Settled(s), Phase(s), Quiet
  PROVE  /\ state[Founder] = "up" /\ \A g \in Host : state[g] # "joining" /\ conn[g] = NoConn
         /\ \A h \in Up : m_pLeaderNode[h] = Founder /\ m_Nodes[h] = Up
<1>0. /\ Founder \in Host /\ Founder \in Up /\ Up \subseteq Host
      /\ \A h \in Host : state[h] # "joining" /\ Nothing(h)
      /\ NoNews
  BY MembershipAssumption, Zenon DEF Settled, Up, Quiet, Nothing, NoNews
<1>1. \A h \in Host : \A q : ~Holds(h, q)
  BY <1>0, Zenon DEF Holds, Nothing
<1>2. \A h, a, x \in Host : \A r : ~Pending(h, a, x, r)
  <2>1. \A m : <<m>> # <<>>
    OBVIOUS
  <2> QED
    BY <1>0, <1>1, <2>1, Zenon DEF Pending, NoNews, Nothing
<1>3. ~Trying(s) /\ ~Silent(s) /\ ~Removed(s)
  <2>1. ~Knows(Founder, s) \/ state[s] = "up"
    BY <1>0, Zenon DEF Quiet, Knows, Settled
  <2> QED
    BY <1>0, <1>1, <2>1, Zenon DEF Trying, Silent, Removed
<1>4. \A a \in Up : ~Asked(s, a) /\ ~Listed(s, a) /\ ~Answered(s, a) /\ ~Added(s, a)
  BY <1>0, Zenon DEF Asked, Listed, Answered, Added, WaitsFor, Waits
<1>5. /\ conn[s] = NoConn
      /\ \A h \in Up : s \in m_Nodes[h] <=> s \in Up
  <2>1. CASE Leaving(s)
    <3>1. \A h \in Up : ~Knows(h, s)
      BY <1>0, <1>2, <2>1, Zenon DEF Leaving, Spread
    <3> QED
      BY <2>1, <3>1, Zenon DEF Leaving, Knows, Up
  <2>2. CASE \E a \in Up : Joining(s, a)
    <3>1. PICK a \in Up : Joining(s, a)
      BY <2>2, Zenon
    <3>2. state[s] = "up" /\ conn[s] = NoConn
      BY <1>0, <3>1, Zenon DEF Joining, WaitsFor, Waits
    <3>3. \A h \in Up : Knows(h, s)
      BY <1>0, <1>2, <3>1, Zenon DEF Joining, Spread
    <3> QED
      BY <3>2, <3>3, Zenon DEF Knows, Up
  <2> QED
    BY <1>3, <1>4, <2>1, <2>2, Zenon DEF Phase
<1>6. ASSUME NEW h \in Up PROVE m_Nodes[h] = Up
  <2>1. m_Nodes[h] \subseteq Host
    BY <1>0, Zenon DEF IInv, TablesOK
  <2>2. \A g \in Host : g \in m_Nodes[h] <=> g \in Up
    BY <1>5, Zenon DEF Settled, Knows
  <2> QED
    BY <1>0, <2>1, <2>2
<1> QED
  BY <1>0, <1>5, <1>6, Zenon DEF Settled

\* A process that starts in a quiet cluster begins to try the seeds.
LEMMA StartOrderly ==
  ASSUME IInv, FounderIsSeed, NEW s \in Host, Settled(s), Phase(s), Quiet,
         NEW j \in Host, Start(j)
  PROVE  Settled(j)' /\ Phase(j)'
<1>n. Len(Seeds) \in Nat /\ Founder \in Host
  BY MembershipAssumption
<1>1. /\ state[Founder] = "up" /\ \A g \in Host : state[g] # "joining" /\ conn[g] = NoConn
      /\ \A h \in Up : m_pLeaderNode[h] = Founder /\ m_Nodes[h] = Up
  BY QuietExact, Zenon
<1>2. /\ state[j] = "off"
      /\ state' = [state EXCEPT ![j] = "joining"] /\ seed' = [seed EXCEPT ![j] = 1]
      /\ UNCHANGED <<m_Nodes, m_pLeaderNode, conn, fifo, hand, net>>
  BY Zenon DEF Start, tableVars, jobVars
<1>3. /\ state'[j] = "joining" /\ seed'[j] = 1
      /\ \A g \in Host \ {j} : state'[g] = state[g]
  BY <1>2, Zenon DEF IInv, StatesOK, SeedOK
<1>4. Up' = Up /\ j \notin Up
  BY <1>2, <1>3 DEF Up
<1>5. Settled(j)'
  BY <1>n, <1>1, <1>2, <1>3, <1>4, Zenon DEF Settled, Knows
<1>6. \E i \in 1..Len(Seeds) : Seeds[i] = Founder /\ seed'[j] <= i
  <2>1. PICK i \in 1..Len(Seeds) : Seeds[i] = Founder
    BY Zenon DEF FounderIsSeed
  <2>2. seed'[j] <= i
    BY <1>n, <1>3, <2>1
  <2> QED
    BY <2>1, <2>2, Zenon
<1>7. Unknown(j)' /\ NoNews' /\ \A h \in Host : Nothing(h)'
  BY <1>1, <1>2, <1>4, Zenon DEF Unknown, Knows, Quiet, NoNews, Nothing
<1>8. Trying(j)'
  BY <1>1, <1>2, <1>3, <1>6, <1>7, Zenon DEF Trying
<1> QED
  BY <1>5, <1>8, Zenon DEF Phase

\* A process that crashes in a quiet cluster is in all tables.
LEMMA CrashOrderly ==
  ASSUME IInv, NEW s \in Host, Settled(s), Phase(s), Quiet, NEW k \in Host, Crash(k)
  PROVE  Settled(k)' /\ Phase(k)'
<1>0. Founder \in Host /\ k # Founder
  BY MembershipAssumption, Zenon DEF Crash
<1>1. /\ state[Founder] = "up" /\ \A g \in Host : state[g] # "joining" /\ conn[g] = NoConn
      /\ \A h \in Up : m_pLeaderNode[h] = Founder /\ m_Nodes[h] = Up
  BY QuietExact, Zenon
<1>2. state[k] = "up"
  BY <1>1, Zenon DEF Crash, IInv, StatesOK
<1>3. /\ state' = [state EXCEPT ![k] = "off"]
      /\ m_Nodes' = [m_Nodes EXCEPT ![k] = {}]
      /\ m_pLeaderNode' = [m_pLeaderNode EXCEPT ![k] = NULL]
      /\ conn' = [g \in Host |-> IF g = k THEN NoConn
                    ELSE IF conn[g].adder = k THEN [conn[g] EXCEPT !.step = "broken"]
                    ELSE conn[g]]
      /\ fifo' = [fifo EXCEPT ![k] = <<>>] /\ hand' = [hand EXCEPT ![k] = {}]
      /\ net' = [g \in Host |-> [h \in Host |-> IF g = k \/ h = k THEN <<>> ELSE net[g][h]]]
  BY Zenon DEF Crash
<1>4. NoConn.adder # k
  BY MembershipAssumption DEF NoConn
<1>5. \A g \in Host : conn'[g] = NoConn
  BY <1>1, <1>3, <1>4, Zenon
<1>6. /\ state'[k] = "off"
      /\ \A g \in Host \ {k} : /\ state'[g] = state[g] /\ m_Nodes'[g] = m_Nodes[g]
                               /\ m_pLeaderNode'[g] = m_pLeaderNode[g]
  BY <1>3, Zenon DEF IInv, StatesOK, TablesOK
<1>7. /\ \A h \in Host : h \in Up' <=> h \in Up /\ h # k
      /\ k \in Up /\ \A h \in Up' : h \in Host
  BY <1>2, <1>6, Zenon DEF Up
<1>8. NoNews' /\ \A h \in Host : Nothing(h)'
  <2>1. NoNews'
    BY <1>3, Zenon DEF NoNews, Quiet
  <2>2. \A h \in Host : Nothing(h)'
    BY <1>3, Zenon DEF Nothing, Quiet, IInv, FifoOK, HandOK
  <2> QED
    BY <2>1, <2>2, Zenon
<1>9. Settled(k)'
  <2>1. ASSUME NEW h \in Host, h \in Up'
        PROVE  /\ m_pLeaderNode'[h] = Founder
               /\ \A g \in Host \ {k} : g \in m_Nodes'[h] <=> g \in Up'
    BY <1>1, <1>6, <1>7, <2>1, Zenon
  <2> QED
    BY <1>0, <1>1, <1>5, <1>6, <1>7, <2>1, Zenon DEF Settled, Knows
<1>10. \A h \in Up' : Knows(h, k)'
  BY <1>1, <1>6, <1>7, Zenon DEF Knows
<1>11. Silent(k)'
  BY <1>0, <1>5, <1>6, <1>8, <1>10, Zenon DEF Silent, NothingBut
<1> QED
  BY <1>9, <1>11, Zenon DEF Phase

-----------------------------------------------------------------------------
LEMMA InitOrderly == Init => Orderly
<1> SUFFICES ASSUME Init PROVE Settled(Founder) /\ Phase(Founder)
  BY MembershipAssumption, Zenon DEF Orderly
<1>1. /\ Founder \in Host /\ Founder \in Member /\ Member \subseteq Host
      /\ \A h \in Host : h \in Up <=> h \in Member
      /\ \A h \in Up : h \in Member
  BY MembershipAssumption DEF Init, Up
<1>2. \A h \in Host : /\ fifo[h] = <<>> /\ hand[h] = {} /\ conn[h] = NoConn
                      /\ state[h] # "joining"
                      /\ \A g \in Host : net[g][h] = <<>>
                      /\ h \in Member => m_Nodes[h] = Member /\ m_pLeaderNode[h] = Founder
  BY DEF Init
<1>3. state[Founder] = "up"
  BY <1>1, Zenon DEF Init
<1>4. Settled(Founder)
  BY <1>1, <1>2, <1>3, Zenon DEF Settled, Knows
<1>5. \A h \in Up : Knows(h, Founder)
  BY <1>1, <1>2, Zenon DEF Knows
<1>6. Spread(Founder, Founder, "newNode")
  BY <1>1, <1>2, <1>5, Zenon DEF Spread, Nothing
<1>7. Joining(Founder, Founder) /\ Founder \in Up
  BY <1>1, <1>2, <1>3, <1>5, <1>6, Zenon DEF Joining, Nothing
<1> QED
  BY <1>4, <1>7, Zenon DEF Phase

LEMMA NextOrderly ==
  ASSUME IInv, FounderIsSeed, Orderly, [Next]_vars
  PROVE  Orderly'
<1> SUFFICES ASSUME alone' PROVE \E s \in Host : Settled(s)' /\ Phase(s)'
  BY Zenon DEF Orderly
<1>1. CASE UNCHANGED vars
  <2>1. UNCHANGED <<state, seed, m_Nodes, m_pLeaderNode, conn, fifo, hand, net, alone>>
    BY <1>1, Zenon DEF vars, tableVars, jobVars, history
  <2>2. PICK s \in Host : Settled(s) /\ Phase(s)
    BY <2>1, Zenon DEF Orderly
  <2>3. Up' = Up
    BY <2>1, Zenon DEF Up
  <2>4. Settled(s)'
    BY <2>1, <2>2, SettledKept, Zenon
  <2>5. /\ \A h : Nothing(h)' = Nothing(h) /\ Knows(h, s)' = Knows(h, s)
        /\ \A h, q : Holds(h, q)' = Holds(h, q)
        /\ \A a, x : WaitsFor(s, a, x)' = WaitsFor(s, a, x)
        /\ HasTable(s)' = HasTable(s) /\ Unknown(s)' = Unknown(s) /\ NoNews' = NoNews
        /\ \A a : NothingBut(a)' = NothingBut(a)
    BY <2>1, <2>3, Zenon DEF Nothing, Knows, Holds, WaitsFor, Waits, HasTable, Unknown, NoNews,
       NothingBut
  <2>6. Trying(s)' = Trying(s) /\ Silent(s)' = Silent(s) /\ Removed(s)' = Removed(s)
    BY <2>1, <2>3, <2>5, Zenon DEF Trying, Silent, Removed
  <2>7. \A a : /\ Asked(s, a)' = Asked(s, a) /\ Listed(s, a)' = Listed(s, a)
              /\ Answered(s, a)' = Answered(s, a) /\ Added(s, a)' = Added(s, a)
    BY <2>1, <2>3, <2>5, Zenon DEF Asked, Listed, Answered, Added
  <2>8. Leaving(s)' = Leaving(s) /\ \A a : Joining(s, a)' = Joining(s, a)
    <3>1. \A h, a, r : Pending(h, a, s, r)' = Pending(h, a, s, r)
      <4> SUFFICES ASSUME NEW h, NEW a, NEW r
                   PROVE  Pending(h, a, s, r)' = Pending(h, a, s, r)
        OBVIOUS
      <4>1. /\ net'[a][h] = net[a][h] /\ fifo'[h] = fifo[h] /\ hand'[h] = hand[h]
            /\ Nothing(h)' = Nothing(h)
            /\ Holds(h, RcvJob(r, s, "exclusive"))' = Holds(h, RcvJob(r, s, "exclusive"))
        BY <2>1, <2>5, Zenon
      <4> QED
        BY <4>1, Zenon DEF Pending
    <3>2. \A a, r : Spread(s, a, r)' = Spread(s, a, r)
      BY <2>1, <2>3, <2>5, <3>1 DEF Spread
    <3> QED
      BY <2>1, <2>3, <2>5, <3>2, Zenon DEF Leaving, Joining
  <2>9. Phase(s)'
    BY <2>2, <2>3, <2>6, <2>7, <2>8, Zenon DEF Phase
  <2> QED
    BY <2>4, <2>9, Zenon
<1>2. CASE \E h \in Host : Start(h) \/ Crash(h)
  <2>1. PICK h \in Host : Start(h) \/ Crash(h)
    BY <1>2, Zenon
  <2>2. alone /\ Quiet
    BY <2>1, Zenon DEF Start, Crash
  <2>3. PICK s \in Host : Settled(s) /\ Phase(s)
    BY <2>2, Zenon DEF Orderly
  <2> QED
    BY <2>1, <2>2, <2>3, StartOrderly, CrashOrderly, Zenon
<1>3. CASE Move
  <2>1. alone' = alone
    <3>1. \A h \in Host : Join(h) => alone' = alone
      BY Zenon DEF Join, NextSeed, Connect, AddOwnNodeAsLeader, AddListed, Joined, Refused, Failed,
         history
    <3>2. \A h \in Host : Work(h) => alone' = alone
      <4>1. \A h, j : SendList(h, j) \/ ReceiveExtraData(h, j) => alone' = alone
        BY Zenon DEF SendList, ReceiveExtraData, history
      <4>2. \A h, j : NewConnectionLocked(h, j) \/ NewConnectionAfterLock(h, j) \/ Confirm(h, j)
              => alone' = alone
        BY Zenon DEF NewConnectionLocked, NewConnectionAfterLock, Confirm, history
      <4>3. \A h, j : ReceiveFromNodeLocked(h, j) \/ InternalLocked(h, j)
              \/ InternalAfterLock(h, j) => alone' = alone
        BY Zenon DEF ReceiveFromNodeLocked, InternalLocked, InternalAfterLock, history
      <4> QED
        BY <4>1, <4>2, <4>3, Zenon DEF Work, Extract, history
    <3>3. \A h, g \in Host : Receive(h, g) \/ ReportSilent(h, g) => alone' = alone
      BY Zenon DEF Receive, ReceiveFromSocketAndInform, RefuseBridge, ReportSilent, history
    <3> QED
      BY <1>3, <3>1, <3>2, <3>3, Zenon DEF Move
  <2>2. PICK s \in Host : Settled(s) /\ Phase(s)
    BY <2>1, Zenon DEF Orderly
  <2> QED
    BY <1>3, <2>2, TryingStep, AskedStep, ListedStep, AnsweredStep, AddedStep, JoiningStep,
       SilentStep, RemovedStep, LeavingStep, Zenon DEF Phase
<1>4. CASE \E h \in Host : JoinTimeout(h) \/ \E j \in hand[h] : AnswerTimeout(h, j)
  BY <1>4, Zenon DEF JoinTimeout, AnswerTimeout
<1> QED
  BY <1>1, <1>2, <1>3, <1>4, Zenon DEF Next, Move

\* Agreement: when the founder is one of the seeds, with one process starting or
\* ending at a time and no exchange of a joiner timed out, whenever the cluster has
\* come to rest every running process knows exactly the running processes and the
\* same leader, for any hosts, order of the seeds and number of workers.
THEOREM Agreement == FounderIsSeed => (Spec => []QuietAgreement)
<1> SUFFICES ASSUME FounderIsSeed PROVE Spec => []QuietAgreement
  OBVIOUS
<1>1. Init => Orderly
  BY InitOrderly
<1>2. IInv /\ Orderly /\ [Next]_vars => Orderly'
  BY NextOrderly
<1>3. IInv /\ Orderly => QuietAgreement
  <2> SUFFICES ASSUME IInv, Orderly, Quiet, alone, NEW h \in Host, state[h] = "up"
               PROVE  m_Nodes[h] = Up /\ m_pLeaderNode[h] = Founder
    BY Zenon DEF QuietAgreement, Up
  <2>1. PICK s \in Host : Settled(s) /\ Phase(s)
    BY Zenon DEF Orderly
  <2>2. h \in Up
    BY Zenon DEF Up
  <2> QED
    BY <2>1, <2>2, QuietExact, Zenon
<1> QED
  BY <1>1, <1>2, <1>3, Invariance, PTL DEF Spec
=============================================================================
