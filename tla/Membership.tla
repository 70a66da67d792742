----------------------------- MODULE Membership -----------------------------
(***************************************************************************)
(* How the node tables of a cluster of raft::tcp::Server processes come    *)
(* about (tcp/raft_tcp_server.cpp): a starting process tries the seeds of  *)
(* its configuration in turn, the first that answers (the adder) sends it  *)
(* its table, adds it and tells the others; the leader removes a node that *)
(* has gone silent and tells the others.  Elections are left out: the      *)
(* founder leads.                                                          *)
(*                                                                         *)
(* A phase of a handler that runs under the lock m_shrdMutexForNodes2 and  *)
(* waits for nothing is one step.  A phase that holds the shared lock over *)
(* an exchange with the other process is several steps, between which no   *)
(* handler of that host gets the exclusive lock.                           *)
(***************************************************************************)
EXTENDS Naturals, Sequences, FiniteSets

CONSTANTS
  Host, NULL,
  Founder, Member,   \* the leader and the cluster at the beginning
  Seeds,             \* the configured seeds, in the order they are tried
  Workers,           \* worker threads of a process
  Crashing,          \* the hosts whose process may crash
  MaxStarts          \* bound: processes started and exchanges timed out

ASSUME MembershipAssumption ==
  /\ IsFiniteSet(Host) /\ NULL \notin Host
  /\ Founder \in Member /\ Member \subseteq Host /\ Seeds \in Seq(Host)
  /\ Workers \in Nat \ {0} /\ Crashing \subseteq Host \ {Founder}
  /\ MaxStarts \in Nat

VARIABLES
  state,                        \* per host: "off", "joining", "up"
  seed,                         \* the seed a joining process tries
  m_Nodes, m_pLeaderNode,       \* its table (a set of keys) and its leader
  m_thisNode,                   \* its own node, NULL until it is added
  conn,                         \* the joiner's side of its connection to the adder
  fifo, hand,                   \* the queue and the jobs the workers hold
  net,                          \* net[h][g]: requests on their way from h to g
  starts,                       \* history: processes started and exchanges timed out,
  alone                         \* whether all started or crashed in a quiet cluster

tableVars == <<m_Nodes, m_pLeaderNode, m_thisNode>>
jobVars == <<fifo, hand>>
history == <<starts, alone>>
vars == <<state, seed, tableVars, conn, jobVars, net, history>>

Request == [request : {"newNode", "removeNode"}, key : Host]

\* type con: a connection of the starting process key; rcv: a request received
\* from another node; int: the leader's own removal of key.  stage tells which
\* phase of its handler comes next.
Job == [type : {"con", "rcv", "int"}, request : {"newNode", "removeNode"}, key : Host,
        stage : {"first", "listed", "exclusive", "after", "confirm"}]

Step == {"none", "connected", "listed", "answered", "confirmed", "refused", "garbled",
         "broken"}

NoConn == [adder |-> NULL, step |-> "none", list |-> {}, leader |-> NULL]

TypeOK ==
  /\ state \in [Host -> {"off", "joining", "up"}]
  /\ seed \in [Host -> 1..(Len(Seeds) + 1)]
  /\ m_Nodes \in [Host -> SUBSET Host]
  /\ m_pLeaderNode \in [Host -> Host \cup {NULL}]
  /\ m_thisNode \in [Host -> Host \cup {NULL}]
  /\ conn \in [Host -> [adder : Host \cup {NULL}, step : Step, list : SUBSET Host,
                        leader : Host \cup {NULL}]]
  /\ fifo \in [Host -> Seq(Job)] /\ hand \in [Host -> SUBSET Job]
  /\ \A h \in Host : Cardinality(hand[h]) <= Workers
  /\ net \in [Host -> [Host -> Seq(Request)]]
  /\ starts \in 0..MaxStarts /\ alone \in BOOLEAN

Init ==
  /\ state = [h \in Host |-> IF h \in Member THEN "up" ELSE "off"]
  /\ seed = [h \in Host |-> 1]
  /\ m_Nodes = [h \in Host |-> IF h \in Member THEN Member ELSE {}]
  /\ m_pLeaderNode = [h \in Host |-> IF h \in Member THEN Founder ELSE NULL]
  /\ m_thisNode = [h \in Host |-> IF h \in Member THEN h ELSE NULL]
  /\ conn = [h \in Host |-> NoConn]
  /\ fifo = [h \in Host |-> <<>>] /\ hand = [h \in Host |-> {}]
  /\ net = [h \in Host |-> [g \in Host |-> <<>>]]
  /\ starts = 0 /\ alone = TRUE

\* nothing is on its way, and nothing is left to do
Quiet ==
  /\ \A h \in Host : state[h] # "joining" /\ fifo[h] = <<>> /\ hand[h] = {}
  /\ \A h, g \in Host : net[h][g] = <<>>
  /\ \A h \in Host : state[h] = "up" => \A k \in m_Nodes[h] : state[k] = "up"

\* the workers of h that hold m_shrdMutexForNodes2 shared over several steps:
\* raft_connect_toAnyNode_newNode from the list to the answer, and
\* handleNewConnectionAfterLock from the news to the confirmation
SharedHeldNoList(h) == \E j \in hand[h] : j.stage = "confirm"   \* mutant

SharedHeld(h) == \E j \in hand[h] : j.stage \in {"listed", "confirm"}

\* the job j of h goes on to a later phase
Advance(h, j, stage) ==
  hand' = [hand EXCEPT ![h] = (@ \ {j}) \cup {[j EXCEPT !.stage = stage]}]

Finish(h, j) == hand' = [hand EXCEPT ![h] = @ \ {j}]

-----------------------------------------------------------------------------
(* Sending                                                                 *)

\* a request of h to g gets into a connection that g reads: the permanent
\* bridge to a listening process, or the connection of a joiner that h has
\* already confirmed
Reaches(h, g) ==
  state[g] = "up" \/ (conn[g].adder = h /\ conn[g].step = "confirmed")

SendToAllButLeader(h, r, skip) ==      \* mutant: the leader is not told
  LET to == m_Nodes[h] \ {skip, h, m_pLeaderNode[h]}
  IN net' = [net EXCEPT ![h] = [g \in Host |->
              IF g \in to /\ Reaches(h, g) THEN Append(@[g], r) ELSE @[g]]]

SendInformationToAllNodes(h, r, skip) ==
  LET to == m_Nodes[h] \ {skip, h}
  IN net' = [net EXCEPT ![h] = [g \in Host |->
              IF g \in to /\ Reaches(h, g) THEN Append(@[g], r) ELSE @[g]]]

\* the joiners that are still waiting for their confirmation on a socket that h
\* already uses for requests to all nodes: they read the request instead
Garbled(h, skip) ==
  {g \in m_Nodes[h] \ {skip, h} :
     /\ conn[g].adder = h /\ conn[g].step = "answered"
     /\ \E j \in hand[h] : j.type = "con" /\ j.key = g /\ j.stage = "confirm"}

Garble(h, skip) ==
  [g \in Host |-> IF g \in Garbled(h, skip) THEN [conn[g] EXCEPT !.step = "garbled"]
                  ELSE conn[g]]

-----------------------------------------------------------------------------
(* The starting process: CheckAllPossibleSeeds, TryFindClusterThredSafe    *)

Start(j) ==
  /\ state[j] = "off" /\ starts < MaxStarts
  \* the process is not restarted before its old connections are given up
  /\ conn[j].step = "none"
  /\ \A h \in Host : \A b \in hand[h] : ~(b.type = "con" /\ b.key = j)
  /\ \A h \in Host : \A i \in 1..Len(fifo[h]) : ~(fifo[h][i].type = "con" /\ fifo[h][i].key = j)
  /\ state' = [state EXCEPT ![j] = "joining"]
  /\ seed' = [seed EXCEPT ![j] = 1]
  /\ starts' = starts + 1 /\ alone' = (alone /\ Quiet)
  /\ UNCHANGED <<tableVars, conn, jobVars, net>>

\* the next seed is not reachable, or is this process itself
NextSeed(j) ==
  /\ state[j] = "joining" /\ conn[j].step = "none" /\ seed[j] <= Len(Seeds)
  /\ Seeds[seed[j]] = j \/ state[Seeds[seed[j]]] # "up"
  /\ seed' = [seed EXCEPT ![j] = @ + 1]
  /\ UNCHANGED <<state, tableVars, conn, jobVars, net, history>>

\* ConnectAndGetEndian2 finds the seed listening, whose listener queues a job
Connect(j) ==
  /\ state[j] = "joining" /\ conn[j].step = "none" /\ seed[j] <= Len(Seeds)
  /\ LET a == Seeds[seed[j]]
     IN /\ a # j /\ state[a] = "up"
        /\ conn' = [conn EXCEPT ![j].adder = a, ![j].step = "connected"]
        /\ fifo' = [fifo EXCEPT ![a] = Append(@,
                      [type |-> "con", request |-> "newNode", key |-> j, stage |-> "first"])]
  /\ UNCHANGED <<state, seed, tableVars, hand, net, history>>

\* no seed is left: the process founds a cluster of its own
AddOwnNodeAsLeader(j) ==
  /\ state[j] = "joining" /\ conn[j].step = "none" /\ seed[j] > Len(Seeds)
  /\ m_Nodes' = [m_Nodes EXCEPT ![j] = {j}]
  /\ m_thisNode' = [m_thisNode EXCEPT ![j] = j]
  /\ m_pLeaderNode' = [m_pLeaderNode EXCEPT ![j] = j]
  /\ state' = [state EXCEPT ![j] = "up"]
  /\ UNCHANGED <<seed, conn, jobVars, net, history>>

\* the list has come: every node of it is added, and the adder is answered
AddListed(j) ==
  /\ state[j] = "joining" /\ conn[j].step = "listed"
  /\ m_Nodes' = [m_Nodes EXCEPT ![j] = conn[j].list]
  /\ m_pLeaderNode' = [m_pLeaderNode EXCEPT ![j] = conn[j].leader]
  /\ conn' = [conn EXCEPT ![j].step = "answered"]
  /\ UNCHANGED <<state, seed, m_thisNode, jobVars, net, history>>

\* toNewNodeAddPartitions has come: AddOwnNode(false), which adds no node if the
\* own key was in the list, and the threads are started
Joined(j) ==
  /\ state[j] = "joining" /\ conn[j].step = "confirmed"
  /\ m_thisNode' = [m_thisNode EXCEPT ![j] = IF j \in m_Nodes[j] THEN NULL ELSE j]
  /\ m_Nodes' = [m_Nodes EXCEPT ![j] = @ \cup {j}]
  /\ state' = [state EXCEPT ![j] = "up"]
  /\ conn' = [conn EXCEPT ![j] = NoConn]
  /\ UNCHANGED <<seed, m_pLeaderNode, jobVars, net, history>>

\* nodeWithKeyAlreadyExist has come: exit(0)
Refused(j) ==
  /\ state[j] = "joining" /\ conn[j].step = "refused"
  /\ state' = [state EXCEPT ![j] = "off"]
  /\ m_Nodes' = [m_Nodes EXCEPT ![j] = {}]
  /\ m_pLeaderNode' = [m_pLeaderNode EXCEPT ![j] = NULL]
  /\ conn' = [conn EXCEPT ![j] = NoConn]
  /\ UNCHANGED <<seed, m_thisNode, jobVars, net, history>>

\* the connection broke or something else came: ClearAllNodes, the next seed;
\* m_pLeaderNode keeps pointing to the deleted leader until it is set again
Failed(j) ==
  /\ state[j] = "joining" /\ conn[j].step \in {"garbled", "broken"}
  /\ m_Nodes' = [m_Nodes EXCEPT ![j] = {}]
  /\ conn' = [conn EXCEPT ![j] = NoConn]
  /\ seed' = [seed EXCEPT ![j] = @ + 1]
  /\ UNCHANGED <<state, m_pLeaderNode, m_thisNode, jobVars, net, history>>

\* the list or the confirmation has not come within SOCK_TIMEOUT_MS: readC fails,
\* and the adder does not hear of it.  alone leaves such a start out: the adder
\* may already have added the process that gave up
JoinTimeout(j) ==
  /\ state[j] = "joining" /\ conn[j].step \in {"connected", "answered"}
  /\ m_Nodes' = [m_Nodes EXCEPT ![j] = {}]
  /\ conn' = [conn EXCEPT ![j] = NoConn]
  /\ seed' = [seed EXCEPT ![j] = @ + 1]
  /\ starts < MaxStarts /\ starts' = starts + 1 /\ alone' = FALSE
  /\ UNCHANGED <<state, m_pLeaderNode, m_thisNode, jobVars, net>>

-----------------------------------------------------------------------------
(* The threads of a running process                                        *)

FreeWorkerOneMore(h) == Cardinality(hand[h]) <= Workers   \* mutant: one more thread

\* RunAllThreadPrivate started Workers threads
FreeWorker(h) == Cardinality(hand[h]) < Workers

\* ThreadFunctionWorker takes the next job
Extract(h) ==
  /\ fifo[h] # <<>> /\ FreeWorker(h)
  /\ LET j == Head(fifo[h])
     IN /\ j \notin hand[h]
        /\ hand' = [hand EXCEPT ![h] = @ \cup
                      {IF j.type = "con" THEN j ELSE [j EXCEPT !.stage = "exclusive"]}]
  /\ fifo' = [fifo EXCEPT ![h] = Tail(@)]
  /\ UNCHANGED <<state, seed, tableVars, conn, net, history>>

\* the joiner waits on this connection
Waits(j, a, step) == state[j] = "joining" /\ conn[j].adder = a /\ conn[j].step = step

\* raft_connect_toAnyNode_newNode, steps 1 to 4: under the shared lock, the
\* table and the leader in it are sent
SendList(a, j) ==
  /\ j \in hand[a] /\ j.type = "con" /\ j.stage = "first"
  /\ IF Waits(j.key, a, "connected")
     THEN /\ conn' = [conn EXCEPT ![j.key].step = "listed", ![j.key].list = m_Nodes[a],
                        ![j.key].leader = IF m_pLeaderNode[a] \in m_Nodes[a]
                                            THEN m_pLeaderNode[a] ELSE NULL]
          /\ Advance(a, j, "listed")
     ELSE Finish(a, j) /\ UNCHANGED conn
  /\ UNCHANGED <<state, seed, tableVars, fifo, net, history>>

\* mutant: nobody looks whether the joiner is still there
ReceiveExtraDataWaits(a, j) ==
  /\ j \in hand[a] /\ j.type = "con" /\ j.stage = "listed"
  /\ Waits(j.key, a, "answered") /\ Advance(a, j, "exclusive")
  /\ UNCHANGED <<state, seed, tableVars, conn, fifo, net, history>>

\* step 5: the answer, with which the shared lock is given back
ReceiveExtraData(a, j) ==
  /\ j \in hand[a] /\ j.type = "con" /\ j.stage = "listed"
  /\ IF Waits(j.key, a, "answered") THEN Advance(a, j, "exclusive")
     ELSE ~Waits(j.key, a, "listed") /\ Finish(a, j)
  /\ UNCHANGED <<state, seed, tableVars, conn, fifo, net, history>>

\* the answer has not come within SOCK_TIMEOUT_MS: the connection is closed
AnswerTimeout(a, j) ==
  /\ j \in hand[a] /\ j.type = "con" /\ j.stage = "listed" /\ Waits(j.key, a, "listed")
  /\ conn' = [conn EXCEPT ![j.key].step = "broken"]
  /\ Finish(a, j)
  /\ starts < MaxStarts /\ starts' = starts + 1 /\ alone' = FALSE
  /\ UNCHANGED <<state, seed, tableVars, fifo, net>>

\* handleNewConnectionLocked: AddNode, or nodeWithKeyAlreadyExist
NewConnectionLocked(a, j) ==
  /\ j \in hand[a] /\ j.type = "con" /\ j.stage = "exclusive" /\ ~SharedHeld(a)
  /\ IF j.key \in m_Nodes[a]
     THEN /\ Finish(a, j)
          /\ conn' = IF Waits(j.key, a, "answered")
                       THEN [conn EXCEPT ![j.key].step = "refused"] ELSE conn
          /\ UNCHANGED m_Nodes
     ELSE /\ m_Nodes' = [m_Nodes EXCEPT ![a] = @ \cup {j.key}]
          /\ Advance(a, j, "after")
          /\ UNCHANGED conn
  /\ UNCHANGED <<state, seed, m_pLeaderNode, m_thisNode, fifo, net, history>>

\* handleNewConnectionAfterLock: the news to all the others (nobody waits for
\* their answers: the loop of a_bWait starts where the first one ended), ...
NewConnectionAfterLock(a, j) ==
  /\ j \in hand[a] /\ j.type = "con" /\ j.stage = "after"
  /\ SendInformationToAllNodes(a, [request |-> "newNode", key |-> j.key], j.key)
  /\ conn' = Garble(a, j.key)
  /\ Advance(a, j, "confirm")
  /\ UNCHANGED <<state, seed, tableVars, fifo, history>>

\* ... then the confirmation to the new node
Confirm(a, j) ==
  /\ j \in hand[a] /\ j.type = "con" /\ j.stage = "confirm"
  /\ conn' = IF Waits(j.key, a, "answered") THEN [conn EXCEPT ![j.key].step = "confirmed"]
             ELSE conn
  /\ Finish(a, j)
  /\ UNCHANGED <<state, seed, tableVars, fifo, net, history>>

\* the receive thread reads a request of g.  A known key is not added again;
\* a removal counts only from the leader, and only for a follower.
Accepts(h, g, r) ==
  IF r.request = "newNode" THEN r.key \notin m_Nodes[h]
  ELSE g = m_pLeaderNode[h] /\ h # m_pLeaderNode[h]

ReceiveFromSocketAndInform(h, g) ==
  /\ state[h] = "up" /\ net[g][h] # <<>> /\ g \in m_Nodes[h]
  /\ LET r == Head(net[g][h])
     IN fifo' = IF Accepts(h, g, r)
                  THEN [fifo EXCEPT ![h] = Append(@,
                          [type |-> "rcv", request |-> r.request, key |-> r.key,
                           stage |-> "first"])]
                  ELSE fifo
  /\ net' = [net EXCEPT ![g][h] = Tail(@)]
  /\ UNCHANGED <<state, seed, tableVars, conn, hand, history>>

\* raft_connect_toAnyNode_permanentBridge: the bridge of an unknown node is
\* closed, with all that was written to it
RefuseBridge(h, g) ==
  /\ state[h] = "up" /\ net[g][h] # <<>> /\ g \notin m_Nodes[h]
  /\ net' = [net EXCEPT ![g][h] = <<>>]
  /\ UNCHANGED <<state, seed, tableVars, conn, jobVars, history>>

\* handleReceiveFromNodeLocked; the answer ok to the adder is not waited for
ReceiveFromNodeLocked(h, j) ==
  /\ j \in hand[h] /\ j.type = "rcv" /\ ~SharedHeld(h)
  /\ m_Nodes' = [m_Nodes EXCEPT ![h] = IF j.request = "newNode" THEN @ \cup {j.key}
                                       ELSE @ \ {j.key}]
  /\ Finish(h, j)
  /\ UNCHANGED <<state, seed, m_pLeaderNode, m_thisNode, conn, fifo, net, history>>

\* SendClbkFunction: the leader finds that node k, not running, is silent
ReportSilent(h, k) ==
  /\ state[h] = "up" /\ m_pLeaderNode[h] = h
  /\ k \in m_Nodes[h] /\ state[k] = "off"
  /\ LET j == [type |-> "int", request |-> "removeNode", key |-> k, stage |-> "first"]
     IN /\ \A i \in 1..Len(fifo[h]) : fifo[h][i] # j
        /\ fifo' = [fifo EXCEPT ![h] = Append(@, j)]
  /\ \A j \in hand[h] : ~(j.type = "int" /\ j.key = k)
  /\ UNCHANGED <<state, seed, tableVars, conn, hand, net, history>>

\* handleInternalLocked, handleInternalAfterLock
InternalLocked(h, j) ==
  /\ j \in hand[h] /\ j.type = "int" /\ j.stage = "exclusive" /\ ~SharedHeld(h)
  /\ m_Nodes' = [m_Nodes EXCEPT ![h] = @ \ {j.key}]
  /\ Advance(h, j, "after")
  /\ UNCHANGED <<state, seed, m_pLeaderNode, m_thisNode, conn, fifo, net, history>>

InternalAfterLock(h, j) ==
  /\ j \in hand[h] /\ j.type = "int" /\ j.stage = "after"
  /\ SendInformationToAllNodes(h, [request |-> "removeNode", key |-> j.key], h)
  /\ conn' = Garble(h, h)
  /\ Finish(h, j)
  /\ UNCHANGED <<state, seed, tableVars, fifo, history>>

\* the process ends: its memory and its connections are gone
Crash(h) ==
  /\ h \in Crashing /\ state[h] # "off"
  /\ state' = [state EXCEPT ![h] = "off"]
  /\ m_Nodes' = [m_Nodes EXCEPT ![h] = {}]
  /\ m_pLeaderNode' = [m_pLeaderNode EXCEPT ![h] = NULL]
  /\ m_thisNode' = [m_thisNode EXCEPT ![h] = NULL]
  /\ conn' = [g \in Host |-> IF g = h THEN NoConn
                ELSE IF conn[g].adder = h THEN [conn[g] EXCEPT !.step = "broken"]
                ELSE conn[g]]
  /\ fifo' = [fifo EXCEPT ![h] = <<>>] /\ hand' = [hand EXCEPT ![h] = {}]
  /\ net' = [g \in Host |-> [k \in Host |-> IF g = h \/ k = h THEN <<>> ELSE net[g][k]]]
  /\ alone' = (alone /\ Quiet)
  /\ UNCHANGED <<seed, starts>>

-----------------------------------------------------------------------------
Join(j) ==
  NextSeed(j) \/ Connect(j) \/ AddOwnNodeAsLeader(j) \/ AddListed(j) \/ Joined(j)
    \/ Refused(j) \/ Failed(j)

Work(h) ==
  \/ Extract(h)
  \/ \E j \in hand[h] :
       \/ SendList(h, j) \/ ReceiveExtraData(h, j) \/ NewConnectionLocked(h, j)
       \/ NewConnectionAfterLock(h, j) \/ Confirm(h, j)
       \/ ReceiveFromNodeLocked(h, j) \/ InternalLocked(h, j) \/ InternalAfterLock(h, j)

Receive(h, g) == ReceiveFromSocketAndInform(h, g) \/ RefuseBridge(h, g)

Next ==
  \/ \E h \in Host : Start(h) \/ Join(h) \/ Work(h) \/ Crash(h)
  \/ \E h \in Host : JoinTimeout(h) \/ \E j \in hand[h] : AnswerTimeout(h, j)
  \/ \E h, g \in Host : Receive(h, g) \/ ReportSilent(h, g)

Spec == Init /\ [][Next]_vars

(* The threads of a process make progress: the joiner's main thread, the   *)
(* receive thread and the workers.  No step of a worker waits for another  *)
(* worker for ever, as the exchanges under the shared lock end.  Nothing    *)
(* is assumed of the time-outs: they may happen, and nothing needs them to. *)
FairSpec ==
  /\ Spec
  /\ \A h \in Host : WF_vars(Join(h)) /\ WF_vars(Work(h))
  /\ \A h, g \in Host : WF_vars(Receive(h, g)) /\ WF_vars(ReportSilent(h, g))

-----------------------------------------------------------------------------
(* Properties                                                              *)

\* tcp/raft_tcp_server.cpp:350: when the adder has received the joiner's answer,
\* the joiner has added all the nodes the adder knows: the adder's table cannot
\* change between the list and the answer, because the shared lock is held.
AnswerConfirmsList ==
  [][\A a \in Host : \A j \in hand[a] :
       ReceiveExtraData(a, j) /\ Waits(j.key, a, "answered")
         => m_Nodes[a] \subseteq m_Nodes[j.key]]_vars

\* When the cluster has come to rest, every running process knows every running
\* process and no other: with one process starting or ending at a time, and no
\* exchange that timed out, the news sent by the adder and by the leader leave
\* the same table everywhere.
QuietAgreement ==
  Quiet /\ alone => \A h \in Host : state[h] = "up" =>
             /\ m_Nodes[h] = {g \in Host : state[g] = "up"}
             /\ m_pLeaderNode[h] = Founder

\* A process that starts is a member of a cluster in the end, or has exited: no
\* seed, adder or lock keeps it waiting for ever, whatever crashes or times out
\* meanwhile.
JoinEnds == \A h \in Host : state[h] = "joining" ~> state[h] # "joining"
=============================================================================
