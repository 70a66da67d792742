----------------------------- MODULE WorkerPool -----------------------------
(***************************************************************************)
(* The threads of raft::tcp::Server (tcp/raft_tcp_server.cpp) and what     *)
(* they share: the job queue m_fifoWorker with its semaphore m_semaWorker, *)
(* the read-write lock m_shrdMutexForNodes2 over the node table, the       *)
(* reference counter and the deletion mark of every RaftNode2, and the     *)
(* flag m_nWork by which StopServer ends the workers.                      *)
(*                                                                         *)
(* The receive thread and the periodic thread queue jobs under the shared  *)
(* lock, the listener without a lock.  A worker takes a job, handles it    *)
(* under the exclusive lock and then, without a counted reference, under   *)
(* the shared lock.  A phase that runs under the lock and waits for        *)
(* nothing is one step.                                                    *)
(*                                                                         *)
(* A member of Node is one RaftNode2 object; it also stands for its key.   *)
(* Roles (is_leader, is_candidate) belong to RaftServer and may have       *)
(* changed when a job is handled: their tests go either way here.          *)
(***************************************************************************)
EXTENDS Integers, Sequences, FiniteSets

CONSTANTS
  Worker,             \* m_vectThreadsWorkers
  Receiver, Periodic, Listener, Main,   \* the other threads
  Node, Nil,          \* RaftNode2 objects, NULL
  ThisNode,           \* m_thisNode
  InitialNodes, InitialLeader,   \* the node table and m_pLeaderNode at the start
  RcvRequests, IntRequests, ConRequests, \* the requests that may occur
  MayStop,            \* whether StopServer may be called
  MaxJobs             \* bound: jobs queued

Reader == {Receiver, Periodic}
Producer == Reader \cup {Listener}
Hands == Worker \cup Producer     \* the threads that make or handle jobs
Thread == Hands \cup {Main}

ASSUME WorkerPoolAssumption ==
  /\ IsFiniteSet(Worker) /\ IsFiniteSet(Node) /\ Nil \notin Node \cup Thread
  /\ Receiver # Periodic /\ Listener \notin Reader /\ Main \notin Worker \cup Producer
  /\ Worker \cap Producer = {}
  /\ ThisNode \in InitialNodes /\ InitialNodes \subseteq Node
  /\ InitialLeader \in InitialNodes \cup {Nil}
  /\ RcvRequests \subseteq {"newNode", "removeNode", "oldLeaderDied", "other"}
  /\ IntRequests \subseteq {"removeNode", "becomeLeader"}
  /\ ConRequests \subseteq {"newNode", "other"}
  /\ MayStop \in BOOLEAN /\ MaxJobs \in Nat

VARIABLES
  m_nWork,                     \* TRUE until StopServer
  m_fifoWorker, m_semaWorker,  \* the queue and its semaphore
  writer, readers,             \* m_shrdMutexForNodes2
  status, marked, locksCount,  \* per node: allocation, deletion mark, references
  m_pLeaderNode,
  pc, job,                     \* per thread: where it is, the job in its hands
  victim,                      \* per worker: the node RemoveNode1 is removing, or will
  posts,                       \* posts StopServer still owes
  made, dropped                \* history: jobs made, jobs dropped at a stop

queueVars == <<m_fifoWorker, m_semaWorker>>
lockVars == <<writer, readers>>
nodeVars == <<status, marked, m_pLeaderNode, victim>>
stopVars == <<m_nWork, posts>>
vars == <<queueVars, lockVars, nodeVars, locksCount, stopVars, pc, job, made, dropped>>

Request == {"newNode", "removeNode", "oldLeaderDied", "becomeLeader", "other"}

\* SWorkerData; a connection has no node yet
Job ==
  [type : {"rcv", "int"}, request : Request, node : Node \cup {Nil},
   key : Node \cup {Nil}, id : Nat]
    \cup [type : {"con"}, request : Request, node : {Nil}, key : {Nil}, id : Nat]

Label == {"idle", "lock", "pass", "count", "add", "post",
          "loop", "wait", "first", "more", "got", "conShared", "intShared", "exclusive",
          "leading", "removing", "after", "posting", "joined", "done"}

ASSUME NilAssumption == Nil \notin Job

TypeOK ==
  /\ m_nWork \in BOOLEAN /\ m_semaWorker \in Nat /\ posts \in Nat /\ made \in Nat
  /\ m_fifoWorker \in Seq(Job) /\ dropped \in SUBSET Job
  /\ writer \in Worker \cup {Nil} /\ readers \in SUBSET Reader
  /\ status \in [Node -> {"unused", "live", "freed"}]
  /\ marked \in [Node -> BOOLEAN] /\ locksCount \in [Node -> Nat]
  /\ m_pLeaderNode \in Node \cup {Nil}
  /\ pc \in [Thread -> Label]
  /\ job \in [Hands -> Job \cup {Nil}]
  /\ victim \in [Worker -> Node \cup {Nil}]

Init ==
  /\ m_nWork = TRUE /\ m_fifoWorker = <<>> /\ m_semaWorker = 0
  /\ writer = Nil /\ readers = {}
  /\ status = [n \in Node |-> IF n \in InitialNodes THEN "live" ELSE "unused"]
  /\ marked = [n \in Node |-> FALSE] /\ locksCount = [n \in Node |-> 0]
  /\ m_pLeaderNode = InitialLeader
  /\ pc = [t \in Thread |-> IF t \in Worker THEN "loop" ELSE "idle"]
  /\ job = [t \in Hands |-> Nil]
  /\ victim = [w \in Worker |-> Nil]
  /\ posts = 0 /\ made = 0 /\ dropped = {}

Goto(t, label) == pc' = [pc EXCEPT ![t] = label]
----------------------------------------------------------------------------
(* Producers                                                               *)

\* while (m_nWork) of the receive and the periodic thread
LoopTest(t) ==
  /\ pc[t] = "idle"
  /\ Goto(t, IF m_nWork THEN "lock" ELSE "done")
  /\ UNCHANGED <<queueVars, lockVars, nodeVars, locksCount, stopVars, job, made, dropped>>

SharedLock(t) ==
  /\ pc[t] = "lock" /\ writer = Nil
  /\ readers' = readers \cup {t}
  /\ Goto(t, "pass")
  /\ UNCHANGED <<queueVars, writer, nodeVars, locksCount, stopVars, job, made, dropped>>

SharedUnlock(t) ==
  /\ pc[t] = "pass"
  /\ readers' = readers \ {t}
  /\ Goto(t, "idle")
  /\ UNCHANGED <<queueVars, writer, nodeVars, locksCount, stopVars, job, made, dropped>>

\* t has the job j in its hands, with a pointer to j.node it found unmarked
Make(t, j) ==
  /\ made < MaxJobs
  /\ job' = [job EXCEPT ![t] = j]
  /\ made' = made + 1
  /\ Goto(t, "count")
  /\ UNCHANGED <<queueVars, lockVars, nodeVars, locksCount, stopVars, dropped>>

\* a request has arrived from node n; the leader removes other nodes than
\* itself and than the receiver of the request
ReceiveFromSocketAndInform(n, request, key) ==
  /\ pc[Receiver] = "pass"
  /\ status[n] = "live" /\ n # ThisNode /\ ~marked[n]
  /\ IF request = "removeNode" THEN n = m_pLeaderNode /\ key \in Node \ {n, ThisNode}
     ELSE key = Nil
  /\ Make(Receiver, [type |-> "rcv", request |-> request, node |-> n,
                     key |-> key, id |-> made])

\* SendClbkFunction reports a silent follower: in the periodic thread, in a
\* worker that becomes the leader (the old leader is skipped), and in the
\* receive thread when an election is won and no leader is known.
\* become_candidate and become_leader report that an election is won
AddInternalForWorker(t, request, n) ==
  /\ pc[t] = IF t \in Worker THEN "leading" ELSE "pass"
  /\ IF request = "removeNode"
     THEN /\ n \in Node \ {ThisNode} /\ status[n] = "live" /\ ~marked[n]
          /\ t = Receiver => m_pLeaderNode = Nil
          /\ t \in Worker => n # victim[t]
     ELSE t \in Reader /\ n = Nil
  /\ Make(t, [type |-> "int", request |-> request, node |-> n, key |-> n, id |-> made])

AddConnectForWorker(request) ==
  /\ pc[Listener] = "idle"
  /\ Make(Listener, [type |-> "con", request |-> request, node |-> Nil,
                     key |-> Nil, id |-> made])

\* the receive and the periodic thread go on with their pass, a worker with
\* the sends of become_leader
Back(t) == IF t \in Worker THEN "leading" ELSE IF t \in Reader THEN "pass" ELSE "idle"

IncrementLock(t) ==
  /\ pc[t] = "count"
  /\ locksCount' = IF job[t].node = Nil THEN locksCount
                   ELSE [locksCount EXCEPT ![job[t].node] = @ + 1]
  /\ Goto(t, "add")
  /\ UNCHANGED <<queueVars, lockVars, nodeVars, stopVars, job, made, dropped>>

AddElement2(t) ==
  /\ pc[t] = "add"
  /\ m_fifoWorker' = Append(m_fifoWorker, job[t])
  /\ job' = [job EXCEPT ![t] = Nil]
  /\ Goto(t, "post")
  /\ UNCHANGED <<m_semaWorker, lockVars, nodeVars, locksCount, stopVars, made, dropped>>

\* mutant: a post only for a job that is alone in the queue
PostIfAlone(t) ==
  /\ pc[t] = "post"
  /\ m_semaWorker' = IF Len(m_fifoWorker) > 1 THEN m_semaWorker ELSE m_semaWorker + 1
  /\ Goto(t, Back(t))
  /\ UNCHANGED <<m_fifoWorker, lockVars, nodeVars, locksCount, stopVars, job, made, dropped>>

Post(t) ==
  /\ pc[t] = "post"
  /\ m_semaWorker' = m_semaWorker + 1
  /\ Goto(t, Back(t))
  /\ UNCHANGED <<m_fifoWorker, lockVars, nodeVars, locksCount, stopVars, job, made, dropped>>
----------------------------------------------------------------------------
(* Workers                                                                 *)

WhileWork(w) ==
  /\ pc[w] = "loop"
  /\ Goto(w, IF m_nWork THEN "wait" ELSE "done")
  /\ UNCHANGED <<queueVars, lockVars, nodeVars, locksCount, stopVars, job, made, dropped>>

Wait(w) ==
  /\ pc[w] = "wait" /\ m_semaWorker > 0
  /\ m_semaWorker' = m_semaWorker - 1
  /\ Goto(w, "first")
  /\ UNCHANGED <<m_fifoWorker, lockVars, nodeVars, locksCount, stopVars, job, made, dropped>>

\* Extract, the first after a wait or a later one
Extract(w) ==
  /\ pc[w] \in {"first", "more"}
  /\ IF m_fifoWorker = <<>>
     THEN Goto(w, "loop") /\ UNCHANGED <<m_fifoWorker, job>>
     ELSE /\ job' = [job EXCEPT ![w] = Head(m_fifoWorker)]
          /\ m_fifoWorker' = Tail(m_fifoWorker)
          /\ Goto(w, "got")
  /\ UNCHANGED <<m_semaWorker, lockVars, nodeVars, locksCount, stopVars, made, dropped>>

Released(n) ==
  IF n = Nil THEN locksCount ELSE [locksCount EXCEPT ![n] = @ - 1]

\* the phase in which the handler of a job begins
FirstPhase == [con |-> "conShared", rcv |-> "exclusive", int |-> "intShared"]

Done(w) == job' = [job EXCEPT ![w] = Nil]

\* mutant: the reference of a job for a marked node is not given back
DispatchKeeps(w) ==
  /\ pc[w] = "got"
  /\ LET n == job[w].node
         skip == n # Nil /\ marked[n]
     IN  /\ dropped' = IF m_nWork THEN dropped ELSE dropped \cup {job[w]}
         /\ locksCount' = locksCount
         /\ IF m_nWork /\ ~skip
            THEN Goto(w, FirstPhase[job[w].type]) /\ UNCHANGED job
            ELSE Goto(w, "loop") /\ Done(w)
  /\ UNCHANGED <<queueVars, lockVars, nodeVars, stopVars, made>>

\* the rest of the inner loop test, the mark, the switch; a job extracted
\* after StopServer is dropped and keeps its reference
Dispatch(w) ==
  /\ pc[w] = "got"
  /\ LET n == job[w].node
         skip == n # Nil /\ marked[n]
     IN  /\ dropped' = IF m_nWork THEN dropped ELSE dropped \cup {job[w]}
         /\ locksCount' = IF m_nWork /\ skip THEN Released(n) ELSE locksCount
         /\ IF m_nWork /\ ~skip
            THEN Goto(w, FirstPhase[job[w].type]) /\ UNCHANGED job
            ELSE Goto(w, "loop") /\ Done(w)
  /\ UNCHANGED <<queueVars, lockVars, nodeVars, stopVars, made>>

\* handleInternalBeforeLock and handleNewConnectionBeforeLock: only an
\* internal job and a newNode connection go on
BeforeLock(w) ==
  /\ pc[w] \in {"conShared", "intShared"} /\ writer = Nil
  /\ IF pc[w] = "intShared" \/ job[w].request = "newNode"
     THEN Goto(w, "exclusive") /\ UNCHANGED job
     ELSE Goto(w, "more") /\ Done(w)
  /\ UNCHANGED <<queueVars, lockVars, nodeVars, locksCount, stopVars, made, dropped>>

\* what every handler under the exclusive lock does first
ExclusiveLock(w) ==
  /\ pc[w] = "exclusive" /\ writer = Nil /\ readers = {}
  /\ locksCount' = Released(job[w].node)
  /\ Done(w)
  /\ UNCHANGED <<queueVars, readers, stopVars, made, dropped>>

\* the handler is done and gives the lock back: to the phase after the lock,
\* or to the next job
Leave(w, label) ==
  /\ Goto(w, label)
  /\ writer' = Nil
  /\ victim' = [victim EXCEPT ![w] = Nil]
  /\ UNCHANGED marked

\* the handler calls RemoveNode1 on n, which waits under the exclusive lock
BeginRemove(w, n) ==
  IF n # Nil /\ status[n] = "live"
  THEN /\ marked' = [marked EXCEPT ![n] = TRUE]
       /\ victim' = [victim EXCEPT ![w] = n]
       /\ writer' = w
       /\ Goto(w, "removing")
       /\ UNCHANGED status
  ELSE Leave(w, "after") /\ UNCHANGED status

\* the node RemoveNode2(p) looks up: the key is read from the object p, and
\* an object already freed may hold any key
Looked(p) == IF status[p] = "freed" THEN Node \cup {Nil} ELSE {p}

\* AddNode of handleNewConnectionLocked and of the newNode request: the key
\* may be in the table already; a connection goes on even then
AddNode(w) ==
  /\ ExclusiveLock(w)
  /\ job[w].request = "newNode"
  /\ UNCHANGED m_pLeaderNode
  /\ \/ /\ \E n \in Node : status[n] = "unused" /\ status' = [status EXCEPT ![n] = "live"]
        /\ Leave(w, "after")
     \/ /\ Leave(w, IF job[w].type = "con" THEN "after" ELSE "more")
        /\ UNCHANGED status

\* removeNode, from the leader or (as a leader) from the periodic thread; an
\* internal job does nothing when this server is no longer the leader
RemoveNode(w) ==
  /\ ExclusiveLock(w)
  /\ job[w].request = "removeNode"
  /\ UNCHANGED m_pLeaderNode
  /\ \/ BeginRemove(w, job[w].key)
     \/ job[w].type = "int" /\ Leave(w, "more") /\ UNCHANGED status

\* oldLeaderDied: m_pLeaderNode becomes the sender once the old one is gone
OldLeaderDied(w) ==
  /\ ExclusiveLock(w)
  /\ job[w].request = "oldLeaderDied"
  /\ IF m_pLeaderNode = Nil
     THEN Leave(w, "more") /\ UNCHANGED <<m_pLeaderNode, status>>
     ELSE \E n \in Looked(m_pLeaderNode) :
            /\ m_pLeaderNode' = job[w].node
            /\ BeginRemove(w, n)

\* becomeLeader of a candidate: RaftServer::become_leader sends to the nodes,
\* and may queue jobs, before the old leader is removed
BecomeLeader(w) ==
  /\ ExclusiveLock(w)
  /\ job[w].request = "becomeLeader"
  /\ UNCHANGED status
  /\ \/ /\ m_pLeaderNode # Nil
        /\ m_pLeaderNode' = ThisNode
        /\ victim' = [victim EXCEPT ![w] = m_pLeaderNode]
        /\ writer' = w
        /\ Goto(w, "leading")
        /\ UNCHANGED marked
     \/ Leave(w, "more") /\ UNCHANGED m_pLeaderNode

RemoveOldLeader(w) ==
  /\ pc[w] = "leading"
  /\ \E n \in Looked(victim[w]) : BeginRemove(w, n)
  /\ UNCHANGED <<queueVars, readers, m_pLeaderNode, locksCount, stopVars, job, made, dropped>>

\* response::ok, resetPing and clbkCmd were handled by the receive thread
OtherRequest(w) ==
  /\ ExclusiveLock(w)
  /\ job[w].request = "other"
  /\ Leave(w, "more")
  /\ UNCHANGED <<m_pLeaderNode, status>>

\* mutant: the node is deleted without waiting for its references
EndRemoveNow(w) ==
  /\ pc[w] = "removing"
  /\ status' = [status EXCEPT ![victim[w]] = "freed"]
  /\ victim' = [victim EXCEPT ![w] = Nil]
  /\ writer' = Nil
  /\ Goto(w, "after")
  /\ UNCHANGED <<queueVars, readers, marked, m_pLeaderNode, locksCount, stopVars, job,
                 made, dropped>>

\* the end of RemoveNode1: no reference is left, the node leaves the table
EndRemove(w) ==
  /\ pc[w] = "removing" /\ locksCount[victim[w]] = 0
  /\ status' = [status EXCEPT ![victim[w]] = "freed"]
  /\ victim' = [victim EXCEPT ![w] = Nil]
  /\ writer' = Nil
  /\ Goto(w, "after")
  /\ UNCHANGED <<queueVars, readers, marked, m_pLeaderNode, locksCount, stopVars, job,
                 made, dropped>>

\* the phase after the lock sends to other nodes, under the shared lock
AfterLock(w) ==
  /\ pc[w] = "after" /\ writer = Nil
  /\ Goto(w, "more")
  /\ UNCHANGED <<queueVars, lockVars, nodeVars, locksCount, stopVars, job, made, dropped>>
----------------------------------------------------------------------------
(* StopServer                                                              *)

StopServer ==
  /\ MayStop /\ pc[Main] = "idle"
  /\ m_nWork' = FALSE
  /\ posts' = Cardinality(Worker)
  /\ Goto(Main, "posting")
  /\ UNCHANGED <<queueVars, lockVars, nodeVars, locksCount, job, made, dropped>>

\* mutant: one post more than there are workers
StopPostOneMore ==
  /\ pc[Main] = "posting" /\ posts >= 0
  /\ posts' = posts - 1
  /\ m_semaWorker' = m_semaWorker + 1
  /\ UNCHANGED <<m_fifoWorker, lockVars, nodeVars, locksCount, m_nWork, pc, job, made, dropped>>

StopPost ==
  /\ pc[Main] = "posting" /\ posts > 0
  /\ posts' = posts - 1
  /\ m_semaWorker' = m_semaWorker + 1
  /\ UNCHANGED <<m_fifoWorker, lockVars, nodeVars, locksCount, m_nWork, pc, job, made, dropped>>

Join ==
  /\ pc[Main] = "posting" /\ posts = 0 /\ \A w \in Worker : pc[w] = "done"
  /\ Goto(Main, "joined")
  /\ UNCHANGED <<queueVars, lockVars, nodeVars, locksCount, stopVars, job, made, dropped>>
----------------------------------------------------------------------------
Produce(t) == IncrementLock(t) \/ AddElement2(t) \/ Post(t)

Locked(w) ==
  AddNode(w) \/ RemoveNode(w) \/ OldLeaderDied(w) \/ BecomeLeader(w) \/ OtherRequest(w)

Work(w) ==
  \/ WhileWork(w) \/ Wait(w) \/ Extract(w) \/ Dispatch(w) \/ BeforeLock(w)
  \/ Locked(w) \/ Produce(w) \/ RemoveOldLeader(w) \/ EndRemove(w) \/ AfterLock(w)

Next ==
  \/ \E t \in Reader : LoopTest(t) \/ SharedLock(t) \/ SharedUnlock(t)
  \/ \E n \in Node, request \in RcvRequests, key \in Node \cup {Nil} :
       ReceiveFromSocketAndInform(n, request, key)
  \/ \E t \in Reader \cup Worker, request \in IntRequests, n \in Node \cup {Nil} :
       AddInternalForWorker(t, request, n)
  \/ \E request \in ConRequests : AddConnectForWorker(request)
  \/ \E t \in Producer : Produce(t)
  \/ \E w \in Worker : Work(w)
  \/ StopServer \/ StopPost \/ Join

Spec == Init /\ [][Next]_vars

(* Threads make progress.  The exclusive lock is taken strongly fairly: a  *)
(* reader gives the lock back and sleeps (SleepMs, select) between passes. *)
Fairness ==
  /\ \A t \in Reader : WF_vars(SharedUnlock(t))
  /\ \A t \in Producer : WF_vars(Produce(t))
  /\ \A w \in Worker : WF_vars(Work(w)) /\ SF_vars(Locked(w))
  /\ WF_vars(StopPost) /\ WF_vars(Join)

FairSpec == Spec /\ Fairness
----------------------------------------------------------------------------
(* Properties                                                              *)

\* the jobs that hold a counted reference to their node: in the queue, in
\* the hands of a thread, or dropped
Queued == {m_fifoWorker[i] : i \in DOMAIN m_fifoWorker}
InHand == {job[t] : t \in {u \in Hands : pc[u] # "count"}} \ {Nil}
Uncounted == {job[t] : t \in {u \in Hands : pc[u] = "count"}} \ {Nil}
Holders == Queued \cup InHand \cup dropped

(* The counter of a node is the number of jobs that name it and have not   *)
(* given their reference back: incrementLock2 and decrementLock2 pair up   *)
(* on every path through the queue, the mark test and the handlers.        *)
LockCountExact ==
  \A n \in Node : locksCount[n] = Cardinality({j \in Holders : j.node = n})

(* RemoveNode1 never deletes a node that a job still names, be it queued,  *)
(* in the hands of a worker, or in those of a thread that has read the     *)
(* mark and not yet counted its reference: isMarkedForDeletion,            *)
(* incrementLock2 and decrementLock2 are never applied to a deleted        *)
(* object.  What a handler reads of the sender once its reference is given *)
(* back (the phase after the lock) is not covered.                         *)
JobNodeAlive ==
  \A j \in Queued \cup InHand \cup Uncounted : j.node # Nil => status[j.node] = "live"

(* Every queued job has a post of its own: one in the semaphore, one just  *)
(* consumed by a worker that has not yet looked into the queue, or one its *)
(* producer is about to make.  So no job waits in the queue while all the  *)
(* workers sleep, although a worker that meets a marked node leaves the    *)
(* queue (goto enterLoopPoint) with jobs still in it.                      *)
NoLostWakeup ==
  Len(m_fifoWorker) <= m_semaWorker + Cardinality({w \in Worker : pc[w] = "first"})
                                    + Cardinality({t \in Hands : pc[t] = "post"})

(* tcp/raft_tcp_server.cpp:38 "number of virtual pings, after this leader  *)
(* will remove follower": a removal that began is completed.               *)
RemovalCompletes == \A n \in Node : marked[n] ~> status[n] = "freed"
=============================================================================
