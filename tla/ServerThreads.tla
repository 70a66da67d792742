--------------------------- MODULE ServerThreads ---------------------------
(***************************************************************************)
(* How the threads of raft::tcp::Server are woken and how they end         *)
(* (tcp/raft_tcp_server.cpp, common/common_servertcp.cpp).                 *)
(*                                                                         *)
(* The receive thread sleeps in select, without a time-out, on the sockets *)
(* of the bridges and on an empty socket m_intrptSocketForRcv.  Whoever    *)
(* sets up a bridge wakes it by InterruptReceivercThread: a new empty      *)
(* socket is stored, the old one is closed and a signal is sent.  A signal *)
(* ends a select that is running, a closed descriptor one that begins.     *)
(* StopServer clears m_nWork, wakes every thread and joins them.           *)
(*                                                                         *)
(* Descriptors are numbers, and a number that was closed is given out      *)
(* again: `file' is what each number stands for.  The system gives out the *)
(* least free one, but the process has files that are not modelled, so any *)
(* free number is possible here.  0 stands for -1.                         *)
(*                                                                         *)
(* The node table and the steps of the job queue are in WorkerPool.  Here  *)
(* a job is added and posted in one step; it is the descriptor of a        *)
(* connection, or 0 for a request that holds a reference to some node.  A  *)
(* worker in RemoveNode1 has the node lock for itself until the references *)
(* to its node are given back.  Of the two receive threads that run the    *)
(* same code, one is modelled.                                             *)
(***************************************************************************)
EXTENDS Naturals, Sequences, FiniteSets

CONSTANTS
  Peer,               \* the other nodes
  Worker,             \* m_vectThreadsWorkers
  OtherPeriodic,      \* m_vectThreadsOtherPeriodic
  Receiver, Periodic, Listener, Chains, Main,  \* the other threads
  MaxFds,             \* bound: descriptors of the process
  Bounds              \* bounds: the workers and other periodic threads that are
                      \* started, jobs, bridges set up, and may a client connect and
                      \* StopServer be called

Interrupter == Worker \cup {Periodic}
Sleeper == OtherPeriodic \cup {Periodic}
Joined == Worker \cup Sleeper \cup {Receiver, Listener, Chains}
Thread == Joined \cup {Main}

Fd == 1..MaxFds

ASSUME ServerThreadsAssumption ==
  /\ IsFiniteSet(Worker)
  /\ Receiver \notin {Periodic, Listener, Chains, Main}
  /\ Periodic \notin {Listener, Chains, Main}
  /\ Listener \notin {Chains, Main} /\ Chains # Main
  /\ Worker \cap (OtherPeriodic \cup {Receiver, Periodic, Listener, Chains, Main}) = {}
  /\ OtherPeriodic \cap {Receiver, Periodic, Listener, Chains, Main} = {}
  /\ Peer \cap {"none", "empty", "connection"} = {}
  /\ MaxFds \in Nat \ {0}
  /\ Bounds \subseteq [started : SUBSET (Worker \cup OtherPeriodic),
                       jobs : Nat, bridges : Nat, clients : BOOLEAN, stop : BOOLEAN]

VARIABLES
  m_nWork, m_nWorkStatus,      \* the flags of Server and of its ServerTCP
  file,                        \* per descriptor: none, empty, connection, or a peer
  m_intrpt,                    \* m_intrptSocketForRcv[raft]
  old,                         \* nSocketForInfoOld, per interrupting thread
  sock, readable,              \* descriptor per peer, descriptors with unread data
  eFds, rFds,                  \* fd_sets of select: the empty socket, the bridges
  lapsed,                      \* history: its select begins too late to be woken
  m_fifoWorker, m_semaWorker,  \* queue of the workers and its semaphore
  hand,                        \* descriptor of the connection a worker handles
  dropped,                     \* a job with a reference was taken and not handled
  semaChains,                  \* m_semaForSolvingDublicates2
  pc,
  made, bridges, bound         \* jobs and bridges so far, and their bounds

flags == <<m_nWork, m_nWorkStatus>>
intrVars == <<m_intrpt, old>>
fdVars == <<file, sock, readable>>
fdSets == <<eFds, rFds, lapsed>>
queue == <<m_fifoWorker, m_semaWorker, made>>
workVars == <<hand, dropped>>
bounds == <<bridges, bound>>
vars == <<flags, intrVars, fdVars, fdSets, queue, workVars, semaChains, pc, bounds>>

Label ==
  {"gather", "nodes", "ready", "select", "woken", "lock", "read",
   "pass", "wait", "accept", "more", "handle", "remove", "send",
   "old", "store", "close", "kill",
   "idle", "closeIntr", "unset", "killRcv", "posts", "joins", "returned", "done"}

\* RunAllThreadPrivate has started every thread, each has passed its first
\* test of m_nWork, and CreateServer has failed or RunServer begun
Init ==
  /\ m_nWork = TRUE /\ m_nWorkStatus \in {"STOPPED", "RUN"}
  /\ m_intrpt = 1 /\ file = [fd \in 0..MaxFds |-> IF fd = 1 THEN "empty" ELSE "none"]
  /\ old = [t \in Interrupter |-> 0]
  /\ sock = [p \in Peer |-> 0] /\ readable = {}
  /\ eFds = 0 /\ rFds = {} /\ lapsed = FALSE
  /\ m_fifoWorker = <<>> /\ m_semaWorker = 0
  /\ hand = [w \in Worker |-> 0] /\ dropped = FALSE
  /\ semaChains = 0
  /\ made = 0 /\ bridges = 0 /\ bound \in Bounds
  /\ pc = [t \in Thread |->
            IF t \in (Worker \cup OtherPeriodic) \ bound.started THEN "done"
            ELSE IF t \in Worker \cup {Chains} THEN "wait"
            ELSE IF t \in Sleeper THEN "lock"
            ELSE IF t = Receiver THEN "gather"
            ELSE IF t = Listener THEN IF m_nWorkStatus = "RUN" THEN "accept" ELSE "done"
            ELSE "idle"]

Goto(t, label) == pc' = [pc EXCEPT ![t] = label]

\* a worker has the node lock for itself
Removing == \E w \in Worker : pc[w] = "remove"

\* threads that share the node lock
Sharing ==
  {t \in Interrupter : pc[t] \in {"pass", "send", "old", "store", "close", "kill"}}
    \cup {t \in {Receiver} : pc[t] \in {"nodes", "read"}}

Free == {fd \in Fd : file[fd] = "none"}

Remembered ==
  {eFds, m_intrpt} \cup rFds \cup {old[t] : t \in Interrupter} \cup {sock[p] : p \in Peer}
    \cup {hand[w] : w \in Worker} \cup {m_fifoWorker[i] : i \in DOMAIN m_fifoWorker}

\* what a new file may be numbered: free numbers that nothing remembers are
\* interchangeable, and the least stands for them
NewFd == {fd \in Free : fd \in Remembered \/ \A other \in Free \ Remembered : fd <= other}

\* one of these was gathered for a select that has not begun: it will not
\* fail for a descriptor that is closed
Lapse(fds) == lapsed' = (lapsed \/ (eFds \in fds \ {0} /\ pc[Receiver] \in {"nodes", "ready"}))

\* socket, accept: a new file
Open(fd, what) == file' = [file EXCEPT ![fd] = what]

\* what else becomes of a descriptor that is closed; a select that runs goes
\* on with the old file, whatever the number stands for afterwards
Forget(fd) ==
  /\ readable' = readable \ {fd}
  /\ rFds' = IF pc[Receiver] = "select" THEN rFds \ {fd} ELSE rFds
  /\ UNCHANGED <<eFds, lapsed>>

Closed(fd) == [file EXCEPT ![fd] = "none"]

\* what becomes of the sets when select returns without a socket to read
FdZero == eFds' = 0 /\ rFds' = {} /\ lapsed' = FALSE

\* pthread_kill of the receive thread by t: SIGPIPE interrupts its select,
\* and does nothing to it anywhere else
Signal(t, label) ==
  /\ pc' = [pc EXCEPT ![t] = label,
                      ![Receiver] = IF @ = "select" THEN "woken" ELSE @]
  /\ IF pc[Receiver] = "select" THEN FdZero
     ELSE lapsed' = (lapsed \/ t = Main) /\ UNCHANGED <<eFds, rFds>>

\* mutant: a post only for a job that is alone in the queue
AddJobPostIfAlone(job) ==
  /\ made < bound.jobs
  /\ m_fifoWorker' = Append(m_fifoWorker, job)
  /\ m_semaWorker' = IF m_fifoWorker = <<>> THEN m_semaWorker + 1 ELSE m_semaWorker
  /\ made' = made + 1

\* the end of AddJobForWorkerPrivate and of ReceiveFromSocketAndInform
AddJob(job) ==
  /\ made < bound.jobs
  /\ m_fifoWorker' = Append(m_fifoWorker, job)
  /\ m_semaWorker' = m_semaWorker + 1
  /\ made' = made + 1
----------------------------------------------------------------------------
(* The receive thread                                                      *)

\* while (m_nWork)
AtGather == IF m_nWork THEN "gather" ELSE "done"

\* the thread has tested m_nWork and gets the node lock
RcvGather ==
  /\ pc[Receiver] = "gather" /\ ~Removing
  /\ eFds' = m_intrpt /\ rFds' = {} /\ lapsed' = (lapsed /\ ~m_nWork)
  /\ Goto(Receiver, "nodes")
  /\ UNCHANGED <<flags, intrVars, fdVars, queue, workVars, semaChains, bounds>>

\* with nothing to watch the thread sleeps a while (SleepMs) and starts again
RcvNodes ==
  /\ pc[Receiver] = "nodes"
  /\ rFds' = {sock[p] : p \in Peer} \ {0}
  /\ Goto(Receiver, IF eFds = 0 /\ rFds' = {} THEN AtGather ELSE "ready")
  /\ UNCHANGED <<flags, intrVars, fdVars, eFds, lapsed, queue, workVars, semaChains, bounds>>

BadFd == \E fd \in (rFds \cup {eFds}) \ {0} : file[fd] = "none"

\* select begins, and returns at once if a descriptor is bad (EBADF); without
\* the empty socket nMax starts with whatever it held, and select may refuse it
RcvSelect ==
  /\ pc[Receiver] = "ready"
  /\ \/ ~BadFd /\ Goto(Receiver, "select") /\ UNCHANGED fdSets
     \/ (BadFd \/ eFds = 0) /\ Goto(Receiver, "woken") /\ FdZero
  /\ UNCHANGED <<flags, intrVars, fdVars, queue, workVars, semaChains, bounds>>

\* select returns the sockets that can be read
RcvReady ==
  /\ pc[Receiver] = "select"
  /\ rFds \cap readable # {}
  /\ rFds' = rFds \cap readable
  /\ eFds' = 0 /\ lapsed' = FALSE
  /\ Goto(Receiver, "woken")
  /\ UNCHANGED <<flags, intrVars, fdVars, queue, workVars, semaChains, bounds>>

RcvWoken ==
  /\ pc[Receiver] = "woken"
  /\ Goto(Receiver, IF m_nWork THEN "lock" ELSE "done")
  /\ UNCHANGED <<flags, intrVars, fdVars, fdSets, queue, workVars, semaChains, bounds>>

RcvLock ==
  /\ pc[Receiver] = "lock" /\ ~Removing
  /\ Goto(Receiver, "read")
  /\ UNCHANGED <<flags, intrVars, fdVars, fdSets, queue, workVars, semaChains, bounds>>

\* mutant: a stream that has ended stays readable
RcvReadKeeps(p) ==
  /\ pc[Receiver] = "read" /\ sock[p] \in rFds
  /\ rFds' = rFds \ {sock[p]}
  /\ file' = Closed(sock[p]) /\ sock' = [sock EXCEPT ![p] = 0]
  /\ UNCHANGED <<flags, intrVars, readable, eFds, lapsed, queue, workVars, semaChains, pc, bounds>>

\* ReceiveFromSocketAndInform, for a descriptor that select returned and p
\* has now: a request becomes a job or is refused; the end of the stream, or
\* a time-out when there is nothing to read, closes the socket
RcvRead(p) ==
  /\ pc[Receiver] = "read" /\ sock[p] \in rFds
  /\ rFds' = rFds \ {sock[p]} /\ readable' = readable \ {sock[p]}
  /\ \/ sock[p] \in readable /\ AddJob(0) /\ UNCHANGED <<file, sock>>
     \/ sock[p] \in readable /\ UNCHANGED <<file, sock, queue>>
     \/ file' = Closed(sock[p]) /\ sock' = [sock EXCEPT ![p] = 0] /\ UNCHANGED queue
  /\ UNCHANGED <<flags, intrVars, eFds, lapsed, workVars, semaChains, pc, bounds>>

RcvAgain ==
  /\ pc[Receiver] = "read" /\ \A p \in Peer : sock[p] \notin rFds
  /\ Goto(Receiver, AtGather) /\ FdZero
  /\ UNCHANGED <<flags, intrVars, fdVars, queue, workVars, semaChains, bounds>>
----------------------------------------------------------------------------
(* Bridges and InterruptReceivercThread                                    *)

\* new data, or the end of the stream, on a bridge
PeerSends(fd) ==
  /\ file[fd] \in Peer /\ fd \notin readable
  /\ readable' = readable \cup {fd}
  /\ UNCHANGED <<flags, intrVars, file, sock, fdSets, queue, workVars, semaChains, pc, bounds>>

\* a worker gives p the connection it handles (permanentBridge, newNode), in
\* place of what was there, which setSocket closes
SetSocket(w, p) ==
  /\ bridges < bound.bridges
  /\ pc[w] = "send" /\ hand[w] # 0
  /\ file' = [Closed(sock[p]) EXCEPT ![hand[w]] = IF @ = "connection" THEN p ELSE @]
  /\ sock' = [sock EXCEPT ![p] = hand[w]]
  /\ hand' = [hand EXCEPT ![w] = 0]
  /\ Forget(sock[p])
  /\ bridges' = bridges + 1
  /\ Goto(w, "old")
  /\ UNCHANGED <<flags, intrVars, queue, dropped, semaChains, bound>>

\* NodeTools::writeC connects if there is no socket
Connect(t, p) ==
  /\ bridges < bound.bridges
  /\ pc[t] \in {"pass", "send"} /\ sock[p] = 0
  /\ \E fd \in NewFd : Open(fd, p) /\ Lapse({fd}) /\ sock' = [sock EXCEPT ![p] = fd]
  /\ bridges' = bridges + 1
  /\ Goto(t, "old")
  /\ UNCHANGED <<flags, intrVars, readable, eFds, rFds, queue, workVars, semaChains, bound>>

ReadOld(t) ==
  /\ pc[t] = "old"
  /\ old' = [old EXCEPT ![t] = m_intrpt]
  /\ Goto(t, IF m_intrpt = 0 THEN "kill" ELSE "store")
  /\ UNCHANGED <<flags, m_intrpt, fdVars, fdSets, queue, workVars, semaChains, bounds>>

\* CreateEmptySocket and the assignment; another thread may have stored a
\* socket since old was read, and nobody closes that one
StoreNew(t) ==
  /\ pc[t] = "store"
  /\ \E fd \in NewFd :
       /\ Open(fd, "empty") /\ m_intrpt' = fd
       /\ Lapse({fd} \cup ({m_intrpt} \ {old[t]}))
  /\ Goto(t, "close")
  /\ UNCHANGED <<flags, old, sock, readable, eFds, rFds, queue, workVars, semaChains, bounds>>

\* mutant: the old socket stays open
CloseOldNot(t) ==
  /\ pc[t] = "close"
  /\ old' = [old EXCEPT ![t] = 0]
  /\ Goto(t, "kill")
  /\ UNCHANGED <<flags, m_intrpt, fdVars, fdSets, queue, workVars, semaChains, bounds>>

\* the number is closed, whatever it stands for by now
CloseOld(t) ==
  /\ pc[t] = "close"
  /\ file' = Closed(old[t]) /\ Forget(old[t])
  /\ old' = [old EXCEPT ![t] = 0]
  /\ Goto(t, "kill")
  /\ UNCHANGED <<flags, m_intrpt, sock, queue, workVars, semaChains, bounds>>

\* where t goes on after the call
Back(t) == IF t = Periodic THEN "pass" ELSE "send"

\* mutant: no signal, the closed descriptor alone
KillNothing(t) ==
  /\ pc[t] = "kill"
  /\ Goto(t, Back(t))
  /\ UNCHANGED <<flags, intrVars, fdVars, fdSets, queue, workVars, semaChains, bounds>>

Kill(t) ==
  /\ pc[t] = "kill"
  /\ Signal(t, Back(t))
  /\ UNCHANGED <<flags, intrVars, fdVars, queue, workVars, semaChains, bounds>>

InterruptReceivercThread(t) == ReadOld(t) \/ StoreNew(t) \/ CloseOld(t) \/ Kill(t)
----------------------------------------------------------------------------
(* The workers                                                             *)

\* while (m_nWork), of a worker or the search: back to the semaphore, or out
AtLoop == IF m_nWork THEN "wait" ELSE "done"

Wait(w) ==
  /\ pc[w] = "wait" /\ m_semaWorker > 0
  /\ m_semaWorker' = m_semaWorker - 1
  /\ Goto(w, "more")
  /\ UNCHANGED <<flags, intrVars, fdVars, fdSets, m_fifoWorker, made, workVars, semaChains, bounds>>

\* the inner loop ends when the queue is empty, with a job taken after
\* StopServer, which keeps its reference and its descriptor, and with one for
\* a node marked for deletion, whose reference is given back
Extract(w) ==
  /\ pc[w] = "more"
  /\ \/ /\ m_fifoWorker = <<>> /\ Goto(w, AtLoop)
        /\ UNCHANGED <<m_fifoWorker, workVars>>
     \/ /\ m_fifoWorker # <<>> /\ m_fifoWorker' = Tail(m_fifoWorker)
        /\ LET job == Head(m_fifoWorker) IN
           \/ /\ m_nWork /\ Goto(w, "handle")
              /\ hand' = [hand EXCEPT ![w] = job] /\ UNCHANGED dropped
           \/ /\ m_nWork /\ job = 0 /\ Removing /\ Goto(w, AtLoop)
              /\ UNCHANGED workVars
           \/ /\ ~m_nWork /\ Goto(w, AtLoop)
              /\ dropped' = (dropped \/ job = 0) /\ UNCHANGED hand
  /\ UNCHANGED <<flags, intrVars, fdVars, fdSets, m_semaWorker, made, semaChains, bounds>>

\* the handler of a connection takes the node lock shared, as does every
\* handler that goes on after its exclusive part
TakeShared(w) ==
  /\ \/ pc[w] = "handle" /\ hand[w] # 0
     \/ pc[w] = "lock"
  /\ ~Removing
  /\ Goto(w, "send")
  /\ UNCHANGED <<flags, intrVars, fdVars, fdSets, queue, workVars, semaChains, bounds>>

\* the exclusive part of newNode and of every request of a node; it gives a
\* reference back, and ends the handler, goes on or calls RemoveNode1 (what
\* becomeLeader sends here is sent after it in the model)
Locked(w) ==
  /\ pc[w] = "handle"
  /\ ~Removing /\ Sharing = {}
  /\ \/ Goto(w, "lock")
     \/ hand[w] = 0 /\ (Goto(w, "more") \/ Goto(w, "remove"))
  /\ UNCHANGED <<flags, intrVars, fdVars, fdSets, queue, workVars, semaChains, bounds>>

\* RemoveNode1 ends: the node goes with its socket
EndRemove(w, p) ==
  /\ pc[w] = "remove"
  /\ file' = Closed(sock[p]) /\ sock' = [sock EXCEPT ![p] = 0]
  /\ Forget(sock[p])
  /\ Goto(w, "lock")
  /\ UNCHANGED <<flags, intrVars, queue, workVars, semaChains, bounds>>

\* the handler ends, and closes a connection that it has not given away
Handled(w) ==
  /\ pc[w] = "send"
  /\ file' = Closed(hand[w]) /\ hand' = [hand EXCEPT ![w] = 0]
  /\ Forget(hand[w])
  /\ Goto(w, "more")
  /\ UNCHANGED <<flags, intrVars, sock, queue, dropped, semaChains, bounds>>

Work(w) == Wait(w) \/ Extract(w) \/ TakeShared(w) \/ Locked(w) \/ Handled(w)

\* no reference is left that RemoveNode1, called by w, could wait for
NoReference(w) ==
  /\ ~dropped
  /\ \A i \in DOMAIN m_fifoWorker : m_fifoWorker[i] # 0
  /\ \A v \in Worker \ {w} : pc[v] = "handle" => hand[v] # 0
----------------------------------------------------------------------------
(* The periodic threads, the search for other chains                       *)

TakeLock(t) ==
  /\ pc[t] = "lock" /\ ~Removing
  /\ Goto(t, "pass")
  /\ UNCHANGED <<flags, intrVars, fdVars, fdSets, queue, workVars, semaChains, bounds>>

\* a job of the server for itself, from a pass of the periodic thread or from
\* what the handler of becomeLeader sends
AddInternalForWorker(t) ==
  /\ pc[t] \in {"pass", "send"}
  /\ AddJob(0)
  /\ UNCHANGED <<flags, intrVars, fdVars, fdSets, workVars, semaChains, pc, bounds>>

\* a pass ends, the thread sleeps (SleepMs) and tests m_nWork
Sleep(t) ==
  /\ pc[t] = "pass"
  /\ Goto(t, IF m_nWork THEN "lock" ELSE "done")
  /\ UNCHANGED <<flags, intrVars, fdVars, fdSets, queue, workVars, semaChains, bounds>>

\* the search for other chains begins when StopServer has posted or when the
\* periodic thread posts, which it does after some of its passes
ChainsWoken ==
  /\ pc[Chains] = "wait"
  /\ \/ semaChains > 0 /\ semaChains' = semaChains - 1
     \/ pc[Periodic] = "pass" /\ UNCHANGED semaChains
  /\ Goto(Chains, "lock")
  /\ UNCHANGED <<flags, intrVars, fdVars, fdSets, queue, workVars, bounds>>

\* it looks for each possible node under the lock, and asks those it does not
\* find on a connection of its own
ChainsAsk ==
  /\ pc[Chains] = "lock" /\ ~Removing
  /\ Goto(Chains, AtLoop)
  /\ UNCHANGED <<flags, intrVars, fdVars, fdSets, queue, workVars, semaChains, bounds>>
----------------------------------------------------------------------------
(* The listener, common::ServerTCP                                         *)

\* ServerAccept returns 1 and AddClient queues a job; a time-out, a signal or
\* an accept that fails changes nothing
ServerAccept ==
  /\ pc[Listener] = "accept" /\ bound.clients
  /\ \E fd \in NewFd : Open(fd, "connection") /\ Lapse({fd}) /\ AddJob(fd)
  /\ UNCHANGED <<flags, intrVars, sock, readable, eFds, rFds, workVars, semaChains, pc, bounds>>

\* select fails other than by a signal, which is the only end of RunServer
ServerAcceptFails ==
  /\ pc[Listener] = "accept"
  /\ m_nWorkStatus' = "STOPPED"
  /\ Goto(Listener, "done")
  /\ UNCHANGED <<m_nWork, intrVars, fdVars, fdSets, queue, workVars, semaChains, bounds>>

\* the condition on which ServerTCP::StopServer returns at once
StopRefused(status) == status # "RUN" \/ status # "INITED2"
----------------------------------------------------------------------------
(* StopServer                                                              *)

StopServer ==
  /\ pc[Main] = "idle" /\ bound.stop
  /\ m_nWork' = FALSE
  /\ Goto(Main, "closeIntr")
  /\ UNCHANGED <<m_nWorkStatus, intrVars, fdVars, fdSets, queue, workVars, semaChains, bounds>>

StopCloses ==
  /\ pc[Main] = "closeIntr"
  /\ file' = Closed(m_intrpt) /\ Forget(m_intrpt)
  /\ Goto(Main, "unset")
  /\ UNCHANGED <<flags, intrVars, sock, queue, workVars, semaChains, bounds>>

StopUnsets ==
  /\ pc[Main] = "unset"
  /\ m_intrpt' = 0
  /\ Goto(Main, "killRcv")
  /\ UNCHANGED <<flags, old, fdVars, fdSets, queue, workVars, semaChains, bounds>>

\* mutant: the search for other chains is not woken
StopKillsNoPost ==
  /\ pc[Main] = "killRcv" /\ StopRefused(m_nWorkStatus)
  /\ Signal(Main, "posts")
  /\ UNCHANGED <<flags, intrVars, fdVars, queue, workVars, semaChains, bounds>>

\* pthread_kill, m_serverTcp.StopServer() and the post to the search
StopKills ==
  /\ pc[Main] = "killRcv" /\ StopRefused(m_nWorkStatus)
  /\ Signal(Main, "posts")
  /\ semaChains' = semaChains + 1
  /\ UNCHANGED <<flags, intrVars, fdVars, queue, workVars, bounds>>

\* the other periodic threads are joined, then every worker gets its post
StopPosts ==
  /\ pc[Main] = "posts" /\ \A t \in OtherPeriodic : pc[t] = "done"
  /\ m_semaWorker' = m_semaWorker + Cardinality(Worker \cap bound.started)
  /\ Goto(Main, "joins")
  /\ UNCHANGED <<flags, intrVars, fdVars, fdSets, m_fifoWorker, made, workVars, semaChains, bounds>>

StopJoins ==
  /\ pc[Main] = "joins" /\ \A t \in Joined : pc[t] = "done"
  /\ Goto(Main, "returned")
  /\ UNCHANGED <<flags, intrVars, fdVars, fdSets, queue, workVars, semaChains, bounds>>

Stop == StopCloses \/ StopUnsets \/ StopKills \/ StopPosts \/ StopJoins
----------------------------------------------------------------------------
Receive ==
  \/ RcvGather \/ RcvNodes \/ RcvSelect \/ RcvReady \/ RcvWoken
  \/ RcvLock \/ RcvAgain \/ \E p \in Peer : RcvRead(p)

Next ==
  \/ Receive
  \/ \E fd \in Fd : PeerSends(fd)
  \/ \E t \in Interrupter : InterruptReceivercThread(t) \/ AddInternalForWorker(t)
                                \/ \E p \in Peer : Connect(t, p)
  \/ \E w \in Worker : Work(w) \/ \E p \in Peer : SetSocket(w, p) \/ EndRemove(w, p)
  \/ \E t \in Sleeper : TakeLock(t) \/ Sleep(t)
  \/ ChainsWoken \/ ChainsAsk
  \/ ServerAccept \/ ServerAcceptFails
  \/ StopServer \/ Stop

Spec == Init /\ [][Next]_vars

(* Every thread goes on when it can, and gets the node lock for itself if  *)
(* it is free again and again.  RemoveNode1 ends when there is no          *)
(* reference left; it may end before, as references to other nodes are not *)
(* told apart.  Nothing makes a peer send, a client connect, a bridge be   *)
(* set up, select fail or StopServer be called.                            *)
Fairness ==
  /\ WF_vars(Receive)
  /\ \A w \in Worker :
       SF_vars(Work(w) \/ InterruptReceivercThread(w)
                 \/ (NoReference(w) /\ \E p \in Peer : EndRemove(w, p)))
  /\ WF_vars(TakeLock(Periodic) \/ Sleep(Periodic) \/ InterruptReceivercThread(Periodic))
  /\ \A t \in OtherPeriodic : WF_vars(TakeLock(t) \/ Sleep(t))
  /\ WF_vars((semaChains > 0 /\ ChainsWoken) \/ ChainsAsk)
  /\ WF_vars(Stop)

FairSpec == Spec /\ Fairness
----------------------------------------------------------------------------
(* Properties                                                              *)

(* The state stays well-typed; data waits only on a bridge that is open.   *)
TypeOK ==
  /\ m_nWork \in BOOLEAN /\ m_nWorkStatus \in {"STOPPED", "RUN"}
  /\ file \in [0..MaxFds -> {"none", "empty", "connection"} \cup Peer] /\ file[0] = "none"
  /\ m_intrpt \in 0..MaxFds /\ old \in [Interrupter -> 0..MaxFds]
  /\ sock \in [Peer -> 0..MaxFds]
  /\ readable \in SUBSET {fd \in Fd : file[fd] \in Peer}
  /\ eFds \in 0..MaxFds /\ rFds \in SUBSET Fd /\ lapsed \in BOOLEAN
  /\ m_fifoWorker \in Seq(0..MaxFds) /\ m_semaWorker \in Nat /\ made \in Nat
  /\ hand \in [Worker -> 0..MaxFds] /\ dropped \in BOOLEAN
  /\ semaChains \in Nat /\ bridges \in Nat /\ bound \in Bounds
  /\ pc \in [Thread -> Label]

Interrupting(t) == pc[t] \in {"old", "store", "close", "kill"}

\* the descriptors of bridges that select does not watch
Unwatched == {fd \in Fd : \E p \in Peer : file[fd] = p /\ sock[p] = fd} \ rFds

(* No wake-up of the receive thread is lost while the server works: when   *)
(* it sleeps in select and nobody is about to interrupt it, it watches the *)
(* socket of every bridge.  The exception is a select that began after its *)
(* empty socket was given up, and did not fail: because the number had     *)
(* been given out again, or because a second call of                       *)
(* InterruptReceivercThread had stored over a socket nobody closes.        *)
BridgeWatched ==
  m_nWork /\ pc[Receiver] = "select" /\ (\A t \in Interrupter : ~Interrupting(t))
    => Unwatched = {} \/ lapsed

\* a worker waits in RemoveNode1, with the node lock, and somebody may have a
\* reference to its node
RemovalWaits == \E w \in Worker : pc[w] = "remove" /\ ~NoReference(w)

\* a descriptor in use was closed by the second of two overlapping calls of
\* InterruptReceivercThread: every select fails
Dangling == \E fd \in ({sock[p] : p \in Peer} \cup {m_intrpt}) \ {0} : file[fd] = "none"

(* What arrives on a bridge is read (or the bridge replaced) again and     *)
(* again, unless from some time on the server has stopped, the receive     *)
(* thread sleeps in a select that began too late, a worker keeps the node  *)
(* lock in RemoveNode1, or a descriptor in use was closed.                 *)
ReadsArrive ==
  \A p \in Peer :
    \/ []<>(sock[p] \notin readable)
    \/ <>[](~m_nWork \/ RemovalWaits \/ Dangling
             \/ (pc[Receiver] = "select" /\ lapsed /\ sock[p] \notin rFds))

\* every worker waits in RemoveNode1 or for the node lock behind it
WorkersBlocked ==
  RemovalWaits /\ \A w \in Worker : pc[w] \in {"remove", "handle", "lock", "done"}

(* The queue is emptied again and again, although a worker that meets a    *)
(* node marked for deletion leaves the inner loop with jobs still in it,   *)
(* unless from some time on the server has stopped or a worker waits in    *)
(* RemoveNode1.                                                            *)
JobsAreServed == []<>(m_fifoWorker = <<>>) \/ <>[](~m_nWork \/ WorkersBlocked)

\* threads that StopServer may wait for without end: the listener, which
\* ServerTCP::StopServer does not tell to end (common_servertcp.cpp:163), a
\* receive thread that entered select after the wake-up, a worker in
\* RemoveNode1 whose node a dropped job refers to (raft_server.cpp:84), and
\* whoever waits for the node lock behind it
MayHang(t) ==
  \/ t = Listener /\ pc[t] = "accept"
  \/ t = Receiver /\ pc[t] = "select" /\ lapsed
  \/ t \in Worker /\ pc[t] = "remove" /\ ~NoReference(t)
  \/ Removing /\ pc[t] \in {"gather", "lock", "handle"}

(* StopServer returns, or is left waiting for nothing but those threads:   *)
(* every other thread has ended, whatever it was doing, but for workers    *)
(* that get their post only when the other periodic threads have ended.    *)
StopCompletes ==
  ~m_nWork ~> \/ pc[Main] = "returned"
              \/ /\ pc[Main] \in {"posts", "joins"} /\ \E t \in Joined : MayHang(t)
                 /\ \A t \in Joined : \/ pc[t] = "done" \/ MayHang(t)
                                      \/ pc[Main] = "posts" /\ t \in Worker
=============================================================================
