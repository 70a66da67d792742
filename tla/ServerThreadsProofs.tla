------------------------ MODULE ServerThreadsProofs ------------------------
(* Proofs about ServerThreads, for every number of peers, workers, jobs,   *)
(* bridges and descriptors: while the server works no wake-up of the       *)
(* receive thread is lost, in spite of threads that interrupt it at the    *)
(* same time, but where the number of its empty socket is given out again  *)
(* or stored over before its select begins.                                *)
EXTENDS ServerThreads, FiniteSetTheorems, TLAPS

\* While the server works there is an empty socket, and it is gathered.
Working ==
  /\ pc[Main] = "idle" /\ m_intrpt # 0
  /\ pc[Receiver] \in {"nodes", "ready"} => eFds # 0

\* t will close the empty socket that the receive thread has gathered.
WillClose(t) == pc[t] = "close" /\ old[t] = eFds

\* The empty socket gathered is the one stored, or it is closed, or will be,
\* or the select has lapsed.
Gathered ==
  pc[Receiver] \in {"nodes", "ready"} =>
    eFds = m_intrpt \/ lapsed \/ file[eFds] = "none" \/ \E t \in Interrupter : WillClose(t)

\* A receive thread about to call select that misses a bridge will find its
\* empty socket closed, or another thread is yet to close it.
WarnedBeforeSelect ==
  pc[Receiver] = "ready" /\ Unwatched # {} =>
    \/ lapsed \/ file[eFds] = "none"
    \/ \E t \in Interrupter : pc[t] \in {"old", "store"} \/ WillClose(t)

\* One that sleeps in select and misses a bridge will be sent a signal.
SignalledInSelect ==
  pc[Receiver] = "select" /\ Unwatched # {} =>
    lapsed \/ \E t \in Interrupter : Interrupting(t)

Awake == Working /\ Gathered /\ WarnedBeforeSelect /\ SignalledInSelect

\* TypeOK, by groups of variables.
What == {"none", "empty", "connection"} \cup Peer
FlagsOK == m_nWork \in BOOLEAN /\ m_nWorkStatus \in {"STOPPED", "RUN"}
FileOK ==
  /\ file \in [0..MaxFds -> What] /\ file[0] = "none"
  /\ readable \in SUBSET {fd \in Fd : file[fd] \in Peer}
IntrOK == m_intrpt \in 0..MaxFds /\ old \in [Interrupter -> 0..MaxFds]
SockOK == sock \in [Peer -> 0..MaxFds]
FdsOK == eFds \in 0..MaxFds /\ rFds \in SUBSET Fd /\ lapsed \in BOOLEAN
JobsOK == m_fifoWorker \in Seq(0..MaxFds) /\ m_semaWorker \in Nat /\ made \in Nat
WorkOK == hand \in [Worker -> 0..MaxFds] /\ dropped \in BOOLEAN
CountOK == semaChains \in Nat /\ bridges \in Nat /\ bound \in Bounds
PcOK == pc \in [Thread -> Label]

Parts == 
  /\ FlagsOK /\ FileOK /\ IntrOK /\ SockOK /\ FdsOK
  /\ JobsOK /\ WorkOK /\ CountOK /\ PcOK

\* The inductive invariant.
IInv == Parts /\ (m_nWork => Awake)

\* The threads are different from one another.
LEMMA ThreadsDiffer ==
  /\ Receiver \notin Interrupter /\ Main \notin Interrupter /\ Receiver # Main
  /\ Chains \notin Interrupter /\ Listener \notin Interrupter
  /\ Receiver \notin Sleeper /\ Chains # Receiver /\ Listener # Receiver
  /\ Main \notin Sleeper /\ Chains # Main /\ Listener # Main
  /\ Periodic \in Interrupter /\ Worker \subseteq Interrupter
  /\ Interrupter \subseteq Thread /\ Sleeper \subseteq Thread
  /\ {Receiver, Main, Chains, Listener} \subseteq Thread
  /\ Sleeper \cap Interrupter = {Periodic}
BY ServerThreadsAssumption, Zenon DEF Interrupter, Sleeper, Thread, Joined

\* The numbers of descriptors.
LEMMA Numbers ==
  /\ 0 \in 0..MaxFds /\ 1 \in Fd /\ 1 \in 0..MaxFds /\ 1 # 0
  /\ Fd \subseteq 0..MaxFds /\ 0 \notin Fd
  /\ \A fd \in 0..MaxFds : fd # 0 => fd \in Fd
BY ServerThreadsAssumption DEF Fd

LEMMA TypeParts == TypeOK <=> Parts
BY Zenon DEF TypeOK, Parts, What, FlagsOK, FileOK, IntrOK, SockOK, FdsOK, JobsOK, WorkOK,
         CountOK, PcOK

LEMMA InitInv == Init => IInv
<1> SUFFICES ASSUME Init PROVE IInv
  OBVIOUS
<1>1. PcOK
  BY Zenon DEF Init, Label, PcOK
<1>2. FileOK
  <2>1. file \in [0..MaxFds -> What]
    BY Zenon DEF Init, What
  <2>2. file[0] = "none"
    BY Numbers, Zenon DEF Init
  <2> QED
    BY <2>1, <2>2, Zenon DEF Init, FileOK
<1>3. FlagsOK /\ IntrOK /\ SockOK /\ FdsOK /\ JobsOK /\ WorkOK /\ CountOK
  <2>1. 0 \in Nat /\ <<>> \in Seq(0..MaxFds)
    OBVIOUS
  <2> QED
    BY <2>1, Numbers, Zenon
    DEF Init, FlagsOK, IntrOK, SockOK, FdsOK, JobsOK, WorkOK, CountOK
<1>4. pc[Receiver] = "gather" /\ pc[Main] = "idle" /\ m_intrpt # 0
  <2>1. /\ Receiver \notin Worker \cup OtherPeriodic \cup Sleeper \cup {Chains}
        /\ Main \notin Worker \cup OtherPeriodic \cup Sleeper \cup {Chains, Receiver, Listener}
    BY ThreadsDiffer, Zenon DEF Sleeper
  <2> QED
    BY <2>1, ThreadsDiffer, Numbers, Zenon DEF Init
<1> QED
  BY <1>1, <1>2, <1>3, <1>4, Zenon
  DEF IInv, Parts, Awake, Working, Gathered, WarnedBeforeSelect, SignalledInSelect
-----------------------------------------------------------------------------
(* The type invariant                                                      *)

\* A group stays well-typed when its variables do not change.
LEMMA Kept ==
  /\ FlagsOK /\ UNCHANGED flags => FlagsOK'
  /\ FileOK /\ UNCHANGED fdVars => FileOK'
  /\ FileOK /\ UNCHANGED file /\ UNCHANGED readable => FileOK'
  /\ IntrOK /\ UNCHANGED intrVars => IntrOK'
  /\ SockOK /\ UNCHANGED fdVars => SockOK'
  /\ SockOK /\ UNCHANGED sock => SockOK'
  /\ FdsOK /\ UNCHANGED fdSets => FdsOK'
  /\ JobsOK /\ UNCHANGED queue => JobsOK'
  /\ WorkOK /\ UNCHANGED workVars => WorkOK'
  /\ CountOK /\ UNCHANGED semaChains /\ UNCHANGED bounds => CountOK'
  /\ PcOK /\ UNCHANGED pc => PcOK'
<1>1. /\ FlagsOK /\ UNCHANGED flags => FlagsOK'
      /\ FileOK /\ UNCHANGED fdVars => FileOK'
      /\ FileOK /\ UNCHANGED file /\ UNCHANGED readable => FileOK'
      /\ IntrOK /\ UNCHANGED intrVars => IntrOK'
  BY Zenon DEF FlagsOK, flags, FileOK, fdVars, IntrOK, intrVars
<1>2. /\ SockOK /\ UNCHANGED fdVars => SockOK'
      /\ SockOK /\ UNCHANGED sock => SockOK'
      /\ FdsOK /\ UNCHANGED fdSets => FdsOK'
      /\ JobsOK /\ UNCHANGED queue => JobsOK'
  BY Zenon DEF SockOK, fdVars, FdsOK, fdSets, JobsOK, queue
<1>3. /\ WorkOK /\ UNCHANGED workVars => WorkOK'
      /\ CountOK /\ UNCHANGED semaChains /\ UNCHANGED bounds => CountOK'
      /\ PcOK /\ UNCHANGED pc => PcOK'
  BY Zenon DEF WorkOK, workVars, CountOK, bounds, PcOK
<1> QED
  BY <1>1, <1>2, <1>3, Zenon

\* A thread goes on.
LEMMA Moved ==
  ASSUME PcOK, NEW t, NEW label \in Label, Goto(t, label)
  PROVE  PcOK'
BY Zenon DEF PcOK, Goto

\* A file is closed.
LEMMA Closes ==
  ASSUME FileOK, NEW fd \in 0..MaxFds, file' = Closed(fd), readable' = readable \ {fd}
  PROVE  FileOK'
<1>1. "none" \in What
  BY Zenon DEF What
<1> QED
  BY <1>1, Numbers, Zenon DEF FileOK, Closed

\* A file is opened under a free number.
LEMMA Opens ==
  ASSUME FileOK, NEW fd \in NewFd, NEW what \in What, Open(fd, what), UNCHANGED readable
  PROVE  FileOK' /\ fd \in Fd /\ file[fd] = "none"
<1>1. fd \in Fd /\ file[fd] = "none"
  BY Zenon DEF NewFd, Free
<1>2. "none" \notin Peer
  BY ServerThreadsAssumption, Zenon
<1> QED
  BY <1>1, <1>2, Numbers, Zenon DEF FileOK, Open

\* The fd_sets when a descriptor is closed or opened, and when they are
\* emptied.
LEMMA Sets ==
  ASSUME FdsOK
  PROVE  /\ \A fd : Forget(fd) => FdsOK'
         /\ \A fds : Lapse(fds) /\ UNCHANGED <<eFds, rFds>> => FdsOK'
         /\ FdZero => FdsOK'
         /\ \A t, label : Signal(t, label) => FdsOK'
<1>1. ASSUME NEW fd, Forget(fd) PROVE FdsOK'
  BY <1>1, Zenon DEF FdsOK, Forget
<1>2. ASSUME NEW fds, Lapse(fds), UNCHANGED <<eFds, rFds>> PROVE FdsOK'
  BY <1>2, Zenon DEF FdsOK, Lapse
<1>3. FdZero => FdsOK'
  BY Numbers, Zenon DEF FdsOK, FdZero
<1>4. ASSUME NEW t, NEW label, Signal(t, label) PROVE FdsOK'
  BY <1>3, <1>4, Zenon DEF FdsOK, Signal
<1> QED
  BY <1>1, <1>2, <1>3, <1>4, Zenon

\* A job is added.
LEMMA Adds ==
  ASSUME JobsOK, NEW job \in 0..MaxFds, AddJob(job)
  PROVE  JobsOK'
BY DEF JobsOK, AddJob

LEMMA TypeReceive ==
  ASSUME Parts, Receive
  PROVE  Parts'
<1>0. /\ FlagsOK /\ FileOK /\ IntrOK /\ SockOK /\ FdsOK
      /\ JobsOK /\ WorkOK /\ CountOK /\ PcOK
  BY Zenon DEF Parts
<1> USE <1>0
<1>1. CASE RcvGather
  <2>1. PcOK'
    BY <1>1, Moved, Zenon DEF RcvGather, Label
  <2>2. FdsOK'
    BY <1>1, Zenon DEF RcvGather, FdsOK, IntrOK
  <2> QED
    BY <1>1, <2>1, <2>2, Kept, Zenon DEF RcvGather, Parts
<1>2. CASE RcvNodes
  <2>1. PcOK'
    BY <1>2, Zenon DEF RcvNodes, AtGather, Goto, PcOK, Label
  <2>2. {sock[p] : p \in Peer} \ {0} \subseteq Fd
    BY Numbers, Zenon DEF SockOK
  <2>3. FdsOK'
    BY <1>2, <2>2, Zenon DEF RcvNodes, FdsOK
  <2> QED
    BY <1>2, <2>1, <2>3, Kept, Zenon DEF RcvNodes, Parts
<1>3. CASE RcvSelect
  <2>1. PcOK'
    BY <1>3, Moved, Zenon DEF RcvSelect, Label
  <2>2. FdsOK'
    BY <1>3, Sets, Kept, Zenon DEF RcvSelect
  <2> QED
    BY <1>3, <2>1, <2>2, Kept, Zenon DEF RcvSelect, Parts
<1>4. CASE RcvReady
  <2>1. PcOK'
    BY <1>4, Moved, Zenon DEF RcvReady, Label
  <2>2. FdsOK'
    BY <1>4, Numbers, Zenon DEF RcvReady, FdsOK
  <2> QED
    BY <1>4, <2>1, <2>2, Kept, Zenon DEF RcvReady, Parts
<1>5. CASE RcvWoken
  <2>1. PcOK'
    BY <1>5, Moved, Zenon DEF RcvWoken, Label
  <2> QED
    BY <1>5, <2>1, Kept, Zenon DEF RcvWoken, Parts
<1>6. CASE RcvLock
  <2>1. PcOK'
    BY <1>6, Moved, Zenon DEF RcvLock, Label
  <2> QED
    BY <1>6, <2>1, Kept, Zenon DEF RcvLock, Parts
<1>7. CASE RcvAgain
  <2>1. PcOK'
    BY <1>7, Zenon DEF RcvAgain, AtGather, Goto, PcOK, Label
  <2>2. FdsOK'
    BY <1>7, Sets, Zenon DEF RcvAgain
  <2> QED
    BY <1>7, <2>1, <2>2, Kept, Zenon DEF RcvAgain, Parts
<1>8. ASSUME NEW p \in Peer, RcvRead(p)
      PROVE  Parts'
  <2>1. FdsOK' /\ PcOK'
    BY <1>8, Zenon DEF RcvRead, FdsOK, PcOK
  <2>2. FileOK' /\ SockOK' /\ JobsOK'
    <3>1. CASE AddJob(0) /\ UNCHANGED <<file, sock>>
      BY <1>8, <3>1, Adds, Numbers, Zenon DEF RcvRead, FileOK, SockOK
    <3>2. CASE UNCHANGED <<file, sock, queue>>
      BY <1>8, <3>2, Kept, Zenon DEF RcvRead, FileOK, SockOK
    <3>3. CASE file' = Closed(sock[p]) /\ sock' = [sock EXCEPT ![p] = 0] /\ UNCHANGED queue
      <4>1. sock[p] \in 0..MaxFds /\ SockOK'
        BY <3>3, Numbers, Zenon DEF SockOK
      <4>2. readable' = readable \ {sock[p]}
        BY <1>8, Zenon DEF RcvRead
      <4> QED
        BY <3>3, <4>1, <4>2, Closes, Kept, Zenon
    <3> QED
      BY <1>8, <3>1, <3>2, <3>3, Zenon DEF RcvRead
  <2> QED
    BY <1>8, <2>1, <2>2, Kept, Zenon DEF RcvRead, Parts
<1> QED
  BY <1>1, <1>2, <1>3, <1>4, <1>5, <1>6, <1>7, <1>8, Zenon DEF Receive

LEMMA TypeBridge ==
  ASSUME Parts, NEW t \in Interrupter,
         InterruptReceivercThread(t) \/ AddInternalForWorker(t) \/ \E p \in Peer : Connect(t, p)
  PROVE  Parts'
<1>0. /\ FlagsOK /\ FileOK /\ IntrOK /\ SockOK /\ FdsOK
      /\ JobsOK /\ WorkOK /\ CountOK /\ PcOK
  BY Zenon DEF Parts
<1> USE <1>0
<1>1. CASE ReadOld(t)
  <2>1. PcOK'
    BY <1>1, Moved, Zenon DEF ReadOld, Label
  <2>2. IntrOK'
    BY <1>1, Zenon DEF ReadOld, IntrOK
  <2> QED
    BY <1>1, <2>1, <2>2, Kept, Zenon DEF ReadOld, Parts
<1>2. CASE StoreNew(t)
  <2>1. PcOK'
    BY <1>2, Moved, Zenon DEF StoreNew, Label
  <2>2. PICK fd \in NewFd : /\ Open(fd, "empty") /\ m_intrpt' = fd
                            /\ Lapse({fd} \cup ({m_intrpt} \ {old[t]}))
    BY <1>2, Zenon DEF StoreNew
  <2>3. FileOK' /\ fd \in Fd
    BY <1>2, <2>2, Opens, Zenon DEF StoreNew, What
  <2>4. IntrOK' /\ FdsOK'
    BY <1>2, <2>2, <2>3, Sets, Numbers, Zenon DEF StoreNew, IntrOK
  <2> QED
    BY <1>2, <2>1, <2>3, <2>4, Kept, Zenon DEF StoreNew, Parts
<1>3. CASE CloseOld(t)
  <2>1. PcOK'
    BY <1>3, Moved, Zenon DEF CloseOld, Label
  <2>2. IntrOK' /\ old[t] \in 0..MaxFds
    BY <1>3, Numbers, Zenon DEF CloseOld, IntrOK
  <2>3. FileOK'
    BY <1>3, <2>2, Closes, Zenon DEF CloseOld, Forget
  <2>4. FdsOK'
    BY <1>3, Sets, Zenon DEF CloseOld
  <2> QED
    BY <1>3, <2>1, <2>2, <2>3, <2>4, Kept, Zenon DEF CloseOld, Parts
<1>4. CASE Kill(t)
  <2>1. PcOK'
    BY <1>4, Zenon DEF Kill, Signal, Back, PcOK, Label
  <2>2. FdsOK'
    BY <1>4, Sets, Zenon DEF Kill
  <2> QED
    BY <1>4, <2>1, <2>2, Kept, Zenon DEF Kill, Parts
<1>5. CASE AddInternalForWorker(t)
  <2>1. JobsOK'
    BY <1>5, Adds, Numbers, Zenon DEF AddInternalForWorker
  <2> QED
    BY <1>5, <2>1, Kept, Zenon DEF AddInternalForWorker, Parts
<1>6. ASSUME NEW p \in Peer, Connect(t, p)
      PROVE  Parts'
  <2>1. PcOK'
    BY <1>6, Moved, Zenon DEF Connect, Label
  <2>2. PICK fd \in NewFd : Open(fd, p) /\ Lapse({fd}) /\ sock' = [sock EXCEPT ![p] = fd]
    BY <1>6, Zenon DEF Connect
  <2>3. FileOK' /\ fd \in Fd
    BY <1>6, <2>2, Opens, Zenon DEF Connect, What
  <2>4. SockOK' /\ FdsOK'
    BY <1>6, <2>2, <2>3, Sets, Numbers, Zenon DEF Connect, SockOK
  <2>5. CountOK'
    BY <1>6 DEF Connect, CountOK
  <2> QED
    BY <1>6, <2>1, <2>3, <2>4, <2>5, Kept, Zenon DEF Connect, Parts
<1> QED
  BY <1>1, <1>2, <1>3, <1>4, <1>5, <1>6, Zenon DEF InterruptReceivercThread

LEMMA TypeWork ==
  ASSUME Parts, NEW w \in Worker,
         Work(w) \/ \E p \in Peer : SetSocket(w, p) \/ EndRemove(w, p)
  PROVE  Parts'
<1>0. /\ FlagsOK /\ FileOK /\ IntrOK /\ SockOK /\ FdsOK
      /\ JobsOK /\ WorkOK /\ CountOK /\ PcOK /\ hand[w] \in 0..MaxFds
  BY Zenon DEF Parts, WorkOK
<1> USE <1>0
<1>1. CASE Wait(w)
  <2>1. PcOK'
    BY <1>1, Moved, Zenon DEF Wait, Label
  <2>2. JobsOK'
    BY <1>1 DEF Wait, JobsOK
  <2> QED
    BY <1>1, <2>1, <2>2, Kept, Zenon DEF Wait, Parts
<1>2. CASE Extract(w)
  <2>1. PcOK'
    BY <1>2, Zenon DEF Extract, AtLoop, Goto, PcOK, Label
  <2>2. m_fifoWorker # <<>> => /\ Head(m_fifoWorker) \in 0..MaxFds
                              /\ Tail(m_fifoWorker) \in Seq(0..MaxFds)
    <3> DEFINE S == 0..MaxFds
    <3>1. m_fifoWorker \in Seq(S)
      BY Zenon DEF JobsOK
    <3> HIDE DEF S
    <3>2. m_fifoWorker # <<>> => Head(m_fifoWorker) \in S /\ Tail(m_fifoWorker) \in Seq(S)
      BY <3>1
    <3> QED
      BY <3>2, Zenon DEF S
  <2>3. JobsOK'
    BY <1>2, <2>2, Zenon DEF Extract, JobsOK
  <2>4. WorkOK'
    <3>1. dropped' \in BOOLEAN
      BY <1>2, Zenon DEF Extract, WorkOK, workVars
    <3>2. hand' = hand \/ (m_fifoWorker # <<>> /\ hand' = [hand EXCEPT ![w] = Head(m_fifoWorker)])
      BY <1>2, Zenon DEF Extract, workVars
    <3> QED
      BY <2>2, <3>1, <3>2, Zenon DEF WorkOK
  <2> QED
    BY <1>2, <2>1, <2>3, <2>4, Kept, Zenon DEF Extract, Parts
<1>3. CASE TakeShared(w)
  <2>1. PcOK'
    BY <1>3, Moved, Zenon DEF TakeShared, Label
  <2> QED
    BY <1>3, <2>1, Kept, Zenon DEF TakeShared, Parts
<1>4. CASE Locked(w)
  <2>1. PcOK'
    BY <1>4, Moved, Zenon DEF Locked, Label
  <2> QED
    BY <1>4, <2>1, Kept, Zenon DEF Locked, Parts
<1>5. CASE Handled(w)
  <2>1. PcOK'
    BY <1>5, Moved, Zenon DEF Handled, Label
  <2>2. FileOK'
    BY <1>5, Closes, Zenon DEF Handled, Forget
  <2>3. FdsOK' /\ WorkOK'
    BY <1>5, Sets, Numbers, Zenon DEF Handled, WorkOK
  <2> QED
    BY <1>5, <2>1, <2>2, <2>3, Kept, Zenon DEF Handled, Parts
<1>6. ASSUME NEW p \in Peer, SetSocket(w, p)
      PROVE  Parts'
  <2>1. PcOK'
    BY <1>6, Moved, Zenon DEF SetSocket, Label
  <2>2. CountOK'
    BY <1>6 DEF SetSocket, CountOK
  <2>3. FdsOK' /\ WorkOK' /\ SockOK'
    BY <1>6, Sets, Numbers, Zenon DEF SetSocket, WorkOK, SockOK
  <2>4. FileOK'
    <3> DEFINE g == Closed(sock[p])
    <3>1. /\ g \in [0..MaxFds -> What] /\ g[0] = "none"
          /\ \A fd \in readable \ {sock[p]} : fd \in Fd /\ g[fd] \in Peer
      BY Numbers, Zenon DEF FileOK, Closed, What
    <3>2. "connection" \notin Peer /\ hand[w] # 0
      BY <1>6, ServerThreadsAssumption, Zenon DEF SetSocket
    <3>3. /\ file' = [g EXCEPT ![hand[w]] = IF @ = "connection" THEN p ELSE @]
          /\ readable' = readable \ {sock[p]}
      BY <1>6, Zenon DEF SetSocket, Forget
    <3> HIDE DEF g
    <3>4. file' \in [0..MaxFds -> What] /\ file'[0] = "none"
      BY <3>1, <3>2, <3>3, Numbers, Zenon DEF What
    <3>5. \A fd \in readable' : fd \in Fd /\ file'[fd] \in Peer
      BY <3>1, <3>2, <3>3, Numbers, Zenon
    <3> QED
      BY <3>4, <3>5, Zenon DEF FileOK
  <2> QED
    BY <1>6, <2>1, <2>2, <2>3, <2>4, Kept, Zenon DEF SetSocket, Parts
<1>7. ASSUME NEW p \in Peer, EndRemove(w, p)
      PROVE  Parts'
  <2>1. PcOK'
    BY <1>7, Moved, Zenon DEF EndRemove, Label
  <2>2. SockOK' /\ FdsOK' /\ sock[p] \in 0..MaxFds
    BY <1>7, Sets, Numbers, Zenon DEF EndRemove, SockOK
  <2>3. FileOK'
    BY <1>7, <2>2, Closes, Zenon DEF EndRemove, Forget
  <2> QED
    BY <1>7, <2>1, <2>2, <2>3, Kept, Zenon DEF EndRemove, Parts
<1> QED
  BY <1>1, <1>2, <1>3, <1>4, <1>5, <1>6, <1>7, Zenon DEF Work

LEMMA TypeOther ==
  ASSUME Parts,
         \/ \E fd \in Fd : PeerSends(fd)
         \/ \E t \in Sleeper : TakeLock(t) \/ Sleep(t)
         \/ ChainsWoken \/ ChainsAsk \/ ServerAccept \/ ServerAcceptFails
  PROVE  Parts'
<1>0. /\ FlagsOK /\ FileOK /\ IntrOK /\ SockOK /\ FdsOK
      /\ JobsOK /\ WorkOK /\ CountOK /\ PcOK
  BY Zenon DEF Parts
<1> USE <1>0
<1>1. ASSUME NEW fd \in Fd, PeerSends(fd)
      PROVE  Parts'
  <2>1. FileOK'
    BY <1>1, Zenon DEF PeerSends, FileOK
  <2> QED
    BY <1>1, <2>1, Kept, Zenon DEF PeerSends, Parts
<1>2. ASSUME NEW t \in Sleeper, TakeLock(t)
      PROVE  Parts'
  <2>1. PcOK'
    BY <1>2, Moved, Zenon DEF TakeLock, Label
  <2> QED
    BY <1>2, <2>1, Kept, Zenon DEF TakeLock, Parts
<1>3. ASSUME NEW t \in Sleeper, Sleep(t)
      PROVE  Parts'
  <2>1. PcOK'
    BY <1>3, Moved, Zenon DEF Sleep, Label
  <2> QED
    BY <1>3, <2>1, Kept, Zenon DEF Sleep, Parts
<1>4. CASE ChainsWoken
  <2>1. PcOK'
    BY <1>4, Moved, Zenon DEF ChainsWoken, Label
  <2>2. CountOK'
    BY <1>4 DEF ChainsWoken, CountOK, bounds
  <2> QED
    BY <1>4, <2>1, <2>2, Kept, Zenon DEF ChainsWoken, Parts
<1>5. CASE ChainsAsk
  <2>1. PcOK'
    BY <1>5, Zenon DEF ChainsAsk, AtLoop, Goto, PcOK, Label
  <2> QED
    BY <1>5, <2>1, Kept, Zenon DEF ChainsAsk, Parts
<1>6. CASE ServerAccept
  <2>1. PICK fd \in NewFd : Open(fd, "connection") /\ Lapse({fd}) /\ AddJob(fd)
    BY <1>6, Zenon DEF ServerAccept
  <2>2. FileOK' /\ fd \in Fd
    BY <1>6, <2>1, Opens, Zenon DEF ServerAccept, What
  <2>3. FdsOK' /\ JobsOK'
    BY <1>6, <2>1, <2>2, Sets, Adds, Numbers, Zenon DEF ServerAccept
  <2> QED
    BY <1>6, <2>2, <2>3, Kept, Zenon DEF ServerAccept, Parts
<1>7. CASE ServerAcceptFails
  <2>1. PcOK'
    BY <1>7, Moved, Zenon DEF ServerAcceptFails, Label
  <2>2. FlagsOK'
    BY <1>7, Zenon DEF ServerAcceptFails, FlagsOK
  <2> QED
    BY <1>7, <2>1, <2>2, Kept, Zenon DEF ServerAcceptFails, Parts
<1> QED
  BY <1>1, <1>2, <1>3, <1>4, <1>5, <1>6, <1>7, Zenon

LEMMA TypeStop ==
  ASSUME Parts, StopServer \/ Stop
  PROVE  Parts'
<1>0. /\ FlagsOK /\ FileOK /\ IntrOK /\ SockOK /\ FdsOK
      /\ JobsOK /\ WorkOK /\ CountOK /\ PcOK
  BY Zenon DEF Parts
<1> USE <1>0
<1>1. CASE StopServer
  <2>1. PcOK'
    BY <1>1, Moved, Zenon DEF StopServer, Label
  <2>2. FlagsOK'
    BY <1>1, Zenon DEF StopServer, FlagsOK
  <2> QED
    BY <1>1, <2>1, <2>2, Kept, Zenon DEF StopServer, Parts
<1>2. CASE StopCloses
  <2>1. PcOK'
    BY <1>2, Moved, Zenon DEF StopCloses, Label
  <2>2. FileOK'
    BY <1>2, Closes, Zenon DEF StopCloses, Forget, IntrOK
  <2>3. FdsOK'
    BY <1>2, Sets, Zenon DEF StopCloses
  <2> QED
    BY <1>2, <2>1, <2>2, <2>3, Kept, Zenon DEF StopCloses, Parts
<1>3. CASE StopUnsets
  <2>1. PcOK'
    BY <1>3, Moved, Zenon DEF StopUnsets, Label
  <2>2. IntrOK'
    BY <1>3, Numbers, Zenon DEF StopUnsets, IntrOK
  <2> QED
    BY <1>3, <2>1, <2>2, Kept, Zenon DEF StopUnsets, Parts
<1>4. CASE StopKills
  <2>1. PcOK'
    BY <1>4, Zenon DEF StopKills, Signal, PcOK, Label
  <2>2. FdsOK'
    BY <1>4, Sets, Zenon DEF StopKills
  <2>3. CountOK'
    BY <1>4 DEF StopKills, CountOK, bounds
  <2> QED
    BY <1>4, <2>1, <2>2, <2>3, Kept, Zenon DEF StopKills, Parts
<1>5. CASE StopPosts
  <2>1. PcOK'
    BY <1>5, Moved, Zenon DEF StopPosts, Label
  <2>2. IsFiniteSet(Worker \cap bound.started)
    BY ServerThreadsAssumption, FS_Intersection, Zenon
  <2>3. Cardinality(Worker \cap bound.started) \in Nat
    BY <2>2, FS_CardinalityType, Zenon
  <2>4. JobsOK'
    BY <1>5, <2>3 DEF StopPosts, JobsOK
  <2> QED
    BY <1>5, <2>1, <2>4, Kept, Zenon DEF StopPosts, Parts
<1>6. CASE StopJoins
  <2>1. PcOK'
    BY <1>6, Moved, Zenon DEF StopJoins, Label
  <2> QED
    BY <1>6, <2>1, Kept, Zenon DEF StopJoins, Parts
<1> QED
  BY <1>1, <1>2, <1>3, <1>4, <1>5, <1>6, Zenon DEF Stop

LEMMA TypeNext == Parts /\ [Next]_vars => Parts'
<1> SUFFICES ASSUME Parts, [Next]_vars PROVE Parts'
  OBVIOUS
<1>1. CASE UNCHANGED vars
  BY <1>1, Kept, Zenon DEF vars, Parts
<1> QED
  BY <1>1, TypeReceive, TypeBridge, TypeWork, TypeOther, TypeStop, Zenon DEF Next

(* The state of the threads, their queues and their descriptors stays      *)
(* well-typed: data waits only on a bridge that is open, whatever numbers  *)
(* are closed twice or given out again.                                    *)
THEOREM Typing == Spec => []TypeOK
<1>1. Init => Parts
  BY InitInv, Zenon DEF IInv
<1> QED
  BY <1>1, TypeNext, TypeParts, PTL DEF Spec
-----------------------------------------------------------------------------
(* The wake-up of the receive thread                                       *)

\* A step that leaves the receive thread, its empty socket and the calls of
\* InterruptReceivercThread alone, and gives no bridge a new socket.
Aside ==
  /\ m_intrpt' = m_intrpt /\ old' = old /\ eFds' = eFds
  /\ lapsed => lapsed' 
  /\ file[eFds] = "none" /\ pc[Receiver] \in {"nodes", "ready"} => file'[eFds] = "none" \/ lapsed'
  /\ Unwatched' \subseteq Unwatched
  /\ pc'[Receiver] = pc[Receiver] /\ pc'[Main] = pc[Main]
  /\ \A t \in Interrupter : pc'[t] = pc[t] \/ (~Interrupting(t) /\ ~Interrupting(t)')

LEMMA AsideKeeps == Awake /\ Aside => Awake'
<1> SUFFICES ASSUME Awake, Aside PROVE Awake'
  OBVIOUS
<1>1. \A t \in Interrupter :
        /\ pc'[t] \in {"old", "store"} <=> pc[t] \in {"old", "store"}
        /\ WillClose(t)' <=> WillClose(t)
        /\ Interrupting(t)' <=> Interrupting(t)
  BY Zenon DEF Aside, Interrupting, WillClose
<1>2. Unwatched' # {} => Unwatched # {}
  BY Zenon DEF Aside
<1>3. Working'
  BY Zenon DEF Awake, Working, Aside
<1>4. Gathered'
  BY <1>1, Zenon DEF Awake, Gathered, Aside
<1>5. WarnedBeforeSelect'
  BY <1>1, <1>2, Zenon DEF Awake, WarnedBeforeSelect, Aside
<1>6. SignalledInSelect'
  BY <1>1, <1>2, Zenon DEF Awake, SignalledInSelect, Aside
<1> QED
  BY <1>3, <1>4, <1>5, <1>6, Zenon DEF Awake

\* Closing a descriptor makes no bridge unwatched.
LEMMA CloseWatched ==
  ASSUME Parts, NEW fd \in 0..MaxFds, file' = Closed(fd), 
         rFds' = rFds \/ rFds' = rFds \ {fd},
         \A p \in Peer : sock'[p] = sock[p] \/ sock'[p] = 0
  PROVE  Unwatched' \subseteq Unwatched /\ \A n \in 0..MaxFds : file[n] = "none" => file'[n] = "none"
<1>1. /\ file \in [0..MaxFds -> What] /\ "none" \notin Peer
      /\ file'[fd] = "none" /\ \A n \in 0..MaxFds : n # fd => file'[n] = file[n]
  BY ServerThreadsAssumption, Zenon DEF Parts, FileOK, Closed
<1>2. ASSUME NEW n \in Unwatched' PROVE n \in Unwatched
  <2>1. n \in Fd /\ n \in 0..MaxFds /\ n # 0 /\ n \notin rFds'
    BY Numbers, Zenon DEF Unwatched
  <2>2. PICK p \in Peer : file'[n] = p /\ sock'[p] = n
    BY Zenon DEF Unwatched
  <2>3. n # fd
    BY <1>1, <2>2, Zenon
  <2>4. file[n] = p /\ sock[p] = n /\ n \notin rFds
    BY <1>1, <2>1, <2>2, <2>3, Zenon
  <2> QED
    BY <2>1, <2>4, Zenon DEF Unwatched
<1> QED
  BY <1>1, <1>2, Zenon

\* Nor does opening one for no bridge.
LEMMA OpenWatched ==
  ASSUME Parts, NEW fd \in NewFd, NEW what, what \notin Peer, Open(fd, what),
         UNCHANGED <<rFds, sock>>
  PROVE  /\ Unwatched' \subseteq Unwatched
         /\ \A n \in 0..MaxFds : n # fd => file'[n] = file[n]
<1>1. /\ file \in [0..MaxFds -> What] /\ fd \in 0..MaxFds
      /\ file'[fd] = what /\ \A n \in 0..MaxFds : n # fd => file'[n] = file[n]
  BY Numbers, Zenon DEF Parts, FileOK, Open, NewFd, Free
<1> QED
  BY <1>1, Numbers, Zenon DEF Unwatched

\* A receive thread that is neither about to call select nor in it needs no
\* warning.
LEMMA ElsewhereAwake ==
  ASSUME Awake, m_intrpt' = m_intrpt, pc'[Main] = pc[Main],
         pc'[Receiver] \notin {"nodes", "ready", "select"}
  PROVE  Awake'
BY Zenon DEF Awake, Working, Gathered, WarnedBeforeSelect, SignalledInSelect

\* The steps of the receive thread.
LEMMA ReceiveAwake == Parts /\ Awake /\ Receive => Awake'
<1> SUFFICES ASSUME Parts, Awake, Receive PROVE Awake'
  OBVIOUS
<1>0. pc \in [Thread -> Label]
  BY Zenon DEF Parts, PcOK
<1>1. CASE RcvGather
  <2>1. /\ pc'[Receiver] = "nodes" /\ pc'[Main] = pc[Main]
        /\ eFds' = m_intrpt /\ m_intrpt' = m_intrpt
    BY <1>0, <1>1, ThreadsDiffer, Zenon DEF RcvGather, Goto, intrVars
  <2> QED
    BY <2>1, Zenon DEF Awake, Working, Gathered, WarnedBeforeSelect, SignalledInSelect
<1>2. CASE RcvNodes
  <2>1. /\ pc[Receiver] = "nodes" /\ pc'[Receiver] \in {"gather", "done", "ready"}
        /\ pc'[Main] = pc[Main] /\ \A t \in Interrupter : pc'[t] = pc[t]
        /\ m_intrpt' = m_intrpt /\ old' = old /\ eFds' = eFds /\ lapsed' = lapsed /\ file' = file
        /\ rFds' = {sock[p] : p \in Peer} \ {0} /\ sock' = sock
    BY <1>0, <1>2, ThreadsDiffer, Zenon DEF RcvNodes, AtGather, Goto, intrVars, fdVars
  <2>2. Unwatched' = {}
    BY <2>1, Numbers, Zenon DEF Unwatched
  <2>3. Working' /\ Gathered'
    BY <2>1, Zenon DEF Awake, Working, Gathered, WillClose
  <2> QED
    BY <2>1, <2>2, <2>3, Zenon DEF Awake, WarnedBeforeSelect, SignalledInSelect
<1>3. CASE RcvSelect
  <2>1. /\ pc[Receiver] = "ready" /\ pc'[Receiver] \in {"select", "woken"}
        /\ pc'[Main] = pc[Main] /\ \A t \in Interrupter : pc'[t] = pc[t]
        /\ m_intrpt' = m_intrpt /\ sock' = sock /\ file' = file
    BY <1>0, <1>3, ThreadsDiffer, Zenon DEF RcvSelect, Goto, intrVars, fdVars
  <2>2. CASE pc'[Receiver] = "woken"
    BY <2>1, <2>2, ElsewhereAwake, Zenon
  <2>3. CASE pc'[Receiver] = "select"
    <3>1. ~BadFd /\ UNCHANGED fdSets
      BY <1>0, <1>3, <2>3, ThreadsDiffer, Zenon DEF RcvSelect, Goto
    <3>2. file[eFds] # "none"
      BY <2>1, <3>1, Zenon DEF BadFd, Awake, Working
    <3>3. Unwatched' = Unwatched /\ lapsed' = lapsed
      BY <2>1, <3>1, Zenon DEF Unwatched, fdSets
    <3>4. \A t \in Interrupter :
            pc[t] \in {"old", "store"} \/ WillClose(t) => Interrupting(t)'
      BY <2>1, Zenon DEF WillClose, Interrupting
    <3>5. SignalledInSelect'
      BY <2>1, <3>2, <3>3, <3>4, Zenon DEF Awake, WarnedBeforeSelect, SignalledInSelect
    <3> QED
      BY <2>1, <2>3, <3>5, Zenon DEF Awake, Working, Gathered, WarnedBeforeSelect
  <2> QED
    BY <2>1, <2>2, <2>3, Zenon
<1>4. CASE RcvReady
  BY <1>0, <1>4, ThreadsDiffer, ElsewhereAwake, Zenon DEF RcvReady, Goto, intrVars
<1>5. CASE RcvWoken
  BY <1>0, <1>5, ThreadsDiffer, ElsewhereAwake, Zenon DEF RcvWoken, Goto, intrVars
<1>6. CASE RcvLock
  BY <1>0, <1>6, ThreadsDiffer, ElsewhereAwake, Zenon DEF RcvLock, Goto, intrVars
<1>7. CASE RcvAgain
  BY <1>0, <1>7, ThreadsDiffer, ElsewhereAwake, Zenon DEF RcvAgain, AtGather, Goto, intrVars
<1>8. ASSUME NEW p \in Peer, RcvRead(p) PROVE Awake'
  BY <1>8, ElsewhereAwake, Zenon DEF RcvRead, intrVars
<1> QED
  BY <1>1, <1>2, <1>3, <1>4, <1>5, <1>6, <1>7, <1>8, Zenon DEF Receive

\* A thread that has given a bridge its socket is about to interrupt.
LEMMA BridgeAwake ==
  ASSUME Parts, Awake, NEW t \in Interrupter,
         Goto(t, "old"), ~Interrupting(t), UNCHANGED intrVars, UNCHANGED eFds,
         lapsed => lapsed',
         file[eFds] = "none" /\ pc[Receiver] \in {"nodes", "ready"}
           => file'[eFds] = "none" \/ lapsed'
  PROVE  Awake'
<1>1. /\ pc'[t] = "old" /\ pc'[Receiver] = pc[Receiver] /\ pc'[Main] = pc[Main]
      /\ \A u \in Interrupter \ {t} : pc'[u] = pc[u]
  BY ThreadsDiffer, Zenon DEF Goto, Parts, PcOK
<1>2. m_intrpt' = m_intrpt /\ old' = old /\ eFds' = eFds
  BY Zenon DEF intrVars
<1>3. Working'
  BY <1>1, <1>2, Zenon DEF Awake, Working
<1>4. \A u \in Interrupter : WillClose(u) => WillClose(u)'
  BY <1>1, <1>2, Zenon DEF WillClose, Interrupting
<1>5. Gathered'
  BY <1>1, <1>2, <1>4, Zenon DEF Awake, Gathered
<1> QED
  BY <1>1, <1>3, <1>5, Zenon DEF Awake, WarnedBeforeSelect, SignalledInSelect, Interrupting

\* What Lapse says of the descriptor that the receive thread has gathered.
LEMMA LapseSays ==
  ASSUME Parts, NEW fds, Lapse(fds)
  PROVE  /\ lapsed => lapsed'
         /\ pc[Receiver] \in {"nodes", "ready"} /\ eFds # 0 /\ eFds \in fds => lapsed'
BY Zenon DEF Lapse

\* The steps of a thread that interrupts select.
LEMMA InterruptAwake ==
  ASSUME Parts, Awake, NEW t \in Interrupter, InterruptReceivercThread(t)
  PROVE  Awake'
<1>0. /\ pc \in [Thread -> Label] /\ old \in [Interrupter -> 0..MaxFds]
      /\ eFds \in 0..MaxFds /\ old[t] \in 0..MaxFds /\ t \in Thread
      /\ m_intrpt # 0 /\ pc[Main] = "idle" /\ "empty" \notin Peer
      /\ pc[Receiver] \in {"nodes", "ready"} => eFds # 0
  BY ThreadsDiffer, ServerThreadsAssumption, Zenon
  DEF Parts, PcOK, IntrOK, FdsOK, Awake, Working
<1>2. CASE ReadOld(t)
  <2>1. /\ pc'[t] = "store" /\ pc'[Receiver] = pc[Receiver] /\ pc'[Main] = pc[Main]
        /\ pc[t] = "old" /\ \A u \in Interrupter \ {t} : pc'[u] = pc[u] /\ old'[u] = old[u]
    BY <1>0, <1>2, ThreadsDiffer, Zenon DEF ReadOld, Goto
  <2>2. /\ m_intrpt' = m_intrpt /\ file' = file /\ sock' = sock
        /\ eFds' = eFds /\ rFds' = rFds /\ lapsed' = lapsed
    BY <1>2, Zenon DEF ReadOld, fdVars, fdSets
  <2>3. \A u \in Interrupter : WillClose(u) => WillClose(u)'
    BY <2>1, <2>2, Zenon DEF WillClose
  <2>4. Working' /\ Gathered'
    BY <2>1, <2>2, <2>3, Zenon DEF Awake, Working, Gathered
  <2> QED
    BY <2>1, <2>4, Zenon DEF Awake, WarnedBeforeSelect, SignalledInSelect, Interrupting
<1>3. CASE StoreNew(t)
  <2>1. /\ pc'[t] = "close" /\ pc'[Receiver] = pc[Receiver] /\ pc'[Main] = pc[Main]
        /\ pc[t] = "store" /\ \A u \in Interrupter \ {t} : pc'[u] = pc[u]
    BY <1>0, <1>3, ThreadsDiffer, Zenon DEF StoreNew, Goto
  <2>2. PICK fd \in NewFd : /\ Open(fd, "empty") /\ m_intrpt' = fd
                            /\ Lapse({fd} \cup ({m_intrpt} \ {old[t]}))
    BY <1>3, Zenon DEF StoreNew
  <2>3. old' = old /\ eFds' = eFds /\ rFds' = rFds /\ sock' = sock /\ fd # 0
    BY <1>3, Numbers, Zenon DEF StoreNew, NewFd, Free
  <2>4. Unwatched' \subseteq Unwatched /\ \A n \in 0..MaxFds : n # fd => file'[n] = file[n]
    BY <1>0, <2>2, <2>3, OpenWatched, Zenon
  <2>5. /\ lapsed => lapsed'
        /\ pc[Receiver] \in {"nodes", "ready"} /\ eFds = fd => lapsed'
        /\ pc[Receiver] \in {"nodes", "ready"} /\ eFds = m_intrpt => lapsed' \/ WillClose(t)'
    <3> DEFINE fds == {fd} \cup ({m_intrpt} \ {old[t]})
    <3>1. fd \in fds /\ (m_intrpt # old[t] => m_intrpt \in fds)
      BY Zenon
    <3> HIDE DEF fds
    <3>2. (lapsed => lapsed') /\ (pc[Receiver] \in {"nodes", "ready"} /\ eFds \in fds => lapsed')
      BY <1>0, <2>2, LapseSays, Zenon DEF fds
    <3>3. m_intrpt = old[t] /\ eFds = m_intrpt => WillClose(t)'
      BY <2>1, <2>3, Zenon DEF WillClose
    <3> QED
      BY <3>1, <3>2, <3>3, Zenon
  <2>6. \A u \in Interrupter : WillClose(u) => WillClose(u)'
    BY <2>1, <2>3, Zenon DEF WillClose
  <2>7. \/ lapsed' \/ file'[eFds] = "none" \/ (\E u \in Interrupter : WillClose(u)')
        \/ pc[Receiver] \notin {"nodes", "ready"}
    BY <1>0, <2>4, <2>5, <2>6, Zenon DEF Awake, Gathered
  <2>8. Working'
    BY <2>1, <2>2, <2>3, Zenon DEF Awake, Working
  <2>9. Gathered' /\ WarnedBeforeSelect'
    BY <2>1, <2>3, <2>7, Zenon DEF Gathered, WarnedBeforeSelect
  <2> QED
    BY <2>1, <2>8, <2>9, Zenon DEF Awake, SignalledInSelect, Interrupting
<1>4. CASE CloseOld(t)
  <2>1. /\ pc[t] = "close" /\ pc'[t] = "kill"
        /\ pc'[Receiver] = pc[Receiver] /\ pc'[Main] = pc[Main]
        /\ \A u \in Interrupter \ {t} : pc'[u] = pc[u] /\ old'[u] = old[u]
    BY <1>0, <1>4, ThreadsDiffer, Zenon DEF CloseOld, Goto
  <2>2. /\ m_intrpt' = m_intrpt /\ eFds' = eFds /\ lapsed' = lapsed
        /\ file' = Closed(old[t]) /\ sock' = sock
        /\ rFds' = rFds \/ rFds' = rFds \ {old[t]}
    BY <1>4, Zenon DEF CloseOld, Forget
  <2>3. Unwatched' \subseteq Unwatched /\ \A n \in 0..MaxFds : file[n] = "none" => file'[n] = "none"
    BY <1>0, <2>2, CloseWatched, Zenon
  <2>4. \A u \in Interrupter : WillClose(u) => WillClose(u)' \/ file'[eFds] = "none"
    <3>1. file'[old[t]] = "none"
      BY <1>0, <2>2, Zenon DEF Closed, Parts, FileOK
    <3> QED
      BY <2>1, <2>2, <3>1, Zenon DEF WillClose
  <2>5. \A u \in Interrupter : pc[u] \in {"old", "store"} => pc'[u] \in {"old", "store"}
    BY <2>1, Zenon
  <2>6. Working' /\ Gathered'
    BY <1>0, <2>1, <2>2, <2>3, <2>4, Zenon DEF Awake, Working, Gathered
  <2>7. WarnedBeforeSelect'
    BY <1>0, <2>1, <2>2, <2>3, <2>4, <2>5, Zenon DEF Awake, WarnedBeforeSelect
  <2> QED
    BY <2>1, <2>6, <2>7, Zenon DEF Awake, SignalledInSelect, Interrupting
<1>5. CASE Kill(t)
  <2>1. /\ pc[t] = "kill" /\ pc'[t] \in {"pass", "send"} /\ pc'[Main] = pc[Main]
        /\ pc'[Receiver] = IF pc[Receiver] = "select" THEN "woken" ELSE pc[Receiver]
        /\ \A u \in Interrupter \ {t} : pc'[u] = pc[u]
    BY <1>0, <1>5, ThreadsDiffer, Zenon DEF Kill, Signal, Back
  <2>2. m_intrpt' = m_intrpt /\ old' = old /\ file' = file /\ sock' = sock
    BY <1>5, Zenon DEF Kill, intrVars, fdVars
  <2>3. CASE pc[Receiver] = "select"
    BY <2>1, <2>2, <2>3, ElsewhereAwake, Zenon
  <2>4. CASE pc[Receiver] # "select"
    <3>1. eFds' = eFds /\ rFds' = rFds /\ (lapsed => lapsed')
      <4>1. (lapsed' = (lapsed \/ t = Main)) /\ eFds' = eFds /\ rFds' = rFds
        BY <1>5, <2>4, Zenon DEF Kill, Signal
      <4>2. lapsed \in BOOLEAN /\ t # Main
        BY ThreadsDiffer, Zenon DEF Parts, FdsOK
      <4> QED
        BY <4>1, <4>2, Zenon
    <3>2. Unwatched' = Unwatched
      BY <2>2, <3>1, Zenon DEF Unwatched
    <3>3. pc'[Receiver] = pc[Receiver] /\ pc'[Main] = pc[Main]
      BY <2>1, <2>4, Zenon
    <3>4. \A u \in Interrupter : WillClose(u) => WillClose(u)'
      BY <2>1, <2>2, <3>1, Zenon DEF WillClose
    <3>5. \A u \in Interrupter : pc[u] \in {"old", "store"} => pc'[u] \in {"old", "store"}
      BY <2>1, Zenon
    <3>6. Working'
      BY <2>2, <3>1, <3>3, Zenon DEF Awake, Working
    <3>7. Gathered'
      BY <2>2, <3>1, <3>3, <3>4, Zenon DEF Awake, Gathered
    <3>8. WarnedBeforeSelect'
      BY <2>2, <3>1, <3>2, <3>3, <3>4, <3>5, Zenon DEF Awake, WarnedBeforeSelect
    <3> QED
      BY <2>4, <3>3, <3>6, <3>7, <3>8, Zenon DEF Awake, SignalledInSelect
  <2> QED
    BY <2>3, <2>4, Zenon
<1> QED
  BY <1>2, <1>3, <1>4, <1>5, Zenon DEF InterruptReceivercThread

\* The steps that give a bridge its socket.
LEMMA NewBridgeAwake ==
  ASSUME Parts, Awake, NEW t \in Interrupter, NEW p \in Peer,
         Connect(t, p) \/ (t \in Worker /\ SetSocket(t, p))
  PROVE  Awake'
<1>0. /\ file \in [0..MaxFds -> What] /\ eFds \in 0..MaxFds
      /\ pc[Receiver] \in {"nodes", "ready"} => eFds # 0
  BY Zenon DEF Parts, FileOK, FdsOK, Awake, Working
<1>1. CASE Connect(t, p)
  <2>1. PICK fd \in NewFd : Open(fd, p) /\ Lapse({fd})
    BY <1>1, Zenon DEF Connect
  <2>2. \A n \in 0..MaxFds : n # fd => file'[n] = file[n]
    BY <1>0, <2>1, Zenon DEF Open
  <2>3. /\ lapsed => lapsed'
        /\ pc[Receiver] \in {"nodes", "ready"} /\ eFds = fd => lapsed'
    BY <1>0, <2>1, LapseSays, Zenon
  <2>4. Goto(t, "old") /\ ~Interrupting(t) /\ UNCHANGED intrVars /\ UNCHANGED eFds
    BY <1>1, Zenon DEF Connect, Interrupting
  <2> QED
    BY <1>0, <2>2, <2>3, <2>4, BridgeAwake, Zenon
<1>2. CASE t \in Worker /\ SetSocket(t, p)
  <2>1. /\ Goto(t, "old") /\ ~Interrupting(t) /\ UNCHANGED intrVars
        /\ UNCHANGED eFds /\ UNCHANGED lapsed
        /\ file' = [Closed(sock[p]) EXCEPT ![hand[t]] = IF @ = "connection" THEN p ELSE @]
    BY <1>2, Zenon DEF SetSocket, Interrupting, Forget
  <2>2. file[eFds] = "none" => file'[eFds] = "none"
    <3> DEFINE g == Closed(sock[p])
    <3>1. g \in [0..MaxFds -> What] /\ (file[eFds] = "none" => g[eFds] = "none")
      BY <1>0, Zenon DEF Closed, What
    <3>2. file' = [g EXCEPT ![hand[t]] = IF @ = "connection" THEN p ELSE @]
      BY <2>1, Zenon
    <3> HIDE DEF g
    <3> QED
      BY <1>0, <3>1, <3>2, Zenon
  <2> QED
    BY <2>1, <2>2, BridgeAwake, Zenon
<1> QED
  BY <1>1, <1>2, Zenon

\* Every step while the server works.
LEMMA AwakeNext ==
  ASSUME Parts, m_nWork => Awake, [Next]_vars, m_nWork'
  PROVE  Awake'
<1>1. m_nWork
  <2>1. ASSUME Receive PROVE m_nWork
    BY <2>1, Zenon DEF Receive, flags, RcvGather, RcvNodes, RcvSelect, RcvReady, RcvWoken, RcvLock,
       RcvAgain, RcvRead
  <2>2. ASSUME NEW t \in Interrupter,
               \/ InterruptReceivercThread(t) \/ AddInternalForWorker(t)
               \/ \E p \in Peer : Connect(t, p)
        PROVE  m_nWork
    BY <2>2, Zenon DEF flags, InterruptReceivercThread, ReadOld, StoreNew, CloseOld, Kill,
       AddInternalForWorker, Connect
  <2>3. ASSUME NEW w \in Worker, 
               Work(w) \/ \E p \in Peer : SetSocket(w, p) \/ EndRemove(w, p)
        PROVE  m_nWork
    BY <2>3, Zenon DEF flags, Work, Wait, Extract, TakeShared, Locked, Handled, SetSocket, EndRemove
  <2>4. ASSUME \/ \E fd \in Fd : PeerSends(fd)
               \/ \E t \in Sleeper : TakeLock(t) \/ Sleep(t)
               \/ ChainsWoken \/ ChainsAsk \/ ServerAccept \/ ServerAcceptFails
        PROVE  m_nWork
    BY <2>4, Zenon DEF flags, PeerSends, TakeLock, Sleep, ChainsWoken, ChainsAsk, ServerAccept,
       ServerAcceptFails
  <2>5. ASSUME StopServer \/ Stop PROVE m_nWork
    BY <2>5, Zenon DEF flags, StopServer, Stop, StopCloses, StopUnsets, StopKills, StopPosts,
       StopJoins
  <2> QED
    BY <2>1, <2>2, <2>3, <2>4, <2>5, Zenon DEF Next, vars, flags
<1>2. /\ Awake /\ pc[Main] = "idle" /\ pc \in [Thread -> Label] /\ eFds \in 0..MaxFds
      /\ file \in [0..MaxFds -> What] /\ sock \in [Peer -> 0..MaxFds]
      /\ hand \in [Worker -> 0..MaxFds]
      /\ pc[Receiver] \in {"nodes", "ready"} => eFds # 0
  BY <1>1, Zenon DEF Awake, Working, Parts, FileOK, SockOK, WorkOK, FdsOK, PcOK
<1>3. ~StopServer /\ ~Stop
  <2>1. ~StopServer
    BY <1>1, Zenon DEF StopServer
  <2> QED
    BY <1>2, <2>1, Zenon DEF Stop, StopCloses, StopUnsets, StopKills, StopPosts, StopJoins
<1>4. ASSUME NEW t \in Thread \ {Receiver, Main}, \A u \in Thread \ {t} : pc'[u] = pc[u],
             ~Interrupting(t), ~Interrupting(t)',
             UNCHANGED intrVars, UNCHANGED eFds, lapsed => lapsed',
             file[eFds] = "none" => file'[eFds] = "none",
             Unwatched' \subseteq Unwatched
      PROVE  Aside
  BY <1>4, ThreadsDiffer, Zenon DEF Aside, intrVars
<1>5. ASSUME UNCHANGED fdVars, UNCHANGED fdSets
      PROVE  /\ UNCHANGED eFds /\ (lapsed => lapsed') /\ file' = file
             /\ Unwatched' \subseteq Unwatched
  BY <1>5, Zenon DEF fdVars, fdSets, Unwatched
<1>6. ASSUME NEW fd \in Fd, PeerSends(fd) PROVE Aside
  BY <1>6, Zenon DEF PeerSends, Aside, intrVars, fdSets, Unwatched
<1>7. ASSUME NEW w \in Worker, Wait(w) \/ Extract(w) \/ TakeShared(w) \/ Locked(w) PROVE Aside
  <2>1. w \in Thread \ {Receiver, Main}
    BY ThreadsDiffer, Zenon
  <2>2. ~Interrupting(w) /\ UNCHANGED intrVars /\ UNCHANGED fdVars /\ UNCHANGED fdSets
    BY <1>7, Zenon DEF Wait, Extract, TakeShared, Locked, Interrupting
  <2>3. (\A u \in Thread \ {w} : pc'[u] = pc[u]) /\ ~Interrupting(w)'
    BY <1>2, <1>7, <2>1, Zenon
    DEF Wait, Extract, TakeShared, Locked, AtLoop, Goto, Interrupting
  <2> QED
    BY <1>4, <1>5, <2>1, <2>2, <2>3, Zenon
<1>8. ASSUME NEW w \in Worker, Handled(w) \/ \E p \in Peer : EndRemove(w, p) PROVE Aside
  <2>1. w \in Thread \ {Receiver, Main}
    BY ThreadsDiffer, Zenon
  <2>2. PICK fd \in 0..MaxFds : file' = Closed(fd) /\ Forget(fd)
    BY <1>2, <1>8, Zenon DEF Handled, EndRemove
  <2>3. (\A u \in Thread \ {w} : pc'[u] = pc[u]) /\ ~Interrupting(w)'
    BY <1>2, <1>8, <2>1, Zenon DEF Handled, EndRemove, Goto, Interrupting
  <2>4. \A q \in Peer : sock'[q] = sock[q] \/ sock'[q] = 0
    BY <1>2, <1>8, Zenon DEF Handled, EndRemove
  <2>5. Unwatched' \subseteq Unwatched /\ (file[eFds] = "none" => file'[eFds] = "none")
    BY <1>2, <2>2, <2>4, CloseWatched, Zenon DEF Forget
  <2>6. ~Interrupting(w) /\ UNCHANGED intrVars
    BY <1>8, Zenon DEF Handled, EndRemove, Interrupting
  <2>7. UNCHANGED eFds /\ (lapsed => lapsed')
    BY <2>2, Zenon DEF Forget
  <2> QED
    BY <1>4, <2>1, <2>3, <2>5, <2>6, <2>7, Zenon
<1>9. ASSUME NEW t \in Sleeper, TakeLock(t) \/ Sleep(t) PROVE Aside
  <2>1. t \in Thread \ {Receiver, Main}
    BY ThreadsDiffer, Zenon
  <2>2. ~Interrupting(t) /\ UNCHANGED intrVars /\ UNCHANGED fdVars /\ UNCHANGED fdSets
    BY <1>9, Zenon DEF TakeLock, Sleep, Interrupting
  <2>3. (\A u \in Thread \ {t} : pc'[u] = pc[u]) /\ ~Interrupting(t)'
    BY <1>2, <1>9, <2>1, Zenon DEF TakeLock, Sleep, Goto, Interrupting
  <2> QED
    BY <1>4, <1>5, <2>1, <2>2, <2>3, Zenon
<1>10. ASSUME ChainsWoken \/ ChainsAsk \/ ServerAcceptFails PROVE Aside
  <2>1. Chains \in Thread \ {Receiver, Main} /\ Listener \in Thread \ {Receiver, Main}
    BY ThreadsDiffer, Zenon
  <2>2. UNCHANGED intrVars /\ UNCHANGED fdVars /\ UNCHANGED fdSets
    BY <1>10, Zenon DEF ChainsWoken, ChainsAsk, ServerAcceptFails
  <2>3. CASE ChainsWoken \/ ChainsAsk
    <3>1. /\ \A u \in Thread \ {Chains} : pc'[u] = pc[u]
          /\ ~Interrupting(Chains) /\ ~Interrupting(Chains)'
      BY <1>2, <2>1, <2>3, Zenon DEF ChainsWoken, ChainsAsk, AtLoop, Goto, Interrupting
    <3> QED
      BY <1>4, <1>5, <2>1, <2>2, <3>1, Zenon
  <2>4. CASE ServerAcceptFails
    <3>1. /\ \A u \in Thread \ {Listener} : pc'[u] = pc[u]
          /\ ~Interrupting(Listener) /\ ~Interrupting(Listener)'
      BY <1>2, <2>1, <2>4, Zenon DEF ServerAcceptFails, Goto, Interrupting
    <3> QED
      BY <1>4, <1>5, <2>1, <2>2, <3>1, Zenon
  <2> QED
    BY <1>10, <2>3, <2>4, Zenon
<1>11. ASSUME ServerAccept PROVE Aside
  <2>1. PICK fd \in NewFd : Open(fd, "connection") /\ Lapse({fd})
    BY <1>11, Zenon DEF ServerAccept
  <2>2. "connection" \notin Peer /\ UNCHANGED <<rFds, sock>> /\ UNCHANGED eFds
    BY <1>11, ServerThreadsAssumption, Zenon DEF ServerAccept
  <2>3. Unwatched' \subseteq Unwatched /\ \A n \in 0..MaxFds : n # fd => file'[n] = file[n]
    BY <2>1, <2>2, OpenWatched, Zenon
  <2>4. /\ lapsed => lapsed'
        /\ pc[Receiver] \in {"nodes", "ready"} /\ eFds = fd => lapsed'
    BY <1>2, <2>1, LapseSays, Zenon
  <2> QED
    BY <1>2, <1>11, <2>2, <2>3, <2>4, Zenon DEF ServerAccept, Aside, intrVars
<1>12. ASSUME NEW t \in Interrupter, AddInternalForWorker(t) PROVE Aside
  BY <1>5, <1>12, Zenon DEF AddInternalForWorker, Aside, intrVars
<1>13. ASSUME UNCHANGED vars PROVE Aside
  BY <1>5, <1>13, Zenon DEF vars, Aside, intrVars
<1>14. ASSUME NEW w \in Worker, 
              Work(w) \/ \E p \in Peer : SetSocket(w, p) \/ EndRemove(w, p)
       PROVE  Awake'
  <2>1. ASSUME NEW p \in Peer, SetSocket(w, p) PROVE Awake'
    BY <1>2, <2>1, NewBridgeAwake, ThreadsDiffer, Zenon
  <2> QED
    BY <1>2, <1>7, <1>8, <1>14, <2>1, AsideKeeps, Zenon DEF Work
<1>15. ASSUME NEW t \in Interrupter,
              \/ InterruptReceivercThread(t) \/ AddInternalForWorker(t)
              \/ \E p \in Peer : Connect(t, p)
       PROVE  Awake'
  BY <1>2, <1>12, <1>15, InterruptAwake, NewBridgeAwake, AsideKeeps, Zenon
<1> QED
  BY <1>2, <1>3, <1>6, <1>9, <1>10, <1>11, <1>13, <1>14, <1>15, AsideKeeps, ReceiveAwake, Zenon
  DEF Next

(* No wake-up of the receive thread is lost: with any number of workers,   *)
(* bridges, descriptors and overlapping calls of InterruptReceivercThread, *)
(* a thread in select that nobody is about to interrupt watches every      *)
(* bridge.  The exception is a select for which it gathered an empty       *)
(* socket whose number was given out again before it began (so it did not  *)
(* fail), or that a second call had stored over without closing it.        *)
THEOREM NoLostInterrupt == Spec => []BridgeWatched
<1>1. IInv /\ [Next]_vars => IInv'
  BY TypeNext, AwakeNext, Zenon DEF IInv
<1>2. IInv => BridgeWatched
  BY Zenon DEF IInv, Awake, SignalledInSelect, BridgeWatched
<1> QED
  BY InitInv, <1>1, <1>2, PTL DEF Spec
=============================================================================
