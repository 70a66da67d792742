-------------------------- MODULE WorkerPoolProofs --------------------------
(* Proofs about WorkerPool, for every number of workers, nodes and jobs:   *)
(* the reference counters are exact, no job names a deleted node, and no   *)
(* job is left in the queue with all the workers asleep.                   *)
EXTENDS WorkerPool, FiniteSetTheorems, TLAPS

Busy == {"got", "conShared", "intShared", "exclusive"}

\* A worker inside RaftServer::become_leader.
Leading == {"leading", "count", "add", "post"}

\* Where a thread is tells whether it has a job, the exclusive lock, or the
\* shared lock.
HandsOK ==
  /\ \A w \in Worker : /\ job[w] # Nil <=> pc[w] \in Busy \cup {"count", "add"}
                       /\ pc[w] = "conShared" => job[w].type = "con"
                       /\ pc[w] \in Leading \cup {"removing"} => writer = w /\ victim[w] \in Node
  /\ \A t \in Producer : job[t] # Nil <=> pc[t] \in {"count", "add"}
  /\ \A t \in Reader : pc[t] \in {"pass", "count", "add", "post"} => t \in readers
  /\ pc[Listener] = "count" => job[Listener].node = Nil
  /\ writer # Nil => readers = {}

Elements(q) == {q[i] : i \in 1..Len(q)}

IdsDiffer(q) == \A i, k \in 1..Len(q) : i # k => q[i].id # q[k].id

\* A job is in one place.
DistinctJobs ==
  /\ IdsDiffer(m_fifoWorker)
  /\ \A j \in Elements(m_fifoWorker) : j.id < made
  /\ \A j \in dropped : j.id < made
  /\ \A j \in Elements(m_fifoWorker), k \in dropped : j.id # k.id
  /\ \A t \in Hands : job[t] # Nil =>
       /\ job[t].id < made
       /\ \A j \in Elements(m_fifoWorker) \cup dropped : j.id # job[t].id
       /\ \A u \in Hands : u # t /\ job[u] # Nil => job[u].id # job[t].id

\* The inductive invariant.
IInv ==
  /\ TypeOK /\ HandsOK /\ DistinctJobs /\ IsFiniteSet(Holders)
  /\ LockCountExact /\ JobNodeAlive

-----------------------------------------------------------------------------
(* Lemmas about data.                                                      *)

\* Taking the first element out of a queue of distinct jobs.
LEMMA TailElements ==
  ASSUME NEW q \in Seq(Job), q # <<>>, IdsDiffer(q)
  PROVE  /\ Tail(q) \in Seq(Job) /\ Head(q) \in Job /\ Head(q) \in Elements(q)
         /\ Elements(Tail(q)) = Elements(q) \ {Head(q)}
         /\ \A j \in Elements(Tail(q)) : j.id # Head(q).id
         /\ IdsDiffer(Tail(q))
<1>1. /\ Tail(q) \in Seq(Job) /\ Head(q) = q[1] /\ Len(q) \in Nat /\ Len(q) > 0
      /\ Len(Tail(q)) = Len(q) - 1 /\ \A i \in 1..Len(q) - 1 : Tail(q)[i] = q[i + 1]
  OBVIOUS
<1>2. /\ 1 \in 1..Len(q)
      /\ \A i \in 1..Len(q) - 1 : i + 1 \in 1..Len(q) /\ i + 1 # 1
      /\ \A i \in 1..Len(q) : i # 1 => i - 1 \in 1..Len(q) - 1 /\ (i - 1) + 1 = i
  BY <1>1
<1>3. IdsDiffer(Tail(q))
  BY <1>1, <1>2 DEF IdsDiffer
<1>4. \A j \in Elements(Tail(q)) : j \in Elements(q) /\ j.id # Head(q).id
  BY <1>1, <1>2 DEF IdsDiffer, Elements
<1>5. \A j \in Elements(q) : j = Head(q) \/ j \in Elements(Tail(q))
  <2> TAKE j \in Elements(q)
  <2>1. PICK i \in 1..Len(q) : j = q[i]
    BY Zenon DEF Elements
  <2>2. i # 1 => Tail(q)[i - 1] = q[i] /\ i - 1 \in 1..Len(Tail(q))
    BY <1>1, <1>2, Zenon
  <2> QED
    BY <1>1, <2>1, <2>2, Zenon DEF Elements
<1> QED
  BY <1>1, <1>2, <1>3, <1>4, <1>5 DEF Elements

\* Adding a new job to a queue.
LEMMA AppendElements ==
  ASSUME NEW q \in Seq(Job), NEW e \in Job
  PROVE  /\ Append(q, e) \in Seq(Job)
         /\ Elements(Append(q, e)) = Elements(q) \cup {e}
         /\ IdsDiffer(q) /\ (\A j \in Elements(q) : j.id # e.id) => IdsDiffer(Append(q, e))
<1>1. /\ Append(q, e) \in Seq(Job) /\ Len(q) \in Nat /\ Len(Append(q, e)) = Len(q) + 1
      /\ \A i \in 1..Len(q) : Append(q, e)[i] = q[i]
      /\ Append(q, e)[Len(q) + 1] = e
  OBVIOUS
<1>2. /\ \A i \in 1..Len(q) + 1 : i \in 1..Len(q) \/ i = Len(q) + 1
      /\ \A i \in 1..Len(q) : i \in 1..Len(q) + 1
      /\ Len(q) + 1 \in 1..Len(q) + 1
  BY <1>1
<1>3. Elements(Append(q, e)) = Elements(q) \cup {e}
  BY <1>1, <1>2, Zenon DEF Elements
<1>4. ASSUME IdsDiffer(q), \A j \in Elements(q) : j.id # e.id PROVE IdsDiffer(Append(q, e))
  BY <1>1, <1>2, <1>4 DEF IdsDiffer, Elements
<1> QED
  BY <1>1, <1>3, <1>4, Zenon

\* Counting one more reference, or one less, keeps the counters exact.
LEMMA Recount ==
  ASSUME NEW H, IsFiniteSet(H), NEW j \in Job, j \notin H, NEW f \in [Node -> Nat],
         \A n \in Node : f[n] = Cardinality({h \in H : h.node = n})
  PROVE  LET g == IF j.node \in Node THEN [f EXCEPT ![j.node] = @ + 1] ELSE f
         IN  /\ g \in [Node -> Nat]
             /\ \A n \in Node : g[n] = Cardinality({h \in H \cup {j} : h.node = n})
<1> DEFINE S(n) == {h \in H : h.node = n}
           R(n) == {h \in H \cup {j} : h.node = n}
           g == IF j.node \in Node THEN [f EXCEPT ![j.node] = @ + 1] ELSE f
<1>1. ASSUME NEW n \in Node PROVE g[n] = Cardinality(R(n))
  <2>1. IsFiniteSet(S(n)) /\ j \notin S(n)
    BY FS_Subset, Zenon
  <2>2. CASE j.node = n
    <3>1. R(n) = S(n) \cup {j}
      BY <2>2, Zenon
    <3>2. Cardinality(R(n)) = Cardinality(S(n)) + 1
      BY <2>1, <3>1, FS_AddElement, Zenon
    <3>3. g[n] = f[n] + 1 /\ f[n] = Cardinality(S(n))
      BY <2>2, Zenon
    <3> QED
      BY <3>2, <3>3, Zenon
  <2>3. CASE j.node # n
    <3>1. R(n) = S(n)
      BY <2>3, Zenon
    <3>2. g[n] = f[n] /\ f[n] = Cardinality(S(n))
      BY <2>3, Zenon
    <3> QED
      BY <3>1, <3>2, Zenon
  <2> QED
    BY <2>2, <2>3, Zenon
<1>2. g \in [Node -> Nat]
  OBVIOUS
<1> QED
  BY <1>1, <1>2, Zenon

\* The same for a job that gives its reference back.
LEMMA Uncount ==
  ASSUME NEW H, IsFiniteSet(H), NEW j \in H, NEW f \in [Node -> Nat],
         \A n \in Node : f[n] = Cardinality({h \in H : h.node = n})
  PROVE  LET g == IF j.node \in Node THEN [f EXCEPT ![j.node] = @ - 1] ELSE f
         IN  /\ g \in [Node -> Nat]
             /\ \A n \in Node : g[n] = Cardinality({h \in H \ {j} : h.node = n})
<1> DEFINE S(n) == {h \in H : h.node = n}
           R(n) == {h \in H \ {j} : h.node = n}
           g == IF j.node \in Node THEN [f EXCEPT ![j.node] = @ - 1] ELSE f
<1>1. ASSUME NEW n \in Node PROVE g[n] = Cardinality(R(n)) /\ g[n] \in Nat
  <2>1. IsFiniteSet(S(n))
    BY FS_Subset, Zenon
  <2>2. CASE j.node = n
    <3>1. R(n) = S(n) \ {j} /\ j \in S(n)
      BY <2>2, Zenon
    <3>2. Cardinality(R(n)) = Cardinality(S(n)) - 1 /\ IsFiniteSet(R(n))
      <4> HIDE DEF R, S
      <4> QED
        BY <2>1, <3>1, FS_RemoveElement, Zenon
    <3>3. g[n] = f[n] - 1 /\ f[n] = Cardinality(S(n))
      BY <2>2, Zenon
    <3>4. Cardinality(R(n)) \in Nat
      BY <3>2, FS_CardinalityType, Zenon
    <3> QED
      BY <3>2, <3>3, <3>4, Zenon
  <2>3. CASE j.node # n
    <3>1. R(n) = S(n)
      BY <2>3, Zenon
    <3>2. g[n] = f[n] /\ f[n] = Cardinality(S(n)) /\ f[n] \in Nat
      BY <2>3, Zenon
    <3> QED
      BY <3>1, <3>2, Zenon
  <2> QED
    BY <2>2, <2>3, Zenon
<1>2. g \in [Node -> Nat]
  BY <1>1, Zenon
<1> QED
  BY <1>1, <1>2, Zenon
-----------------------------------------------------------------------------
(* What a step leaves of the invariant, by what it does with jobs.         *)

\* The queue as a set.
LEMMA QueuedElements ==
  ASSUME TypeOK PROVE Queued = Elements(m_fifoWorker)
BY DEF TypeOK, Queued, Elements

\* A job in hand is nowhere else among the holders.
LEMMA HandIsAlone ==
  ASSUME IInv, NEW t \in Hands, job[t] # Nil
  PROVE  /\ job[t] \in Job /\ job[t] \notin Queued /\ job[t] \notin dropped
         /\ \A u \in Hands : u # t => job[u] # job[t]
BY QueuedElements, Zenon DEF IInv, TypeOK, DistinctJobs, Hands

\* A worker between taking a job and giving it back has one.
LEMMA BusyJob ==
  ASSUME IInv, NEW w \in Worker, pc[w] \in Busy
  PROVE  job[w] \in Job
<1>1. w \in Hands
  BY Zenon DEF Hands
<1>2. job[w] # Nil
  BY Zenon DEF IInv, HandsOK
<1> QED
  BY <1>1, <1>2, HandIsAlone, Zenon

\* What LockCountExact says of a set of holders, and the parts of IInv that
\* are about jobs.
Exact(H, f) == \A n \in Node : f[n] = Cardinality({h \in H : h.node = n})

JobsOK ==
  /\ DistinctJobs /\ IsFiniteSet(Holders) /\ LockCountExact /\ JobNodeAlive
  /\ locksCount \in [Node -> Nat]

\* No node that a job names is deleted by the step.
NamedStay ==
  \A j \in Queued \cup InHand \cup Uncounted :
    j.node \in Node /\ status[j.node] = "live" => status'[j.node] = "live"

\* Every job in the system is well-typed.
LEMMA JobTypes ==
  ASSUME TypeOK
  PROVE  \A j \in Queued \cup InHand \cup Uncounted \cup dropped :
            j \in Job /\ j.node \in Node \cup {Nil}
<1>1. \A j \in Job : j.node \in Node \cup {Nil}
  BY Zenon DEF Job
<1>2. Queued \subseteq Job
  BY DEF TypeOK, Queued
<1>3. InHand \subseteq Job /\ Uncounted \subseteq Job /\ dropped \subseteq Job
  BY Zenon DEF TypeOK, InHand, Uncounted
<1> QED
  BY <1>1, <1>2, <1>3, Zenon

\* A step that moves no job.
LEMMA NoJobMoves ==
  ASSUME IInv, UNCHANGED <<m_fifoWorker, job, dropped, locksCount, made>>,
         \A t \in Hands : job[t] # Nil => (pc'[t] = "count" <=> pc[t] = "count"),
         NamedStay
  PROVE  JobsOK'
<1>1. DistinctJobs'
  BY Zenon DEF IInv, DistinctJobs
<1>2. Queued' = Queued /\ InHand' = InHand /\ Uncounted' = Uncounted
  BY Zenon DEF Queued, InHand, Uncounted, Hands
<1>3. Holders' = Holders
  BY <1>2, Zenon DEF Holders
<1>4. LockCountExact' /\ IsFiniteSet(Holders') /\ locksCount' \in [Node -> Nat]
  BY <1>3, Zenon DEF LockCountExact, IInv, TypeOK
<1>5. JobNodeAlive'
  BY <1>2, JobTypes, Zenon DEF JobNodeAlive, IInv, NamedStay
<1> QED
  BY <1>1, <1>4, <1>5, Zenon DEF JobsOK

\* A step in which worker w gives back the reference of its job.
LEMMA JobReleased ==
  ASSUME IInv, NEW w \in Worker, pc[w] \in Busy, NEW label, label # "count",
         job' = [job EXCEPT ![w] = Nil], pc' = [pc EXCEPT ![w] = label],
         locksCount' = Released(job[w].node),
         UNCHANGED <<m_fifoWorker, dropped, made>>, NamedStay
  PROVE  JobsOK'
<1>1. w \in Hands /\ pc[w] # "count" /\ job[w] # Nil
  BY Zenon DEF Hands, IInv, HandsOK, Busy
<1>2. /\ job[w] \in Job /\ job[w] \notin Queued /\ job[w] \notin dropped
      /\ \A u \in Hands : u # w => job[u] # job[w]
  BY <1>1, HandIsAlone, Zenon
<1>3. job \in [Hands -> Job \cup {Nil}] /\ pc \in [Thread -> Label] /\ w \in Thread
  BY Zenon DEF IInv, TypeOK, Hands, Thread
<1>4. Queued' = Queued /\ dropped' = dropped
  BY Zenon DEF Queued
<1>5. Uncounted' = Uncounted
  BY <1>1, <1>3, Zenon DEF Uncounted, Hands, Thread
<1>6. InHand' = InHand \ {job[w]}
  BY <1>1, <1>2, <1>3, Zenon DEF InHand, Hands, Thread
<1>7. Holders' = Holders \ {job[w]} /\ job[w] \in Holders
  <2>1. job[w] \in InHand
    BY <1>1, Zenon DEF InHand, Hands
  <2> QED
    BY <1>2, <1>4, <1>6, <2>1, Zenon DEF Holders
<1>8. LockCountExact' /\ locksCount' \in [Node -> Nat] /\ IsFiniteSet(Holders')
  <2>1. IsFiniteSet(Holders) /\ locksCount \in [Node -> Nat]
        /\ \A n \in Node : locksCount[n] = Cardinality({h \in Holders : h.node = n})
    BY Zenon DEF IInv, TypeOK, LockCountExact
  <2>2. job[w].node \in Node \cup {Nil} /\ Nil \notin Node
    BY <1>2, WorkerPoolAssumption, Zenon DEF Job
  <2>3. locksCount' = IF job[w].node \in Node THEN [locksCount EXCEPT ![job[w].node] = @ - 1]
                      ELSE locksCount
    BY <2>2, Zenon DEF Released
  <2>4. /\ locksCount' \in [Node -> Nat]
        /\ \A n \in Node : locksCount'[n] = Cardinality({h \in Holders \ {job[w]} : h.node = n})
    BY <1>7, <2>1, <2>3, Uncount
  <2>5. IsFiniteSet(Holders \ {job[w]})
    BY <2>1, FS_RemoveElement, Zenon
  <2> QED
    BY <1>7, <2>4, <2>5, Zenon DEF LockCountExact
<1>9. JobNodeAlive'
  BY <1>4, <1>5, <1>6, JobTypes, Zenon DEF JobNodeAlive, IInv, NamedStay
<1>10. DistinctJobs'
  BY <1>3, Zenon DEF IInv, DistinctJobs, Hands
<1> QED
  BY <1>8, <1>9, <1>10, Zenon DEF JobsOK

\* A step in which thread t counts the reference of its job.
LEMMA JobCounted ==
  ASSUME IInv, NEW t \in Hands, pc[t] = "count", pc' = [pc EXCEPT ![t] = "add"],
         locksCount' = IF job[t].node = Nil THEN locksCount
                       ELSE [locksCount EXCEPT ![job[t].node] = @ + 1],
         UNCHANGED <<m_fifoWorker, job, dropped, made, status>>
  PROVE  JobsOK'
<1>1. t \in Hands /\ job[t] # Nil
  BY Zenon DEF Hands, IInv, HandsOK
<1>2. /\ job[t] \in Job /\ job[t] \notin Queued /\ job[t] \notin dropped
      /\ \A u \in Hands : u # t => job[u] # job[t]
  BY <1>1, HandIsAlone, Zenon
<1>3. job \in [Hands -> Job \cup {Nil}] /\ pc \in [Thread -> Label] /\ t \in Thread
  BY Zenon DEF IInv, TypeOK, Hands, Thread
<1>4. Queued' = Queued /\ dropped' = dropped
  BY Zenon DEF Queued
<1>5. Uncounted' \subseteq Uncounted
  BY <1>1, <1>3, Zenon DEF Uncounted, Hands, Thread
<1>6. InHand' = InHand \cup {job[t]}
  BY <1>1, <1>2, <1>3, Zenon DEF InHand, Hands, Thread
<1>7. Holders' = Holders \cup {job[t]} /\ job[t] \notin Holders
  <2>1. job[t] \notin InHand
    BY <1>2, Zenon DEF InHand, Hands
  <2> QED
    BY <1>2, <1>4, <1>6, <2>1, Zenon DEF Holders
<1>8. LockCountExact' /\ locksCount' \in [Node -> Nat] /\ IsFiniteSet(Holders')
  <2>1. IsFiniteSet(Holders) /\ locksCount \in [Node -> Nat]
        /\ \A n \in Node : locksCount[n] = Cardinality({h \in Holders : h.node = n})
    BY Zenon DEF IInv, TypeOK, LockCountExact
  <2>2. job[t].node \in Node \cup {Nil} /\ Nil \notin Node
    BY <1>2, WorkerPoolAssumption, Zenon DEF Job
  <2>3. locksCount' = IF job[t].node \in Node THEN [locksCount EXCEPT ![job[t].node] = @ + 1]
                      ELSE locksCount
    BY <2>2, Zenon
  <2>4. /\ locksCount' \in [Node -> Nat]
        /\ \A n \in Node : locksCount'[n] = Cardinality({h \in Holders \cup {job[t]} : h.node = n})
    <3> DEFINE H == Holders
               j == job[t]
               f == locksCount
    <3>1. j \in Job /\ j \notin H /\ IsFiniteSet(H) /\ f \in [Node -> Nat]
          /\ \A n \in Node : f[n] = Cardinality({h \in H : h.node = n})
      BY <1>2, <1>7, <2>1, Zenon
    <3> HIDE DEF H, j, f
    <3>2. LET g == IF j.node \in Node THEN [f EXCEPT ![j.node] = @ + 1] ELSE f
          IN  /\ g \in [Node -> Nat]
              /\ \A n \in Node : g[n] = Cardinality({h \in H \cup {j} : h.node = n})
      BY <3>1, Recount
    <3> QED
      BY <2>3, <3>2, Zenon DEF H, j, f
  <2>5. IsFiniteSet(Holders \cup {job[t]})
    BY <2>1, FS_AddElement, Zenon
  <2> QED
    BY <1>7, <2>4, <2>5, Zenon DEF LockCountExact
<1>9. JobNodeAlive'
  <2>1. job[t] \in Uncounted
    BY <1>1, Zenon DEF Uncounted, Hands
  <2> QED
    BY <1>4, <1>5, <1>6, <2>1, Zenon DEF JobNodeAlive, IInv
<1>10. DistinctJobs'
  BY <1>3, Zenon DEF IInv, DistinctJobs, Hands
<1> QED
  BY <1>8, <1>9, <1>10, Zenon DEF JobsOK

\* A step that keeps the set of holders and of uncounted jobs.
LEMMA SameHolders ==
  ASSUME IInv, DistinctJobs', UNCHANGED <<locksCount, status>>,
         Queued' \cup InHand' \subseteq Queued \cup InHand, Uncounted' = Uncounted,
         Holders' = Holders
  PROVE  JobsOK'
<1>1. LockCountExact' /\ IsFiniteSet(Holders') /\ locksCount' \in [Node -> Nat]
  BY Zenon DEF LockCountExact, IInv, TypeOK
<1>2. JobNodeAlive'
  BY Zenon DEF JobNodeAlive, IInv
<1> QED
  BY <1>1, <1>2, Zenon DEF JobsOK

\* A thread puts the job it has made into the queue.
LEMMA JobQueued ==
  ASSUME IInv, NEW t \in Hands, pc[t] = "add", pc' = [pc EXCEPT ![t] = "post"],
         m_fifoWorker' = Append(m_fifoWorker, job[t]), job' = [job EXCEPT ![t] = Nil],
         UNCHANGED <<dropped, made, locksCount, status>>
  PROVE  JobsOK' /\ m_fifoWorker' \in Seq(Job)
<1>1. t \in Hands /\ job[t] # Nil
  BY Zenon DEF Hands, IInv, HandsOK
<1>2. /\ job[t] \in Job /\ job[t] \notin Queued /\ job[t] \notin dropped
      /\ \A u \in Hands : u # t => job[u] # job[t]
  BY <1>1, HandIsAlone, Zenon
<1>3. /\ job \in [Hands -> Job \cup {Nil}] /\ pc \in [Thread -> Label] /\ t \in Thread
      /\ m_fifoWorker \in Seq(Job)
  BY Zenon DEF IInv, TypeOK, Hands, Thread
<1>4. /\ m_fifoWorker' \in Seq(Job)
      /\ Elements(m_fifoWorker') = Elements(m_fifoWorker) \cup {job[t]}
      /\ IdsDiffer(m_fifoWorker) /\ (\A j \in Elements(m_fifoWorker) : j.id # job[t].id)
           => IdsDiffer(m_fifoWorker')
  BY <1>2, <1>3, AppendElements, Zenon
<1>5. DistinctJobs'
  <2>1. \A u \in Hands : job'[u] # Nil => u # t /\ job'[u] = job[u]
    BY <1>3, Zenon
  <2> QED
    BY <1>1, <1>4, <2>1 DEF IInv, DistinctJobs
<1>6. Queued = Elements(m_fifoWorker) /\ Queued' = Elements(m_fifoWorker')
  <2>1. /\ DOMAIN m_fifoWorker = 1..Len(m_fifoWorker)
        /\ DOMAIN m_fifoWorker' = 1..Len(m_fifoWorker')
    BY <1>3, <1>4
  <2> QED
    BY <2>1, Zenon DEF Queued, Elements
<1>7. InHand' = InHand \ {job[t]} /\ job[t] \in InHand
  BY <1>1, <1>2, <1>3, Zenon DEF InHand, Hands, Thread
<1>8. Uncounted' = Uncounted
  BY <1>1, <1>3, Zenon DEF Uncounted, Hands, Thread
<1>9. Queued' \cup InHand' \subseteq Queued \cup InHand /\ Holders' = Holders
  BY <1>4, <1>6, <1>7, Zenon DEF Holders
<1> QED
  BY <1>4, <1>5, <1>8, <1>9, SameHolders, Zenon

\* A worker takes the first job out of the queue.
LEMMA JobExtracted ==
  ASSUME IInv, NEW w \in Worker, pc[w] \in {"first", "more"}, m_fifoWorker # <<>>,
         pc' = [pc EXCEPT ![w] = "got"], job' = [job EXCEPT ![w] = Head(m_fifoWorker)],
         m_fifoWorker' = Tail(m_fifoWorker),
         UNCHANGED <<dropped, made, locksCount, status>>
  PROVE  JobsOK' /\ m_fifoWorker' \in Seq(Job) /\ Head(m_fifoWorker) \in Job
<1> DEFINE h == Head(m_fifoWorker)
<1>1. w \in Hands /\ job[w] = Nil
  BY Zenon DEF Hands, IInv, HandsOK, Busy
<1>3. /\ job \in [Hands -> Job \cup {Nil}] /\ pc \in [Thread -> Label] /\ w \in Thread
      /\ m_fifoWorker \in Seq(Job) /\ IdsDiffer(m_fifoWorker)
  BY Zenon DEF IInv, TypeOK, Hands, Thread, DistinctJobs
<1>4. /\ m_fifoWorker' \in Seq(Job) /\ h \in Job /\ h \in Elements(m_fifoWorker)
      /\ Elements(m_fifoWorker') = Elements(m_fifoWorker) \ {h}
      /\ \A j \in Elements(m_fifoWorker') : j.id # h.id
      /\ IdsDiffer(m_fifoWorker')
  BY <1>3, TailElements, Zenon
<1>2. h # Nil
  BY <1>4, NilAssumption, Zenon
<1>5. DistinctJobs'
  <2>1. \A u \in Hands : job'[u] = IF u = w THEN h ELSE job[u]
    BY <1>3, Zenon
  <2> HIDE DEF h
  <2> QED
    BY <1>1, <1>4, <2>1 DEF IInv, DistinctJobs
<1>6. Queued = Elements(m_fifoWorker) /\ Queued' = Elements(m_fifoWorker')
  <2>1. \A q \in Seq(Job) : {q[i] : i \in DOMAIN q} = Elements(q)
    BY DEF Elements
  <2> QED
    BY <1>3, <1>4, <2>1, Zenon DEF Queued
<1>7. InHand' = InHand \cup {h}
  <2>1. \A u \in Hands : job'[u] = (IF u = w THEN h ELSE job[u])
                       /\ pc'[u] = (IF u = w THEN "got" ELSE pc[u])
    BY <1>3, Zenon DEF Hands, Thread
  <2> HIDE DEF h
  <2> QED
    BY <1>1, <1>2, <2>1 DEF InHand, Hands
<1>8. Uncounted' = Uncounted
  BY <1>1, <1>3, Zenon DEF Uncounted, Hands, Thread
<1>9. Queued' \cup InHand' \subseteq Queued \cup InHand /\ Holders' = Holders
  <2> HIDE DEF h
  <2> QED
    BY <1>4, <1>6, <1>7, Zenon DEF Holders
<1> QED
  BY <1>4, <1>5, <1>8, <1>9, SameHolders, Zenon

\* A worker drops its job because the server is stopping.
LEMMA JobDropped ==
  ASSUME IInv, NEW w \in Worker, pc[w] \in Busy, pc' = [pc EXCEPT ![w] = "loop"],
         job' = [job EXCEPT ![w] = Nil], dropped' = dropped \cup {job[w]},
         UNCHANGED <<m_fifoWorker, made, locksCount, status>>
  PROVE  JobsOK' /\ dropped' \in SUBSET Job
<1>1. w \in Hands /\ pc[w] # "count" /\ job[w] # Nil
  BY Zenon DEF Hands, IInv, HandsOK, Busy
<1>2. /\ job[w] \in Job /\ job[w] \notin Queued /\ job[w] \notin dropped
      /\ \A u \in Hands : u # w => job[u] # job[w]
  BY <1>1, HandIsAlone, Zenon
<1>3. /\ job \in [Hands -> Job \cup {Nil}] /\ pc \in [Thread -> Label] /\ w \in Thread
      /\ dropped \in SUBSET Job
  BY Zenon DEF IInv, TypeOK, Hands, Thread
<1>5. DistinctJobs'
  <2>1. \A u \in Hands : job'[u] # Nil => u # w /\ job'[u] = job[u]
    BY <1>3, Zenon
  <2> QED
    BY <1>1, <2>1 DEF IInv, DistinctJobs
<1>6. Queued' = Queued
  BY Zenon DEF Queued
<1>7. InHand' = InHand \ {job[w]} /\ job[w] \in InHand
  BY <1>1, <1>2, <1>3, Zenon DEF InHand, Hands, Thread
<1>8. Uncounted' = Uncounted
  BY <1>1, <1>3, Zenon DEF Uncounted, Hands, Thread
<1>9. Queued' \cup InHand' \subseteq Queued \cup InHand /\ Holders' = Holders
  BY <1>6, <1>7, Zenon DEF Holders
<1> QED
  BY <1>2, <1>3, <1>5, <1>8, <1>9, SameHolders, Zenon

\* A thread makes a job for a node of the table.
LEMMA JobMade ==
  ASSUME IInv, NEW t \in Hands, pc[t] \in {"pass", "idle", "leading"}, NEW j \in Job, Make(t, j),
         j.id = made, j.node # Nil => status[j.node] = "live"
  PROVE  JobsOK'
<1>1. t \in Hands /\ job[t] = Nil
  BY Zenon DEF Hands, IInv, HandsOK, Busy
<1>3. /\ job \in [Hands -> Job \cup {Nil}] /\ pc \in [Thread -> Label] /\ t \in Thread
      /\ made \in Nat
  BY Zenon DEF IInv, TypeOK, Hands, Thread
<1>4. /\ job' = [job EXCEPT ![t] = j] /\ made' = made + 1 /\ pc' = [pc EXCEPT ![t] = "count"]
      /\ UNCHANGED <<m_fifoWorker, dropped, locksCount, status>>
  BY Zenon DEF Make, Goto, queueVars, nodeVars
<1>5. DistinctJobs'
  <2>1. \A u \in Hands : job'[u] = IF u = t THEN j ELSE job[u]
    BY <1>3, <1>4, Zenon
  <2>2. \A i \in Nat : i < made => i < made' /\ i # made
    BY <1>3, <1>4
  <2>3. /\ \A k \in Elements(m_fifoWorker) \cup dropped : k.id \in Nat
        /\ \A u \in Hands : job[u] # Nil => job[u].id \in Nat
    <3>1. \A k \in Job : k.id \in Nat
      BY Zenon DEF Job
    <3> QED
      BY <1>3, <3>1, JobTypes, QueuedElements, Zenon DEF IInv
  <2>4. made < made' /\ made' \in Nat
    BY <1>3, <1>4
  <2> QED
    BY <1>1, <1>4, <2>1, <2>2, <2>3, <2>4 DEF IInv, DistinctJobs
<1>6. Queued' = Queued
  BY <1>4, Zenon DEF Queued
<1>7. InHand' = InHand
  BY <1>1, <1>3, <1>4, Zenon DEF InHand, Hands, Thread
<1>8. Uncounted' \subseteq Uncounted \cup {j}
  BY <1>1, <1>3, <1>4, Zenon DEF Uncounted, Hands, Thread
<1>9. Holders' = Holders
  BY <1>4, <1>6, <1>7, Zenon DEF Holders
<1>10. LockCountExact' /\ IsFiniteSet(Holders') /\ locksCount' \in [Node -> Nat]
  BY <1>4, <1>9, Zenon DEF LockCountExact, IInv, TypeOK
<1>11. JobNodeAlive'
  BY <1>4, <1>6, <1>7, <1>8, Zenon DEF JobNodeAlive, IInv
<1> QED
  BY <1>5, <1>10, <1>11, Zenon DEF JobsOK
-----------------------------------------------------------------------------
(* One lemma per action, or per group of actions alike.                    *)

\* The invariant from its three parts, which the lemmas below re-establish.
LEMMA FromParts ==
  ASSUME TypeOK', HandsOK', JobsOK' PROVE IInv'
BY Zenon DEF IInv, JobsOK

\* The initial states satisfy the invariant.
LEMMA InitIInv == Init => IInv
<1> SUFFICES ASSUME Init PROVE IInv
  OBVIOUS
<1>1. TypeOK
  <2>1. /\ m_nWork \in BOOLEAN /\ marked \in [Node -> BOOLEAN]
        /\ m_fifoWorker \in Seq(Job) /\ dropped \in SUBSET Job
    BY DEF Init
  <2>2. /\ m_semaWorker \in Nat /\ posts \in Nat /\ made \in Nat
        /\ locksCount \in [Node -> Nat]
    BY Zenon DEF Init
  <2>3. /\ writer \in Worker \cup {Nil} /\ readers \in SUBSET Reader
        /\ m_pLeaderNode \in Node \cup {Nil}
    BY WorkerPoolAssumption, Zenon DEF Init
  <2>4. status \in [Node -> {"unused", "live", "freed"}] /\ pc \in [Thread -> Label]
    BY Zenon DEF Init, Label
  <2>5. /\ job \in [Hands -> Job \cup {Nil}]
        /\ victim \in [Worker -> Node \cup {Nil}]
    BY Zenon DEF Init
  <2> QED
    BY <2>1, <2>2, <2>3, <2>4, <2>5, Zenon DEF TypeOK
<1>2. HandsOK
  BY WorkerPoolAssumption, Zenon DEF Init, HandsOK, Thread, Hands, Busy, Leading, Reader, Producer
<1>3. Elements(m_fifoWorker) = {} /\ dropped = {} /\ Queued = {}
  BY DEF Init, Elements, Queued
<1>4. DistinctJobs
  BY <1>3 DEF Init, DistinctJobs, IdsDiffer, Hands
<1>5. InHand = {} /\ Uncounted = {}
  BY Zenon DEF Init, InHand, Uncounted
<1>6. Holders = {}
  BY <1>3, <1>5, Zenon DEF Holders
<1>7. LockCountExact /\ IsFiniteSet(Holders)
  <2>1. \A n \in Node : {h \in Holders : h.node = n} = {}
    BY <1>6, Zenon
  <2>2. \A n \in Node : locksCount[n] = 0
    BY Zenon DEF Init
  <2> QED
    BY <1>6, <2>1, <2>2, FS_EmptySet, Zenon DEF LockCountExact
<1>8. JobNodeAlive
  BY <1>3, <1>5, Zenon DEF JobNodeAlive
<1> QED
  BY <1>1, <1>2, <1>4, <1>7, <1>8, Zenon DEF IInv

\* The steps of a reader that neither make nor count a job.
LEMMA ReaderStep ==
  ASSUME IInv, NEW t \in Reader, LoopTest(t) \/ SharedLock(t) \/ SharedUnlock(t)
  PROVE  IInv'
<1>1. /\ UNCHANGED <<m_fifoWorker, job, dropped, locksCount, made, status, marked, victim,
                     m_pLeaderNode, writer, m_semaWorker, m_nWork, posts>>
      /\ \E l \in {"lock", "done", "pass", "idle"} : pc' = [pc EXCEPT ![t] = l]
  BY Zenon DEF LoopTest, SharedLock, SharedUnlock, Goto, queueVars, nodeVars, stopVars, lockVars
<1>2. t \in Producer /\ t \in Thread /\ t \in Hands /\ t \notin Worker /\ t # Listener
      /\ pc \in [Thread -> Label] /\ pc[t] \notin {"count", "add"}
  BY WorkerPoolAssumption, Zenon
     DEF Producer, Thread, Hands, IInv, TypeOK, LoopTest, SharedLock, SharedUnlock
<1>3. TypeOK'
  <2>1. readers' \in SUBSET Reader
    BY Zenon DEF IInv, TypeOK, LoopTest, SharedLock, SharedUnlock, lockVars
  <2>2. pc' \in [Thread -> Label]
    BY <1>1, <1>2, Zenon DEF Label
  <2> QED
    BY <1>1, <2>1, <2>2, Zenon DEF IInv, TypeOK
<1>4. HandsOK'
  <2>1. \A u \in Thread : u # t => pc'[u] = pc[u]
    BY <1>1, <1>2, Zenon
  <2>2. pc'[t] \notin {"count", "add", "post"} /\ pc[t] \notin {"count", "add"}
    BY <1>1, <1>2, Zenon
  <2>3. pc'[t] = "pass" => t \in readers'
    BY <1>2, Zenon DEF LoopTest, SharedLock, SharedUnlock, Goto
  <2>4. \A u \in Reader : u # t => (u \in readers <=> u \in readers')
    BY Zenon DEF LoopTest, SharedLock, SharedUnlock, lockVars
  <2>5. writer # Nil => readers' = {}
    BY Zenon DEF LoopTest, SharedLock, SharedUnlock, lockVars, IInv, HandsOK
  <2>6. Worker \subseteq Thread /\ Producer \subseteq Thread /\ Reader \subseteq Producer
        /\ Listener \in Thread
    BY Zenon DEF Thread, Hands, Producer
  <2> QED
    BY <1>1, <1>2, <2>1, <2>2, <2>3, <2>4, <2>5, <2>6 DEF IInv, HandsOK
<1>5. JobsOK'
  <2>1. NamedStay
    BY <1>1, Zenon DEF NamedStay
  <2>2. \A u \in Hands : job[u] # Nil => (pc'[u] = "count" <=> pc[u] = "count")
    BY <1>1, <1>2, Zenon DEF Hands, Thread
  <2> QED
    BY <1>1, <2>1, <2>2, NoJobMoves, Zenon
<1> QED
  BY <1>3, <1>4, <1>5, FromParts, Zenon

\* The sets of threads overlap only as their names say.
LEMMA Threads ==
  /\ Worker \subseteq Thread /\ Producer \subseteq Thread /\ Reader \subseteq Producer
  /\ Listener \in Producer /\ Listener \notin Reader /\ Main \in Thread
  /\ Main \notin Hands /\ Hands = Worker \cup Producer
  /\ \A t \in Producer : t \notin Worker
  /\ Receiver \in Reader /\ Periodic \in Reader
BY WorkerPoolAssumption, Zenon DEF Thread, Producer, Reader, Hands

\* A thread that has made a job is at "count"; what else HandsOK needs.
LEMMA MakeStep ==
  ASSUME IInv, NEW t \in Hands, NEW j \in Job, Make(t, j), j.id = made, pc[t] = Back(t),
         t = Listener => j.node = Nil,
         j.node # Nil => status[j.node] = "live"
  PROVE  IInv'
<1>1. /\ job' = [job EXCEPT ![t] = j] /\ made' = made + 1 /\ pc' = [pc EXCEPT ![t] = "count"]
      /\ UNCHANGED <<m_fifoWorker, m_semaWorker, dropped, locksCount, status, marked, victim,
                     m_pLeaderNode, writer, readers, m_nWork, posts>>
  BY Zenon DEF Make, Goto, queueVars, nodeVars, lockVars, stopVars
<1>2. t \in Thread /\ j # Nil
  BY Threads, NilAssumption, Zenon
<1>3. TypeOK'
  <2>1. pc' \in [Thread -> Label] /\ job' \in [Hands -> Job \cup {Nil}]
    BY <1>1, <1>2, Zenon DEF Label, IInv, TypeOK, Hands
  <2>2. made' \in Nat
    BY <1>1 DEF IInv, TypeOK
  <2> QED
    BY <1>1, <2>1, <2>2, Zenon DEF IInv, TypeOK, Hands
<1>4. HandsOK'
  <2>1. /\ \A u \in Thread : u # t => pc'[u] = pc[u]
        /\ \A u \in Hands : u # t => job'[u] = job[u]
        /\ pc'[t] = "count" /\ job'[t] = j
    BY <1>1, <1>2, Zenon DEF IInv, TypeOK, Hands
  <2>2. t \in Reader => t \in readers
    BY Threads, Zenon DEF IInv, HandsOK, Back
  <2>3. t \in Worker => pc[t] = "leading" /\ writer = t /\ victim[t] \in Node
    BY Zenon DEF IInv, HandsOK, Back, Leading
  <2> QED
    BY <1>1, <1>2, <2>1, <2>2, <2>3, Threads DEF IInv, HandsOK, Busy, Leading
<1>5. JobsOK'
  BY JobMade, Zenon DEF Back
<1> QED
  BY <1>3, <1>4, <1>5, FromParts, Zenon

\* The three ways to make a job.
LEMMA MakeSteps ==
  ASSUME IInv
  PROVE  /\ \A n \in Node, request \in RcvRequests, key \in Node \cup {Nil} :
               ReceiveFromSocketAndInform(n, request, key) => IInv'
         /\ \A t \in Reader \cup Worker, request \in IntRequests, n \in Node \cup {Nil} :
               AddInternalForWorker(t, request, n) => IInv'
         /\ \A request \in ConRequests : AddConnectForWorker(request) => IInv'
<1> made \in Nat /\ Nil \notin Node
  BY WorkerPoolAssumption, Zenon DEF IInv, TypeOK
<1>1. ASSUME NEW n \in Node, NEW request \in RcvRequests, NEW key \in Node \cup {Nil},
             ReceiveFromSocketAndInform(n, request, key)
      PROVE  IInv'
  <2> DEFINE j == [type |-> "rcv", request |-> request, node |-> n, key |-> key, id |-> made]
  <2>1. Make(Receiver, j) /\ pc[Receiver] = "pass" /\ status[n] = "live"
    BY <1>1, Zenon DEF ReceiveFromSocketAndInform
  <2>2. j \in Job /\ j.id = made /\ j.node = n
    BY WorkerPoolAssumption, Zenon DEF Job, Request
  <2> HIDE DEF j
  <2> QED
    BY <2>1, <2>2, MakeStep, Threads, Zenon DEF Back
<1>2. ASSUME NEW t \in Reader \cup Worker, NEW request \in IntRequests, NEW n \in Node \cup {Nil},
             AddInternalForWorker(t, request, n)
      PROVE  IInv'
  <2> DEFINE j == [type |-> "int", request |-> request, node |-> n, key |-> n, id |-> made]
  <2>1. Make(t, j) /\ pc[t] = Back(t) /\ (n # Nil => status[n] = "live")
    BY <1>2, Threads, Zenon DEF AddInternalForWorker, Back
  <2>2. j \in Job /\ j.id = made /\ j.node = n
    BY WorkerPoolAssumption, Zenon DEF Job, Request
  <2> HIDE DEF j
  <2> QED
    BY <2>1, <2>2, MakeStep, Threads, Zenon DEF Back
<1>3. ASSUME NEW request \in ConRequests, AddConnectForWorker(request)
      PROVE  IInv'
  <2> DEFINE j == [type |-> "con", request |-> request, node |-> Nil, key |-> Nil, id |-> made]
  <2>1. Make(Listener, j) /\ pc[Listener] = "idle"
    BY <1>3, Zenon DEF AddConnectForWorker
  <2>2. j \in Job /\ j.id = made /\ j.node = Nil
    BY WorkerPoolAssumption, Zenon DEF Job, Request
  <2> HIDE DEF j
  <2> QED
    BY <2>1, <2>2, MakeStep, Threads, Zenon DEF Back
<1> QED
  BY <1>1, <1>2, <1>3, Zenon

\* Counting, queueing and posting.
LEMMA ProduceStep ==
  ASSUME IInv, NEW t \in Hands, Produce(t) PROVE IInv'
<1>1. t \in Thread
  BY Threads, Zenon
<1>2. CASE IncrementLock(t)
  <2>1. /\ pc[t] = "count" /\ pc' = [pc EXCEPT ![t] = "add"]
        /\ locksCount' = IF job[t].node = Nil THEN locksCount
                         ELSE [locksCount EXCEPT ![job[t].node] = @ + 1]
        /\ UNCHANGED <<m_fifoWorker, m_semaWorker, job, dropped, made, status, marked, victim,
                       m_pLeaderNode, writer, readers, m_nWork, posts>>
    BY <1>2, Zenon DEF IncrementLock, Goto, queueVars, nodeVars, lockVars, stopVars
  <2>2. JobsOK'
    BY <2>1, JobCounted, Zenon
  <2>3. TypeOK'
    <3>1. pc' \in [Thread -> Label] /\ locksCount' \in [Node -> Nat]
      BY <1>1, <2>1, <2>2, Zenon DEF Label, IInv, TypeOK, JobsOK
    <3> QED
      BY <2>1, <3>1, Zenon DEF IInv, TypeOK
  <2>4. HandsOK'
    <3>1. (\A u \in Thread : u # t => pc'[u] = pc[u]) /\ pc'[t] = "add"
      BY <1>1, <2>1, Zenon DEF IInv, TypeOK
    <3> QED
      BY <1>1, <2>1, <3>1, Threads DEF IInv, HandsOK, Busy, Leading
  <2> QED
    BY <2>2, <2>3, <2>4, FromParts, Zenon
<1>3. CASE AddElement2(t)
  <2>1. /\ pc[t] = "add" /\ pc' = [pc EXCEPT ![t] = "post"]
        /\ m_fifoWorker' = Append(m_fifoWorker, job[t]) /\ job' = [job EXCEPT ![t] = Nil]
        /\ UNCHANGED <<locksCount, m_semaWorker, dropped, made, status, marked, victim,
                       m_pLeaderNode, writer, readers, m_nWork, posts>>
    BY <1>3, Zenon DEF AddElement2, Goto, nodeVars, lockVars, stopVars
  <2>2. JobsOK' /\ m_fifoWorker' \in Seq(Job)
    BY <2>1, JobQueued, Zenon
  <2>3. TypeOK'
    <3>1. pc' \in [Thread -> Label] /\ job' \in [Hands -> Job \cup {Nil}]
      BY <1>1, <2>1, Zenon DEF Label, IInv, TypeOK, Hands
    <3> QED
      BY <2>1, <2>2, <3>1, Zenon DEF IInv, TypeOK, Hands
  <2>4. HandsOK'
    <3>1. /\ (\A u \in Thread : u # t => pc'[u] = pc[u]) /\ pc'[t] = "post"
          /\ (\A u \in Hands : u # t => job'[u] = job[u]) /\ job'[t] = Nil
      BY <1>1, <2>1, Zenon DEF IInv, TypeOK, Hands
    <3> QED
      BY <1>1, <2>1, <3>1, Threads DEF IInv, HandsOK, Busy, Leading
  <2> QED
    BY <2>2, <2>3, <2>4, FromParts, Zenon
<1>4. CASE Post(t)
  <2>1. /\ pc[t] = "post" /\ pc' = [pc EXCEPT ![t] = Back(t)]
        /\ Back(t) \in {"pass", "idle", "leading"} /\ m_semaWorker' = m_semaWorker + 1
        /\ UNCHANGED <<m_fifoWorker, job, locksCount, dropped, made, status, marked, victim,
                       m_pLeaderNode, writer, readers, m_nWork, posts>>
    BY <1>4, Zenon DEF Post, Back, Goto, nodeVars, lockVars, stopVars
  <2>2. JobsOK'
    <3>1. NamedStay
      BY <2>1, Zenon DEF NamedStay
    <3>2. \A u \in Hands : job[u] # Nil => (pc'[u] = "count" <=> pc[u] = "count")
      BY <1>1, <2>1, Threads, Zenon DEF IInv, TypeOK
    <3> QED
      BY <2>1, <3>1, <3>2, NoJobMoves, Zenon
  <2>3. TypeOK'
    <3>1. pc' \in [Thread -> Label] /\ m_semaWorker' \in Nat
      BY <1>1, <2>1 DEF Label, IInv, TypeOK
    <3> QED
      BY <2>1, <3>1, Zenon DEF IInv, TypeOK
  <2>4. HandsOK'
    <3>1. (\A u \in Thread : u # t => pc'[u] = pc[u]) /\ pc'[t] = Back(t)
      BY <1>1, <2>1, Zenon DEF IInv, TypeOK
    <3> QED
      BY <1>1, <2>1, <3>1, Threads DEF IInv, HandsOK, Busy, Leading, Back
  <2> QED
    BY <2>2, <2>3, <2>4, FromParts, Zenon
<1> QED
  BY <1>2, <1>3, <1>4, Zenon DEF Produce

\* Worker w goes to another label without touching a job.
LEMMA WorkerMoves ==
  ASSUME IInv, NEW w \in Worker, NEW label \in Label, pc' = [pc EXCEPT ![w] = label],
         pc[w] \notin Busy \cup Leading, label \notin Busy \cup Leading \cup {"removing"},
         m_semaWorker' \in Nat, writer' = writer,
         UNCHANGED <<m_fifoWorker, job, dropped, locksCount, made, status, marked, victim,
                     m_pLeaderNode, readers, m_nWork, posts>>
  PROVE  IInv'
<1>1. w \in Thread /\ w \in Hands /\ w \notin Producer
  BY Threads, Zenon
<1>2. TypeOK'
  <2>1. pc' \in [Thread -> Label]
    BY <1>1, Zenon DEF IInv, TypeOK
  <2> QED
    BY <2>1, Zenon DEF IInv, TypeOK
<1>3. (\A u \in Thread : u # w => pc'[u] = pc[u]) /\ pc'[w] = label
  BY <1>1, Zenon DEF IInv, TypeOK
<1>4. HandsOK'
  BY <1>1, <1>3, Threads DEF IInv, HandsOK, Busy, Leading
<1>5. JobsOK'
  <2>1. NamedStay
    BY Zenon DEF NamedStay
  <2>2. \A u \in Hands : job[u] # Nil => (pc'[u] = "count" <=> pc[u] = "count")
    BY <1>1, <1>3, Threads, Zenon DEF IInv, HandsOK, Leading
  <2> QED
    BY <2>1, <2>2, NoJobMoves, Zenon
<1> QED
  BY <1>2, <1>4, <1>5, FromParts, Zenon

\* The outer loop, the wait, an empty queue, the phase after the lock.
LEMMA IdleStep ==
  ASSUME IInv, NEW w \in Worker,
         WhileWork(w) \/ Wait(w) \/ (Extract(w) /\ m_fifoWorker = <<>>) \/ AfterLock(w)
  PROVE  IInv'
<1>1. \E l \in {"wait", "done", "first", "loop", "more"} : pc' = [pc EXCEPT ![w] = l]
  BY Zenon DEF WhileWork, Wait, Extract, AfterLock, Goto
<1>2. pc[w] \notin Busy \cup Leading
  BY Zenon DEF WhileWork, Wait, Extract, AfterLock, Busy, Leading
<1>3. m_semaWorker' \in Nat
  BY DEF WhileWork, Wait, Extract, AfterLock, queueVars, IInv, TypeOK
<1>4. UNCHANGED <<m_fifoWorker, job, dropped, locksCount, made, status, marked, victim,
                  m_pLeaderNode, readers, writer, m_nWork, posts>>
  BY Zenon DEF WhileWork, Wait, Extract, AfterLock, queueVars, nodeVars, lockVars, stopVars
<1> QED
  BY <1>1, <1>2, <1>3, <1>4, WorkerMoves, Zenon DEF Label, Busy, Leading

\* A job is taken from the queue.
LEMMA ExtractStep ==
  ASSUME IInv, NEW w \in Worker, Extract(w), m_fifoWorker # <<>> PROVE IInv'
<1>1. /\ pc[w] \in {"first", "more"} /\ pc' = [pc EXCEPT ![w] = "got"]
      /\ job' = [job EXCEPT ![w] = Head(m_fifoWorker)] /\ m_fifoWorker' = Tail(m_fifoWorker)
      /\ UNCHANGED <<locksCount, m_semaWorker, dropped, made, status, marked, victim,
                     m_pLeaderNode, writer, readers, m_nWork, posts>>
  BY Zenon DEF Extract, Goto, nodeVars, lockVars, stopVars
<1>2. JobsOK' /\ m_fifoWorker' \in Seq(Job) /\ Head(m_fifoWorker) \in Job
  BY <1>1, JobExtracted, Zenon
<1>3. w \in Thread /\ w \in Hands /\ w \notin Producer
  BY Threads, Zenon
<1> DEFINE h == Head(m_fifoWorker)
<1>4. h \in Job /\ h # Nil /\ job' = [job EXCEPT ![w] = h]
  BY <1>1, <1>2, NilAssumption, Zenon
<1> HIDE DEF h
<1>5. TypeOK'
  <2>1. pc' \in [Thread -> Label] /\ job' \in [Hands -> Job \cup {Nil}]
    BY <1>1, <1>3, <1>4 DEF Label, IInv, TypeOK, Hands
  <2> QED
    BY <1>1, <1>2, <2>1, Zenon DEF IInv, TypeOK, Hands
<1>6. HandsOK'
  <2>1. /\ (\A u \in Thread : u # w => pc'[u] = pc[u]) /\ pc'[w] = "got"
        /\ (\A u \in Hands : u # w => job'[u] = job[u]) /\ job'[w] # Nil
    BY <1>1, <1>3, <1>4, Zenon DEF IInv, TypeOK, Hands
  <2> QED
    BY <1>1, <1>3, <2>1, Threads DEF IInv, HandsOK, Busy, Leading
<1> QED
  BY <1>2, <1>5, <1>6, FromParts, Zenon

\* Worker w lets go of its job, counted or dropped.
LEMMA WorkerLetsGo ==
  ASSUME IInv, NEW w \in Worker, NEW label \in {"loop", "more", "after"},
         pc' = [pc EXCEPT ![w] = label], pc[w] \in Busy, Done(w), JobsOK',
         dropped' \in SUBSET Job, status' \in [Node -> {"unused", "live", "freed"}],
         m_pLeaderNode' \in Node \cup {Nil},
         UNCHANGED <<m_fifoWorker, m_semaWorker, made, marked, victim, readers, writer,
                     m_nWork, posts>>
  PROVE  IInv'
<1>1. w \in Thread /\ w \in Hands /\ w \notin Producer /\ job' = [job EXCEPT ![w] = Nil]
  BY Threads, Zenon DEF Done
<1>2. TypeOK'
  <2>1. pc' \in [Thread -> Label] /\ job' \in [Hands -> Job \cup {Nil}]
        /\ locksCount' \in [Node -> Nat]
    BY <1>1, Zenon DEF Label, IInv, TypeOK, Hands, JobsOK
  <2> QED
    BY <2>1, Zenon DEF IInv, TypeOK, Hands
<1>3. HandsOK'
  <2>1. /\ (\A u \in Thread : u # w => pc'[u] = pc[u]) /\ pc'[w] = label
        /\ (\A u \in Hands : u # w => job'[u] = job[u]) /\ job'[w] = Nil
    BY <1>1, Zenon DEF IInv, TypeOK, Hands
  <2> QED
    BY <1>1, <2>1, Threads DEF IInv, HandsOK, Busy, Leading
<1> QED
  BY <1>2, <1>3, FromParts, Zenon

\* A worker goes on to the next phase of its job.
LEMMA NextPhase ==
  ASSUME IInv, NEW w \in Worker, NEW label \in Busy, pc' = [pc EXCEPT ![w] = label],
         pc[w] \in Busy, label = "conShared" => job[w].type = "con",
         UNCHANGED <<m_fifoWorker, m_semaWorker, job, dropped, locksCount, made, status,
                     marked, victim, m_pLeaderNode, writer, readers, m_nWork, posts>>
  PROVE  IInv'
<1>1. w \in Thread /\ w \in Hands /\ w \notin Producer /\ label \in Label
  BY Threads, Zenon DEF Busy, Label
<1>2. (\A u \in Thread : u # w => pc'[u] = pc[u]) /\ pc'[w] = label
  BY <1>1, Zenon DEF IInv, TypeOK
<1>3. TypeOK'
  <2>1. pc' \in [Thread -> Label]
    BY <1>1, Zenon DEF IInv, TypeOK
  <2> QED
    BY <2>1, Zenon DEF IInv, TypeOK
<1>4. HandsOK'
  BY <1>1, <1>2, Threads DEF IInv, HandsOK, Busy, Leading
<1>5. JobsOK'
  <2>1. NamedStay
    BY Zenon DEF NamedStay
  <2>2. \A u \in Hands : job[u] # Nil => (pc'[u] = "count" <=> pc[u] = "count")
    BY <1>1, <1>2, Threads, Zenon DEF Busy
  <2> QED
    BY <2>1, <2>2, NoJobMoves, Zenon
<1> QED
  BY <1>3, <1>4, <1>5, FromParts, Zenon

\* The mark test and the switch on the type of the job.
LEMMA DispatchStep ==
  ASSUME IInv, NEW w \in Worker, Dispatch(w) PROVE IInv'
<1> DEFINE skip == job[w].node # Nil /\ marked[job[w].node]
<1>1. /\ pc[w] = "got" /\ pc[w] \in Busy /\ job[w] # Nil
      /\ UNCHANGED <<m_fifoWorker, m_semaWorker, made, status, marked, victim,
                     m_pLeaderNode, writer, readers, m_nWork, posts>>
  BY Zenon DEF Dispatch, IInv, HandsOK, Busy, queueVars, nodeVars, lockVars, stopVars
<1>2. NamedStay
  BY <1>1, Zenon DEF NamedStay
<1>3. CASE ~m_nWork
  <2>1. /\ pc' = [pc EXCEPT ![w] = "loop"] /\ Done(w) /\ locksCount' = locksCount
        /\ dropped' = dropped \cup {job[w]}
    BY <1>3, Zenon DEF Dispatch, Goto
  <2>2. JobsOK' /\ dropped' \in SUBSET Job
    BY <1>1, <2>1, JobDropped, Zenon DEF Done
  <2> QED
    BY <1>1, <2>1, <2>2, WorkerLetsGo, Zenon DEF IInv, TypeOK
<1>4. CASE m_nWork /\ skip
  <2>1. /\ pc' = [pc EXCEPT ![w] = "loop"] /\ Done(w) /\ locksCount' = Released(job[w].node)
        /\ dropped' = dropped
    BY <1>4, Zenon DEF Dispatch, Goto
  <2>2. JobsOK'
    BY <1>1, <1>2, <2>1, JobReleased, Zenon DEF Done
  <2> QED
    BY <1>1, <2>1, <2>2, WorkerLetsGo, Zenon DEF IInv, TypeOK
<1>5. CASE m_nWork /\ ~skip
  <2>1. /\ pc' = [pc EXCEPT ![w] = FirstPhase[job[w].type]]
        /\ UNCHANGED <<job, locksCount, dropped>>
    BY <1>5, Zenon DEF Dispatch, Goto
  <2>2. /\ FirstPhase[job[w].type] \in Busy
        /\ FirstPhase[job[w].type] = "conShared" => job[w].type = "con"
    <3>1. job[w].type \in {"con", "rcv", "int"}
      <4>1. job[w] \in Job
        BY <1>1, HandIsAlone, Zenon DEF Hands
      <4> QED
        BY <4>1, Zenon DEF Job
    <3> QED
      BY <3>1 DEF FirstPhase, Busy
  <2> QED
    BY <1>1, <2>1, <2>2, NextPhase, Zenon
<1> QED
  BY <1>3, <1>4, <1>5, Zenon

\* The phase before the exclusive lock.
LEMMA BeforeLockStep ==
  ASSUME IInv, NEW w \in Worker, BeforeLock(w) PROVE IInv'
<1>1. /\ pc[w] \in {"conShared", "intShared"} /\ pc[w] \in Busy /\ job[w] # Nil
      /\ UNCHANGED <<m_fifoWorker, m_semaWorker, made, status, marked, victim, dropped,
                     m_pLeaderNode, writer, readers, m_nWork, posts, locksCount>>
  BY Zenon DEF BeforeLock, IInv, HandsOK, Busy, queueVars, nodeVars, lockVars, stopVars
<1>2. NamedStay
  BY <1>1, Zenon DEF NamedStay
<1>3. CASE pc[w] = "intShared" \/ job[w].request = "newNode"
  <2>1. pc' = [pc EXCEPT ![w] = "exclusive"] /\ job' = job
    BY <1>3, Zenon DEF BeforeLock, Goto
  <2> QED
    BY <1>1, <2>1, NextPhase, Zenon DEF Busy
<1>4. CASE ~(pc[w] = "intShared" \/ job[w].request = "newNode")
  <2>1. pc' = [pc EXCEPT ![w] = "more"] /\ Done(w)
    BY <1>4, Zenon DEF BeforeLock, Goto
  <2>2. job[w].node = Nil
    <3>1. job[w] \in Job /\ job[w].type = "con"
      BY <1>1, <1>4, HandIsAlone, Zenon DEF Hands, IInv, HandsOK
    <3> QED
      BY <3>1, Zenon DEF Job
  <2>3. JobsOK'
    BY <1>1, <1>2, <2>1, <2>2, JobReleased, Zenon DEF Done, Released
  <2> QED
    BY <1>1, <2>1, <2>3, WorkerLetsGo, Zenon DEF IInv, TypeOK
<1> QED
  BY <1>3, <1>4, Zenon

\* What a handler under the exclusive lock may do to the nodes: it gives the lock
\* back, or keeps it in become_leader or to wait in RemoveNode1.
Settles(w) ==
  /\ status' \in [Node -> {"unused", "live", "freed"}] /\ marked' \in [Node -> BOOLEAN]
  /\ victim' \in [Worker -> Node \cup {Nil}]
  /\ \A n \in Node : status[n] = "live" => status'[n] = "live"
  /\ \A u \in Worker : u # w => victim'[u] = victim[u]
  /\ \/ \E label \in {"more", "after"} : pc' = [pc EXCEPT ![w] = label] /\ writer' = Nil
     \/ /\ \E label \in {"leading", "removing"} : pc' = [pc EXCEPT ![w] = label]
        /\ writer' = w /\ victim'[w] \in Node

\* A handler that is done.
LEMMA LeaveSettles ==
  ASSUME IInv, NEW w \in Worker, NEW label \in {"more", "after"}, Leave(w, label),
         status' \in [Node -> {"unused", "live", "freed"}],
         \A n \in Node : status[n] = "live" => status'[n] = "live"
  PROVE  Settles(w)
<1>1. /\ pc' = [pc EXCEPT ![w] = label] /\ writer' = Nil /\ marked' = marked
      /\ victim' = [victim EXCEPT ![w] = Nil]
  BY Zenon DEF Leave, Goto
<1>2. /\ victim' \in [Worker -> Node \cup {Nil}] /\ marked' \in [Node -> BOOLEAN]
      /\ \A u \in Worker : u # w => victim'[u] = victim[u]
  BY <1>1, Zenon DEF IInv, TypeOK
<1> QED
  BY <1>1, <1>2, Zenon DEF Settles

\* A handler that calls RemoveNode1.
LEMMA RemoveSettles ==
  ASSUME IInv, NEW w \in Worker, NEW n \in Node \cup {Nil}, BeginRemove(w, n)
  PROVE  Settles(w) /\ status' = status
<1>1. status' = status /\ status' \in [Node -> {"unused", "live", "freed"}]
  BY Zenon DEF BeginRemove, IInv, TypeOK
<1>2. CASE ~(n # Nil /\ status[n] = "live")
  <2>1. Leave(w, "after")
    BY <1>2, Zenon DEF BeginRemove
  <2> QED
    BY <1>1, <2>1, LeaveSettles, Zenon
<1>3. CASE n # Nil /\ status[n] = "live"
  <2>1. /\ pc' = [pc EXCEPT ![w] = "removing"] /\ writer' = w
        /\ marked' = [marked EXCEPT ![n] = TRUE] /\ victim' = [victim EXCEPT ![w] = n]
        /\ n \in Node
    BY <1>3, Zenon DEF BeginRemove, Goto
  <2>2. victim \in [Worker -> Node \cup {Nil}] /\ marked \in [Node -> BOOLEAN]
    BY Zenon DEF IInv, TypeOK
  <2>3. marked' \in [Node -> BOOLEAN]
    BY <2>1, <2>2, SMTT(30)
  <2>4. /\ victim' \in [Worker -> Node \cup {Nil}] /\ victim'[w] = n
        /\ \A u \in Worker : u # w => victim'[u] = victim[u]
    BY <2>1, <2>2, Zenon
  <2> QED
    BY <1>1, <2>1, <2>3, <2>4, Zenon DEF Settles
<1> QED
  BY <1>2, <1>3, Zenon

\* Such a step keeps what the places of the threads say.
LEMMA SettledHands ==
  ASSUME IInv, NEW w \in Worker, Settles(w), writer \in {Nil, w}, readers = {},
         job' = [job EXCEPT ![w] = Nil], readers' = readers
  PROVE  HandsOK' /\ pc' \in [Thread -> Label] /\ job' \in [Hands -> Job \cup {Nil}]
         /\ writer' \in Worker \cup {Nil}
<1>1. w \in Thread /\ w \in Hands /\ w \notin Producer
  BY Threads, Zenon
<1>2. PICK label \in {"more", "after", "leading", "removing"} :
        /\ pc' = [pc EXCEPT ![w] = label]
        /\ label \in {"leading", "removing"} => writer' = w /\ victim'[w] \in Node
  BY Zenon DEF Settles
<1>3. /\ pc' \in [Thread -> Label] /\ job' \in [Hands -> Job \cup {Nil}]
      /\ writer' \in Worker \cup {Nil}
  BY <1>1, <1>2, Zenon DEF IInv, TypeOK, Label, Settles
<1>4. /\ (\A u \in Thread : u # w => pc'[u] = pc[u]) /\ pc'[w] = label
      /\ (\A u \in Hands : u # w => job'[u] = job[u]) /\ job'[w] = Nil
  BY <1>1, <1>2, Zenon DEF IInv, TypeOK
<1>5. \A u \in Worker : u # w => pc[u] \notin Leading \cup {"removing"}
  <2>1. Nil \notin Worker
    BY WorkerPoolAssumption, Zenon DEF Thread, Hands
  <2> QED
    BY <2>1, Zenon DEF IInv, HandsOK
<1>6. ASSUME NEW u \in Worker
      PROVE  /\ job'[u] # Nil <=> pc'[u] \in Busy \cup {"count", "add"}
             /\ pc'[u] = "conShared" => job'[u].type = "con"
             /\ pc'[u] \in Leading \cup {"removing"} => writer' = u /\ victim'[u] \in Node
  <2>1. CASE u = w
    BY <1>2, <1>4, <2>1, Zenon DEF Busy, Leading
  <2>2. CASE u # w
    BY <1>4, <1>5, <2>2, Threads, Zenon DEF IInv, HandsOK
  <2> QED
    BY <2>1, <2>2, Zenon
<1>7. \A t \in Producer : pc'[t] = pc[t] /\ job'[t] = job[t]
  BY <1>1, <1>4, Threads, Zenon
<1>8. HandsOK'
  <2>1. \A t \in Producer : job'[t] # Nil <=> pc'[t] \in {"count", "add"}
    BY <1>7, Zenon DEF IInv, HandsOK
  <2>2. \A t \in Reader : pc'[t] \in {"pass", "count", "add", "post"} => t \in readers'
    BY <1>7, Threads, Zenon DEF IInv, HandsOK
  <2>3. pc'[Listener] = "count" => job'[Listener].node = Nil
    BY <1>7, Threads, Zenon DEF IInv, HandsOK
  <2> QED
    BY <1>6, <2>1, <2>2, <2>3, Zenon DEF HandsOK
<1> QED
  BY <1>3, <1>8, Zenon

\* A handler under the exclusive lock, from the lock to its end or to where it waits.
LEMMA HandlerStep ==
  ASSUME IInv, NEW w \in Worker, ExclusiveLock(w), m_pLeaderNode' \in Node \cup {Nil},
         Settles(w)
  PROVE  IInv'
<1>1. /\ pc[w] = "exclusive" /\ pc[w] \in Busy /\ job' = [job EXCEPT ![w] = Nil]
      /\ locksCount' = Released(job[w].node) /\ writer = Nil /\ readers = {}
      /\ UNCHANGED <<m_fifoWorker, m_semaWorker, made, dropped, readers, m_nWork, posts>>
  BY Zenon DEF ExclusiveLock, Done, Busy, queueVars, stopVars
<1>2. PICK label \in {"more", "after", "leading", "removing"} : pc' = [pc EXCEPT ![w] = label]
  BY Zenon DEF Settles
<1>3. JobsOK'
  <2>1. NamedStay
    BY Zenon DEF NamedStay, Settles
  <2> QED
    BY <1>1, <1>2, <2>1, JobReleased, Zenon
<1>4. HandsOK' /\ pc' \in [Thread -> Label] /\ job' \in [Hands -> Job \cup {Nil}]
      /\ writer' \in Worker \cup {Nil}
  BY <1>1, SettledHands, Zenon
<1>5. TypeOK'
  BY <1>1, <1>3, <1>4, Zenon DEF IInv, TypeOK, JobsOK, Settles
<1> QED
  BY <1>3, <1>4, <1>5, FromParts, Zenon

\* The removal of the old leader, after the sends of become_leader.
LEMMA RemoveOldLeaderStep ==
  ASSUME IInv, NEW w \in Worker, RemoveOldLeader(w) PROVE IInv'
<1>1. /\ pc[w] = "leading"
      /\ UNCHANGED <<m_fifoWorker, m_semaWorker, job, made, dropped, readers, m_pLeaderNode,
                     locksCount, m_nWork, posts>>
  BY Zenon DEF RemoveOldLeader, queueVars, stopVars
<1>2. writer = w /\ victim[w] \in Node /\ job[w] = Nil /\ w \in Hands
  BY <1>1, Threads, Zenon DEF IInv, HandsOK, Leading, Busy
<1>3. readers = {}
  <2>1. Nil \notin Worker
    BY WorkerPoolAssumption, Zenon DEF Thread, Hands
  <2> QED
    BY <1>2, <2>1, Zenon DEF IInv, HandsOK
<1>4. Settles(w) /\ status' = status
  <2>1. PICK n \in Node \cup {Nil} : BeginRemove(w, n)
    BY <1>2, Zenon DEF RemoveOldLeader, Looked
  <2> QED
    BY <2>1, RemoveSettles, Zenon
<1>5. job' = [job EXCEPT ![w] = Nil]
  BY <1>1, <1>2, Zenon DEF IInv, TypeOK
<1>6. HandsOK' /\ pc' \in [Thread -> Label] /\ job' \in [Hands -> Job \cup {Nil}]
      /\ writer' \in Worker \cup {Nil}
  BY <1>1, <1>2, <1>3, <1>4, <1>5, SettledHands, Zenon
<1>7. JobsOK'
  <2>1. NamedStay
    BY <1>4, Zenon DEF NamedStay
  <2>2. \A u \in Hands : job[u] # Nil => (pc'[u] = "count" <=> pc[u] = "count")
    <3>1. \A u \in Thread : u # w => pc'[u] = pc[u]
      BY <1>4, Zenon DEF Settles, IInv, TypeOK
    <3> QED
      BY <1>2, <3>1, Threads, Zenon
  <2> QED
    BY <1>1, <2>1, <2>2, NoJobMoves, Zenon
<1>8. TypeOK'
  BY <1>1, <1>4, <1>6, Zenon DEF IInv, TypeOK, Settles
<1> QED
  BY <1>6, <1>7, <1>8, FromParts, Zenon

\* Every handler is such a step.
LEMMA LockedStep ==
  ASSUME IInv, NEW w \in Worker, Locked(w) PROVE IInv'
<1> /\ m_pLeaderNode \in Node \cup {Nil} /\ ThisNode \in Node
    /\ status \in [Node -> {"unused", "live", "freed"}]
  BY WorkerPoolAssumption, Zenon DEF IInv, TypeOK
<1>1. CASE AddNode(w)
  <2>1. ExclusiveLock(w) /\ m_pLeaderNode' \in Node \cup {Nil}
        /\ \E label \in {"more", "after"} : Leave(w, label)
    BY <1>1, Zenon DEF AddNode
  <2>2. status' \in [Node -> {"unused", "live", "freed"}]
        /\ \A n \in Node : status[n] = "live" => status'[n] = "live"
    BY <1>1, Zenon DEF AddNode
  <2> QED
    BY <2>1, <2>2, LeaveSettles, HandlerStep, Zenon
<1>2. CASE RemoveNode(w)
  <2>1. ExclusiveLock(w) /\ m_pLeaderNode' \in Node \cup {Nil}
    BY <1>2, Zenon DEF RemoveNode
  <2>2. job[w].key \in Node \cup {Nil}
    <3>1. job[w] \in Job
      BY <2>1, HandIsAlone, Zenon DEF Hands, ExclusiveLock, IInv, HandsOK, Busy, Leading
    <3> QED
      BY <3>1, Zenon DEF Job
  <2>3. BeginRemove(w, job[w].key) \/ (Leave(w, "more") /\ status' = status)
    BY <1>2, Zenon DEF RemoveNode
  <2> QED
    BY <2>1, <2>2, <2>3, LeaveSettles, RemoveSettles, HandlerStep, Zenon
<1>3. CASE OldLeaderDied(w)
  <2>1. job[w].node \in Node \cup {Nil}
    <3>1. pc[w] = "exclusive"
      BY <1>3, Zenon DEF OldLeaderDied, ExclusiveLock
    <3>2. job[w] \in Job
      BY <3>1, BusyJob, Zenon DEF Busy
    <3> QED
      BY <3>2, SMTT(30) DEF Job
  <2>2. ExclusiveLock(w) /\ m_pLeaderNode' \in Node \cup {Nil}
    BY <1>3, <2>1, Zenon DEF OldLeaderDied
  <2>3. \/ Leave(w, "more") /\ status' = status
        \/ \E n \in Node \cup {Nil} : BeginRemove(w, n)
    BY <1>3, Zenon DEF OldLeaderDied, Looked
  <2> QED
    BY <2>2, <2>3, LeaveSettles, RemoveSettles, HandlerStep, Zenon
<1>4. CASE BecomeLeader(w)
  <2>2. ExclusiveLock(w) /\ m_pLeaderNode' \in Node \cup {Nil}
    BY <1>4, Zenon DEF BecomeLeader
  <2>3. CASE Leave(w, "more") /\ status' = status
    BY <2>2, <2>3, LeaveSettles, HandlerStep, Zenon
  <2>4. CASE ~(Leave(w, "more") /\ status' = status)
    <3>1. /\ m_pLeaderNode \in Node /\ victim' = [victim EXCEPT ![w] = m_pLeaderNode]
          /\ writer' = w /\ pc' = [pc EXCEPT ![w] = "leading"] /\ marked' = marked
          /\ status' = status
      BY <1>4, <2>4, Zenon DEF BecomeLeader, Goto
    <3>2. /\ victim' \in [Worker -> Node \cup {Nil}] /\ victim'[w] \in Node
          /\ marked' \in [Node -> BOOLEAN]
          /\ \A u \in Worker : u # w => victim'[u] = victim[u]
      BY <3>1, Zenon DEF IInv, TypeOK
    <3>3. Settles(w)
      BY <3>1, <3>2, Zenon DEF Settles
    <3> QED
      BY <2>2, <3>3, HandlerStep, Zenon
  <2> QED
    BY <2>3, <2>4, Zenon
<1>5. CASE OtherRequest(w)
  <2>1. ExclusiveLock(w) /\ m_pLeaderNode' \in Node \cup {Nil}
        /\ Leave(w, "more") /\ status' = status
    BY <1>5, Zenon DEF OtherRequest
  <2> QED
    BY <2>1, LeaveSettles, HandlerStep, Zenon
<1> QED
  BY <1>1, <1>2, <1>3, <1>4, <1>5, Zenon DEF Locked

\* RemoveNode1 deletes a node that no job names: its counter is zero, and no
\* producer is between the mark test and incrementLock2, since that would
\* need the shared lock.
LEMMA EndRemoveStep ==
  ASSUME IInv, NEW w \in Worker, EndRemove(w) PROVE IInv'
<1> DEFINE v == victim[w]
<1>1. /\ pc[w] = "removing" /\ locksCount[v] = 0 /\ pc' = [pc EXCEPT ![w] = "after"]
      /\ status' = [status EXCEPT ![v] = "freed"] /\ victim' = [victim EXCEPT ![w] = Nil]
      /\ writer' = Nil
      /\ UNCHANGED <<m_fifoWorker, m_semaWorker, job, made, dropped, readers, marked,
                     m_pLeaderNode, locksCount, m_nWork, posts>>
  BY SMTT(30) DEF EndRemove, Goto, queueVars, stopVars
<1>2. w \in Thread /\ w \in Hands /\ w \notin Producer /\ v \in Node /\ writer = w
      /\ writer # Nil /\ readers = {} /\ job[w] = Nil
  BY <1>1, Threads, WorkerPoolAssumption DEF IInv, HandsOK, Busy, Leading
<1>3. (\A u \in Thread : u # w => pc'[u] = pc[u]) /\ pc'[w] = "after"
  BY <1>1, <1>2, Zenon DEF IInv, TypeOK
<1>4. \A j \in Queued \cup InHand : j.node # v
  <2>1. {h \in Holders : h.node = v} = {}
    <3>1. IsFiniteSet({h \in Holders : h.node = v})
      BY FS_Subset, Zenon DEF IInv
    <3>2. Cardinality({h \in Holders : h.node = v}) = 0
      BY <1>1, <1>2, Zenon DEF IInv, LockCountExact
    <3> QED
      BY <3>1, <3>2, FS_EmptySet, Zenon
  <2> QED
    BY <2>1, Zenon DEF Holders
<1>5. \A j \in Uncounted : j.node # v
  <2>1. \A t \in Hands : pc[t] = "count" => t = Listener
    <3>1. \A t \in Worker : pc[t] # "count"
      BY <1>1, <1>2, Zenon DEF IInv, HandsOK, Leading
    <3> QED
      BY <1>2, <3>1, Threads, Zenon DEF IInv, HandsOK, Producer
  <2>2. \A j \in Uncounted : j.node = Nil
    BY <2>1, Zenon DEF Uncounted, Hands, IInv, HandsOK
  <2> QED
    BY <1>2, <2>2, WorkerPoolAssumption, SMTT(30)
<1>6. NamedStay
  BY <1>1, <1>4, <1>5, Zenon DEF NamedStay, IInv, TypeOK
<1>7. JobsOK'
  <2>1. \A u \in Hands : job[u] # Nil => (pc'[u] = "count" <=> pc[u] = "count")
    BY <1>1, <1>2, <1>3, Threads, Zenon
  <2> QED
    BY <1>1, <1>6, <2>1, NoJobMoves, Zenon
<1>8. TypeOK'
  <2>1. pc' \in [Thread -> Label] /\ victim' \in [Worker -> Node \cup {Nil}]
        /\ status' \in [Node -> {"unused", "live", "freed"}]
    BY <1>1, <1>2, Zenon DEF Label, IInv, TypeOK
  <2> QED
    BY <1>1, <2>1, Zenon DEF IInv, TypeOK
<1>9. HandsOK'
  <2>1. \A u \in Worker : u # w => pc[u] # "removing"
    BY <1>2, Zenon DEF IInv, HandsOK
  <2> QED
    BY <1>1, <1>2, <1>3, <2>1, Threads, SMTT(30) DEF IInv, HandsOK, Busy, Leading
<1> QED
  BY <1>7, <1>8, <1>9, FromParts, Zenon

\* StopServer touches neither nodes nor jobs.
LEMMA StopStep ==
  ASSUME IInv, StopServer \/ StopPost \/ Join PROVE IInv'
<1>1. /\ UNCHANGED <<m_fifoWorker, job, made, dropped, readers, writer, marked, victim,
                     status, m_pLeaderNode, locksCount>>
      /\ m_nWork' \in {m_nWork, FALSE}
  BY Zenon DEF StopServer, StopPost, Join, queueVars, lockVars, nodeVars, stopVars
<1>2. m_semaWorker' \in Nat /\ posts' \in Nat
  <2>1. Cardinality(Worker) \in Nat
    BY WorkerPoolAssumption, FS_CardinalityType, Zenon
  <2> QED
    BY <2>1 DEF StopServer, StopPost, Join, queueVars, stopVars, IInv, TypeOK
<1>3. /\ Main \in Thread
      /\ pc' = pc \/ \E l \in {"posting", "joined"} : pc' = [pc EXCEPT ![Main] = l]
  BY Threads, Zenon DEF StopServer, StopPost, Join, Goto
<1>4. (\A u \in Thread : u # Main => pc'[u] = pc[u]) /\ pc' \in [Thread -> Label]
  BY <1>3, Zenon DEF IInv, TypeOK, Label
<1>5. Main \notin Hands
  BY Threads, Zenon
<1>6. TypeOK'
  <2>1. m_nWork' \in BOOLEAN
    BY <1>1, Zenon DEF IInv, TypeOK
  <2> QED
    BY <1>1, <1>2, <1>4, <2>1, Zenon DEF IInv, TypeOK
<1>7. HandsOK'
  BY <1>1, <1>4, <1>5, Threads, Zenon DEF IInv, HandsOK
<1>8. JobsOK'
  <2>1. NamedStay
    BY <1>1, Zenon DEF NamedStay
  <2>2. \A u \in Hands : job[u] # Nil => (pc'[u] = "count" <=> pc[u] = "count")
    BY <1>4, <1>5, Threads, Zenon
  <2> QED
    BY <1>1, <2>1, <2>2, NoJobMoves, Zenon
<1> QED
  BY <1>6, <1>7, <1>8, FromParts, Zenon

\* Every step preserves the invariant.
LEMMA NextStep == IInv /\ [Next]_vars => IInv'
<1> SUFFICES ASSUME IInv, [Next]_vars PROVE IInv'
  OBVIOUS
<1>1. ASSUME NEW w \in Worker, Work(w) PROVE IInv'
  <2>1. CASE WhileWork(w) \/ Wait(w) \/ AfterLock(w)
    BY <2>1, IdleStep, Zenon
  <2>2. CASE Extract(w)
    BY <2>2, IdleStep, ExtractStep, Zenon
  <2> QED
    BY <1>1, <2>1, <2>2, DispatchStep, BeforeLockStep, LockedStep, ProduceStep,
       RemoveOldLeaderStep, EndRemoveStep, Threads, Zenon DEF Work
<1>2. ASSUME NEW t \in Reader, LoopTest(t) \/ SharedLock(t) \/ SharedUnlock(t) PROVE IInv'
  BY <1>2, ReaderStep, Zenon
<1>3. CASE UNCHANGED vars
  <2>1. UNCHANGED <<m_fifoWorker, m_semaWorker, job, made, dropped, readers, writer, marked,
                    victim, status, m_pLeaderNode, locksCount, m_nWork, posts, pc>>
    BY <1>3, Zenon DEF vars, queueVars, lockVars, nodeVars, stopVars
  <2>2. TypeOK' /\ HandsOK'
    BY <2>1, Zenon DEF IInv, TypeOK, HandsOK
  <2>3. NamedStay
    BY <2>1, Zenon DEF NamedStay
  <2>4. JobsOK'
    BY <2>1, <2>3, NoJobMoves, Zenon
  <2> QED
    BY <2>2, <2>4, FromParts, Zenon
<1>4. CASE Next
  BY <1>1, <1>2, <1>4, MakeSteps, ProduceStep, StopStep, Threads, Zenon DEF Next
<1> QED
  BY <1>3, <1>4, Zenon

-----------------------------------------------------------------------------
(* Theorems.                                                               *)

\* The conjunction of all the safety invariants of the pool but the one about
\* posts is inductive.
THEOREM Invariance == Spec => []IInv
BY InitIInv, NextStep, PTL DEF Spec

\* The reference counter of every node is the number of jobs that have counted
\* it and have not given it back (incrementLock2, decrementLock2).
THEOREM CountersExact == Spec => []LockCountExact
<1>1. IInv => LockCountExact
  BY Zenon DEF IInv
<1> QED
  BY <1>1, Invariance, PTL

\* RemoveNode1 deletes no node that a queued job or a thread still names.
THEOREM NoDeletedNode == Spec => []JobNodeAlive
<1>1. IInv => JobNodeAlive
  BY Zenon DEF IInv
<1> QED
  BY <1>1, Invariance, PTL

\* Type correctness; in particular no counter becomes negative.
THEOREM Typing == Spec => []TypeOK
<1>1. IInv => TypeOK
  BY Zenon DEF IInv
<1> QED
  BY <1>1, Invariance, PTL

-----------------------------------------------------------------------------
(* Posts.                                                                  *)

\* How the number of threads of S at a label changes when thread t moves.
LEMMA AtLabel ==
  ASSUME NEW S \in SUBSET Thread, IsFiniteSet(S), NEW f \in [Thread -> Label],
         NEW t \in Thread, NEW l \in Label, NEW m \in Label
  PROVE  LET A == {u \in S : f[u] = m}
             B == {u \in S : [f EXCEPT ![t] = l][u] = m}
         IN  /\ Cardinality(A) \in Nat /\ Cardinality(B) \in Nat
             /\ t \in S /\ l = m /\ f[t] # m => Cardinality(B) = Cardinality(A) + 1
             /\ t \in S /\ l # m /\ f[t] = m => Cardinality(A) = Cardinality(B) + 1
             /\ (t \notin S \/ (l # m /\ f[t] # m)) => Cardinality(B) = Cardinality(A)
<1> DEFINE A == {u \in S : f[u] = m}
           B == {u \in S : [f EXCEPT ![t] = l][u] = m}
<1>1. IsFiniteSet(A) /\ IsFiniteSet(B)
  BY FS_Subset, Zenon
<1>2. Cardinality(A) \in Nat /\ Cardinality(B) \in Nat
  BY <1>1, FS_CardinalityType, Zenon
<1>3. ASSUME t \in S, l = m, f[t] # m PROVE Cardinality(B) = Cardinality(A) + 1
  <2>1. B = A \cup {t} /\ t \notin A
    BY <1>3, Zenon
  <2> HIDE DEF A, B
  <2> QED
    BY <1>1, <2>1, FS_AddElement, Zenon
<1>4. ASSUME t \in S, l # m, f[t] = m PROVE Cardinality(A) = Cardinality(B) + 1
  <2>1. A = B \cup {t} /\ t \notin B
    BY <1>4, Zenon
  <2> HIDE DEF A, B
  <2> QED
    BY <1>1, <2>1, FS_AddElement, Zenon
<1>5. ASSUME t \notin S \/ (l # m /\ f[t] # m) PROVE Cardinality(B) = Cardinality(A)
  <2>1. B = A
    BY <1>5, Zenon
  <2> QED
    BY <2>1, Zenon
<1> QED
  BY <1>2, <1>3, <1>4, <1>5, Zenon

AtFirst == Cardinality({w \in Worker : pc[w] = "first"})
AtPost == Cardinality({t \in Hands : pc[t] = "post"})

\* The same for the two labels NoLostWakeup counts, as one statement.
LEMMA Moves ==
  ASSUME TypeOK, NEW t \in Thread, NEW l \in Label, pc' = [pc EXCEPT ![t] = l]
  PROVE  /\ AtFirst \in Nat /\ AtPost \in Nat /\ AtFirst' \in Nat /\ AtPost' \in Nat
         /\ t \in Worker /\ l = "first" /\ pc[t] # "first" => AtFirst' = AtFirst + 1
         /\ t \in Worker /\ l # "first" /\ pc[t] = "first" => AtFirst = AtFirst' + 1
         /\ (t \notin Worker \/ (l # "first" /\ pc[t] # "first")) => AtFirst' = AtFirst
         /\ t \in Hands /\ l = "post" /\ pc[t] # "post" => AtPost' = AtPost + 1
         /\ t \in Hands /\ l # "post" /\ pc[t] = "post" => AtPost = AtPost' + 1
         /\ (t \notin Hands \/ (l # "post" /\ pc[t] # "post")) => AtPost' = AtPost
<1>1. /\ Worker \in SUBSET Thread /\ Hands \in SUBSET Thread
      /\ "first" \in Label /\ "post" \in Label /\ pc \in [Thread -> Label]
  BY Threads, Zenon DEF Label, TypeOK
<1>2. IsFiniteSet(Worker) /\ IsFiniteSet(Hands)
  <2>1. Producer = (({} \cup {Receiver}) \cup {Periodic}) \cup {Listener}
    BY Zenon DEF Producer, Reader
  <2>2. IsFiniteSet(Producer)
    BY <2>1, FS_EmptySet, FS_AddElement, Zenon
  <2> QED
    BY <2>2, FS_Union, WorkerPoolAssumption, Zenon DEF Hands
<1>3. /\ AtFirst = Cardinality({u \in Worker : pc[u] = "first"})
      /\ AtFirst' = Cardinality({u \in Worker : [pc EXCEPT ![t] = l][u] = "first"})
      /\ AtPost = Cardinality({u \in Hands : pc[u] = "post"})
      /\ AtPost' = Cardinality({u \in Hands : [pc EXCEPT ![t] = l][u] = "post"})
  BY Zenon DEF AtFirst, AtPost
<1>4. /\ AtFirst \in Nat /\ AtFirst' \in Nat
      /\ t \in Worker /\ l = "first" /\ pc[t] # "first" => AtFirst' = AtFirst + 1
      /\ t \in Worker /\ l # "first" /\ pc[t] = "first" => AtFirst = AtFirst' + 1
      /\ (t \notin Worker \/ (l # "first" /\ pc[t] # "first")) => AtFirst' = AtFirst
  <2> DEFINE A == {u \in Worker : pc[u] = "first"}
             B == {u \in Worker : [pc EXCEPT ![t] = l][u] = "first"}
  <2>1. /\ Cardinality(A) \in Nat /\ Cardinality(B) \in Nat
        /\ t \in Worker /\ l = "first" /\ pc[t] # "first"
             => Cardinality(B) = Cardinality(A) + 1
        /\ t \in Worker /\ l # "first" /\ pc[t] = "first"
             => Cardinality(A) = Cardinality(B) + 1
        /\ (t \notin Worker \/ (l # "first" /\ pc[t] # "first"))
             => Cardinality(B) = Cardinality(A)
    BY <1>1, <1>2, AtLabel, SMTT(30)
  <2>2. AtFirst = Cardinality(A) /\ AtFirst' = Cardinality(B)
    BY <1>3, Zenon
  <2> HIDE DEF A, B
  <2> QED
    BY <2>1, <2>2, Zenon
<1>5. /\ AtPost \in Nat /\ AtPost' \in Nat
      /\ t \in Hands /\ l = "post" /\ pc[t] # "post" => AtPost' = AtPost + 1
      /\ t \in Hands /\ l # "post" /\ pc[t] = "post" => AtPost = AtPost' + 1
      /\ (t \notin Hands \/ (l # "post" /\ pc[t] # "post")) => AtPost' = AtPost
  <2> DEFINE A == {u \in Hands : pc[u] = "post"}
             B == {u \in Hands : [pc EXCEPT ![t] = l][u] = "post"}
  <2>1. /\ Cardinality(A) \in Nat /\ Cardinality(B) \in Nat
        /\ t \in Hands /\ l = "post" /\ pc[t] # "post"
             => Cardinality(B) = Cardinality(A) + 1
        /\ t \in Hands /\ l # "post" /\ pc[t] = "post"
             => Cardinality(A) = Cardinality(B) + 1
        /\ (t \notin Hands \/ (l # "post" /\ pc[t] # "post"))
             => Cardinality(B) = Cardinality(A)
    BY <1>1, <1>2, AtLabel, SMTT(30)
  <2>2. AtPost = Cardinality(A) /\ AtPost' = Cardinality(B)
    BY <1>3, Zenon
  <2> HIDE DEF A, B
  <2> QED
    BY <2>1, <2>2, Zenon
<1> QED
  BY <1>4, <1>5, Zenon

\* A step in which no job enters the queue and no post is consumed.
LEMMA QuietPosts ==
  ASSUME IInv, NoLostWakeup, NEW t \in Thread, NEW l \in Label, pc' = [pc EXCEPT ![t] = l],
         l \notin {"first", "post"}, pc[t] \notin {"first", "post"},
         m_semaWorker' = m_semaWorker, Len(m_fifoWorker') <= Len(m_fifoWorker),
         m_fifoWorker' \in Seq(Job)
  PROVE  NoLostWakeup'
<1>1. /\ m_semaWorker \in Nat /\ Len(m_fifoWorker) \in Nat /\ Len(m_fifoWorker') \in Nat
      /\ AtFirst \in Nat /\ AtPost \in Nat
  <2>1. m_semaWorker \in Nat /\ m_fifoWorker \in Seq(Job) /\ TypeOK
    BY Zenon DEF IInv, TypeOK
  <2>2. AtFirst \in Nat /\ AtPost \in Nat
    BY <2>1, Moves, Zenon
  <2> QED
    BY <2>1, <2>2
<1>2. AtFirst' = AtFirst /\ AtPost' = AtPost
  BY Moves, Zenon DEF IInv
<1>3. Len(m_fifoWorker) <= m_semaWorker + AtFirst + AtPost
  BY Zenon DEF NoLostWakeup, AtFirst, AtPost
<1>4. Len(m_fifoWorker') <= m_semaWorker' + AtFirst' + AtPost'
  BY <1>1, <1>2, <1>3
<1> QED
  BY <1>4, Zenon DEF NoLostWakeup, AtFirst, AtPost

\* The step preserves NoLostWakeup, in terms of the two counts.
LEMMA PostsStep ==
  ASSUME IInv, NoLostWakeup, NEW t \in Thread, NEW l \in Label, pc' = [pc EXCEPT ![t] = l],
         m_semaWorker' \in Nat, m_fifoWorker' \in Seq(Job),
         Len(m_fifoWorker) <= m_semaWorker + AtFirst + AtPost
           => Len(m_fifoWorker') <= m_semaWorker' + AtFirst' + AtPost'
  PROVE  NoLostWakeup'
BY Zenon DEF NoLostWakeup, AtFirst, AtPost

\* Taking one job away costs at most one worker at "first".
LEMMA ExtractArithmetic ==
  ASSUME NEW len \in Nat, NEW len2 \in Nat, NEW sema \in Nat, NEW f \in Nat, NEW f2 \in Nat,
         NEW p \in Nat, len = 0 => len2 = 0, len # 0 => len2 = len - 1,
         f2 = f \/ f = f2 + 1
  PROVE  len <= sema + f + p => len2 <= sema + f2 + p
OBVIOUS

\* The steps that move a post or a job: AddElement2, post, wait and Extract.
LEMMA PostingSteps ==
  ASSUME IInv, NoLostWakeup, TypeOK'
  PROVE  /\ \A t \in Hands : AddElement2(t) \/ Post(t) => NoLostWakeup'
         /\ \A w \in Worker : Wait(w) \/ Extract(w) => NoLostWakeup'
         /\ StopPost => NoLostWakeup'
<1>0. TypeOK
  BY Zenon DEF IInv
<1>1. /\ m_semaWorker \in Nat /\ m_semaWorker' \in Nat
      /\ m_fifoWorker \in Seq(Job) /\ m_fifoWorker' \in Seq(Job)
      /\ Len(m_fifoWorker) \in Nat /\ Len(m_fifoWorker') \in Nat
  BY DEF IInv, TypeOK
<1>2. ASSUME NEW t \in Hands, AddElement2(t) PROVE NoLostWakeup'
  <2>1. t \in Thread /\ "post" \in Label
    BY Threads, Zenon DEF Label
  <2>2. /\ pc[t] = "add" /\ pc' = [pc EXCEPT ![t] = "post"] /\ m_semaWorker' = m_semaWorker
        /\ Len(m_fifoWorker') = Len(m_fifoWorker) + 1
    BY <1>1, <1>2 DEF AddElement2, Goto
  <2>3. AtFirst' = AtFirst /\ AtPost' = AtPost + 1 /\ AtFirst \in Nat /\ AtPost \in Nat
    BY <1>0, <2>1, <2>2, Moves, Zenon
  <2>4. Len(m_fifoWorker) <= m_semaWorker + AtFirst + AtPost
          => Len(m_fifoWorker') <= m_semaWorker' + AtFirst' + AtPost'
    BY <1>1, <2>2, <2>3
  <2> QED
    BY <1>1, <2>1, <2>2, <2>4, PostsStep, Zenon
<1>3. ASSUME NEW t \in Hands, Post(t) PROVE NoLostWakeup'
  <2>1. t \in Thread /\ Back(t) \in Label /\ Back(t) \notin {"first", "post"}
    BY Threads, Zenon DEF Label, Back
  <2>2. /\ pc[t] = "post" /\ pc' = [pc EXCEPT ![t] = Back(t)]
        /\ m_semaWorker' = m_semaWorker + 1 /\ m_fifoWorker' = m_fifoWorker
    BY <1>3, Zenon DEF Post, Goto
  <2>3. AtFirst' = AtFirst /\ AtPost = AtPost' + 1 /\ AtFirst \in Nat /\ AtPost \in Nat
        /\ AtPost' \in Nat
    BY <1>0, <2>1, <2>2, Moves, Zenon
  <2>4. Len(m_fifoWorker) <= m_semaWorker + AtFirst + AtPost
          => Len(m_fifoWorker') <= m_semaWorker' + AtFirst' + AtPost'
    BY <1>1, <2>2, <2>3
  <2> QED
    BY <1>1, <2>1, <2>2, <2>4, PostsStep, Zenon
<1>4. ASSUME NEW w \in Worker, Wait(w) PROVE NoLostWakeup'
  <2>1. w \in Thread /\ w \in Hands /\ "first" \in Label
    BY Threads, Zenon DEF Label
  <2>2. /\ pc[w] = "wait" /\ pc' = [pc EXCEPT ![w] = "first"]
        /\ m_semaWorker' = m_semaWorker - 1 /\ m_fifoWorker' = m_fifoWorker
    BY <1>4, Zenon DEF Wait, Goto
  <2>3. AtFirst' = AtFirst + 1 /\ AtPost = AtPost' /\ AtFirst \in Nat /\ AtPost \in Nat
    BY <1>0, <2>1, <2>2, Moves, Zenon
  <2>4. Len(m_fifoWorker) <= m_semaWorker + AtFirst + AtPost
          => Len(m_fifoWorker') <= m_semaWorker' + AtFirst' + AtPost'
    BY <1>1, <2>2, <2>3
  <2> QED
    BY <1>1, <2>1, <2>2, <2>4, PostsStep, Zenon
<1>5. ASSUME NEW w \in Worker, Extract(w) PROVE NoLostWakeup'
  <2> DEFINE l == IF m_fifoWorker = <<>> THEN "loop" ELSE "got"
  <2>1. w \in Thread /\ w \in Hands /\ l \in Label /\ l \notin {"first", "post"}
    BY Threads, Zenon DEF Label
  <2>2. /\ pc[w] \in {"first", "more"} /\ pc' = [pc EXCEPT ![w] = l]
        /\ m_semaWorker' = m_semaWorker
    BY <1>5, Zenon DEF Extract, Goto
  <2>3. /\ Len(m_fifoWorker) = 0 => Len(m_fifoWorker') = 0
        /\ Len(m_fifoWorker) # 0 => Len(m_fifoWorker') = Len(m_fifoWorker) - 1
    BY <1>1, <1>5 DEF Extract
  <2>4. /\ AtFirst \in Nat /\ AtPost \in Nat /\ AtPost' = AtPost /\ AtFirst' \in Nat
        /\ AtFirst' = AtFirst \/ AtFirst = AtFirst' + 1
    <3> HIDE DEF l
    <3> QED
      BY <1>0, <2>1, <2>2, Moves, Zenon
  <2>5. Len(m_fifoWorker) <= m_semaWorker + AtFirst + AtPost
          => Len(m_fifoWorker') <= m_semaWorker' + AtFirst' + AtPost'
    <3>1. m_semaWorker' = m_semaWorker
      BY <2>2, Zenon
    <3>2. /\ m_semaWorker \in Nat /\ Len(m_fifoWorker) \in Nat /\ Len(m_fifoWorker') \in Nat
      BY <1>1, Zenon
    <3> QED
      BY <2>3, <2>4, <3>1, <3>2, ExtractArithmetic, ZenonT(30)
  <2> HIDE DEF l
  <2> QED
    BY <1>1, <2>1, <2>2, <2>5, PostsStep, Zenon
<1>6. ASSUME StopPost PROVE NoLostWakeup'
  <2>1. pc' = pc /\ m_semaWorker' = m_semaWorker + 1 /\ m_fifoWorker' = m_fifoWorker
    BY <1>6, Zenon DEF StopPost
  <2>2. AtFirst' = AtFirst /\ AtPost' = AtPost
    BY <2>1, Zenon DEF AtFirst, AtPost
  <2>3. Main \in Thread /\ pc' = [pc EXCEPT ![Main] = pc[Main]] /\ pc[Main] \in Label
    BY <1>0, <2>1, Threads, Zenon DEF TypeOK
  <2>4. AtFirst \in Nat /\ AtPost \in Nat
    BY <1>0, <2>3, Moves, Zenon
  <2>5. Len(m_fifoWorker) <= m_semaWorker + AtFirst + AtPost
          => Len(m_fifoWorker') <= m_semaWorker' + AtFirst' + AtPost'
    BY <1>1, <2>1, <2>2, <2>4
  <2> QED
    BY <1>1, <2>3, <2>5, PostsStep, Zenon
<1> QED
  BY <1>2, <1>3, <1>4, <1>5, <1>6, Zenon

\* All the other steps move one thread between labels that are not counted.
LEMMA OtherSteps ==
  ASSUME IInv, TypeOK', Next,
         \A t \in Hands : ~AddElement2(t) /\ ~Post(t),
         \A w \in Worker : ~Wait(w) /\ ~Extract(w), ~StopPost
  PROVE  /\ m_semaWorker' = m_semaWorker /\ m_fifoWorker' = m_fifoWorker
         /\ \E t \in Thread, l \in Label : /\ pc' = [pc EXCEPT ![t] = l]
                                          /\ l \notin {"first", "post"}
                                          /\ pc[t] \notin {"first", "post"}
<1> DEFINE P == /\ m_semaWorker' = m_semaWorker /\ m_fifoWorker' = m_fifoWorker
                /\ \E t \in Thread, l \in Label : /\ pc' = [pc EXCEPT ![t] = l]
                                                 /\ l \notin {"first", "post"}
                                                 /\ pc[t] \notin {"first", "post"}
<1>1. ASSUME NEW t \in Reader, LoopTest(t) \/ SharedLock(t) \/ SharedUnlock(t) PROVE P
  BY <1>1, Threads, Zenon DEF LoopTest, SharedLock, SharedUnlock, Goto, queueVars, Label
<1>2. ASSUME NEW t \in Hands, NEW j, Make(t, j), pc[t] \in {"pass", "idle", "leading"} PROVE P
  BY <1>2, Threads, Zenon DEF Make, Goto, queueVars, Label
<1>3. ASSUME NEW t \in Hands, IncrementLock(t) PROVE P
  BY <1>3, Threads, Zenon DEF IncrementLock, Goto, queueVars, Label
<1>4. ASSUME NEW w \in Worker, WhileWork(w) \/ AfterLock(w) PROVE P
  BY <1>4, Threads, Zenon DEF WhileWork, AfterLock, Goto, queueVars, Label
<1>5. ASSUME NEW w \in Worker, BeforeLock(w) PROVE P
  BY <1>5, Threads, Zenon DEF BeforeLock, Goto, queueVars, Label
<1>6. ASSUME NEW w \in Worker, EndRemove(w) \/ RemoveOldLeader(w) PROVE P
  BY <1>6, Threads, Zenon DEF EndRemove, RemoveOldLeader, BeginRemove, Leave, Goto, queueVars,
                              Label
<1>7. ASSUME NEW w \in Worker, Dispatch(w) PROVE P
  <2>1. pc[w] = "got" /\ m_semaWorker' = m_semaWorker /\ m_fifoWorker' = m_fifoWorker
    BY <1>7, Zenon DEF Dispatch, queueVars
  <2>2. job[w].type \in {"con", "rcv", "int"}
    <3>1. job[w] \in Job
      BY <2>1, BusyJob, Zenon DEF Busy
    <3> QED
      BY <3>1, SMTT(30) DEF Job
  <2>3. \E l \in {"conShared", "exclusive", "intShared", "loop"} : pc' = [pc EXCEPT ![w] = l]
    <3>1. FirstPhase[job[w].type] \in {"conShared", "exclusive", "intShared"}
      BY <2>2 DEF FirstPhase
    <3> QED
      BY <1>7, <3>1, Zenon DEF Dispatch, Goto
  <2> QED
    BY <2>1, <2>3, Threads, Zenon DEF Label
<1>8. ASSUME NEW w \in Worker, Locked(w) PROVE P
  <2>1. pc[w] = "exclusive" /\ m_semaWorker' = m_semaWorker /\ m_fifoWorker' = m_fifoWorker
    BY <1>8, Zenon DEF Locked, AddNode, RemoveNode, OldLeaderDied, BecomeLeader, OtherRequest,
                ExclusiveLock, queueVars
  <2>2. \E l \in {"more", "after", "leading", "removing"} : pc' = [pc EXCEPT ![w] = l]
    BY <1>8, Zenon DEF Locked, AddNode, RemoveNode, OldLeaderDied, BecomeLeader, OtherRequest,
                BeginRemove, Leave, Goto
  <2> QED
    BY <2>1, <2>2, Threads, Zenon DEF Label
<1>9. ASSUME StopServer \/ Join PROVE P
  BY <1>9, Threads, Zenon DEF StopServer, Join, Goto, queueVars, Label
<1>10. ASSUME NEW n, NEW request, NEW key, ReceiveFromSocketAndInform(n, request, key) PROVE P
  BY <1>10, <1>2, Threads, Zenon DEF ReceiveFromSocketAndInform
<1>11. ASSUME NEW t \in Reader \cup Worker, NEW request, NEW n, AddInternalForWorker(t, request, n) PROVE P
  BY <1>11, <1>2, Threads, Zenon DEF AddInternalForWorker
<1>12. ASSUME NEW request, AddConnectForWorker(request) PROVE P
  BY <1>12, <1>2, Threads, Zenon DEF AddConnectForWorker
<1> HIDE DEF P
<1>13. P
  BY <1>1, <1>3, <1>4, <1>5, <1>6, <1>7, <1>8, <1>9, <1>10, <1>11, <1>12, Threads, Zenon
     DEF Next, Produce, Work
<1> QED
  BY <1>13, Zenon DEF P

\* Every queued job has a post of its own, so no wake-up is lost.
THEOREM WakeupsKept == Spec => []NoLostWakeup
<1>1. Init => NoLostWakeup
  <2> SUFFICES ASSUME Init PROVE NoLostWakeup
    OBVIOUS
  <2>1. TypeOK
    BY InitIInv, Zenon DEF IInv
  <2>2. Main \in Thread /\ pc' = [pc EXCEPT ![Main] = "idle"] => AtFirst \in Nat /\ AtPost \in Nat
    BY <2>1, Moves, Threads, Zenon DEF Label
  <2>3. {w \in Worker : pc[w] = "first"} = {} /\ {t \in Hands : pc[t] = "post"} = {}
    BY Threads, Zenon DEF Init
  <2>4. Len(m_fifoWorker) = 0 /\ m_semaWorker = 0
    BY Zenon DEF Init
  <2> QED
    BY <2>3, <2>4, FS_EmptySet DEF NoLostWakeup
<1>2. IInv /\ IInv' /\ NoLostWakeup /\ [Next]_vars => NoLostWakeup'
  <2> SUFFICES ASSUME IInv, IInv', NoLostWakeup, [Next]_vars PROVE NoLostWakeup'
    OBVIOUS
  <2>1. TypeOK' /\ m_fifoWorker \in Seq(Job)
    BY Zenon DEF IInv, TypeOK
  <2>2. CASE UNCHANGED vars
    BY <2>2, Zenon DEF vars, queueVars, NoLostWakeup
  <2>3. CASE \/ \E t \in Hands : AddElement2(t) \/ Post(t)
             \/ \E w \in Worker : Wait(w) \/ Extract(w)
             \/ StopPost
    BY <2>1, <2>3, PostingSteps, Zenon
  <2>4. ASSUME Next, ~(\/ \E t \in Hands : AddElement2(t) \/ Post(t)
                       \/ \E w \in Worker : Wait(w) \/ Extract(w)
                       \/ StopPost)
        PROVE  NoLostWakeup'
    <3>1. /\ m_semaWorker' = m_semaWorker /\ m_fifoWorker' = m_fifoWorker
          /\ \E t \in Thread, l \in Label : /\ pc' = [pc EXCEPT ![t] = l]
                                           /\ l \notin {"first", "post"}
                                           /\ pc[t] \notin {"first", "post"}
      BY <2>1, <2>4, OtherSteps, Zenon
    <3>2. Len(m_fifoWorker') <= Len(m_fifoWorker) /\ m_fifoWorker' \in Seq(Job)
      BY <2>1, <3>1
    <3> QED
      BY <3>1, <3>2, QuietPosts, Zenon
  <2> QED
    BY <2>2, <2>3, <2>4, Zenon
<1> QED
  BY <1>1, <1>2, Invariance, PTL DEF Spec
=============================================================================
