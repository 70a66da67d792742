# Verification of cpp-raft

TLA+ models of the C++ Raft library and of the TCP server built on it, with TLC
runs on small instances and TLAPS proofs for every size. All line references
are to the repository; `PROJECT.json` maps every definition to its lines.

## The system and its parts

| Part | Source | Modelled in |
|------|--------|-------------|
| Raft library: elections, heartbeats, log, commit | `raft_server.cpp`, `raft_logger.cpp`, `raft_msg.h`, `state_mach.*` | `RaftServer`, `RaftClaims` |
| A node of the node table: votes, references, ping and ok counters | `raft_node.*` | `RaftServer`, `WorkerPool`, `PeerHealth` |
| TCP server: job queue, node lock, references to nodes | `tcp/raft_tcp_server.cpp` | `WorkerPool` |
| TCP server: waking and ending of all its threads; the listener | `tcp/raft_tcp_server.cpp`, `common/common_servertcp.cpp` | `ServerThreads` |
| TCP server: bridges, their bytes, sockets and connection helpers | `tcp/raft_tcp_server.cpp`, `tcp/raft_tcp_common.*`, `common/common_sockettcp.cpp`, `common/common_socketbase.cpp`, `common/raft_common_functions.cpp` | `Wire` |
| TCP server: joining, news of nodes, removal, restarts | `tcp/raft_tcp_server.cpp` | `Membership` |
| TCP server: supervision of a peer (`SendClbkFunction`, `pingReceived`) | `tcp/raft_tcp_server.cpp`, `raft_node.cpp` | `PeerHealth` |
| Node table: list and hash table over the same nodes | `include/common/*listspecialandhashtbl*`, `*lists*`, `*common_hashtbl*` | `NodeTable`, `NodeMap` |
| Bounded queue with recycled cells | `include/common/*common_fifofast*` | `FifoFast`, `BoundedFifo` |
| Reader-writer lock for Windows | `common/cpp11+/shared_mutex_cpp14.cpp` | `SharedMutex` |
| Client, thread wrapper, non-blocking socket, older hash table | `tcp/raft_tcp_client.cpp`, `common/cpp11+/thread_cpp11.cpp`, `common/common_nonblockingsockettcp.cpp`, `include/common/hashtbl.hpp` | not modelled |

How they meet at run time. A *receive thread* reads messages of other nodes and
calls the library's handlers; a *periodic thread* calls `periodic` every two
seconds, which sends heartbeats or vote requests through `SendClbkFunction`; a
*listener* accepts connections. Whatever changes the node table becomes a job for
the *worker threads*, which take the node lock exclusively. A process joins by
connecting to a configured seed, which sends it the table and tells the others.

## Modules

Every component module has its state as variables named as the members of the
class, one action per function or per step at which another thread may run, and
its properties at the end. Definitions commented `mutant` are deliberate faults
of the definition after them, kept to show that the properties notice.

* **`RaftServer`**: a set of `RaftServer` objects and FIFO channels between them.
  `periodic`, the four message handlers and `recv_entry` are one step each, as
  the library is written for one caller at a time; `Lose` is the send callback
  giving up. `send_appendentries` passes its arguments one place off
  (`raft_server.cpp:491`), and so does the model: `prev_log_idx` is always 0 and
  no entry travels. `granted` and `responded` are history. Not in it: the node
  table (constant here), the setters only tests use.
* **`RaftClaims`** extends it by what comments and tests of the repository say and
  the code does not do.
* **`WorkerPool`**: the job queue, its semaphore, the node lock, per node the reference
  counter, the deletion mark and whether it is freed. A producer is split where it reads
  the mark, counts, queues and posts; a worker where it waits, extracts, dispatches,
  locks, waits in `RemoveNode1`, and ends. A worker that handles `becomeLeader` is a
  producer too: it sends to the nodes, and may queue jobs, with the lock and before the
  old leader is removed. Roles are free choices. The queue is unbounded (`m_fifoWorker`
  is a `listN::Fifo`).
* **`ServerThreads`**: one server with all its threads. The receive thread is
  split where it tests `m_nWork`, gathers its `fd_set`s, calls `select` and takes the
  node lock; `InterruptReceivercThread` where it reads, stores and closes the empty
  socket and sends the signal; `StopServer` where it closes, unsets, signals, posts and
  joins. A signal ends a `select` that runs and is lost anywhere else; a closed
  descriptor ends one that begins. Descriptors are numbers, and a closed number is
  given out again: `file` says what each stands for, so a `select` may begin on a number
  that has become another file, and the second of two overlapping calls of
  `InterruptReceivercThread` may close a number that is in use. `nMax` is uninitialised
  when there is no empty socket, so that `select` may refuse it. Handlers take the node
  lock shared or for themselves, and one in `RemoveNode1` keeps it until no job can refer
  to its node; which node a job refers to is left to `WorkerPool`. `lapsed` is history:
  what the `select` at hand would have been woken by is gone.
* **`Wire`**: one direction of one bridge, byte by byte. Three threads of node A write
  messages field by field, each `writeC` a step; a worker of node B accepts and hands
  the socket over; the receive thread of B reads field by field with the sizes its code
  asks for. Reads may time out at any time, either side may close, and the bridge is
  opened again in the middle of whatever is going on. The hosts may have different byte
  orders, and `SWAP4BYTES` is the function as it is compiled elsewhere than with MSVC.
  Every byte is marked with the place at which the reader should take it, with how many
  bytes of its field are left and with the field that comes next; no guard looks at
  these marks. `broken[c]` records which of five events has cost connection `c` its
  framing. Whether a node refuses a request (its role, an early vote, a known key) is a
  free choice.
* **`Membership`**: hosts that start, join, run and crash; the tables are sets of
  keys. A job passes through the phases of its handler; a phase that holds the
  shared lock over an exchange (list to answer, news to confirmation) keeps
  exclusive phases of that host out. A read may time out: the joiner gives up its seed
  while it waits for the list or for the confirmation (`JoinTimeout`) and the adder gives
  up a joiner that does not answer (`AnswerTimeout`), and neither is told of the other.
  The founder leads. `alone` is history: every start and crash so far found the cluster
  at rest and no read timed out, which is what `QuietAgreement` needs.
* **`PeerHealth`**: one peer's bit-fields as one word. An assignment is a load and
  a store, so updates of the two threads may be lost; `m_okCount` wraps at its
  width. Time is counted in periods of the periodic thread.
* **`NodeTable`** has every pointer of the list and of the hash chains and what failing
  allocations do. A loop along `next` is given by the elements it comes to, the least
  set with the first one that is closed under `next`; `order` is history, the nodes in
  the order they were added. `RemoveNode` has the guard of its caller `RemoveNode1`,
  which finds the node by its key; `ClearAllNodes` has no such test, and what it does to
  a node whose key could not be stored is undefined and left out. **`NodeMap`** is the
  ordered map it promises, in which a node whose key could not be stored has its place
  and is found by no key.
* **`FifoFast`** has the cells, the links and the cache array of the class and its
  destructor; **`BoundedFifo`** is the queue it promises.
* **`SharedMutex`**: one step per call on a semaphore or on the counter.

`MC*.tla` give small instances; `*Proofs.tla` hold the theorems.

## What the runs check

Passing runs.

| Run | Instance | Shows |
|-----|----------|-------|
| `raft_log` | 3 servers, set-up leader, 2 candidates, ids 0 (illegal) and 1, loss | `LeaderHasMajority`, `TypeOK`, `VotesAreGranted`, `AppliedIsCommitted`, `TermsOnlyGrow`, `VoteOnlyIfUpToDate` |
| `pool_jobs` | 2 workers, 3 nodes and a new one, 2 jobs of all kinds, stop at any time | `LockCountExact`, `JobNodeAlive`, `NoLostWakeup`, `TypeOK` |
| `server_threads` | 1 peer, 5 descriptors, five servers: 2 bridges set up at once; and stopped at any time: with a bridge, with 2 jobs for 2 workers and for 1, with another periodic thread | `TypeOK`, `BridgeWatched`, `ReadsArrive`, `JobsAreServed`, `StopCompletes` |
| `wire` | 3 writing threads, 2 connections, 3 messages and connections together, equal and different byte orders | `TypeOK`, `InStep`, `ReadsFields`, `OrderKnown`, `ReaderReturns`, `SendMutexFreed` |
| `fifo` | capacity 3, cache 2, 4 cells, 2 values | `EachCellInOnePlace`, `CashExact`, `TypeOK`, `NothingLeaks`, refinement `IsBoundedFifo` |
| `membership` | 4 hosts, 2 starts or time-outs, crashes at any time | `TypeOK`, `QuietAgreement`, `AnswerConfirmsList`, `JoinEnds` |
| `peer` | counters of 3 bits, 6 periods to silence | `TypeOK`, `PingsBounded`, `SilentIsReported` |
| `node_table` | 3 nodes, 4 keys, 2 slots (3 keys collide), failing allocations | refinement `IsNodeMap`, `ChainsExact`, `ListExact`, `TypeOK` |
| `shared_mutex` | 4 threads | `LockTypeOK`, `ExclusionButBehindFirst` |

What the longest of these say. `BridgeWatched`: a receive thread that sleeps in `select`
watches the socket of every bridge once nobody is about to interrupt it, unless that
`select` began after its empty socket was given up and yet did not fail: the number had
been given out again, or a second call of `InterruptReceivercThread` had stored over a
socket nobody closes. `ReadsArrive` and `JobsAreServed`: what arrives is read and the
queue is emptied, again and again, as long as no worker is stuck in `RemoveNode1` (what
`pool_removal` shows) and, for the reads, the receive thread does not sleep in such a
`select` and no descriptor in use was closed by the second of two overlapping calls.
`StopCompletes`: `StopServer` returns, or waits for nothing but a listener in `accept`,
which `ServerTCP::StopServer` never tells to end (`common/common_servertcp.cpp:163`), a
receive thread that entered `select` after the wake-up, or a worker in `RemoveNode1` for
a node to which a job has a reference that was dropped when the server stopped, and
whoever waits for the node lock behind it. Each of these exceptions is a state the run
reaches. `InStep` and `ReadsFields`: the reader takes a stream apart as it was written
unless the rest of a refused message was left in it (`refused`), the unlocked first `ok`
of the periodic thread met another message (`stray`), a message went on on a new
connection (`continued`), the reader turned to a new connection inside a message
(`switched`), or `ReceiveExtraData` timed out and left the socket open (`cut`). All five
do happen in the run. `OrderKnown`: on a bridge without such an event, what B has
guessed of A's byte order from the first integer is true, so a length is swapped exactly
when it has to be. It does not say that hosts which differ get a bridge: with
`raft_swap_4_bytes` as it is they get none (see below), and the same run with a function
that exchanges all four bytes, in which they do, keeps `OrderKnown` as well.
`LockTypeOK`: both semaphores of the lock are 0 or 1 at all times, so no post is lost to
a limit.

Runs that end in a counterexample, each for one sentence of the repository that
the code does not keep (quoted under `findings` in `PROJECT.json`):

* `raft_one_leader`: the vote is forgotten on a later term that is not taken
  over, so servers vote twice and two servers lead in one term.
* `raft_majority`: an entry only its leader has is committed.
* `pool_removal`: `RemoveNode1` waits under the lock for a job that needs a worker.

Other places where code and comment part, kept in the models as the code has
them and not stated as runs: votes of an earlier election are counted
(`raft_server.cpp:188`, against `raft_server.h:175`); `commit_idx` passes
`leader_commit` and, when ids are not positions, the end of the log
(`raft_server.cpp:339-341`, against `:334`); `was_committed` means appended
(`raft_server.cpp:439`, against `raft_msg.h:154`); the term in an AppendEntries
response does not reach the leader (`raft_msg.h:276`); the confirmation of a
join is sent before the others know of it (`tcp/raft_tcp_server.cpp:1232`,
against `:1607`); a process restarted before it was removed runs without a node
of its own (`:1502`); a node that answers can be taken for not ready again
(`:1736`); a node added while an allocation fails is not found by its key
(`impl.listspecialandhashtbl.hpp:31`); the byte-order hint in a request
(`tcp/raft_tcp_common.cpp:99`) is not understood by the other side, because
`raft_swap_4_bytes` leaves the outer bytes where they are
(`common/raft_common_functions.cpp:13`), so no bridge opens between hosts of
different byte order.

**Bounds.** The faults these models can have need two candidates, two workers,
two joins or two threads to meet; every instance has them, and message loss or a
crash in between. Terms, heartbeats, jobs, starts, bridges, connections and messages
are bounded in the guards by constants named in the modules. A channel of
`RaftServer` holds one message in the runs, which loses what is sent while it is
full; the proofs hold for every length. Five servers are the smallest cluster
where the majority the code computes differs from half of the nodes; that case is
covered by the theorem `LeaderElected`, for every number of servers. In
`server_threads` the periodic thread, a worker and `StopServer` meet in the receive
thread's loop; two bridges let two calls of `InterruptReceivercThread` overlap and a
number be used again, which five descriptors leave room for; two workers let one wait in
`RemoveNode1` for a job the other has. A server with all of this at once is too large, so
the instance is a set of five, and `NoLostInterrupt` needs no bound. In
`wire` two connections are what `continued` and `switched` need, and three messages
and connections together let a message of each of two threads meet the opening of a
bridge. Symmetry is used for candidates, for other servers and for workers, never
with liveness.

**Deadlock** is not checked where the system may come to rest: `RaftServer`,
`WorkerPool`, `ServerThreads`, `Wire` and `Membership` after their bounded inputs,
`FifoFast` after its destructor, and `SharedMutex`, which really can stop: a writer
holds `m_semaNewConcurse` and waits for the readers, a counted reader waits for that
semaphore, and the reader inside leaves without being the last counted.

**Fairness.** `ServerThreads`: each thread goes on when it can (weak, one condition per
thread, as the system schedules them independently), and a worker gets the node lock for
itself if it is free again and again (strong); `RemoveNode1` ends when nothing is left
that it may wait for. Nothing makes a peer send, a client connect, a bridge be set up,
or `accept` fail. `Wire`: a thread of A inside a message and the receive thread of B go
on (weak). For B this is justified by the time-out of every read (`SO_RCVTIMEO`). A
`send` has none, so for A it is assumed that no `send` waits for room for ever, as when
the other host neither reads nor closes; nothing is assumed of the thread that accepts,
as the other host may have stopped. `WorkerPool` (`pool_removal`): threads run (weak),
and a worker gets the exclusive lock if it is free again and again (strong): both
readers give the lock back and sleep between passes. `Membership`: the joiner's thread,
receive threads and workers run; no time-out is assumed to happen, as an answer that is
on its way is read. `PeerHealth`: both threads run, and time passes (strong, because a
thread may be inside its function at any one moment); messages need not come. No
property of `RaftServer` needs fairness.

## What is proved

TLAPS checks these for all values of the constants that satisfy the named
assumptions (`RaftServerAssumption`, `WorkerPoolAssumption` and
`NilAssumption`, `ServerThreadsAssumption`, `MembershipAssumption`,
`SharedMutexAssumption`, `PeerHealthAssumption`, `NodeTableAssumption`,
`WireAssumption`, the assumption of `FifoFast`), which only say that sets are finite,
special values are distinct, bounds are numbers, terms and lengths are ints and data
are bytes. One theorem, `Agreement`, has a hypothesis of its own: the founder is one of
the configured seeds (`FounderIsSeed`). Without it a process that reaches no seed may
found a second cluster, which is what the code does.

* **`RaftServerProofs`**: `Typing`, `CommitAndApply`, `VotesGranted`,
  `LeaderElected`, `NoServerGoesBack`, `VotesUpToDate`. The inductive invariant
  adds to `TypeOK` what is true of messages on their way: a request carries a
  term and a log position its sender has reached, a granting answer has a vote in
  `granted`, and no vote in `granted` is of a term its candidate has not started.
  Without these a stale message could make a step that the invariant excludes.
  The majority is an argument on cardinalities: the counted flags are a set of
  nodes with granted votes, and the own vote is one more.
* **`WorkerPoolProofs`**: `Typing`, `CountersExact`, `NoDeletedNode`,
  `WakeupsKept`. The invariant says where each job can be and that no job is in two
  places, that a freed node is in no table, and that the lock excludes: while a
  worker is in `RemoveNode1`, no producer is between the mark and the count, not even the
  worker itself, as what `becomeLeader` sends is all queued before it begins to remove.
  That is the reason `JobNodeAlive` holds, since mark and count are not atomic.
* **`CommonProofs`**, about two classes of `src/include/common`. The queue: `Typing`,
  `CellsInOnePlace`, `CashIsExact`, `DestructorFreesAll`, and `Refinement`: `FifoFast`
  implements `BoundedFifo`, with the values along the links as the abstract queue. The
  lock: `LockTyping` and `LockExclusion` (`ExclusionButBehindFirst`).
  `m_lockPermanent` has one owner, a thread or the readers together once their first
  one has it; the counter of readers is exact; and a semaphore that is posted is 0, so
  that both stay binary although they are created with a limit of five.
* **`ServerThreadsProofs`**: `Typing` and `NoLostInterrupt` (`BridgeWatched`). That
  nobody sleeps unwarned depends on where the receive thread was when it was
  interrupted, so the invariant has one part for each place, all while the server
  works and none of it for a `select` that has lapsed: `Gathered`, the empty socket in
  the set is the one stored, or is closed, or is in the hands of a thread that closes it;
  `WarnedBeforeSelect`, a receive thread about to call `select` without a bridge in its
  set has an empty socket that is closed, or will be taken and closed;
  `SignalledInSelect`, one that is in `select` without it will be sent a signal.
  Numbers may be used again at any time: `CloseWatched` and `OpenWatched` say what a
  close and an open do to the sockets that are watched.
* **`MembershipProofs`**: `Typing` and `AnswerConfirms` (`AnswerConfirmsList`). The
  property speaks of one moment, the invariant of the whole exchange (`ListTrue`): while
  an adder waits for an answer, the list on its way is its table, and a joiner that has
  answered knows all of it. The table does not change meanwhile, because every handler
  that changes it needs the lock exclusively. The joiner's does not either, because only
  a running process has jobs (`HandsUp`); a joiner that times out clears its table, and
  with that its part of the exchange is over. It is not assumed that a joiner has only
  one job at an adder: after a failed attempt an old one may still be there. `Agreement`
  (`QuietAgreement`) says that news leave the same table everywhere. Its invariant,
  `Orderly`, is about every moment and not only about rest: while starts and crashes
  come one at a time, there is one process whose joining or removal is in progress; the
  tables differ in that process at most (`Settled`), and the phase of that one (`Phase`:
  trying a seed, asked, sent the list, answered, added, joining, silent, removed,
  leaving) says who has heard of it, which jobs are queued or in hand and which news are
  on their way. The news that are still to come are exactly those to the processes that
  do not know (`Pending`, `Spread`), so at rest all have heard.
* **`PeerHealthProofs`**: `Typing` and `SilentIsPingedFewTimes` (`PingsBounded`).
  `m_pingCount`, and each word a thread has loaded and is going to store, lag behind
  the pings by one at most whenever they are looked at; between the reset of the
  counter and the end of `pingReceived` there is one ping at most. The last part
  rests on the model's assumption that a thread is done with the node before the
  next period begins.
* **`NodeTableProofs`**: `TypeCorrect`, `Chains` (`ChainsExact`), `List` (`ListExact`)
  and `ImplementsNodeMap` (`IsNodeMap`), for every set of nodes and keys and every hash
  function. The invariant adds that no node is twice in the list, that a node and its
  hash item point to each other (`Crossed`), that no key is stored twice (`KeysDiffer`)
  and that free items and nodes outside the list have cleared pointers (`Spare`). The
  lemmas below it are about linked cells in general: a chain is the least closed set, so
  what a push in front (`PushFront`) and an unlinking (`TakeOut`) do to it follows
  without induction, and an assignment outside a chain does not change it
  (`ChainFrame`). `RemoveEntry2Exact` shows that the second unlinking, by the destructor
  of the item, changes nothing; `FreeItem`, by cardinalities, that there is memory for
  each node.

* **`WireProofs`**: `Typing`, `ReaderInStep` (`InStep`), `FieldsRead` (`ReadsFields`)
  and `ByteOrderKnown` (`OrderKnown`), for any number of connections and messages, any
  terms that are ints and data of any length. The properties speak of the first byte of
  one stream; the invariant is about all bytes of every unbroken stream B may still read
  (`InOrder`): it consists of whole fields, the first is the one B expects (`Expected`),
  each is followed by the one its mark says (`Framed`), and the mark says what the
  values of the bytes will make the reader's code do (`Meaning`: the size from the type
  of a message, the number of bytes from a length, the byte order from a request). This
  last part ties marks to code: each message `SendClbkFunction` and
  `SendInformationToNode` may write has it (`Message`, one lemma for each kind), by the
  arithmetic of four-byte integers (`Int4Bytes`). On A's side, what is on the connection
  ends where its one busy thread goes on, or between messages if there is none
  (`WriterInv`), and what a thread has still to write follows on itself the same way
  (`ThreadInv`); two busy threads are the event `stray`. `Ends` says which sockets B
  holds and that B takes no A it has a bridge with for a host of the other byte order,
  since no four bytes that `raft_swap_4_bytes` returns are `permanentBridge` unless they
  were before; `InOrder` has that such a bridge, if unbroken, is with a host of its own.

Only model-checked: all liveness, because the prover has no fairness. Every invariant
and action property and both refinements that a passing run checks are proved.

## What is not modelled

* The client, the thread wrapper, the non-blocking socket and the older hash
  table: one request without state, a wrapper, and two classes the server does not
  use.
* Of a bridge: connections that both nodes open to each other at once, the other
  direction, and a `send` that waits for room.
* In `ServerThreads`: races on the socket member of a node itself (`setSocket` against
  `writeC`), a receive thread that gathers a socket during its connect handshake, what a
  number used again does to bytes written to it, and the exceptions that the thread loops
  catch. What `becomeLeader` sends is sent in the shared part of its handler there; in
  `WorkerPool` it is where the code has it.
* Handlers of the library interleaved by two threads, which the TCP server does.
* The phases after the lock, which use nodes without a reference.
* `FifoFastDyn`, `FifoAndStack`, `SimpleStack`, `HashTblRaw` and the moves between node
  tables: nothing calls them. `FifoFast` has a model although the server no longer
  has one (`tcp/raft_tcp_server.hpp:238` is commented out). `ClearAllNodes` on a node
  without a hash item goes through a null pointer, which has no behaviour to model.
* The election that makes a candidate call `becomeLeader`, and the override of
  `become_candidate`, which need the election and the job queue in one model.
