---------------------------- MODULE MCWorkerPool ----------------------------
(* Small instances of the thread pool of the TCP server.                   *)
EXTENDS WorkerPool, TLC

NoRequests == {}
Received == {"newNode", "removeNode", "oldLeaderDied", "other"}
Internal == {"removeNode", "becomeLeader"}
RemoveOnly == {"removeNode"}
Connected == {"newNode", "other"}
WorkerSymmetry == Permutations(Worker)
=============================================================================
