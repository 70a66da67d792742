----------------------------- MODULE RaftClaims -----------------------------
(* What comments and tests of the repository say of the Raft library and   *)
(* the handlers of RaftServer do not do.  Every definition quotes the line *)
(* it states; a run of its own shows the behaviour that contradicts it.    *)
EXTENDS RaftServer

\* tests/test_scenario.cpp:69 "ASSERT_TRUE(1 == leaders)": an election ends with
\* one leader.  Here for one term, which is what Raft promises.  recv_requestvote
\* forgets the vote whenever the request's term is above current_term, and does
\* not adopt that term, so a second request of the same term is granted too.
OneLeaderPerTerm ==
  \A s, t \in Server :
    d_state[s] = Leader /\ d_state[t] = Leader /\ current_term[s] = current_term[t]
      => s = t

\* raft_server.cpp:262 "majority has this" and raft_msg.h:91 "number of nodes that
\* have this entry": AppendEntries carries no entry, yet every successful answer
\* counts as one more node that has it, repeated answers of one node included.
CommittedOnMajority ==
  \A s \in Server : \A i \in 1..Len(log[s]) :
    i <= commit_idx[s] =>
      LET holders == {n \in Server :
                        \E j \in 1..Len(log[n]) : log[n][j].d_id = log[s][i].d_id}
      IN 2 * Cardinality(holders) > N
=============================================================================
