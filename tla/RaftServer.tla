----------------------------- MODULE RaftServer -----------------------------
(***************************************************************************)
(* The Raft library of the repository (raft_server.cpp, raft_logger.cpp,   *)
(* raft_node.cpp, raft_msg.h): a set of RaftServer objects, each with a    *)
(* table of all nodes, exchanging messages through the send callback.  One *)
(* action per public operation; a handler is one step, as the library is   *)
(* written to be called by one thread at a time.                           *)
(*                                                                         *)
(* Between two servers the messages travel over one TCP connection, so a   *)
(* channel is a FIFO.  The send callback may silently drop a message       *)
(* (tcp/raft_tcp_server.cpp:1735-1779), which is the action Lose.          *)
(***************************************************************************)
EXTENDS Integers, Sequences, FiniteSets

CONSTANTS
  Server,           \* the nodes of the cluster, all of them in every node table
  FlaggedLeader,    \* the nodes whose m_isLeader flag is set in every table
  Nil,              \* NULL, for m_voted_for
  EntryId,          \* the entry ids a client may submit (0 is an illegal id)
  ElectionTimeout,  \* election_timeout and request_timeout, in timer ticks
  RequestTimeout,
  TermStep,         \* the values of 1 + rand() % nRandFactor
  TimerStart,       \* the values of rand() % 500, in timer ticks
  MayLose,          \* whether the send callback may drop a message
  Campaigner,       \* bounds: the servers whose election timer may expire,
  MaxTerm,          \* terms, heartbeats of a server, length of a channel
  MaxHeartbeats,
  MaxInFlight

ASSUME RaftServerAssumption ==
  /\ IsFiniteSet(Server) /\ Nil \notin Server /\ FlaggedLeader \subseteq Server
  /\ Campaigner \subseteq Server
  /\ EntryId \subseteq Nat /\ TermStep \subseteq Nat \ {0} /\ TimerStart \subseteq Nat
  /\ ElectionTimeout \in Nat /\ RequestTimeout \in Nat
  /\ MaxTerm \in Nat /\ MaxHeartbeats \in Nat /\ MaxInFlight \in Nat
  /\ MayLose \in BOOLEAN

VARIABLES
  current_term, m_voted_for, d_state, timeout_elapsed,   \* per server
  log, current_idx, commit_idx, last_applied_idx, m_nLeaderCommit,
  next_idx, votes_for_me,        \* per server and node of its table
  net,                           \* net[s][d]: messages on their way from s to d
  granted,                       \* history: [voter, cand, term] of every vote granted
  responded                      \* history: [server, id, was_committed] of every
                                 \* entry response sent to a client

electionVars == <<current_term, m_voted_for, d_state, votes_for_me, granted>>
logVars == <<log, current_idx, commit_idx, responded>>
leaderVars == <<next_idx, m_nLeaderCommit>>
vars == <<electionVars, logVars, leaderVars, last_applied_idx, timeout_elapsed, net>>

N == Cardinality(Server)
Follower == "FOLLOWER"
Candidate == "CANDIDATE"
Leader == "LEADER"

Message ==
  [type : {"RV"}, term : Nat, last_log_idx : Nat]
    \cup [type : {"RVR"}, term : Nat, vote_granted : BOOLEAN]
    \cup [type : {"AE"}, term : Nat, prev_log_idx : Nat, prev_log_term : Nat,
          leader_commit : Nat]
    \cup [type : {"AER"}, term : Nat, success : BOOLEAN, current_idx : Nat,
          first_idx : Nat]

Entry == [d_term : Nat, d_id : Nat, d_num_nodes : Nat]

TypeOK ==
  /\ current_term \in [Server -> Nat]
  /\ m_voted_for \in [Server -> Server \cup {Nil}]
  /\ d_state \in [Server -> {Follower, Candidate, Leader}]
  /\ timeout_elapsed \in [Server -> Nat]
  /\ log \in [Server -> Seq(Entry)]
  /\ current_idx \in [Server -> Nat]
  /\ commit_idx \in [Server -> Nat]
  /\ last_applied_idx \in [Server -> Nat]
  /\ m_nLeaderCommit \in [Server -> Nat]
  /\ next_idx \in [Server -> [Server -> Nat]]
  /\ votes_for_me \in [Server -> [Server -> BOOLEAN]]
  /\ net \in [Server -> [Server -> Seq(Message)]]
  /\ granted \subseteq [voter : Server, cand : Server, term : Nat]
  /\ responded \subseteq [server : Server, id : Nat, was_committed : BOOLEAN]

-----------------------------------------------------------------------------
(* Messages.  send_appendentries passes its arguments one place off: the   *)
(* constructor of MsgAppendEntries2 takes (term, prev_log_idx,             *)
(* prev_log_term, n_entries, leader_commit) and is called with             *)
(* (current_term, 0, next_idx, 0, m_nLeaderCommit), so prev_log_idx is     *)
(* always 0, and no entry is ever added to the message.                    *)

RequestVote(s, term) ==
  [type |-> "RV", term |-> term, last_log_idx |-> current_idx[s]]

AppendEntries(s, nextIdx, leaderCommit) ==
  [type |-> "AE", term |-> current_term[s], prev_log_idx |-> 0,
   prev_log_term |-> nextIdx, leader_commit |-> leaderCommit]

\* r.current_idx and r.first_idx are uninitialised in a failure and never read
Rejected(s) ==
  [type |-> "AER", term |-> current_term[s], success |-> FALSE,
   current_idx |-> 0, first_idx |-> 0]

AcceptedFromPrevLog(s, ae) ==          \* a mutant: first_idx one before
  [type |-> "AER", term |-> current_term[s], success |-> TRUE,
   current_idx |-> current_idx[s], first_idx |-> ae.prev_log_idx - 1]

Accepted(s, ae) ==
  [type |-> "AER", term |-> current_term[s], success |-> TRUE,
   current_idx |-> current_idx[s], first_idx |-> ae.prev_log_idx + 1]

\* the channels n after s hands msgs[d] to the send callback for every d in the
\* domain of msgs; a full channel drops the message
Sent(n, s, msgs) ==
  [n EXCEPT ![s] = [d \in Server |->
      IF d \in DOMAIN msgs /\ Len(n[s][d]) < MaxInFlight
        THEN Append(n[s][d], msgs[d]) ELSE n[s][d]]]

\* the channels after s takes the first message sent by p
Taken(p, s) == [net EXCEPT ![p][s] = Tail(@)]

\* forAllNodesExceptSelf, with and without a_bSkipLeader
Others(s) == Server \ {s}
OthersSkipLeader(s) == Others(s) \ FlaggedLeader

-----------------------------------------------------------------------------
Init ==
  /\ current_term = [s \in Server |-> 0]
  /\ m_voted_for = [s \in Server |-> Nil]
  /\ d_state = [s \in Server |-> IF s \in FlaggedLeader THEN Leader ELSE Follower]
  /\ timeout_elapsed = [s \in Server |-> 0]
  /\ log = [s \in Server |-> <<>>]
  /\ current_idx = [s \in Server |-> 1]
  /\ commit_idx = [s \in Server |-> 0]
  /\ last_applied_idx = [s \in Server |-> 0]
  /\ m_nLeaderCommit = [s \in Server |-> 0]
  /\ next_idx = [s \in Server |-> [n \in Server |-> 0]]
  /\ votes_for_me = [s \in Server |-> [n \in Server |-> FALSE]]
  /\ net = [s \in Server |-> [d \in Server |-> <<>>]]
  /\ granted = {}
  /\ responded = {}

-----------------------------------------------------------------------------
(* periodic: the timer of one server.                                      *)

\* election_start -> become_candidate.  The vote flags of the table are not
\* cleared (the line that did is commented out).
become_candidate(s) ==
  /\ s \in Campaigner
  /\ \E inc \in TermStep :
       LET term == current_term[s] + inc
       IN /\ term <= MaxTerm
          /\ current_term' = [current_term EXCEPT ![s] = term]
          /\ net' = Sent(net, s, [d \in OthersSkipLeader(s) |-> RequestVote(s, term)])
  /\ m_voted_for' = [m_voted_for EXCEPT ![s] = s]
  /\ d_state' = [d_state EXCEPT ![s] = Candidate]
  /\ \E r \in TimerStart : timeout_elapsed' = [timeout_elapsed EXCEPT ![s] = r]
  /\ UNCHANGED <<votes_for_me, granted, logVars, leaderVars>>

\* send_appendentries_all: every heartbeat increments m_nLeaderCommit
send_appendentries_all(s) ==
  /\ m_nLeaderCommit[s] < MaxHeartbeats
  /\ m_nLeaderCommit' = [m_nLeaderCommit EXCEPT ![s] = @ + 1]
  /\ net' = Sent(net, s, [d \in Others(s) |->
                AppendEntries(s, next_idx[s][d], m_nLeaderCommit[s] + 1)])
  /\ timeout_elapsed' = [timeout_elapsed EXCEPT ![s] = 0]
  /\ UNCHANGED <<electionVars, logVars, next_idx>>

Tick(s) ==
  /\ timeout_elapsed' = [timeout_elapsed EXCEPT ![s] = @ + 1]
  /\ UNCHANGED <<electionVars, logVars, leaderVars, net>>

\* log_get_from_idx(idx) does not throw.  Index 0 would pass this test and read
\* before the first entry; no caller passes it.
HasEntry(l, idx) == l # <<>> /\ idx <= Len(l)

\* The follower first applies one entry if last_applied_idx lags behind
\* commit_idx; when that entry is missing, periodic returns at once.
periodic(s) ==
  LET lags == d_state[s] = Follower /\ last_applied_idx[s] < commit_idx[s]
      entry == HasEntry(log[s], last_applied_idx[s] + 1)
      elapsed == timeout_elapsed[s] + 1
  IN /\ last_applied_idx' =
          [last_applied_idx EXCEPT ![s] = IF lags /\ entry THEN @ + 1 ELSE @]
     /\ IF lags /\ ~entry
          THEN UNCHANGED <<electionVars, logVars, leaderVars, timeout_elapsed, net>>
        ELSE IF d_state[s] = Leader
          THEN IF RequestTimeout <= elapsed THEN send_appendentries_all(s) ELSE Tick(s)
          ELSE IF ElectionTimeout <= elapsed THEN become_candidate(s) ELSE Tick(s)

-----------------------------------------------------------------------------
(* recv_requestvote: s handles the vote request rv of p.  The term of the  *)
(* server is not changed.                                                  *)

GrantsVoteAnyLog(s, voted, rv) ==      \* a mutant: the log is not compared
  rv.term >= current_term[s] /\ voted = Nil

GrantsVote(s, voted, rv) ==
  /\ rv.term >= current_term[s]
  /\ voted = Nil                            \* we've already voted
  /\ rv.last_log_idx >= current_idx[s]      \* we have a more up-to-date log

VoteReplyGranted(s, grant) ==          \* a mutant: vote_granted left at 1
  [type |-> "RVR", term |-> current_term[s], vote_granted |-> TRUE]

VoteReply(s, grant) ==
  [type |-> "RVR", term |-> current_term[s], vote_granted |-> grant]

recv_requestvote(s, p, rv) ==
  LET voted == IF current_term[s] < rv.term THEN Nil ELSE m_voted_for[s]
      grant == GrantsVote(s, voted, rv)
  IN /\ m_voted_for' = [m_voted_for EXCEPT ![s] = IF grant THEN p ELSE voted]
     /\ granted' = IF grant
                     THEN granted \cup {[voter |-> s, cand |-> p, term |-> rv.term]}
                     ELSE granted
     /\ net' = Sent(Taken(p, s), s, [d \in {p} |-> VoteReply(s, grant)])
     /\ UNCHANGED <<current_term, d_state, votes_for_me, logVars, leaderVars,
                    last_applied_idx, timeout_elapsed>>

(* recv_requestvote_response: s handles the answer rvr of p.               *)

raft_votes_is_majority(num, votes) == votes <= num /\ num \div 2 + 1 <= votes

\* get_nvotes_for_me: the flags of the other nodes, and the own vote
get_nvotes_for_me(s, flags) ==
  Cardinality({n \in Others(s) : flags[n]}) + IF m_voted_for[s] = s THEN 1 ELSE 0

\* The state is not required to be CANDIDATE.
RecvVote(s, p, vote_granted) ==
  IF d_state[s] = Leader
    THEN /\ net' = Taken(p, s)
         /\ UNCHANGED <<electionVars, logVars, leaderVars, last_applied_idx, timeout_elapsed>>
    ELSE
      LET flags == [votes_for_me[s] EXCEPT ![p] = vote_granted]
          wins == vote_granted
                    /\ raft_votes_is_majority(N - 1, get_nvotes_for_me(s, flags))
      IN /\ votes_for_me' = [votes_for_me EXCEPT ![s] = flags]
         /\ d_state' = [d_state EXCEPT ![s] = IF wins THEN Leader ELSE @]
         /\ m_voted_for' = [m_voted_for EXCEPT ![s] = IF wins THEN Nil ELSE @]
         /\ next_idx' = [next_idx EXCEPT ![s] =
              [n \in Server |-> IF wins /\ n \in OthersSkipLeader(s)
                                  THEN current_idx[s] + 1 ELSE @[n]]]
         /\ net' = Sent(Taken(p, s), s,
                        [d \in IF wins THEN OthersSkipLeader(s) ELSE {} |->
                           AppendEntries(s, current_idx[s] + 1, m_nLeaderCommit[s])])
         /\ UNCHANGED <<current_term, granted, m_nLeaderCommit, logVars,
                        last_applied_idx, timeout_elapsed>>

RecvVoteAnyAnswer(s, p, rvr) == RecvVote(s, p, TRUE)   \* a mutant: a refusal counts

\* rvr.term is not read
recv_requestvote_response(s, p, rvr) == RecvVote(s, p, rvr.vote_granted)

(* recv_appendentries: s handles the message ae of p.  The loop that       *)
(* appends the entries of the message is empty, as no message has any.     *)

TermAfterAny(s, ae, success) == ae.term   \* a mutant: also after a rejection

\* set_current_term
TermAfter(s, ae, success) == IF success THEN ae.term ELSE current_term[s]

recv_appendentries(s, p, ae) ==
  LET stale == ae.term < current_term[s]
      hasAnyLogs == ae.prev_log_idx # 0
      mismatch == hasAnyLogs /\ ~( /\ HasEntry(log[s], ae.prev_log_idx)
                                   /\ log[s][ae.prev_log_idx].d_term = ae.prev_log_term )
      success == ~stale /\ ~mismatch
      \* log_delete(prev_log_idx + 1)
      l == IF success /\ hasAnyLogs THEN SubSeq(log[s], 1, ae.prev_log_idx) ELSE log[s]
      commits == success /\ commit_idx[s] < ae.leader_commit /\ l # <<>>
      \* the id of the last entry is used where its index is meant
      k == IF l[Len(l)].d_id < ae.leader_commit THEN l[Len(l)].d_id ELSE ae.leader_commit
      \* while (1 == apply_entry()): everything up to the end of the log
      applied == IF k < Len(l) THEN Len(l) ELSE k
      follows == \/ d_state[s] = Leader /\ ~stale
                 \/ d_state[s] = Candidate /\ success
  IN /\ timeout_elapsed' = [timeout_elapsed EXCEPT ![s] = 0]
     /\ d_state' = [d_state EXCEPT ![s] = IF follows THEN Follower ELSE @]
     /\ m_voted_for' = [m_voted_for EXCEPT ![s] = IF follows THEN Nil ELSE @]
     /\ log' = [log EXCEPT ![s] = l]
     /\ commit_idx' = [commit_idx EXCEPT ![s] = IF commits THEN applied ELSE @]
     /\ last_applied_idx' = [last_applied_idx EXCEPT ![s] = IF commits THEN applied ELSE @]
     /\ current_term' = [current_term EXCEPT ![s] = TermAfter(s, ae, success)]
     /\ net' = Sent(Taken(p, s), s,
                    [d \in {p} |-> IF success THEN Accepted(s, ae) ELSE Rejected(s)])
     /\ UNCHANGED <<votes_for_me, granted, current_idx, responded, leaderVars>>

(* recv_appendentries_response: s handles the answer r of p.  Marking an   *)
(* entry that s does not have throws, after the entries before it were     *)
(* marked.  A failure is answered with the same message again, whoever s   *)
(* is and whatever r.term says.                                            *)

Marked(l, first, last) ==
  [i \in 1..Len(l) |-> IF i \in first..last
                         THEN [l[i] EXCEPT !.d_num_nodes = @ + 1] ELSE l[i]]

\* the indices the commit loop can reach: every entry on the way has enough
\* marks, and an entry whose id is r.current_idx ends the loop
Reached(l, commit, last) ==
  {k \in commit..last :
     /\ \A i \in (commit + 1)..k : N \div 2 <= l[i].d_num_nodes
     /\ \A i \in (commit + 1)..(k - 1) : l[i].d_id # last}

CommitAfterNothing(commit, applied) == commit   \* a mutant: not raised

\* apply_entry raises commit_idx to last_applied_idx
CommitAfterApply(commit, applied) == IF commit < applied THEN applied ELSE commit

recv_appendentries_response(s, p, r) ==
  IF r.success
    THEN LET l == Marked(log[s], r.first_idx, r.current_idx)
             throws == r.first_idx <= r.current_idx /\ ~HasEntry(log[s], r.current_idx)
             reached == Reached(l, last_applied_idx[s], r.current_idx)
             top == CHOOSE k \in reached : \A j \in reached : j <= k
             commits == ~throws /\ commit_idx[s] < r.current_idx
         IN /\ next_idx' = [next_idx EXCEPT ![s][p] = r.current_idx]
            /\ log' = [log EXCEPT ![s] = l]
            /\ last_applied_idx' =
                 [last_applied_idx EXCEPT ![s] = IF commits THEN top ELSE @]
            /\ commit_idx' =
                 [commit_idx EXCEPT ![s] = IF commits THEN CommitAfterApply(@, top) ELSE @]
            /\ net' = Taken(p, s)
            /\ UNCHANGED <<electionVars, current_idx, responded, m_nLeaderCommit,
                           timeout_elapsed>>
    ELSE /\ net' = Sent(Taken(p, s), s,
                        [d \in {p} |-> AppendEntries(s, next_idx[s][p], m_nLeaderCommit[s])])
         /\ UNCHANGED <<electionVars, logVars, leaderVars, last_applied_idx,
                        timeout_elapsed>>

-----------------------------------------------------------------------------
\* s takes the first message p sent it and calls the handler of its type
Receive(s, p) ==
  /\ net[p][s] # <<>>
  /\ LET m == Head(net[p][s])
     IN \/ m.type = "RV" /\ recv_requestvote(s, p, m)
        \/ m.type = "RVR" /\ recv_requestvote_response(s, p, m)
        \/ m.type = "AE" /\ recv_appendentries(s, p, m)
        \/ m.type = "AER" /\ recv_appendentries_response(s, p, m)

(* recv_entry: a client submits the entry id to s.  Clients write to a     *)
(* leader and ids are unique (raft_msg.h:41), which is the environment's   *)
(* part.  was_committed is the result of append_entry, and every other     *)
(* node is sent an AppendEntries.                                          *)
recv_entry(s, id) ==
  LET appended == id # 0
  IN /\ d_state[s] = Leader
     /\ \A r \in responded : r.id # id
     /\ log' = [log EXCEPT ![s] = IF appended
                  THEN Append(@, [d_term |-> current_term[s], d_id |-> id,
                                  d_num_nodes |-> 0])
                  ELSE @]
     /\ current_idx' = [current_idx EXCEPT ![s] = IF appended THEN @ + 1 ELSE @]
     /\ responded' = responded \cup {[server |-> s, id |-> id, was_committed |-> appended]}
     /\ net' = Sent(net, s, [d \in Others(s) |->
                AppendEntries(s, next_idx[s][d], m_nLeaderCommit[s])])
     /\ UNCHANGED <<electionVars, commit_idx, leaderVars, last_applied_idx,
                    timeout_elapsed>>

\* the send callback gives up on a message
Lose(p, s) ==
  /\ MayLose /\ net[p][s] # <<>>
  /\ net' = Taken(p, s)
  /\ UNCHANGED <<electionVars, logVars, leaderVars, last_applied_idx, timeout_elapsed>>

Next ==
  \/ \E s \in Server : periodic(s)
  \/ \E s, p \in Server : Receive(s, p)
  \/ \E s, p \in Server : Lose(p, s)
  \/ \E s \in Server, id \in EntryId : recv_entry(s, id)

Spec == Init /\ [][Next]_vars

-----------------------------------------------------------------------------
(* Properties that hold.                                                   *)

InFlight(p, s) == {net[p][s][i] : i \in 1..Len(net[p][s])}

Granted(n, s) == {g \in granted : g.voter = n /\ g.cand = s}

\* Everything a server counts as committed it has applied and conversely: the
\* handlers of AppendEntries and of its response move commit_idx and
\* last_applied_idx together, so the follower's branch in periodic is idle.
AppliedIsCommitted == \A s \in Server : last_applied_idx[s] = commit_idx[s]

\* A vote that a server counts (the flag setVotesForMe leaves in its table), or
\* that is on its way to it, was granted by that node to that server, for a term
\* the server has really started: answers are neither invented nor attributed to
\* another candidate, however late they arrive.
VotesAreGranted ==
  \A s, n \in Server :
    (votes_for_me[s][n] \/ \E m \in InFlight(n, s) : m.type = "RVR" /\ m.vote_granted)
      => \E g \in Granted(n, s) : g.term <= current_term[s]

\* A server that leads without having been set up as leader collected votes of
\* different nodes, with its own more than half of the nodes other than the old
\* leader ("-1 because old leader is not normal, but still counted").
LeaderHasMajority ==
  \A s \in Server \ FlaggedLeader :
    d_state[s] = Leader =>
      (N - 1) \div 2 + 1 <= Cardinality({n \in Others(s) : Granted(n, s) # {}}) + 1

\* When a vote is granted, the candidate's log position is at least the voter's
\* and the voted term is one the candidate has reached, although the request was
\* sent in an earlier state of the candidate.
VoteOnlyIfUpToDate ==
  [][\A g \in granted' \ granted :
       /\ current_idx[g.cand] >= current_idx[g.voter]
       /\ g.term <= current_term[g.cand]]_vars

\* No message, however old, takes a server back to an earlier term or moves its
\* log position back.
TermsOnlyGrow ==
  [][\A s \in Server : /\ current_term'[s] >= current_term[s]
                       /\ current_idx'[s] >= current_idx[s]]_vars

=============================================================================
