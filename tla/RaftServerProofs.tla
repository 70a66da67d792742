-------------------------- MODULE RaftServerProofs --------------------------
(* Proofs about RaftServer: type correctness, the safety invariants of the *)
(* election and of the log, and the two action properties, for every set   *)
(* of servers and every value of the other constants.  They all follow     *)
(* from one inductive invariant, IInv.                                     *)
EXTENDS RaftServer, FiniteSetTheorems, WellFoundedInduction, TLAPS

-----------------------------------------------------------------------------
(* Lemmas about data.                                                      *)

\* Two log positions with a third between them.
LEMMA Between ==
  ASSUME NEW a \in Nat, NEW b \in Nat, NEW c \in Nat, a >= b, a <= c
  PROVE  c >= b
OBVIOUS

\* A bounded set of integers has a greatest element: the commit loop of
\* recv_appendentries_response ends.
LEMMA MaxExists ==
  ASSUME NEW b \in Int, NEW S \in SUBSET Int, S # {}, \A x \in S : x <= b
  PROVE  \E k \in S : \A j \in S : j <= k
<1> DEFINE T == {n \in Nat : b - n \in S}
<1>1. T # {}
  <2>1. PICK x \in S : TRUE
    BY Zenon
  <2>2. b - x \in Nat /\ b - (b - x) = x
    BY <2>1
  <2> QED
    BY <2>1, <2>2, Zenon
<1>2. PICK m \in T : \A y \in T : ~(<<y, m>> \in OpToRel(<, Nat))
  <2>1. T \subseteq Nat
    OBVIOUS
  <2> HIDE DEF T
  <2> QED
    BY <1>1, <2>1, WFMin, NatLessThanWellFounded, Zenon
<1>3. \A y \in T : ~(y < m)
  BY <1>2, Zenon DEF OpToRel
<1>4. \A j \in S : j <= b - m
  <2> TAKE j \in S
  <2>1. b - j \in T
    <3>1. b - j \in Nat /\ b - (b - j) = j
      OBVIOUS
    <3> QED
      BY <3>1, Zenon
  <2>2. ~(b - j < m) /\ m \in Nat
    BY <2>1, <1>3, Zenon
  <2> HIDE DEF T
  <2> QED
    BY <2>2
<1> QED
  BY <1>2, <1>4, Zenon

Channels == [Server -> [Server -> Seq(Message)]]

Elements(q) == {q[i] : i \in 1..Len(q)}

\* What send callbacks leave in the channels: what was there, and the new
\* message in the channels of its sender.
LEMMA SentNet ==
  ASSUME NEW n \in Channels, NEW s \in Server, NEW D \in SUBSET Server,
         NEW msgs \in [D -> Message]
  PROVE  /\ Sent(n, s, msgs) \in Channels
         /\ \A p, d \in Server : \A m \in Elements(Sent(n, s, msgs)[p][d]) :
              m \in Elements(n[p][d]) \/ (p = s /\ d \in D /\ m = msgs[d])
<1> DEFINE new(d) == IF d \in D /\ Len(n[s][d]) < MaxInFlight
                       THEN Append(n[s][d], msgs[d]) ELSE n[s][d]
<1>1. \A d \in Server : n[s][d] \in Seq(Message)
  BY Zenon DEF Channels
<1>2. \A d \in Server : new(d) \in Seq(Message)
  BY <1>1
<1>3. Sent(n, s, msgs) = [n EXCEPT ![s] = [d \in Server |-> new(d)]]
  BY Zenon DEF Sent
<1>4. Sent(n, s, msgs) \in Channels
  BY <1>2, <1>3 DEF Channels
<1>5. ASSUME NEW d \in Server, NEW m \in Elements(new(d))
      PROVE  m \in Elements(n[s][d]) \/ (d \in D /\ m = msgs[d])
  <2>1. PICK i \in 1..Len(new(d)) : m = new(d)[i]
    BY Zenon DEF Elements
  <2>2. CASE d \in D /\ Len(n[s][d]) < MaxInFlight
    <3>1. Len(new(d)) = Len(n[s][d]) + 1
      BY <2>2, <1>1
    <3>2. CASE i = Len(n[s][d]) + 1
      BY <3>2, <2>1, <2>2, <1>1
    <3>3. CASE i \in 1..Len(n[s][d])
      BY <3>3, <2>1, <2>2, <1>1 DEF Elements
    <3>4. i \in 1..(Len(n[s][d]) + 1) /\ Len(n[s][d]) \in Nat
      BY <3>1, <1>1
    <3>5. i = Len(n[s][d]) + 1 \/ i \in 1..Len(n[s][d])
      BY <3>4
    <3> QED
      BY <3>2, <3>3, <3>5, Zenon
  <2>3. CASE ~(d \in D /\ Len(n[s][d]) < MaxInFlight)
    BY <2>1, <2>3, Zenon DEF Elements
  <2> QED
    BY <2>2, <2>3, Zenon
<1>6. ASSUME NEW p \in Server, NEW d \in Server
      PROVE  Sent(n, s, msgs)[p][d] = IF p = s THEN new(d) ELSE n[p][d]
  BY <1>3 DEF Channels
<1> QED
  BY <1>4, <1>5, <1>6, Zenon

\* Taking a message leaves only messages that were in the channels.
LEMMA TakenNet ==
  ASSUME net \in Channels, NEW p \in Server, NEW s \in Server, net[p][s] # <<>>
  PROVE  /\ Taken(p, s) \in Channels
         /\ Head(net[p][s]) \in Message
         /\ Head(net[p][s]) \in Elements(net[p][s])
         /\ \A q, d \in Server : Elements(Taken(p, s)[q][d]) \subseteq Elements(net[q][d])
<1>1. net[p][s] \in Seq(Message)
  BY Zenon DEF Channels
<1>2. /\ Tail(net[p][s]) \in Seq(Message)
      /\ Len(net[p][s]) \in Nat /\ Len(net[p][s]) # 0
      /\ Head(net[p][s]) = net[p][s][1]
      /\ Len(Tail(net[p][s])) = Len(net[p][s]) - 1
      /\ \A i \in 1..Len(Tail(net[p][s])) : Tail(net[p][s])[i] = net[p][s][i + 1]
  BY <1>1
<1>3. Elements(Tail(net[p][s])) \subseteq Elements(net[p][s])
  BY <1>2 DEF Elements
<1>4. Head(net[p][s]) \in Elements(net[p][s])
  BY <1>2 DEF Elements
<1>5. \A q, d \in Server : Taken(p, s)[q][d] =
        IF q = p /\ d = s THEN Tail(net[p][s]) ELSE net[q][d]
  BY Zenon DEF Taken, Channels
<1>6. Taken(p, s) \in Channels
  BY <1>2, Zenon DEF Taken, Channels
<1> QED
  BY <1>1, <1>2, <1>3, <1>4, <1>5, <1>6

-----------------------------------------------------------------------------
(* The inductive invariant.  VotesAreGranted and VoteOnlyIfUpToDate speak  *)
(* of a vote when it is counted or granted; what makes them true is that a *)
(* request still in a channel names a term and a log position its sender   *)
(* has reached, and that no step takes the sender back from there.         *)

HasGrant(n, s) == \E g \in Granted(n, s) : g.term <= current_term[s]

MessageOK(p, s, m) ==
  /\ m.type = "RV" => m.term <= current_term[p] /\ m.last_log_idx <= current_idx[p]
  /\ m.type = "RVR" /\ m.vote_granted => HasGrant(p, s)
  /\ m.type = "AE" => m.prev_log_idx = 0

MessagesOK == \A p, s \in Server : \A m \in InFlight(p, s) : MessageOK(p, s, m)

FlagsOK == \A s, n \in Server : votes_for_me[s][n] => HasGrant(n, s)

Elected(s) ==
  (N - 1) \div 2 + 1 <= Cardinality({n \in Others(s) : Granted(n, s) # {}}) + 1

IInv == TypeOK /\ AppliedIsCommitted /\ MessagesOK /\ FlagsOK /\ LeaderHasMajority

Grows ==
  /\ \A s \in Server : current_term[s] <= current_term'[s] /\ current_idx[s] <= current_idx'[s]
  /\ granted \subseteq granted'

\* A granted vote stays granted for a term its candidate has reached.
LEMMA GrantStays ==
  ASSUME TypeOK, TypeOK', Grows, NEW n \in Server, NEW s \in Server, HasGrant(n, s)
  PROVE  HasGrant(n, s)'
<1>1. PICK g \in Granted(n, s) : g.term <= current_term[s]
  BY Zenon DEF HasGrant
<1>2. g \in Granted(n, s)' /\ g.term \in Nat
  BY Zenon DEF Granted, Grows, TypeOK
<1>3. current_term[s] \in Nat /\ current_term'[s] \in Nat /\ current_term[s] <= current_term'[s]
  BY Zenon DEF TypeOK, Grows
<1>4. g.term <= current_term'[s]
  BY <1>1, <1>2, <1>3
<1> QED
  BY <1>2, <1>4, Zenon DEF HasGrant

\* A message in a channel stays as good as it was when it was sent.
LEMMA MessageStays ==
  ASSUME TypeOK, TypeOK', Grows, NEW p \in Server, NEW s \in Server,
         NEW m \in Message, MessageOK(p, s, m)
  PROVE  MessageOK(p, s, m)'
<1>1. m.type = "RV" => m.term \in Nat /\ m.last_log_idx \in Nat
  BY Zenon DEF Message
<1>2. /\ current_term[p] \in Nat /\ current_term'[p] \in Nat
      /\ current_idx[p] \in Nat /\ current_idx'[p] \in Nat
      /\ current_term[p] <= current_term'[p] /\ current_idx[p] <= current_idx'[p]
  BY Zenon DEF TypeOK, Grows
<1>3. m.type = "RV" => m.term <= current_term'[p] /\ m.last_log_idx <= current_idx'[p]
  BY <1>1, <1>2 DEF MessageOK
<1>4. m.type = "RVR" /\ m.vote_granted => HasGrant(p, s)'
  BY GrantStays, Zenon DEF MessageOK
<1> QED
  BY <1>3, <1>4, Zenon DEF MessageOK

\* A node that won its votes has won them for good.
LEMMA ElectedStays ==
  ASSUME Grows, NEW s \in Server, Elected(s)
  PROVE  Elected(s)'
<1> DEFINE A == {n \in Others(s) : Granted(n, s) # {}}
           B == {n \in Others(s) : Granted(n, s)' # {}}
<1>1. A \subseteq B
  BY Zenon DEF Grows, Granted
<1>2. IsFiniteSet(B) /\ IsFiniteSet(Server)
  BY FS_Subset, RaftServerAssumption, Zenon DEF Others
<1>3. Cardinality(A) <= Cardinality(B) /\ Cardinality(A) \in Nat /\ Cardinality(B) \in Nat
  BY <1>1, <1>2, FS_Subset, FS_CardinalityType, Zenon
<1>4. Cardinality(Server) \in Nat
  BY <1>2, FS_CardinalityType, Zenon
<1> HIDE DEF A, B
<1>5. (N - 1) \div 2 + 1 <= Cardinality(A) + 1
  BY Zenon DEF Elected, A
<1>6. (N - 1) \div 2 + 1 <= Cardinality(B) + 1
  BY <1>3, <1>4, <1>5 DEF N
<1> QED
  BY <1>6, Zenon DEF Elected, B

\* What is left to show for a step that takes no server back.
LEMMA StepPreserves ==
  ASSUME IInv, TypeOK', Grows,
         \A s \in Server : last_applied_idx'[s] = commit_idx'[s],
         \A p, d \in Server : \A m \in InFlight(p, d)' :
            m \in InFlight(p, d) \/ MessageOK(p, d, m)',
         \A s, n \in Server : votes_for_me'[s][n] => votes_for_me[s][n] \/ HasGrant(n, s)',
         \A s \in Server \ FlaggedLeader :
            d_state'[s] = Leader => d_state[s] = Leader \/ Elected(s)'
  PROVE  IInv'
<1>1. MessagesOK'
  <2> SUFFICES ASSUME NEW p \in Server, NEW d \in Server, NEW m \in InFlight(p, d)'
               PROVE  MessageOK(p, d, m)'
    BY Zenon DEF MessagesOK
  <2>1. CASE m \in InFlight(p, d)
    <3>1. m \in Message
      <4>1. net[p][d] \in Seq(Message)
        BY Zenon DEF IInv, TypeOK
      <4> QED
        BY <4>1, <2>1 DEF InFlight
    <3> QED
      BY <2>1, <3>1, MessageStays, Zenon DEF IInv, MessagesOK
  <2> QED
    BY <2>1, Zenon
<1>2. FlagsOK'
  BY GrantStays, Zenon DEF IInv, FlagsOK
<1>3. LeaderHasMajority'
  BY ElectedStays, Zenon DEF IInv, LeaderHasMajority, Elected
<1> QED
  BY <1>1, <1>2, <1>3, Zenon DEF IInv, AppliedIsCommitted

\* The channels after a step that takes messages out (leaving n) and sends.
LEMMA NewMessages ==
  ASSUME NEW n \in Channels, NEW s \in Server, NEW D \in SUBSET Server,
         NEW msgs \in [D -> Message],
         \A q, d \in Server : Elements(n[q][d]) \subseteq InFlight(q, d),
         net' = Sent(n, s, msgs)
  PROVE  /\ net' \in Channels
         /\ \A q, d \in Server : \A m \in InFlight(q, d)' :
              m \in InFlight(q, d) \/ (q = s /\ d \in D /\ m = msgs[d])
<1>1. net' \in Channels
  BY SentNet, Zenon
<1>2. \A p, d \in Server : \A m \in Elements(Sent(n, s, msgs)[p][d]) :
        m \in Elements(n[p][d]) \/ (p = s /\ d \in D /\ m = msgs[d])
  BY SentNet
<1>3. ASSUME NEW q \in Server, NEW d \in Server, NEW m \in InFlight(q, d)'
      PROVE  m \in InFlight(q, d) \/ (q = s /\ d \in D /\ m = msgs[d])
  <2>1. m \in Elements(Sent(n, s, msgs)[q][d])
    BY Zenon DEF InFlight, Elements
  <2>2. m \in Elements(n[q][d]) \/ (q = s /\ d \in D /\ m = msgs[d])
    BY <1>2, <2>1, Zenon
  <2> QED
    BY <2>2, Zenon
<1> QED
  BY <1>1, <1>3, Zenon

\* What the send operations of the library build are messages.
LEMMA MessageTypes ==
  ASSUME TypeOK, NEW s \in Server
  PROVE  /\ \A t \in Nat : RequestVote(s, t) \in Message
         /\ \A i, c \in Nat : AppendEntries(s, i, c) \in Message
         /\ \A g \in BOOLEAN : VoteReply(s, g) \in Message
         /\ Rejected(s) \in Message
         /\ \A ae \in [type : {"AE"}, term : Nat, prev_log_idx : Nat,
                       prev_log_term : Nat, leader_commit : Nat] :
              Accepted(s, ae) \in Message
<1>1. current_term[s] \in Nat /\ current_idx[s] \in Nat
  BY Zenon DEF TypeOK
<1> QED
  BY <1>1 DEF Message, RequestVote, AppendEntries, VoteReply, Rejected, Accepted

\* Messages that are not a request or a granted vote need no history.
LEMMA PlainMessages ==
  ASSUME NEW p \in Server, NEW d \in Server, NEW m,
         m.type \in {"AE", "AER"}, m.type = "AE" => m.prev_log_idx = 0
  PROVE  MessageOK(p, d, m)'
BY Zenon DEF MessageOK

-----------------------------------------------------------------------------
(* One lemma per action.                                                   *)

\* The initial states satisfy the invariant.
LEMMA InitIInv == Init => IInv
<1> SUFFICES ASSUME Init
             PROVE  IInv
  OBVIOUS
<1>1. TypeOK
  BY RaftServerAssumption DEF Init, TypeOK, Follower, Candidate, Leader
<1>2. \A p, s \in Server : InFlight(p, s) = {}
  BY DEF Init, InFlight
<1>3. MessagesOK
  BY <1>2, Zenon DEF MessagesOK
<1>4. FlagsOK /\ AppliedIsCommitted
  BY Zenon DEF Init, FlagsOK, AppliedIsCommitted
<1>5. LeaderHasMajority
  BY Zenon DEF Init, LeaderHasMajority, Follower, Leader
<1> QED
  BY <1>1, <1>3, <1>4, <1>5, Zenon DEF IInv

\* The channels as TypeOK gives them, in the terms of the two lemmas above.
LEMMA NetAsIs ==
  ASSUME TypeOK
  PROVE  /\ net \in Channels
         /\ \A q, d \in Server : Elements(net[q][d]) \subseteq InFlight(q, d)
BY Zenon DEF TypeOK, Channels, Elements, InFlight

\* A step that leaves terms and log positions alone takes no server back.
LEMMA SameTerm ==
  ASSUME TypeOK, current_term' = current_term, current_idx' = current_idx,
         granted \subseteq granted'
  PROVE  Grows
<1>1. \A s \in Server : current_term[s] \in Nat /\ current_idx[s] \in Nat
  BY Zenon DEF TypeOK
<1>2. \A s \in Server : current_term[s] <= current_term[s] /\ current_idx[s] <= current_idx[s]
  BY <1>1
<1> QED
  BY <1>2, Zenon DEF Grows

\* A step that only raises the term of one server takes no server back.
LEMMA LaterTerm ==
  ASSUME TypeOK, NEW s \in Server, NEW term \in Nat, current_term[s] <= term,
         current_term' = [current_term EXCEPT ![s] = term], current_idx' = current_idx,
         granted' = granted
  PROVE  Grows
<1>1. \A n \in Server : current_term[n] \in Nat /\ current_idx[n] \in Nat
  BY Zenon DEF TypeOK
<1>2. \A n \in Server : current_term'[n] = IF n = s THEN term ELSE current_term[n]
  BY Zenon DEF TypeOK
<1>3. \A n \in Server : current_term[n] <= current_term'[n]
  BY <1>1, <1>2
<1>4. \A n \in Server : current_idx[n] <= current_idx'[n]
  BY <1>1
<1> QED
  BY <1>3, <1>4, Zenon DEF Grows

\* The invariant through periodic, when the election timer expires.
LEMMA CandidateStep ==
  ASSUME IInv, NEW s \in Server, become_candidate(s), last_applied_idx' = last_applied_idx
  PROVE  IInv' /\ Grows
<1>1. PICK inc \in TermStep, r \in TimerStart :
        /\ current_term' = [current_term EXCEPT ![s] = current_term[s] + inc]
        /\ net' = Sent(net, s, [d \in OthersSkipLeader(s) |->
                                  RequestVote(s, current_term[s] + inc)])
        /\ timeout_elapsed' = [timeout_elapsed EXCEPT ![s] = r]
  BY Zenon DEF become_candidate
<1>2. /\ m_voted_for' = [m_voted_for EXCEPT ![s] = s]
      /\ d_state' = [d_state EXCEPT ![s] = Candidate]
      /\ votes_for_me' = votes_for_me /\ granted' = granted
      /\ log' = log /\ current_idx' = current_idx /\ commit_idx' = commit_idx
      /\ responded' = responded
      /\ next_idx' = next_idx /\ m_nLeaderCommit' = m_nLeaderCommit
  BY Zenon DEF become_candidate, logVars, leaderVars
<1>3. TypeOK
  BY Zenon DEF IInv
<1> DEFINE term == current_term[s] + inc
           D == OthersSkipLeader(s)
           msgs == [d \in D |-> RequestVote(s, term)]
<1>4. term \in Nat /\ current_term[s] \in Nat /\ current_term[s] <= term /\ r \in Nat
  BY <1>3, RaftServerAssumption DEF TypeOK
<1>5. D \in SUBSET Server
  BY Zenon DEF OthersSkipLeader, Others
<1>6. msgs \in [D -> Message]
  BY <1>3, <1>4, MessageTypes, Zenon
<1>7. current_term' = [current_term EXCEPT ![s] = term] /\ net' = Sent(net, s, msgs)
  BY <1>1, Zenon
<1>8. \A d \in D : msgs[d] = [type |-> "RV", term |-> term, last_log_idx |-> current_idx[s]]
  BY Zenon DEF RequestVote
<1> HIDE DEF term, D, msgs
<1>9. /\ net' \in Channels
      /\ \A q, d \in Server : \A m \in InFlight(q, d)' :
           m \in InFlight(q, d) \/ (q = s /\ d \in D /\ m = msgs[d])
  <2>1. net \in Channels /\ \A q, d \in Server : Elements(net[q][d]) \subseteq InFlight(q, d)
    BY <1>3, NetAsIs, Zenon
  <2> QED
    BY <1>5, <1>6, <1>7, <2>1, NewMessages, Zenon
<1>10. TypeOK'
  BY <1>1, <1>2, <1>3, <1>4, <1>7, <1>9, ZenonT(60) DEF TypeOK, Channels, Candidate
<1>11. Grows
  BY <1>2, <1>3, <1>4, <1>7, LaterTerm, Zenon
<1>12. ASSUME NEW d \in D, NEW m, m = msgs[d]
       PROVE  MessageOK(s, d, m)'
  <2>1. current_term'[s] = term
    BY <1>3, <1>7, Zenon DEF TypeOK
  <2>2. current_idx[s] \in Nat /\ current_idx[s] <= current_idx[s] /\ term <= term
    BY <1>3, <1>4 DEF TypeOK
  <2>3. m.type = "RV" /\ m.term = term /\ m.last_log_idx = current_idx[s]
    BY <1>8, <1>12
  <2>4. current_idx' = current_idx
    BY <1>2, Zenon
  <2> QED
    BY <2>1, <2>2, <2>3, <2>4, Zenon DEF MessageOK
<1>13. \A p, d \in Server : \A m \in InFlight(p, d)' :
         m \in InFlight(p, d) \/ MessageOK(p, d, m)'
  BY <1>9, <1>12, Zenon
<1>14. /\ \A n \in Server : last_applied_idx'[n] = commit_idx'[n]
       /\ \A n \in Server : d_state'[n] = Leader => d_state[n] = Leader
  BY <1>2, <1>3, Zenon DEF IInv, AppliedIsCommitted, TypeOK, Candidate, Leader
<1>15. IInv'
  BY <1>2, <1>10, <1>11, <1>13, <1>14, StepPreserves, Zenon
<1> QED
  BY <1>11, <1>15, Zenon

\* The invariant through periodic, when a leader sends its heartbeats.
LEMMA HeartbeatStep ==
  ASSUME IInv, NEW s \in Server, send_appendentries_all(s),
         last_applied_idx' = last_applied_idx
  PROVE  IInv' /\ Grows
<1> DEFINE D == Others(s)
           c == m_nLeaderCommit[s] + 1
           msgs == [d \in D |-> AppendEntries(s, next_idx[s][d], c)]
<1>1. /\ m_nLeaderCommit' = [m_nLeaderCommit EXCEPT ![s] = c]
      /\ net' = Sent(net, s, msgs)
      /\ timeout_elapsed' = [timeout_elapsed EXCEPT ![s] = 0]
  BY Zenon DEF send_appendentries_all
<1>2. /\ current_term' = current_term /\ m_voted_for' = m_voted_for /\ d_state' = d_state
      /\ votes_for_me' = votes_for_me /\ granted' = granted
      /\ log' = log /\ current_idx' = current_idx /\ commit_idx' = commit_idx
      /\ responded' = responded /\ next_idx' = next_idx
  BY Zenon DEF send_appendentries_all, electionVars, logVars
<1>3. TypeOK
  BY Zenon DEF IInv
<1>4. D \in SUBSET Server /\ c \in Nat /\ \A d \in D : next_idx[s][d] \in Nat
  BY <1>3 DEF Others, TypeOK
<1>5. msgs \in [D -> Message]
  BY <1>3, <1>4, MessageTypes, Zenon
<1>6. \A d \in D : msgs[d].type = "AE" /\ msgs[d].prev_log_idx = 0
  BY Zenon DEF AppendEntries
<1> HIDE DEF msgs, D, c
<1>7. /\ net' \in Channels
      /\ \A q, d \in Server : \A m \in InFlight(q, d)' :
           m \in InFlight(q, d) \/ (q = s /\ d \in D /\ m = msgs[d])
  BY <1>1, <1>3, <1>4, <1>5, NewMessages, NetAsIs, Zenon
<1>8. TypeOK'
  BY <1>1, <1>2, <1>3, <1>4, <1>7, Zenon DEF TypeOK, Channels
<1>9. Grows
  BY <1>2, <1>3, SameTerm, Zenon
<1>10. \A p, d \in Server : \A m \in InFlight(p, d)' :
         m \in InFlight(p, d) \/ MessageOK(p, d, m)'
  <2> SUFFICES ASSUME NEW p \in Server, NEW d \in Server, NEW m \in InFlight(p, d)',
                      m \notin InFlight(p, d)
               PROVE  MessageOK(p, d, m)'
    OBVIOUS
  <2>1. m.type = "AE" /\ m.prev_log_idx = 0
    BY <1>6, <1>7, Zenon
  <2> QED
    BY <2>1, PlainMessages
<1>11. \A n \in Server : last_applied_idx'[n] = commit_idx'[n]
  BY <1>2, Zenon DEF IInv, AppliedIsCommitted
<1>12. IInv'
  BY <1>2, <1>8, <1>9, <1>10, <1>11, StepPreserves, Zenon
<1> QED
  BY <1>9, <1>12, Zenon

\* Steps that change neither the election nor the channels.
LEMMA TickStep ==
  ASSUME IInv, NEW s \in Server, Tick(s), last_applied_idx' = last_applied_idx
  PROVE  IInv' /\ Grows
<1>1. TypeOK
  BY Zenon DEF IInv
<1>2. /\ timeout_elapsed' = [timeout_elapsed EXCEPT ![s] = @ + 1]
      /\ current_term' = current_term /\ m_voted_for' = m_voted_for /\ d_state' = d_state
      /\ votes_for_me' = votes_for_me /\ granted' = granted
      /\ log' = log /\ current_idx' = current_idx /\ commit_idx' = commit_idx
      /\ responded' = responded /\ net' = net
      /\ next_idx' = next_idx /\ m_nLeaderCommit' = m_nLeaderCommit
  BY Zenon DEF Tick, electionVars, logVars, leaderVars
<1>3. TypeOK'
  <2>1. timeout_elapsed' \in [Server -> Nat]
    BY <1>1, <1>2 DEF TypeOK
  <2> QED
    BY <1>1, <1>2, <2>1, Zenon DEF TypeOK
<1>4. Grows
  BY <1>1, <1>2, SameTerm, Zenon
<1>5. \A n \in Server : last_applied_idx'[n] = commit_idx'[n]
  BY <1>2, Zenon DEF IInv, AppliedIsCommitted
<1>6. \A p, d \in Server : \A m \in InFlight(p, d)' : m \in InFlight(p, d)
  BY <1>2, Zenon DEF InFlight
<1>7. IInv'
  BY <1>2, <1>3, <1>4, <1>5, <1>6, StepPreserves, Zenon
<1> QED
  BY <1>4, <1>7, Zenon

\* A follower has nothing left to apply when its timer ticks: the branch of
\* periodic that applies an entry is not taken.
LEMMA PeriodicStep ==
  ASSUME IInv, NEW s \in Server, periodic(s)
  PROVE  IInv' /\ Grows
<1>1. TypeOK /\ last_applied_idx[s] = commit_idx[s] /\ commit_idx[s] \in Nat
  BY Zenon DEF IInv, AppliedIsCommitted, TypeOK
<1>2. ~(last_applied_idx[s] < commit_idx[s])
  BY <1>1
<1>3. last_applied_idx' = [last_applied_idx EXCEPT ![s] = last_applied_idx[s]]
  BY <1>2, Zenon DEF periodic
<1>4. last_applied_idx' = last_applied_idx
  BY <1>1, <1>3, Zenon DEF TypeOK
<1>5. send_appendentries_all(s) \/ Tick(s) \/ become_candidate(s)
  BY <1>2, Zenon DEF periodic
<1> QED
  BY <1>4, <1>5, HeartbeatStep, TickStep, CandidateStep, Zenon

\* The first message of a channel is a message of the invariant, and what is
\* left when it is taken was in flight before.
LEMMA Arrived ==
  ASSUME IInv, NEW p \in Server, NEW s \in Server, net[p][s] # <<>>
  PROVE  /\ Head(net[p][s]) \in Message
         /\ MessageOK(p, s, Head(net[p][s]))
         /\ Taken(p, s) \in Channels
         /\ \A q, d \in Server : Elements(Taken(p, s)[q][d]) \subseteq InFlight(q, d)
<1>1. net \in Channels
  BY Zenon DEF IInv, TypeOK, Channels
<1>2. \A q, d \in Server : Elements(net[q][d]) = InFlight(q, d)
  BY Zenon DEF Elements, InFlight
<1>3. /\ Taken(p, s) \in Channels
      /\ Head(net[p][s]) \in Message
      /\ Head(net[p][s]) \in Elements(net[p][s])
      /\ \A q, d \in Server : Elements(Taken(p, s)[q][d]) \subseteq Elements(net[q][d])
  BY <1>1, TakenNet, Zenon
<1>4. MessageOK(p, s, Head(net[p][s]))
  BY <1>2, <1>3, Zenon DEF IInv, MessagesOK
<1> QED
  BY <1>2, <1>3, <1>4, Zenon

\* A message that is lost, or that a leader ignores.
LEMMA DropStep ==
  ASSUME IInv, NEW s \in Server, NEW p \in Server,
         net[p][s] # <<>>, net' = Taken(p, s),
         UNCHANGED <<electionVars, logVars, leaderVars, last_applied_idx, timeout_elapsed>>
  PROVE  IInv' /\ Grows
<1>1. TypeOK
  BY Zenon DEF IInv
<1>2. /\ net[p][s] # <<>> /\ net' = Taken(p, s)
      /\ current_term' = current_term /\ m_voted_for' = m_voted_for /\ d_state' = d_state
      /\ votes_for_me' = votes_for_me /\ granted' = granted
      /\ log' = log /\ current_idx' = current_idx /\ commit_idx' = commit_idx
      /\ responded' = responded
      /\ next_idx' = next_idx /\ m_nLeaderCommit' = m_nLeaderCommit
      /\ last_applied_idx' = last_applied_idx /\ timeout_elapsed' = timeout_elapsed
  BY Zenon DEF electionVars, logVars, leaderVars
<1>3. net' \in Channels /\ \A q, d \in Server : InFlight(q, d)' \subseteq InFlight(q, d)
  <2>1. \A q, d \in Server : Elements(net'[q][d]) = InFlight(q, d)'
    BY Zenon DEF Elements, InFlight
  <2>2. /\ Taken(p, s) \in Channels
        /\ \A q, d \in Server : Elements(Taken(p, s)[q][d]) \subseteq InFlight(q, d)
    BY <1>2, Arrived, Zenon
  <2> QED
    BY <1>2, <2>1, <2>2, Zenon
<1>4. TypeOK'
  BY <1>1, <1>2, <1>3, Zenon DEF TypeOK, Channels
<1>5. Grows
  BY <1>1, <1>2, SameTerm, Zenon
<1>6. \A n \in Server : last_applied_idx'[n] = commit_idx'[n]
  BY <1>2, Zenon DEF IInv, AppliedIsCommitted
<1>7. IInv'
  BY <1>2, <1>3, <1>4, <1>5, <1>6, StepPreserves, Zenon
<1> QED
  BY <1>5, <1>7, Zenon

\* What is in the channels after a handler took a message and answered it.
LEMMA Reply ==
  ASSUME IInv, NEW p \in Server, NEW s \in Server, net[p][s] # <<>>,
         NEW D \in SUBSET Server, NEW msgs \in [D -> Message],
         net' = Sent(Taken(p, s), s, msgs)
  PROVE  /\ net' \in Channels
         /\ \A q, d \in Server : \A m \in InFlight(q, d)' :
              m \in InFlight(q, d) \/ (q = s /\ d \in D /\ m = msgs[d])
<1>1. /\ Taken(p, s) \in Channels
      /\ \A q, d \in Server : Elements(Taken(p, s)[q][d]) \subseteq InFlight(q, d)
  BY Arrived, Zenon
<1> QED
  BY <1>1, NewMessages, Zenon

\* A vote is granted for a term and a log position that the candidate, when it
\* asked, had reached; it has not gone back since.
LEMMA RequestVoteStep ==
  ASSUME IInv, NEW s \in Server, NEW p \in Server, net[p][s] # <<>>,
         Head(net[p][s]).type = "RV", recv_requestvote(s, p, Head(net[p][s]))
  PROVE  /\ IInv' /\ Grows
         /\ \A g \in granted' \ granted : /\ current_idx[g.cand] >= current_idx[g.voter]
                                          /\ g.term <= current_term[g.cand]
<1> DEFINE rv == Head(net[p][s])
           voted == IF current_term[s] < rv.term THEN Nil ELSE m_voted_for[s]
           grant == GrantsVote(s, voted, rv)
           vote == [voter |-> s, cand |-> p, term |-> rv.term]
           msgs == [d \in {p} |-> VoteReply(s, grant)]
<1>1. TypeOK
  BY Zenon DEF IInv
<1>2. /\ rv.term \in Nat /\ rv.last_log_idx \in Nat
      /\ rv.term <= current_term[p] /\ rv.last_log_idx <= current_idx[p]
  <2>1. rv \in Message /\ MessageOK(p, s, rv)
    BY Arrived, Zenon
  <2> QED
    BY <2>1, Zenon DEF Message, MessageOK
<1>3. /\ m_voted_for' = [m_voted_for EXCEPT ![s] = IF grant THEN p ELSE voted]
      /\ granted' = IF grant THEN granted \cup {vote} ELSE granted
      /\ net' = Sent(Taken(p, s), s, msgs)
      /\ current_term' = current_term /\ d_state' = d_state
      /\ votes_for_me' = votes_for_me
      /\ log' = log /\ current_idx' = current_idx /\ commit_idx' = commit_idx
      /\ responded' = responded
      /\ next_idx' = next_idx /\ m_nLeaderCommit' = m_nLeaderCommit
      /\ last_applied_idx' = last_applied_idx /\ timeout_elapsed' = timeout_elapsed
  BY Zenon DEF recv_requestvote, logVars, leaderVars
<1>4. grant \in BOOLEAN /\ voted \in Server \cup {Nil}
  BY <1>1, Zenon DEF GrantsVote, TypeOK
<1>5. {p} \in SUBSET Server /\ msgs \in [{p} -> Message]
  BY <1>1, <1>4, MessageTypes, Zenon
<1>6. msgs[p] = [type |-> "RVR", term |-> current_term[s], vote_granted |-> grant]
  BY Zenon DEF VoteReply
<1>7. vote \in [voter : Server, cand : Server, term : Nat]
  BY <1>2, Zenon
<1>8. grant => rv.last_log_idx >= current_idx[s]
  BY Zenon DEF GrantsVote
<1> HIDE DEF rv, voted, grant, msgs
<1>9. /\ net' \in Channels
      /\ \A q, d \in Server : \A m \in InFlight(q, d)' :
           m \in InFlight(q, d) \/ (q = s /\ d \in {p} /\ m = msgs[d])
  BY <1>3, <1>5, Reply, Zenon
<1>10. TypeOK'
  BY <1>1, <1>3, <1>4, <1>7, <1>9, Zenon DEF TypeOK, Channels
<1>11. Grows
  BY <1>1, <1>3, SameTerm, Zenon
<1>12. ASSUME NEW m, m = msgs[p]
       PROVE  MessageOK(s, p, m)'
  <2>1. m.type = "RVR" /\ m.vote_granted = grant
    BY <1>6, <1>12
  <2>2. grant => HasGrant(s, p)'
    <3>1. vote.voter = s /\ vote.cand = p /\ vote.term = rv.term
      OBVIOUS
    <3>2. grant => vote \in granted'
      BY <1>3, Zenon
    <3>3. vote.term <= current_term'[p]
      BY <1>2, <1>3, <3>1, Zenon
    <3> HIDE DEF vote
    <3> QED
      BY <3>1, <3>2, <3>3, Zenon DEF HasGrant, Granted
  <2> QED
    BY <2>1, <2>2, Zenon DEF MessageOK
<1>13. \A q, d \in Server : \A m \in InFlight(q, d)' :
         m \in InFlight(q, d) \/ MessageOK(q, d, m)'
  BY <1>9, <1>12, Zenon
<1>14. \A n \in Server : last_applied_idx'[n] = commit_idx'[n]
  BY <1>3, Zenon DEF IInv, AppliedIsCommitted
<1>15. IInv'
  BY <1>3, <1>10, <1>11, <1>13, <1>14, StepPreserves, Zenon
<1>16. ASSUME NEW g \in granted' \ granted
       PROVE  current_idx[g.cand] >= current_idx[g.voter] /\ g.term <= current_term[g.cand]
  <2>1. grant /\ g = vote
    BY <1>3, Zenon
  <2>2. current_idx[p] \in Nat /\ current_idx[s] \in Nat
    BY <1>1, Zenon DEF TypeOK
  <2>3. current_idx[p] >= current_idx[s]
    <3>1. rv.last_log_idx >= current_idx[s]
      BY <1>8, <2>1, Zenon
    <3> QED
      BY <1>2, <2>2, <3>1, Between, Zenon
  <2> QED
    BY <1>2, <2>1, <2>3, Zenon
<1> QED
  BY <1>11, <1>15, <1>16, Zenon

\* A flag that recv_requestvote_response sets was granted; a server becomes leader
\* only when the flags of other nodes, and its own vote, are enough.
LEMMA VoteResponseStep ==
  ASSUME IInv, NEW s \in Server, NEW p \in Server, net[p][s] # <<>>,
         Head(net[p][s]).type = "RVR", recv_requestvote_response(s, p, Head(net[p][s])),
         d_state[s] # Leader
  PROVE  IInv' /\ Grows
<1> DEFINE rvr == Head(net[p][s])
           flags == [votes_for_me[s] EXCEPT ![p] = rvr.vote_granted]
           wins == rvr.vote_granted
                     /\ raft_votes_is_majority(N - 1, get_nvotes_for_me(s, flags))
           D == IF wins THEN OthersSkipLeader(s) ELSE {}
           msgs == [d \in D |-> AppendEntries(s, current_idx[s] + 1, m_nLeaderCommit[s])]
           next(n) == IF wins /\ n \in OthersSkipLeader(s)
                        THEN current_idx[s] + 1 ELSE next_idx[s][n]
<1>1. TypeOK
  BY Zenon DEF IInv
<1>17. current_idx[s] + 1 \in Nat /\ m_nLeaderCommit[s] \in Nat
  <2>1. current_idx[s] \in Nat /\ m_nLeaderCommit[s] \in Nat
    BY <1>1, Zenon DEF TypeOK
  <2> QED
    BY <2>1
<1>2. rvr.vote_granted \in BOOLEAN /\ (rvr.vote_granted => HasGrant(p, s))
  <2>1. rvr \in Message /\ MessageOK(p, s, rvr)
    BY Arrived, Zenon
  <2> QED
    BY <2>1, Zenon DEF Message, MessageOK
<1>3. /\ votes_for_me' = [votes_for_me EXCEPT ![s] = flags]
      /\ d_state' = [d_state EXCEPT ![s] = IF wins THEN Leader ELSE @]
      /\ m_voted_for' = [m_voted_for EXCEPT ![s] = IF wins THEN Nil ELSE @]
      /\ next_idx' = [next_idx EXCEPT ![s] = [n \in Server |-> next(n)]]
      /\ net' = Sent(Taken(p, s), s, msgs)
      /\ current_term' = current_term /\ granted' = granted
      /\ log' = log /\ current_idx' = current_idx /\ commit_idx' = commit_idx
      /\ responded' = responded /\ m_nLeaderCommit' = m_nLeaderCommit
      /\ last_applied_idx' = last_applied_idx /\ timeout_elapsed' = timeout_elapsed
  BY Zenon DEF recv_requestvote_response, RecvVote, logVars
<1>4. D \in SUBSET Server /\ msgs \in [D -> Message]
  <2> QED
    BY <1>1, <1>17, MessageTypes, Zenon DEF OthersSkipLeader, Others
<1>5. \A d \in D : msgs[d].type = "AE" /\ msgs[d].prev_log_idx = 0
  BY Zenon DEF AppendEntries
<1>6. \A n \in Server : next(n) \in Nat
  BY <1>17, <1>1, Zenon DEF TypeOK
<1>7. flags \in [Server -> BOOLEAN] /\ \A n \in Server : flags[n] => HasGrant(n, s)
  BY <1>1, <1>2, Zenon DEF TypeOK, IInv, FlagsOK
<1>8. wins => Elected(s)
  <2> DEFINE A == {n \in Others(s) : flags[n]}
             B == {n \in Others(s) : Granted(n, s) # {}}
             own == IF m_voted_for[s] = s THEN 1 ELSE 0
  <2>1. A \subseteq B
    BY <1>7, Zenon DEF HasGrant, Others
  <2>2. IsFiniteSet(B)
    BY FS_Subset, RaftServerAssumption, Zenon DEF Others
  <2>3. Cardinality(A) <= Cardinality(B) /\ Cardinality(A) \in Nat /\ Cardinality(B) \in Nat
    BY <2>1, <2>2, FS_Subset, FS_CardinalityType, Zenon
  <2>4. wins => (N - 1) \div 2 + 1 <= Cardinality(A) + own
    BY Zenon DEF raft_votes_is_majority, get_nvotes_for_me
  <2>5. N \in Nat /\ own \in {0, 1}
    BY RaftServerAssumption, FS_CardinalityType, Zenon DEF N
  <2> HIDE DEF A, B, own, wins
  <2>6. wins => (N - 1) \div 2 + 1 <= Cardinality(B) + 1
    BY <2>3, <2>4, <2>5
  <2> QED
    BY <2>6, Zenon DEF Elected, B
<1> HIDE DEF rvr, flags, wins, D, msgs, next
<1>9. /\ net' \in Channels
      /\ \A q, d \in Server : \A m \in InFlight(q, d)' :
           m \in InFlight(q, d) \/ (q = s /\ d \in D /\ m = msgs[d])
  BY <1>3, <1>4, Reply, Zenon
<1>10. TypeOK'
  BY <1>1, <1>3, <1>6, <1>7, <1>9, Zenon DEF TypeOK, Channels, Leader
<1>11. Grows
  BY <1>1, <1>3, SameTerm, Zenon
<1>12. \A q, d \in Server : \A m \in InFlight(q, d)' :
         m \in InFlight(q, d) \/ MessageOK(q, d, m)'
  BY <1>5, <1>9, PlainMessages
<1>13. \A n \in Server : last_applied_idx'[n] = commit_idx'[n]
  BY <1>3, Zenon DEF IInv, AppliedIsCommitted
<1>14. \A n, q \in Server : votes_for_me'[n][q] => votes_for_me[n][q] \/ HasGrant(q, n)'
  <2>1. \A q \in Server : HasGrant(q, s) => HasGrant(q, s)'
    BY <1>1, <1>10, <1>11, GrantStays, Zenon
  <2> QED
    BY <1>1, <1>3, <1>7, <2>1, Zenon DEF TypeOK
<1>15. \A n \in Server : d_state'[n] = Leader => d_state[n] = Leader \/ Elected(n)'
  BY <1>1, <1>3, <1>8, <1>11, ElectedStays, Zenon DEF TypeOK
<1>16. IInv'
  BY <1>10, <1>11, <1>12, <1>13, <1>14, <1>15, StepPreserves, Zenon
<1> QED
  BY <1>11, <1>16, Zenon

\* No AppendEntries names a previous entry, so the log is not touched and only a
\* message of an earlier term is rejected.
LEMMA AppendEntriesStep ==
  ASSUME IInv, NEW s \in Server, NEW p \in Server, net[p][s] # <<>>,
         Head(net[p][s]).type = "AE", recv_appendentries(s, p, Head(net[p][s]))
  PROVE  IInv' /\ Grows
<1> DEFINE ae == Head(net[p][s])
           success == ~(ae.term < current_term[s])
           l == log[s]
           commits == success /\ commit_idx[s] < ae.leader_commit /\ l # <<>>
           k == IF l[Len(l)].d_id < ae.leader_commit THEN l[Len(l)].d_id ELSE ae.leader_commit
           applied == IF k < Len(l) THEN Len(l) ELSE k
           follows == \/ d_state[s] = Leader /\ success
                      \/ d_state[s] = Candidate /\ success
           term == IF success THEN ae.term ELSE current_term[s]
           msgs == [d \in {p} |-> IF success THEN Accepted(s, ae) ELSE Rejected(s)]
<1>1. TypeOK
  BY Zenon DEF IInv
<1>2. /\ ae \in [type : {"AE"}, term : Nat, prev_log_idx : Nat, prev_log_term : Nat,
                 leader_commit : Nat]
      /\ ae.prev_log_idx = 0
  <2>1. ae \in Message /\ MessageOK(p, s, ae)
    BY Arrived, Zenon
  <2> QED
    BY <2>1, Zenon DEF Message, MessageOK
<1>3. /\ timeout_elapsed' = [timeout_elapsed EXCEPT ![s] = 0]
      /\ d_state' = [d_state EXCEPT ![s] = IF follows THEN Follower ELSE @]
      /\ m_voted_for' = [m_voted_for EXCEPT ![s] = IF follows THEN Nil ELSE @]
      /\ log' = [log EXCEPT ![s] = l]
      /\ commit_idx' = [commit_idx EXCEPT ![s] = IF commits THEN applied ELSE @]
      /\ last_applied_idx' = [last_applied_idx EXCEPT ![s] = IF commits THEN applied ELSE @]
      /\ current_term' = [current_term EXCEPT ![s] = term]
      /\ net' = Sent(Taken(p, s), s, msgs)
      /\ votes_for_me' = votes_for_me /\ granted' = granted /\ current_idx' = current_idx
      /\ responded' = responded /\ next_idx' = next_idx
      /\ m_nLeaderCommit' = m_nLeaderCommit
  BY <1>2, Zenon DEF recv_appendentries, TermAfter, leaderVars
<1>4. term \in Nat /\ current_term[s] <= term
  <2>1. ae.term \in Nat /\ current_term[s] \in Nat
    BY <1>1, <1>2, Zenon DEF TypeOK
  <2> HIDE DEF ae
  <2> QED
    BY <2>1
<1>5. commits => applied \in Nat
  <2>1. l \in Seq(Entry) /\ ae.leader_commit \in Nat
    BY <1>1, <1>2, Zenon DEF TypeOK
  <2>2. l # <<>> => Len(l) \in Nat /\ l[Len(l)] \in Entry
    BY <2>1
  <2>3. l # <<>> => l[Len(l)].d_id \in Nat
    BY <2>2, Zenon DEF Entry
  <2> HIDE DEF l
  <2> QED
    BY <2>1, <2>2, <2>3, Zenon
<1>6. {p} \in SUBSET Server /\ msgs \in [{p} -> Message]
  BY <1>1, <1>2, MessageTypes, Zenon
<1>7. \A d \in {p} : msgs[d].type = "AER"
  BY Zenon DEF Accepted, Rejected
<1>8. log' = log
  BY <1>1, <1>3, Zenon DEF TypeOK
<1> HIDE DEF ae, success, l, commits, k, applied, follows, term, msgs
<1>9. /\ net' \in Channels
      /\ \A q, d \in Server : \A m \in InFlight(q, d)' :
           m \in InFlight(q, d) \/ (q = s /\ d \in {p} /\ m = msgs[d])
  BY <1>3, <1>6, Reply, Zenon
<1>10. TypeOK'
  <2>1. commit_idx' \in [Server -> Nat] /\ last_applied_idx' \in [Server -> Nat]
    BY <1>1, <1>3, <1>5, Zenon DEF TypeOK
  <2>2. m_voted_for' \in [Server -> Server \cup {Nil}]
    BY <1>1, <1>3, Zenon DEF TypeOK
  <2>3. d_state' \in [Server -> {Follower, Candidate, Leader}]
    BY <1>1, <1>3, Zenon DEF TypeOK
  <2> QED
    BY <1>1, <1>3, <1>4, <1>8, <1>9, <2>1, <2>2, <2>3, Zenon DEF TypeOK, Channels
<1>11. Grows
  BY <1>1, <1>3, <1>4, LaterTerm, Zenon
<1>12. \A q, d \in Server : \A m \in InFlight(q, d)' :
         m \in InFlight(q, d) \/ MessageOK(q, d, m)'
  <2> SUFFICES ASSUME NEW q \in Server, NEW d \in Server, NEW m \in InFlight(q, d)',
                      m \notin InFlight(q, d)
               PROVE  MessageOK(q, d, m)'
    OBVIOUS
  <2>1. m.type = "AER"
    BY <1>7, <1>9, Zenon
  <2> QED
    BY <2>1, PlainMessages
<1>13. \A n \in Server : last_applied_idx'[n] = commit_idx'[n]
  BY <1>1, <1>3, Zenon DEF IInv, AppliedIsCommitted, TypeOK
<1>14. \A n \in Server : d_state'[n] = Leader => d_state[n] = Leader
  BY <1>1, <1>3, Zenon DEF TypeOK, Follower, Leader
<1>15. IInv'
  BY <1>3, <1>10, <1>11, <1>12, <1>13, <1>14, StepPreserves, Zenon
<1> QED
  BY <1>11, <1>15, Zenon

\* Marking entries leaves their number and their types.
LEMMA MarkedType ==
  ASSUME NEW l \in Seq(Entry), NEW i \in Nat, NEW j \in Nat
  PROVE  Marked(l, i, j) \in Seq(Entry)
<1>1. Len(l) \in Nat /\ \A e \in 1..Len(l) : l[e] \in Entry
  OBVIOUS
<1> DEFINE mark(e) == IF e \in i..j THEN [l[e] EXCEPT !.d_num_nodes = @ + 1] ELSE l[e]
<1>2. \A e \in 1..Len(l) : mark(e) \in Entry
  <2>1. ASSUME NEW x \in Entry
        PROVE  [x EXCEPT !.d_num_nodes = @ + 1] \in Entry
    <3>1. x.d_num_nodes + 1 \in Nat
      BY DEF Entry
    <3> QED
      BY <3>1, Zenon DEF Entry
  <2> QED
    BY <1>1, <2>1, Zenon
<1>3. Marked(l, i, j) = [e \in 1..Len(l) |-> mark(e)]
  BY Zenon DEF Marked
<1> HIDE DEF mark
<1> QED
  BY <1>1, <1>2, <1>3

\* The commit loop stops at an index between where it starts and the index the
\* follower reports.
LEMMA LoopEnds ==
  ASSUME NEW l, NEW commit \in Nat, NEW last \in Nat, commit <= last
  PROVE  LET reached == Reached(l, commit, last)
             top == CHOOSE k \in reached : \A j \in reached : j <= k
         IN  top \in commit..last
<1> DEFINE reached == Reached(l, commit, last)
           top == CHOOSE k \in reached : \A j \in reached : j <= k
<1>1. reached \subseteq commit..last
  BY Zenon DEF Reached
<1>2. commit \in reached
  <2>1. commit \in commit..last /\ (commit + 1)..commit = {} /\ (commit + 1)..(commit - 1) = {}
    OBVIOUS
  <2> QED
    BY <2>1, Zenon DEF Reached
<1> HIDE DEF reached
<1>3. \E k \in reached : \A j \in reached : j <= k
  <2>1. /\ last \in Int /\ reached \in SUBSET Int /\ reached # {}
        /\ \A x \in reached : x <= last
    BY <1>1, <1>2
  <2> QED
    BY <2>1, MaxExists, Zenon
<1>4. top \in reached
  BY <1>3, Zenon
<1> QED
  BY <1>1, <1>4, Zenon DEF reached

\* The invariant through recv_appendentries_response.
LEMMA AppendResponseStep ==
  ASSUME IInv, NEW s \in Server, NEW p \in Server, net[p][s] # <<>>,
         Head(net[p][s]).type = "AER",
         recv_appendentries_response(s, p, Head(net[p][s]))
  PROVE  IInv' /\ Grows
<1> DEFINE r == Head(net[p][s])
<1>1. TypeOK
  BY Zenon DEF IInv
<1>2. r.success \in BOOLEAN /\ r.current_idx \in Nat /\ r.first_idx \in Nat
  <2>1. r \in Message
    BY Arrived, Zenon
  <2> QED
    BY <2>1, Zenon DEF Message
<1>3. /\ current_term' = current_term /\ m_voted_for' = m_voted_for /\ d_state' = d_state
      /\ votes_for_me' = votes_for_me /\ granted' = granted
      /\ current_idx' = current_idx /\ responded' = responded
      /\ m_nLeaderCommit' = m_nLeaderCommit /\ timeout_elapsed' = timeout_elapsed
  BY Zenon DEF recv_appendentries_response, electionVars, logVars, leaderVars
<1>4. Grows
  BY <1>1, <1>3, SameTerm, Zenon
<1>5. CASE r.success
  <2> DEFINE l == Marked(log[s], r.first_idx, r.current_idx)
             throws == r.first_idx <= r.current_idx /\ ~HasEntry(log[s], r.current_idx)
             reached == Reached(l, last_applied_idx[s], r.current_idx)
             top == CHOOSE k \in reached : \A j \in reached : j <= k
             commits == ~throws /\ commit_idx[s] < r.current_idx
  <2>1. /\ next_idx' = [next_idx EXCEPT ![s][p] = r.current_idx]
        /\ log' = [log EXCEPT ![s] = l]
        /\ last_applied_idx' = [last_applied_idx EXCEPT ![s] = IF commits THEN top ELSE @]
        /\ commit_idx' =
             [commit_idx EXCEPT ![s] = IF commits THEN CommitAfterApply(@, top) ELSE @]
        /\ net' = Taken(p, s)
    BY <1>5, Zenon DEF recv_appendentries_response
  <2>2. l \in Seq(Entry)
    BY <1>1, <1>2, MarkedType, Zenon DEF TypeOK
  <2>3. last_applied_idx[s] = commit_idx[s] /\ commit_idx[s] \in Nat
    BY <1>1, Zenon DEF IInv, AppliedIsCommitted, TypeOK
  <2>4. commits => top \in last_applied_idx[s]..r.current_idx
    <3>1. commits => last_applied_idx[s] <= r.current_idx
      BY <1>2, <2>3
    <3> QED
      BY <1>2, <2>3, <3>1, LoopEnds, Zenon
  <2> HIDE DEF r, l, throws, reached, top, commits
  <2>5. commits => top \in Nat /\ CommitAfterApply(commit_idx[s], top) = top
    BY <1>2, <2>3, <2>4 DEF CommitAfterApply
  <2>6. /\ Taken(p, s) \in Channels
        /\ \A q, d \in Server : Elements(Taken(p, s)[q][d]) \subseteq InFlight(q, d)
    BY Arrived, Zenon
  <2>7. \A q, d \in Server : \A m \in InFlight(q, d)' : m \in InFlight(q, d)
    <3>1. \A q, d \in Server : Elements(net'[q][d]) = InFlight(q, d)'
      BY Zenon DEF Elements, InFlight
    <3> QED
      BY <2>1, <2>6, <3>1, Zenon
  <2>8. \A n \in Server : last_applied_idx'[n] = commit_idx'[n]
    BY <1>1, <2>1, <2>5, Zenon DEF IInv, AppliedIsCommitted, TypeOK
  <2>9. TypeOK'
    <3>1. last_applied_idx' \in [Server -> Nat]
      BY <1>1, <2>1, <2>5, Zenon DEF TypeOK
    <3>2. commit_idx' \in [Server -> Nat]
      BY <1>1, <2>1, <2>5, Zenon DEF TypeOK
    <3>3. log' \in [Server -> Seq(Entry)]
      BY <1>1, <2>1, <2>2, Zenon DEF TypeOK
    <3>4. next_idx' \in [Server -> [Server -> Nat]]
      BY <1>1, <1>2, <2>1, Zenon DEF TypeOK
    <3> QED
      BY <1>1, <1>3, <2>1, <2>6, <3>1, <3>2, <3>3, <3>4, Zenon DEF TypeOK, Channels
  <2> QED
    BY <1>3, <1>4, <2>7, <2>8, <2>9, StepPreserves, Zenon
<1>6. CASE ~r.success
  <2> DEFINE msgs == [d \in {p} |-> AppendEntries(s, next_idx[s][p], m_nLeaderCommit[s])]
  <2>1. /\ net' = Sent(Taken(p, s), s, msgs)
        /\ log' = log /\ commit_idx' = commit_idx /\ next_idx' = next_idx
        /\ last_applied_idx' = last_applied_idx
    BY <1>6, Zenon DEF recv_appendentries_response, logVars, leaderVars
  <2>2. {p} \in SUBSET Server /\ msgs \in [{p} -> Message]
    <3>1. next_idx[s][p] \in Nat /\ m_nLeaderCommit[s] \in Nat
      BY <1>1, Zenon DEF TypeOK
    <3> QED
      BY <1>1, <3>1, MessageTypes, Zenon
  <2>3. \A d \in {p} : msgs[d].type = "AE" /\ msgs[d].prev_log_idx = 0
    BY Zenon DEF AppendEntries
  <2> HIDE DEF msgs, r
  <2>4. /\ net' \in Channels
        /\ \A q, d \in Server : \A m \in InFlight(q, d)' :
             m \in InFlight(q, d) \/ (q = s /\ d \in {p} /\ m = msgs[d])
    BY <2>1, <2>2, Reply, Zenon
  <2>5. TypeOK'
    BY <1>1, <1>3, <2>1, <2>4, Zenon DEF TypeOK, Channels
  <2>6. \A q, d \in Server : \A m \in InFlight(q, d)' :
          m \in InFlight(q, d) \/ MessageOK(q, d, m)'
    <3> SUFFICES ASSUME NEW q \in Server, NEW d \in Server, NEW m \in InFlight(q, d)',
                        m \notin InFlight(q, d)
                 PROVE  MessageOK(q, d, m)'
      OBVIOUS
    <3>1. d \in {p} /\ m = msgs[d]
      BY <2>4, Zenon
    <3>2. m.type = "AE" /\ m.prev_log_idx = 0
      BY <2>3, <3>1, Zenon
    <3> QED
      BY <3>2, PlainMessages
  <2>7. \A n \in Server : last_applied_idx'[n] = commit_idx'[n]
    BY <2>1, Zenon DEF IInv, AppliedIsCommitted
  <2> QED
    BY <1>3, <1>4, <2>5, <2>6, <2>7, StepPreserves, Zenon
<1> QED
  BY <1>4, <1>5, <1>6, Zenon

\* The invariant through recv_entry.
LEMMA EntryStep ==
  ASSUME IInv, NEW s \in Server, NEW id \in EntryId, recv_entry(s, id)
  PROVE  IInv' /\ Grows
<1> DEFINE new == [d_term |-> current_term[s], d_id |-> id, d_num_nodes |-> 0]
           msgs == [d \in Others(s) |->
                      AppendEntries(s, next_idx[s][d], m_nLeaderCommit[s])]
<1>1. TypeOK
  BY Zenon DEF IInv
<1>2. /\ log' = [log EXCEPT ![s] = IF id # 0 THEN Append(@, new) ELSE @]
      /\ current_idx' = [current_idx EXCEPT ![s] = IF id # 0 THEN @ + 1 ELSE @]
      /\ responded' = responded \cup {[server |-> s, id |-> id, was_committed |-> id # 0]}
      /\ net' = Sent(net, s, msgs)
      /\ current_term' = current_term /\ m_voted_for' = m_voted_for /\ d_state' = d_state
      /\ votes_for_me' = votes_for_me /\ granted' = granted /\ commit_idx' = commit_idx
      /\ next_idx' = next_idx /\ m_nLeaderCommit' = m_nLeaderCommit
      /\ last_applied_idx' = last_applied_idx /\ timeout_elapsed' = timeout_elapsed
  BY Zenon DEF recv_entry, electionVars, leaderVars
<1>3. id \in Nat /\ new \in Entry
  BY <1>1, RaftServerAssumption, Zenon DEF TypeOK, Entry
<1>4. Others(s) \in SUBSET Server /\ msgs \in [Others(s) -> Message]
  <2>1. m_nLeaderCommit[s] \in Nat /\ \A d \in Others(s) : next_idx[s][d] \in Nat
    BY <1>1, Zenon DEF TypeOK, Others
  <2> QED
    BY <1>1, <2>1, MessageTypes, Zenon DEF Others
<1>5. \A d \in Others(s) : msgs[d].type = "AE" /\ msgs[d].prev_log_idx = 0
  BY Zenon DEF AppendEntries
<1> HIDE DEF new, msgs
<1>6. /\ net' \in Channels
      /\ \A q, d \in Server : \A m \in InFlight(q, d)' :
           m \in InFlight(q, d) \/ (q = s /\ d \in Others(s) /\ m = msgs[d])
  BY <1>1, <1>2, <1>4, NewMessages, NetAsIs, Zenon
<1>7. TypeOK'
  <2>1. log' \in [Server -> Seq(Entry)]
    <3>1. log \in [Server -> Seq(Entry)]
      BY <1>1, Zenon DEF TypeOK
    <3>2. Append(log[s], new) \in Seq(Entry)
      BY <1>3, <3>1
    <3>3. log' = [log EXCEPT ![s] = IF id # 0 THEN Append(@, new) ELSE @]
      BY <1>2, Zenon
    <3> QED
      BY <3>1, <3>2, <3>3, Zenon
  <2>2. current_idx' \in [Server -> Nat]
    <3>1. current_idx \in [Server -> Nat]
      BY <1>1, Zenon DEF TypeOK
    <3>2. current_idx' = [current_idx EXCEPT ![s] = IF id # 0 THEN @ + 1 ELSE @]
      BY <1>2, Zenon
    <3> QED
      BY <3>1, <3>2
  <2>3. responded' \subseteq [server : Server, id : Nat, was_committed : BOOLEAN]
    <3>1. [server |-> s, id |-> id, was_committed |-> id # 0]
             \in [server : Server, id : Nat, was_committed : BOOLEAN]
      BY <1>3, Zenon
    <3> QED
      BY <1>1, <1>2, <3>1, Zenon DEF TypeOK
  <2> QED
    BY <1>1, <1>2, <1>6, <2>1, <2>2, <2>3, Zenon DEF TypeOK, Channels
<1>8. Grows
  <2>1. \A n \in Server : current_idx[n] \in Nat /\ current_term[n] \in Nat
    BY <1>1, Zenon DEF TypeOK
  <2>2. \A n \in Server : current_idx'[n] = current_idx[n] \/ current_idx'[n] = current_idx[n] + 1
    BY <1>1, <1>2, Zenon DEF TypeOK
  <2>3. \A n \in Server : current_idx[n] <= current_idx'[n] /\ current_term[n] <= current_term[n]
    BY <2>1, <2>2
  <2> QED
    BY <1>2, <2>3, Zenon DEF Grows
<1>9. \A q, d \in Server : \A m \in InFlight(q, d)' :
        m \in InFlight(q, d) \/ MessageOK(q, d, m)'
  <2> SUFFICES ASSUME NEW q \in Server, NEW d \in Server, NEW m \in InFlight(q, d)',
                      m \notin InFlight(q, d)
               PROVE  MessageOK(q, d, m)'
    OBVIOUS
  <2>1. m.type = "AE" /\ m.prev_log_idx = 0
    BY <1>5, <1>6, Zenon
  <2> QED
    BY <2>1, PlainMessages
<1>10. \A n \in Server : last_applied_idx'[n] = commit_idx'[n]
  BY <1>2, Zenon DEF IInv, AppliedIsCommitted
<1>11. IInv'
  BY <1>2, <1>7, <1>8, <1>9, <1>10, StepPreserves, Zenon
<1> QED
  BY <1>8, <1>11, Zenon

\* The invariant through every message handler.
LEMMA ReceiveStep ==
  ASSUME IInv, NEW s \in Server, NEW p \in Server, Receive(s, p)
  PROVE  IInv' /\ Grows
<1> DEFINE m == Head(net[p][s])
<1>1. net[p][s] # <<>>
  BY Zenon DEF Receive
<1>2. CASE m.type = "RV" /\ recv_requestvote(s, p, m)
  BY <1>1, <1>2, RequestVoteStep, Zenon
<1>3. CASE m.type = "RVR" /\ recv_requestvote_response(s, p, m)
  <2>1. CASE d_state[s] = Leader
    BY <1>1, <1>3, <2>1, DropStep, Zenon DEF recv_requestvote_response, RecvVote
  <2>2. CASE d_state[s] # Leader
    BY <1>1, <1>3, <2>2, VoteResponseStep, Zenon
  <2> QED
    BY <2>1, <2>2, Zenon
<1>4. CASE m.type = "AE" /\ recv_appendentries(s, p, m)
  BY <1>1, <1>4, AppendEntriesStep, Zenon
<1>5. CASE m.type = "AER" /\ recv_appendentries_response(s, p, m)
  BY <1>1, <1>5, AppendResponseStep, Zenon
<1> QED
  BY <1>2, <1>3, <1>4, <1>5, Zenon DEF Receive

\* Every step of the library preserves the invariant and takes no server back.
LEMMA NextStep ==
  ASSUME IInv, [Next]_vars
  PROVE  IInv' /\ Grows
<1>1. CASE Next
  <2>1. ASSUME NEW s \in Server, periodic(s) PROVE IInv' /\ Grows
    BY <2>1, PeriodicStep, Zenon
  <2>2. ASSUME NEW s \in Server, NEW p \in Server, Receive(s, p) PROVE IInv' /\ Grows
    BY <2>2, ReceiveStep, Zenon
  <2>3. ASSUME NEW s \in Server, NEW p \in Server, Lose(p, s) PROVE IInv' /\ Grows
    BY <2>3, DropStep, Zenon DEF Lose
  <2>4. ASSUME NEW s \in Server, NEW id \in EntryId, recv_entry(s, id) PROVE IInv' /\ Grows
    BY <2>4, EntryStep, Zenon
  <2> QED
    BY <1>1, <2>1, <2>2, <2>3, <2>4, Zenon DEF Next
<1>2. CASE UNCHANGED vars
  <2>1. TypeOK
    BY Zenon DEF IInv
  <2>2. Grows
    BY <1>2, <2>1, SameTerm, Zenon DEF vars, electionVars, logVars
  <2>3. TypeOK'
    BY <1>2, <2>1, Zenon DEF vars, electionVars, logVars, leaderVars, TypeOK
  <2>4. /\ \A s \in Server : last_applied_idx'[s] = commit_idx'[s]
        /\ \A p, d \in Server : \A m \in InFlight(p, d)' : m \in InFlight(p, d)
        /\ votes_for_me' = votes_for_me /\ d_state' = d_state
    BY <1>2, Zenon DEF vars, electionVars, logVars, IInv, AppliedIsCommitted, InFlight
  <2> QED
    BY <2>2, <2>3, <2>4, StepPreserves, Zenon
<1> QED
  BY <1>1, <1>2, Zenon

\* The inductive invariant holds of every behaviour of the library.
THEOREM Invariance == Spec => []IInv
<1>1. IInv /\ [Next]_vars => IInv'
  BY NextStep, Zenon
<1> QED
  BY <1>1, InitIInv, PTL DEF Spec

\* TypeOK: every field of every server, and every message, keeps its type.
THEOREM Typing == Spec => []TypeOK
<1>1. IInv => TypeOK
  BY Zenon DEF IInv
<1> QED
  BY <1>1, Invariance, PTL

\* AppliedIsCommitted: commit_idx and last_applied_idx move together in
\* recv_appendentries and recv_appendentries_response.
THEOREM CommitAndApply == Spec => []AppliedIsCommitted
<1>1. IInv => AppliedIsCommitted
  BY Zenon DEF IInv
<1> QED
  BY <1>1, Invariance, PTL

\* VotesAreGranted: what setVotesForMe records, and every granted vote on its way,
\* was granted by recv_requestvote of that node to that server.
THEOREM VotesGranted == Spec => []VotesAreGranted
<1>1. IInv => VotesAreGranted
  BY Zenon DEF IInv, FlagsOK, MessagesOK, MessageOK, HasGrant, VotesAreGranted
<1> QED
  BY <1>1, Invariance, PTL

\* LeaderHasMajority: become_leader is reached only with the votes of different
\* nodes, more than half of the nodes that are left when the leader is not counted.
THEOREM LeaderElected == Spec => []LeaderHasMajority
<1>1. IInv => LeaderHasMajority
  BY Zenon DEF IInv
<1> QED
  BY <1>1, Invariance, PTL

\* TermsOnlyGrow: no step takes a server back to an earlier term or log position.
THEOREM NoServerGoesBack == Spec => TermsOnlyGrow
<1>1. IInv /\ [Next]_vars
        => [\A s \in Server : /\ current_term'[s] >= current_term[s]
                              /\ current_idx'[s] >= current_idx[s]]_vars
  <2> SUFFICES ASSUME IInv, [Next]_vars, NEW s \in Server
               PROVE  current_term'[s] >= current_term[s] /\ current_idx'[s] >= current_idx[s]
    OBVIOUS
  <2>1. Grows /\ TypeOK /\ TypeOK'
    BY NextStep, Zenon DEF IInv
  <2>2. /\ current_term[s] <= current_term'[s] /\ current_idx[s] <= current_idx'[s]
        /\ current_term[s] \in Nat /\ current_term'[s] \in Nat
        /\ current_idx[s] \in Nat /\ current_idx'[s] \in Nat
    BY <2>1, Zenon DEF Grows, TypeOK
  <2> QED
    BY <2>2, Zenon
<1> QED
  BY <1>1, Invariance, PTL DEF Spec, TermsOnlyGrow

\* VoteOnlyIfUpToDate: recv_requestvote grants a vote only to a candidate whose log
\* position, at that moment, is at least the voter's.
THEOREM VotesUpToDate == Spec => VoteOnlyIfUpToDate
<1> DEFINE UpToDate == \A g \in granted' \ granted :
                         /\ current_idx[g.cand] >= current_idx[g.voter]
                         /\ g.term <= current_term[g.cand]
<1>1. IInv /\ [Next]_vars => [UpToDate]_vars
  <2> SUFFICES ASSUME IInv, Next
               PROVE  UpToDate
    BY Zenon DEF vars
  <2>1. ASSUME NEW s \in Server, NEW p \in Server, Receive(s, p)
        PROVE  UpToDate
    <3>1. CASE Head(net[p][s]).type = "RV" /\ recv_requestvote(s, p, Head(net[p][s]))
      BY <2>1, <3>1, RequestVoteStep, Zenon DEF Receive
    <3>2. CASE ~(Head(net[p][s]).type = "RV" /\ recv_requestvote(s, p, Head(net[p][s])))
      <4>1. granted' = granted
        BY <2>1, <3>2, Zenon DEF Receive, recv_requestvote_response, RecvVote, recv_appendentries,
           recv_appendentries_response, electionVars
      <4> QED
        BY <4>1, Zenon
    <3> QED
      BY <3>1, <3>2, Zenon
  <2>2. ASSUME ~(\E s, p \in Server : Receive(s, p))
        PROVE  granted' = granted
    BY <2>2, Zenon DEF Next, periodic, become_candidate, send_appendentries_all, Tick, Lose,
       recv_entry, electionVars
  <2> QED
    BY <2>1, <2>2, Zenon
<1> QED
  BY <1>1, Invariance, PTL DEF Spec, VoteOnlyIfUpToDate

=============================================================================
