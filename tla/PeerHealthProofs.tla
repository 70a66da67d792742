-------------------------- MODULE PeerHealthProofs --------------------------
(* Proofs about PeerHealth, for every width of m_okCount and all times: a  *)
(* silent node is sent a bounded number of messages in spite of the lost   *)
(* updates.  Before says that the periodic thread has yet to decide, in    *)
(* this period, whether it pings; the receive thread cannot be busy from   *)
(* one period to the next.                                                 *)
EXTENDS PeerHealth, TLAPS

Before == due \/ pc["periodic"] \in {"unable", "unseen"}

\* m_pingCount lags behind the pings by one at most, when it is looked at.
CountsLag ==
  /\ pc["receive"] = "idle" => pings <= node.pingCount + 1
  /\ Before => pings <= node.pingCount + 1

\* So does the word that a thread has loaded and is going to store.
WordsLag ==
  /\ pc["periodic"] \in {"incOk", "unable", "ping"} => pings <= word["periodic"].pingCount + 1
  /\ Before /\ pc["receive"] \in {"ready", "setAble"} => pings <= word["receive"].pingCount + 1

\* A ping is sent only with a count below 4, and between the reset of the
\* counter and the end of pingReceived there is one at most.
FewPings ==
  /\ pings <= 5
  /\ pc["periodic"] = "ping" => word["periodic"].pingCount <= 3
  /\ pc["receive"] \in {"seen", "ok"} =>
       /\ pings <= 1
       /\ Before \/ pc["periodic"] = "ping" => pings = 0

\* The inductive invariant.
IInv ==
  /\ TypeOK
  /\ due => pc["periodic"] = "idle"
  /\ CountsLag /\ WordsLag /\ FewPings

\* The increment of m_okCount stays within its width.
LEMMA IncrementTyped == \A n \in OkCount : IncrementOkCount(n) \in OkCount /\ 0 \in OkCount
BY PeerHealthAssumption DEF OkCount, IncrementOkCount

\* What the assignments make of a word: one field changes.
LEMMA WordsTyped ==
  ASSUME NEW w \in Word
  PROVE  /\ w.pingCount \in 0..15 /\ w.okCount \in OkCount
         /\ [w EXCEPT !.okCount = IncrementOkCount(@)] \in Word
         /\ [w EXCEPT !.okCount = IncrementOkCount(@)].pingCount = w.pingCount
         /\ [w EXCEPT !.okCount = 0] \in Word
         /\ [w EXCEPT !.okCount = 0].pingCount = w.pingCount
         /\ \A b \in BOOLEAN : /\ [w EXCEPT !.ableToVote = b] \in Word
                              /\ [w EXCEPT !.ableToVote = b].pingCount = w.pingCount
         /\ [w EXCEPT !.pingCount = 0] \in Word
         /\ [w EXCEPT !.pingCount = 0].pingCount = 0
         /\ [w EXCEPT !.pingCount = IF @ < 8 THEN @ + 1 ELSE @] \in Word
         /\ w.pingCount <= 3 =>
              [w EXCEPT !.pingCount = IF @ < 8 THEN @ + 1 ELSE @].pingCount = w.pingCount + 1
BY IncrementTyped DEF Word

\* The constructor of RaftNode2 establishes the invariant.
LEMMA InitIInv == Init => IInv
<1> SUFFICES ASSUME Init PROVE IInv
  OBVIOUS
<1>1. -MinusInitialPingCount \in OkCount
  BY PeerHealthAssumption DEF OkCount
<1>2. node \in Word /\ node.pingCount = 0
  BY <1>1 DEF Init, Word
<1>3. /\ unseen = 0 /\ alive = TRUE /\ role \in {"FOLLOWER", "CANDIDATE", "LEADER"}
      /\ pc = [t \in Thread |-> "idle"] /\ word = [t \in Thread |-> node]
      /\ due = FALSE /\ removals = FALSE /\ pings = 0
  BY Zenon DEF Init
<1>4. TypeOK
  <2>1. alive \in BOOLEAN /\ removals \in BOOLEAN /\ due \in BOOLEAN
    BY <1>3, Zenon
  <2>2. unseen \in 0..(MaxUnseen + 1) /\ pings \in Nat
    BY <1>3, PeerHealthAssumption
  <2>3. word \in [Thread -> Word]
    BY <1>2, <1>3, Zenon
  <2> QED BY <1>2, <1>3, <2>1, <2>2, <2>3, Zenon DEF TypeOK
<1> QED
  BY <1>2, <1>3, <1>4 DEF Init, IInv, CountsLag, WordsLag, FewPings, Before, Thread

\* Every step of both threads and of the environment keeps it.
LEMMA NextIInv == IInv /\ [Next]_vars => IInv'
<1> SUFFICES ASSUME IInv, [Next]_vars PROVE IInv'
  OBVIOUS
<1> USE DEF IInv
<1>0. /\ TypeOK /\ MinUnseen \in Nat /\ MaxUnseen \in Nat
      /\ node.pingCount \in 0..15
      /\ word["periodic"].pingCount \in 0..15 /\ word["receive"].pingCount \in 0..15
  BY PeerHealthAssumption, WordsTyped, Zenon DEF TypeOK, Thread
<1>1. CASE UNCHANGED vars
  BY <1>1, Zenon DEF vars, TypeOK, CountsLag, WordsLag, FewPings, Before
<1>2. CASE Send
  <2>1. TypeOK'
    BY <1>2, <1>0, ZenonT(30)
       DEF TypeOK, Thread, Send, SendClbkFunction, PingOrWrite, PingsLeft, Load, Goto
  <2> QED
    BY <1>2, <1>0, <2>1
       DEF TypeOK, Thread, CountsLag, WordsLag, FewPings, Before, Send,
         SendClbkFunction, PingOrWrite, PingsLeft, Load, Goto
<1>3. CASE StoreOk
  <2>1. TypeOK'
    BY <1>3, <1>0, WordsTyped, Zenon DEF TypeOK, Thread, StoreOk, Store, Goto
  <2> QED
    BY <1>3, <1>0, <2>1, WordsTyped, Zenon
       DEF TypeOK, Thread, CountsLag, WordsLag, FewPings, Before, StoreOk, Store, Goto
<1>4. CASE setUnableToVote
  <2>1. TypeOK'
    BY <1>4, <1>0, WordsTyped, Zenon DEF TypeOK, Thread, setUnableToVote, Store, Goto
  <2> QED
    BY <1>4, <1>0, <2>1, WordsTyped, Zenon
       DEF TypeOK, Thread, CountsLag, WordsLag, FewPings, Before, setUnableToVote, Store, Goto
<1>5. CASE AfterUnable
  <2>1. TypeOK'
    BY <1>5, <1>0, Zenon DEF TypeOK, Thread, AfterUnable, PingOrWrite, PingsLeft, Load, Goto
  <2> QED
    BY <1>5, <1>0, <2>1
       DEF TypeOK, Thread, CountsLag, WordsLag, FewPings, Before, AfterUnable,
         PingOrWrite, PingsLeft, Load, Goto
<1>6. CASE ping
  <2>0. /\ word["periodic"] \in Word
        /\ node' = [word["periodic"] EXCEPT !.pingCount = IF @ < 8 THEN @ + 1 ELSE @]
    BY <1>6, <1>0, Zenon DEF TypeOK, Thread, ping, Store
  <2>2. node' \in Word
    BY <2>0, WordsTyped, Zenon
  <2>1. TypeOK'
    BY <1>6, <1>0, <2>2 DEF TypeOK, Thread, ping, Store, Goto
  <2> QED
    BY <1>6, <1>0, <2>1, WordsTyped
       DEF TypeOK, Thread, CountsLag, WordsLag, FewPings, Before, ping, Store, Goto
<1>7. CASE pingReceived
  <2>1. TypeOK'
    BY <1>7, <1>0, Zenon DEF TypeOK, Thread, pingReceived, Load, Goto
  <2> QED
    BY <1>7, <1>0, <2>1, Zenon
       DEF TypeOK, Thread, CountsLag, WordsLag, FewPings, Before, pingReceived, Load, Goto
<1>8. CASE StoreReady
  <2>1. TypeOK'
    BY <1>8, <1>0, WordsTyped, Zenon DEF TypeOK, Thread, StoreReady, Store, Goto
  <2> QED
    BY <1>8, <1>0, <2>1, WordsTyped, Zenon
       DEF TypeOK, Thread, CountsLag, WordsLag, FewPings, Before, StoreReady, Store, Goto
<1>9. CASE LoadField
  <2>1. TypeOK'
    BY <1>9, <1>0 DEF TypeOK, Thread, LoadField, Load
  <2> QED
    BY <1>9, <1>0, <2>1, Zenon
       DEF TypeOK, Thread, CountsLag, WordsLag, FewPings, Before, LoadField, Load
<1>10. CASE StoreAble
  <2>1. TypeOK'
    BY <1>10, <1>0, WordsTyped, Zenon DEF TypeOK, Thread, StoreAble, Store, Goto
  <2> QED
    BY <1>10, <1>0, <2>1, WordsTyped, Zenon
       DEF TypeOK, Thread, CountsLag, WordsLag, FewPings, Before, StoreAble, Store, Goto
<1>11. CASE StorePing
  <2>1. TypeOK'
    BY <1>11, <1>0, WordsTyped, Zenon DEF TypeOK, Thread, StorePing, Store, Goto
  <2> QED
    BY <1>11, <1>0, <2>1, WordsTyped
       DEF TypeOK, Thread, CountsLag, WordsLag, FewPings, Before, StorePing, Store, Goto
<1>12. CASE Seen
  <2>1. TypeOK'
    BY <1>12, <1>0 DEF TypeOK, Thread, Seen, Load, Goto
  <2> QED
    BY <1>12, <1>0, <2>1
       DEF TypeOK, Thread, CountsLag, WordsLag, FewPings, Before, Seen, Load, Goto
<1>13. CASE CountOk
  <2>1. TypeOK'
    BY <1>13, <1>0, WordsTyped, Zenon DEF TypeOK, Thread, CountOk, Store, Goto
  <2> QED
    BY <1>13, <1>0, <2>1, WordsTyped
       DEF TypeOK, Thread, CountsLag, WordsLag, FewPings, Before, CountOk, Store, Goto
<1>14. CASE Tick
  <2>1. TypeOK'
    BY <1>14, <1>0 DEF TypeOK, Thread, Tick
  <2> QED
    BY <1>14, <1>0, <2>1, Zenon DEF TypeOK, Thread, CountsLag, WordsLag, FewPings, Before, Tick
<1>15. CASE Die
  <2>1. TypeOK'
    BY <1>15, <1>0, Zenon DEF TypeOK, Thread, Die
  <2> QED
    BY <1>15, <1>0, <2>1, Zenon DEF TypeOK, Thread, CountsLag, WordsLag, FewPings, Before, Die
<1>16. CASE ChangeRole
  <2>1. TypeOK'
    BY <1>16, <1>0, Zenon DEF TypeOK, Thread, ChangeRole
  <2> QED
    BY <1>16, <1>0, <2>1, Zenon
       DEF TypeOK, Thread, CountsLag, WordsLag, FewPings, Before, ChangeRole
<1> QED
  BY <1>1, <1>2, <1>3, <1>4, <1>5, <1>6, <1>7, <1>8, <1>9, <1>10, <1>11, <1>12, <1>13,
     <1>14, <1>15, <1>16, Zenon
     DEF Next, PeriodicThread, ReceiveThread

\* The invariant holds in every reachable state.
LEMMA Invariance == Spec => []IInv
<1> QED BY InitIInv, NextIInv, PTL DEF Spec

\* The bit-fields stay within their widths, for every width of m_okCount, although
\* it is incremented with every answer and updates of the word are lost.
THEOREM Typing == Spec => []TypeOK
<1>1. IInv => TypeOK
  BY Zenon DEF IInv
<1> QED BY <1>1, Invariance, PTL

\* A node that does not answer is sent at most five messages, for every width of
\* m_okCount and all time limits: of the updates the two threads lose to
\* each other, only one can lower m_pingCount before pingReceived resets it.
THEOREM SilentIsPingedFewTimes == Spec => []PingsBounded
<1>1. IInv => PingsBounded
  BY Zenon DEF IInv, FewPings, PingsBounded
<1> QED BY <1>1, Invariance, PTL
=============================================================================
