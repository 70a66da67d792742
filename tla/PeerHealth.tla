----------------------------- MODULE PeerHealth -----------------------------
(***************************************************************************)
(* What a server knows of the health of one node of its table: the members *)
(* m_okCount, m_pingCount, m_isAbleToVote and m_lastSeen of RaftNode2      *)
(* (raft_node.h, raft_node.cpp), written by the periodic thread in the     *)
(* send callback (tcp/raft_tcp_server.cpp, SendClbkFunction) and by the    *)
(* receive thread in pingReceived.                                         *)
(*                                                                         *)
(* Both threads hold the node lock only shared, and the three members are  *)
(* bit-fields of one 64-bit word: an assignment loads the word and stores  *)
(* it with one field changed, in two steps here, so that an assignment of  *)
(* the other thread in between is lost.                                    *)
(*                                                                         *)
(* The answers that the receive thread sends are left out: pingReceived of *)
(* the same node follows at once.                                          *)
(***************************************************************************)
EXTENDS Integers

CONSTANTS
  MinusInitialPingCount, \* INITIAL_PING_COUNT is negative
  OkCountBits,           \* BITS_OF_OK_COUNT, the width of the signed m_okCount
  MinUnseen, MaxUnseen   \* MIN_UNSEEN_TIME_TO_DISPLAY and
                         \* MAX_UNSEEN_TIME_TO_CHANGE_STATE, in ticks

ASSUME PeerHealthAssumption ==
  /\ OkCountBits \in Nat \ {0} /\ MinUnseen \in Nat /\ MaxUnseen \in Nat
  /\ MinUnseen < MaxUnseen
  /\ MinusInitialPingCount \in 1..2 ^ (OkCountBits - 1)

VARIABLES
  node,        \* the word of bit-fields
  unseen,      \* the time since m_lastSeen, up to MaxUnseen + 1
  alive,       \* whether the node still answers
  role,        \* d_state of the server
  due,         \* whether the periodic thread has yet to send in this tick
  pc, word,    \* per thread: what it does next, the word it has loaded
  removals,    \* whether a removeNode job was queued
  pings        \* history: pings sent since m_pingCount was reset

vars == <<node, unseen, alive, role, due, pc, word, removals, pings>>

Thread == {"periodic", "receive"}
OkCount == -(2 ^ (OkCountBits - 1))..(2 ^ (OkCountBits - 1) - 1)
Word == [okCount : OkCount, pingCount : 0..15, ableToVote : BOOLEAN]

TypeOK ==
  /\ node \in Word /\ unseen \in 0..(MaxUnseen + 1) /\ alive \in BOOLEAN
  /\ role \in {"FOLLOWER", "CANDIDATE", "LEADER"}
  /\ pc \in [Thread -> {"idle", "incOk", "unable", "unseen", "ping", "ready", "able",
                        "setAble", "reset", "setPing", "seen", "ok"}]
  /\ word \in [Thread -> Word]
  /\ removals \in BOOLEAN /\ due \in BOOLEAN /\ pings \in Nat

\* the constructor of RaftNode2
Init ==
  /\ node = [okCount |-> -MinusInitialPingCount, pingCount |-> 0, ableToVote |-> TRUE]
  /\ unseen = 0 /\ alive = TRUE /\ role \in {"FOLLOWER", "CANDIDATE", "LEADER"}
  /\ pc = [t \in Thread |-> "idle"] /\ word = [t \in Thread |-> node]
  /\ due = FALSE /\ removals = FALSE /\ pings = 0

\* t loads the word, to go on at label
Load(t, label) ==
  /\ pc' = [pc EXCEPT ![t] = label]
  /\ word' = [word EXCEPT ![t] = node]

Goto(t, label) ==
  /\ pc' = [pc EXCEPT ![t] = label]
  /\ UNCHANGED word

\* t, at label from, stores the word it has loaded with one field changed
Store(t, from, w, to) ==
  /\ pc[t] = from
  /\ node' = w
  /\ Goto(t, to)

IncrementOkCountWide(n) == n + 1        \* mutant: a member as wide as an int

\* the increment of a signed bit-field of OkCountBits bits
IncrementOkCount(n) ==
  IF n = 2 ^ (OkCountBits - 1) - 1 THEN -(2 ^ (OkCountBits - 1)) ELSE n + 1

-----------------------------------------------------------------------------
(* The periodic thread: SendClbkFunction for one heartbeat or vote request *)

PingsLeftFew == node.pingCount < 2      \* mutant: less than the removal asks for
PingsLeftOneMore == node.pingCount <= 4 \* mutant: off by one

PingsLeft == node.pingCount < 4

\* a node unseen for long is pinged a few times, and then sent nothing
PingOrWrite ==
  IF unseen > MinUnseen /\ PingsLeft THEN Load("periodic", "ping")
  ELSE Goto("periodic", "idle")

SendClbkFunction(type) ==
  LET silent == unseen > MaxUnseen /\ node.pingCount > 2
  IN /\ due /\ pc["periodic"] = "idle"
     /\ IF node.okCount < 0 THEN Load("periodic", "incOk") /\ UNCHANGED removals
        ELSE IF type = "APPENDENTRIES" /\ silent /\ role = "LEADER"
             THEN removals' = TRUE /\ UNCHANGED <<pc, word>>
        ELSE IF type = "REQUESTVOTE" /\ silent
             THEN Load("periodic", "unable") /\ UNCHANGED removals
        ELSE PingOrWrite /\ UNCHANGED removals
     /\ due' = FALSE
     /\ UNCHANGED <<node, unseen, alive, role, pings>>

Send ==
  \/ role = "LEADER" /\ SendClbkFunction("APPENDENTRIES")
  \/ role = "CANDIDATE" /\ SendClbkFunction("REQUESTVOTE")
  \/ /\ role = "FOLLOWER" /\ due
     /\ due' = FALSE
     /\ UNCHANGED <<node, unseen, alive, role, pc, word, removals, pings>>

\* incrementOkCount while the node is not ready yet
StoreOk ==
  LET w == word["periodic"]
  IN /\ Store("periodic", "incOk", [w EXCEPT !.okCount = IncrementOkCount(@)], "idle")
     /\ UNCHANGED <<unseen, alive, role, due, removals, pings>>

setUnableToVote ==
  /\ Store("periodic", "unable", [word["periodic"] EXCEPT !.ableToVote = FALSE], "unseen")
  /\ UNCHANGED <<unseen, alive, role, due, removals, pings>>

AfterUnable ==
  /\ pc["periodic"] = "unseen"
  /\ PingOrWrite
  /\ UNCHANGED <<node, unseen, alive, role, due, removals, pings>>

\* ping, and the message is written
ping ==
  /\ Store("periodic", "ping",
           [word["periodic"] EXCEPT !.pingCount = IF @ < 8 THEN @ + 1 ELSE @], "idle")
  /\ pings' = pings + 1
  /\ UNCHANGED <<unseen, alive, role, due, removals>>

-----------------------------------------------------------------------------
(* The receive thread: a message of the node has come                      *)

pingReceived ==
  /\ alive /\ pc["receive"] = "idle"
  /\ IF node.okCount < 0 THEN Load("receive", "ready") ELSE Goto("receive", "able")
  /\ UNCHANGED <<node, unseen, alive, role, due, removals, pings>>

StoreReady ==
  /\ Store("receive", "ready", [word["receive"] EXCEPT !.okCount = 0], "able")
  /\ UNCHANGED <<unseen, alive, role, due, removals, pings>>

LoadField ==
  /\ \/ pc["receive"] = "able" /\ Load("receive", "setAble")
     \/ pc["receive"] = "reset" /\ Load("receive", "setPing")
  /\ UNCHANGED <<node, unseen, alive, role, due, removals, pings>>

StoreAble ==
  /\ Store("receive", "setAble", [word["receive"] EXCEPT !.ableToVote = TRUE], "reset")
  /\ UNCHANGED <<unseen, alive, role, due, removals, pings>>

StorePing ==
  /\ Store("receive", "setPing", [word["receive"] EXCEPT !.pingCount = 0], "seen")
  /\ pings' = 0
  /\ UNCHANGED <<unseen, alive, role, due, removals>>

\* m_lastSeen; the message may have been response::ok, which is counted
Seen ==
  /\ pc["receive"] = "seen"
  /\ unseen' = 0
  /\ Goto("receive", "idle") \/ Load("receive", "ok")
  /\ UNCHANGED <<node, alive, role, due, removals, pings>>

CountOk ==
  LET w == word["receive"]
  IN /\ Store("receive", "ok", [w EXCEPT !.okCount = IncrementOkCount(@)], "idle")
     /\ UNCHANGED <<unseen, alive, role, due, removals, pings>>

-----------------------------------------------------------------------------
(* Time and the environment.  A tick is a period of the periodic thread,   *)
(* two seconds: that thread sends once in it, and the receive thread does  *)
(* not stay that long inside pingReceived.                                 *)
Tick ==
  /\ ~due /\ \A t \in Thread : pc[t] = "idle"
  /\ due' = TRUE
  /\ unseen' = IF unseen <= MaxUnseen THEN unseen + 1 ELSE unseen
  /\ UNCHANGED <<node, alive, role, pc, word, removals, pings>>

Die == alive /\ alive' = FALSE
         /\ UNCHANGED <<node, unseen, role, due, pc, word, removals, pings>>

ChangeRole ==
  /\ role' \in {"FOLLOWER", "CANDIDATE", "LEADER"} \ {role}
  /\ UNCHANGED <<node, unseen, alive, due, pc, word, removals, pings>>

PeriodicThread == Send \/ StoreOk \/ setUnableToVote \/ AfterUnable \/ ping
ReceiveThread == StoreReady \/ LoadField \/ StoreAble \/ StorePing \/ Seen \/ CountOk

Next == PeriodicThread \/ pingReceived \/ ReceiveThread \/ Tick \/ Die \/ ChangeRole

Spec == Init /\ [][Next]_vars

(* Both threads run and time passes; messages need not come.               *)
FairSpec == Spec /\ WF_vars(PeriodicThread) /\ WF_vars(ReceiveThread) /\ SF_vars(Tick)

-----------------------------------------------------------------------------
(* Properties                                                              *)

\* A node that has stopped answering is reported for removal by a server that
\* goes on leading, although m_okCount and m_pingCount may have been left at any
\* value by updates the two threads lost to each other.
SilentIsReported == (~alive /\ role = "LEADER") ~> (removals \/ role # "LEADER")

\* A node that does not answer is sent at most five messages once it was unseen
\* for MinUnseen: the four that SendClbkFunction allows, and one whose count the
\* receive thread overwrites when it counts a response::ok.  No other update of
\* m_pingCount is lost in the direction that allows more.
PingsBounded == pings <= 5
=============================================================================
