---------------------------- MODULE BoundedFifo ----------------------------
(* What common::FifoFast promises its users: a queue of at most MaxSize    *)
(* values.  An addition to a full queue and an extraction from an empty    *)
(* one return false and change nothing.                                    *)
EXTENDS Naturals, Sequences

CONSTANTS Value, MaxSize

VARIABLES queue,   \* the values, oldest first
          open,    \* FALSE once the destructor has begun
          last     \* the last call: its name, the value and the result

vars == <<queue, open, last>>

Init == queue = <<>> /\ open = TRUE /\ last = <<"Extract", FALSE>>

Add(v) ==
  /\ open
  /\ IF Len(queue) < MaxSize
     THEN queue' = Append(queue, v) /\ last' = <<"AddElement", v, TRUE>>
     ELSE queue' = queue /\ last' = <<"AddElement", v, FALSE>>
  /\ open' = open

Remove ==
  /\ open
  /\ IF queue # <<>>
     THEN last' = <<"Extract", Head(queue), TRUE>> /\ queue' = Tail(queue)
     ELSE last' = <<"Extract", FALSE>> /\ queue' = queue
  /\ open' = open

Close == open /\ open' = FALSE /\ queue' = <<>> /\ last' = last

Next == (\E v \in Value : Add(v)) \/ Remove \/ Close

Spec == Init /\ [][Next]_vars
=============================================================================
