------------------------------- MODULE MCWire -------------------------------
(* The instance of Wire that is checked: news carries one byte of data, or  *)
(* none; the byte looks like a request when it is read out of step         *)
EXTENDS Wire

OneByte ==
  [r \in {newNode, removeNode, oldLeaderDied, toNewNodeAddPartitions} |->
     IF r = oldLeaderDied THEN <<>> ELSE <<clbkCmd>>]
=============================================================================
