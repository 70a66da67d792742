------------------------------- MODULE Wire -------------------------------
(***************************************************************************)
(* The bytes of a bridge: how node A opens a connection to node B, how the *)
(* threads of A write messages to it field by field, and how the receive   *)
(* thread of B takes them apart again (NodeTools::writeC and readC,        *)
(* ConnectAndGetEndian2, HandleNewConnectionPrivate, SendClbkFunction,     *)
(* SendInformationToNode and the handlers of received requests).           *)
(*                                                                         *)
(* The protocol has no lengths or marks around a message: the reader is in *)
(* step with the writer as long as it reads every field that was written.  *)
(* Every byte is marked, for the properties, with the place at which the   *)
(* reader should take it, with how many bytes of its field are left and    *)
(* with the field that comes next.  broken[c] records what went wrong on   *)
(* connection c:                                                           *)
(*   refused    the reader returned without reading the rest of a message; *)
(*   stray      a byte was written into another thread's message;          *)
(*   continued  a message begun on an earlier connection goes on here;     *)
(*   switched   the reader began a message on an earlier connection;       *)
(*   cut        ReceiveExtraData gave up and left the connection open.     *)
(*                                                                         *)
(* Connections are numbered and no number is used again; 0 stands for -1.  *)
(* Messages in the other direction, and connections that B opens to A, are *)
(* left out; buffers of the system are unbounded.                          *)
(***************************************************************************)
EXTENDS Integers, Sequences

CONSTANTS
  Terms,        \* terms of the messages of the library
  Extra,        \* data that goes with each kind of news
  MaxConns,     \* bound: connections opened
  MaxEvents     \* bound: messages written and connections opened together

\* the threads of A that write to the bridge
Thread == {"periodic", "receiver", "worker"}
Conn == 1 .. MaxConns
Cause == {"refused", "stray", "continued", "switched", "cut"}

\* codes of requests (raft_macroses_and_functions.h) and of messages (raft_msg.h)
ok == 0
permanentBridge == 2
clbkCmd == 9
removeNode == 11
newNode == 12
toNewNodeAddPartitions == 13
oldLeaderDied == 15
REQUESTVOTE == 0
REQUESTVOTE_RESPONSE == 1
APPENDENTRIES == 2
APPENDENTRIES_RESPONSE == 3

Port == 7       \* m_nPortOwn of A; B knows A by it
MAX_REQUEST_NUMBER_PRVT == 65535
KeySize == 28
EntrySize == 24
MaxEntries == 64

\* terms and lengths are ints, and data are bytes
MaxInt == 2147483647
Byte == 0 .. 255
News == {newNode, removeNode, oldLeaderDied, toNewNodeAddPartitions}

ASSUME WireAssumption ==
  /\ Terms \subseteq 0 .. MaxInt
  /\ \A r \in News : Extra[r] \in Seq(Byte) /\ Len(Extra[r]) <= MaxInt
  /\ MaxConns \in Nat /\ MaxEvents \in Nat

VARIABLES
  differ,            \* the hosts have different byte orders
  \* node A
  greeted,           \* the periodic thread has written its first ok
  mutex,             \* senderMutex: the thread that holds it, or "free"
  todo, shake,       \* fields still to write, and how many of them open the bridge
  went,              \* connection the previous field went to
  pc,
  sock,              \* m_sockets[raft] of node B
  sent, conns,       \* messages and connections so far
  \* the connections
  stream, back,      \* bytes from A to B and from B to A
  broken,
  \* node B
  acc,               \* the worker that handles the connection
  bclosed,           \* connections closed by B
  bridge,            \* m_sockets[raft] of node A
  isEndianDiffer,
  pcR, req, need, rfd  \* receive thread: place, request, bytes it waits for, connection

orders == <<differ>>
writers == <<greeted, mutex, todo, shake, went, pc, sent>>
ends == <<sock, conns>>
bytes == <<stream, back, broken>>
accepts == <<acc, bclosed, bridge, isEndianDiffer>>
reader == <<pcR, req, need, rfd>>
vars == <<orders, writers, ends, bytes, accepts, reader>>
----------------------------------------------------------------------------
(* Messages: sequences of fields, a field its bytes and the place at which *)
(* the reader of B should be to read it                                    *)

Field(place, data) == [at |-> place, data |-> data]

\* a four-byte integer as A writes it, and as B reads it
Int4(n) ==
  LET b == <<n % 256, (n \div 256) % 256, (n \div 65536) % 256, (n \div 16777216) % 256>>
  IN IF differ THEN <<b[4], b[3], b[2], b[1]>> ELSE b
Value(b) == b[1] + 256 * b[2] + 65536 * b[3] + 16777216 * b[4]

\* integers one after the other
Ints(q) == [i \in 1 .. 4 * Len(q) |-> Int4(q[(i + 3) \div 4])[((i + 3) % 4) + 1]]

\* raft_swap_4_bytes: the first and the last byte stay where they are
SWAP4BYTES(b) == <<b[1], b[3], b[2], b[4]>>

\* NodeIdentifierKey: port and address
Key == [i \in 1 .. KeySize |-> IF i <= 4 THEN Int4(8)[i] ELSE IF i < 12 THEN 49 ELSE 0]

Clbk(type, place, ints) ==
  <<Field("idle", <<clbkCmd>>), Field("type", Int4(type)), Field(place, Ints(ints))>>

requestvote(term) == Clbk(REQUESTVOTE, "body", <<term, 0, 1, 0>>)
requestvote_response(term) == Clbk(REQUESTVOTE_RESPONSE, "body", <<term, 1>>)
appendentries(term) == Clbk(APPENDENTRIES, "entries", <<term, 0, 1, 0, 0, 0>>)
appendentries_response(term) == Clbk(APPENDENTRIES_RESPONSE, "body", <<term, 1, 1, 0>>)

\* SendInformationToNode with or without a key; no field for data of no bytes
Information(request, key, extra) ==
  <<Field("idle", <<request>>)>> \o key \o <<Field("length", Int4(Len(extra)))>>
    \o (IF extra = <<>> THEN <<>> ELSE <<Field("data", extra)>>)

\* what each thread may write under the mutex: the periodic thread greets
\* with one byte before anything else
Sends(t) ==
  CASE t = "periodic" /\ ~greeted -> {<<Field("idle", <<ok>>)>>}
    [] t = "periodic" /\ greeted ->
         {requestvote(n) : n \in Terms} \cup {appendentries(n) : n \in Terms}
    [] t = "receiver" ->
         {requestvote_response(n) : n \in Terms} \cup {appendentries_response(n) : n \in Terms}
    [] t = "worker" ->
         {<<Field("idle", <<ok>>)>>}
           \cup {Information(r, <<Field("key", Key)>>, Extra[r]) : r \in {newNode, removeNode}}
           \cup {Information(r, <<>>, Extra[r]) : r \in {oldLeaderDied, toNewNodeAddPartitions}}

\* what the reader should do after field i of m: its place and the bytes it needs
After(m, i) == IF i = Len(m) THEN <<"idle", 1>> ELSE <<m[i + 1].at, Len(m[i + 1].data)>>

\* the fields of a message with their marks
Marked(m) ==
  [i \in DOMAIN m |-> [j \in DOMAIN m[i].data |->
     [v |-> m[i].data[j], at |-> m[i].at, left |-> Len(m[i].data) - j + 1, next |-> After(m, i)]]]

\* what writeC puts before the data on a new connection
Opening ==
  Marked(<<Field("request", Int4(permanentBridge)), Field("port", Int4(Port)), Field("index", Int4(0))>>)
----------------------------------------------------------------------------
(* Node A                                                                  *)

Init ==
  /\ differ \in BOOLEAN
  /\ greeted = FALSE /\ mutex = "free" /\ sent = 0
  /\ todo = [t \in Thread |-> <<>>] /\ shake = [t \in Thread |-> 0]
  /\ went = [t \in Thread |-> 0] /\ pc = [t \in Thread |-> "idle"]
  /\ sock = 0 /\ conns = 0
  /\ stream = [c \in Conn |-> <<>>] /\ back = [c \in Conn |-> <<>>]
  /\ broken = [c \in Conn |-> {}]
  /\ acc = [c \in Conn |-> "none"] /\ bclosed = {} /\ bridge = 0 /\ isEndianDiffer = FALSE
  /\ pcR = "idle" /\ req = ok /\ need = 1 /\ rfd = 0

Goto(t, label) == pc' = [pc EXCEPT ![t] = label]

\* mutant: the message is written without the mutex
SendNoLock(t) ==
  /\ pc[t] = "idle" /\ sent + conns < MaxEvents
  /\ \E m \in Sends(t) : todo' = [todo EXCEPT ![t] = Marked(m)]
  /\ sent' = sent + 1
  /\ Goto(t, "write")
  /\ UNCHANGED <<orders, greeted, mutex, shake, went, ends, bytes, accepts, reader>>

\* LOCK_SEND_SOCKET_MUTEX and the first writeC
Send(t) ==
  /\ pc[t] = "idle" /\ mutex = "free" /\ sent + conns < MaxEvents
  /\ \E m \in Sends(t) : todo' = [todo EXCEPT ![t] = Marked(m)]
  /\ mutex' = t /\ sent' = sent + 1
  /\ Goto(t, "write")
  /\ UNCHANGED <<orders, greeted, shake, went, ends, bytes, accepts, reader>>

\* the first ok of the periodic thread is written without the mutex
SendUnlocked ==
  /\ pc["periodic"] = "idle" /\ ~greeted
  /\ greeted' = TRUE
  /\ todo' = [todo EXCEPT !["periodic"] = Marked(<<Field("idle", <<ok>>)>>)]
  /\ Goto("periodic", "write")
  /\ UNCHANGED <<orders, mutex, shake, went, sent, ends, bytes, accepts, reader>>

\* the message is written or given up: the guard gives the mutex back
Return(t) ==
  /\ Goto(t, "idle")
  /\ todo' = [todo EXCEPT ![t] = <<>>]
  /\ shake' = [shake EXCEPT ![t] = 0]
  /\ went' = [went EXCEPT ![t] = 0]
  /\ mutex' = IF mutex = t THEN "free" ELSE mutex

\* the first ok of the periodic thread meets another thread: one of them is
\* inside a message or opening the bridge, and the other writes
Amidst(t) ==
  /\ pc["periodic"] # "idle" /\ mutex # "periodic"
  /\ \E u \in Thread \ {t} :
       /\ "periodic" \in {t, u}
       /\ went[u] = sock \/ pc[u] = "endian" \/ shake[u] > 0

\* SocketTCP::writeC: what B has closed swallows the bytes
writeC(t) ==
  /\ pc[t] = "write" /\ sock # 0
  /\ stream' = IF sock \in bclosed /\ rfd # sock THEN stream
               ELSE [stream EXCEPT ![sock] = @ \o Head(todo[t])]
  /\ broken' = [broken EXCEPT ![sock] = @
       \cup (IF Amidst(t) THEN {"stray"} ELSE {})
       \cup (IF went[t] \notin {0, sock} /\ shake[t] = 0 THEN {"continued"} ELSE {})]
  /\ IF Len(todo[t]) = 1
     THEN Return(t)
     ELSE /\ todo' = [todo EXCEPT ![t] = Tail(@)]
          /\ shake' = [shake EXCEPT ![t] = IF @ > 0 THEN @ - 1 ELSE 0]
          /\ went' = [went EXCEPT ![t] = IF shake[t] > 0 THEN @ ELSE sock]
          /\ UNCHANGED <<mutex, pc>>
  /\ UNCHANGED <<orders, greeted, sent, ends, back, accepts, reader>>

\* E_SEND: a message is given up with the socket left open, the opening of
\* a bridge closes it
WriteFails(t) ==
  /\ pc[t] = "write"
  /\ (sock \in bclosed /\ rfd # sock) \/ (sock = 0 /\ shake[t] > 0)
  /\ sock' = IF shake[t] > 0 THEN 0 ELSE sock
  /\ Return(t)
  /\ UNCHANGED <<orders, greeted, sent, conns, bytes, accepts, reader>>

\* NodeTools::writeC finds the socket closed, for any field of a message
FindClosed(t) ==
  /\ pc[t] = "write" /\ sock = 0 /\ shake[t] = 0
  /\ Goto(t, "connect")
  /\ UNCHANGED <<orders, greeted, mutex, todo, shake, went, sent, ends, bytes, accepts, reader>>

\* connectC closes what the object held, and the object is open from here on
connectC(t) ==
  /\ pc[t] = "connect" /\ conns < MaxConns /\ sent + conns < MaxEvents
  /\ conns' = conns + 1 /\ sock' = conns + 1
  /\ acc' = [acc EXCEPT ![conns + 1] = "accepted"]
  /\ Goto(t, "endian")
  /\ UNCHANGED <<orders, greeted, mutex, todo, shake, went, sent, bytes,
                 bclosed, bridge, isEndianDiffer, reader>>

\* the byte order of B arrives, and what opens the bridge is written next
ReadEndian(t) ==
  /\ pc[t] = "endian" /\ sock # 0 /\ Len(back[sock]) = 2
  /\ back' = [back EXCEPT ![sock] = <<>>]
  /\ todo' = [todo EXCEPT ![t] = Opening \o @]
  /\ shake' = [shake EXCEPT ![t] = 3]
  /\ Goto(t, "write")
  /\ UNCHANGED <<orders, greeted, mutex, went, sent, ends, stream, broken, accepts, reader>>

\* mutant: a byte order that does not come is waited for
ConnectWaits(t) ==
  /\ pc[t] = "connect" \/ (pc[t] = "endian" /\ sock = 0)
  /\ sock' = 0
  /\ Return(t)
  /\ UNCHANGED <<orders, greeted, sent, conns, bytes, accepts, reader>>

\* no connection within 500 ms, or no byte order within 100 ms
ConnectFails(t) ==
  /\ pc[t] \in {"connect", "endian"}
  /\ sock' = 0
  /\ Return(t)
  /\ UNCHANGED <<orders, greeted, sent, conns, bytes, accepts, reader>>

\* the receive thread of A watches the socket as soon as it is open: it may
\* take the bytes the connecting thread waits for, and it closes on the end
RcvTakes ==
  /\ pc["receiver"] = "idle" /\ sock # 0 /\ back[sock] # <<>>
  /\ back' = [back EXCEPT ![sock] = Tail(@)]
  /\ UNCHANGED <<orders, writers, ends, stream, broken, accepts, reader>>

RcvEnds ==
  /\ pc["receiver"] = "idle" /\ sock \in bclosed
  /\ sock' = 0
  /\ UNCHANGED <<orders, writers, conns, bytes, accepts, reader>>
----------------------------------------------------------------------------
(* Node B: the worker that handles a new connection                        *)

Taken(c, n) == stream' = [stream EXCEPT ![c] = SubSeq(@, n + 1, Len(@))]

Bytes(c, n) == [i \in 1 .. n |-> stream[c][i].v]

\* the handler returns and the destructor closes its socket: what was not
\* read is gone
Closed(c) ==
  /\ acc' = [acc EXCEPT ![c] = "closed"]
  /\ bclosed' = bclosed \cup {c}
  /\ stream' = [stream EXCEPT ![c] = <<>>]

\* snEndian = 1 as B stores it
SendEndian(c) ==
  /\ acc[c] = "accepted"
  /\ acc' = [acc EXCEPT ![c] = "request"]
  /\ back' = [back EXCEPT ![c] = <<1, 0>>]
  /\ UNCHANGED <<orders, writers, ends, stream, broken, bclosed, bridge, isEndianDiffer, reader>>

\* mutant: the comparison is the wrong way round
EndianDiffersBelow(b) == Value(b) < MAX_REQUEST_NUMBER_PRVT

\* IS_ENDIAN_DIFFER_AND_REQUEST, and the request it leaves
EndianDiffers(b) == Value(b) >= MAX_REQUEST_NUMBER_PRVT
Request(b) == Value(IF EndianDiffers(b) THEN SWAP4BYTES(b) ELSE b)

\* an unknown request, or the port of no node, ends the handler
ReadRequest(c) ==
  /\ acc[c] = "request" /\ Len(stream[c]) >= 4
  /\ LET b == Bytes(c, 4) IN
       IF Request(b) = permanentBridge
       THEN /\ acc' = [acc EXCEPT ![c] = IF EndianDiffers(b) THEN "swapPort" ELSE "port"]
            /\ UNCHANGED bclosed
            /\ Taken(c, 4)
       ELSE Closed(c)
  /\ UNCHANGED <<orders, writers, ends, back, broken, bridge, isEndianDiffer, reader>>

ReadPort(c) ==
  /\ acc[c] \in {"port", "swapPort"} /\ Len(stream[c]) >= 4
  /\ LET b == Bytes(c, 4)
         swap == acc[c] = "swapPort" IN
       IF Value(IF swap THEN SWAP4BYTES(b) ELSE b) = Port
       THEN /\ acc' = [acc EXCEPT ![c] = "index"]
            /\ isEndianDiffer' = swap
            /\ UNCHANGED bclosed
            /\ Taken(c, 4)
       ELSE Closed(c) /\ UNCHANGED isEndianDiffer
  /\ UNCHANGED <<orders, writers, ends, back, broken, bridge, reader>>

\* the index, which is 0 in either byte order, and setSocket: the socket
\* before it is closed.  A receive thread inside a message waits on the
\* old socket, or turns to the new one for the next field
ReadIndex(c) ==
  /\ acc[c] = "index" /\ Len(stream[c]) >= 4
  /\ acc' = [acc EXCEPT ![c] = "bridge"]
  /\ bridge' = c
  /\ bclosed' = bclosed \cup ({bridge} \ {0})
  /\ Taken(c, 4)
  /\ \/ /\ UNCHANGED <<rfd, broken>>
     \/ /\ pcR # "idle" /\ rfd' = c
        /\ broken' = [broken EXCEPT ![c] = @ \cup {"switched"}]
  /\ UNCHANGED <<orders, writers, ends, back, isEndianDiffer, pcR, req, need>>

\* the peer closes, or nothing comes within SOCK_TIMEOUT_MS
HandlerFails(c) ==
  /\ \/ acc[c] = "accepted" /\ sock # c
     \/ acc[c] \in {"request", "port", "swapPort", "index"} /\ Len(stream[c]) < 4
  /\ Closed(c)
  /\ UNCHANGED <<orders, writers, ends, back, broken, bridge, isEndianDiffer, reader>>
----------------------------------------------------------------------------
(* Node B: the receive thread                                              *)

\* the next readC of the message read from c so far, of n bytes
ReadNext(place, n, c) ==
  /\ pcR' = place /\ need' = n /\ rfd' = bridge
  /\ broken' = IF bridge \in {0, c} THEN broken
               ELSE [broken EXCEPT ![bridge] = @ \cup {"switched"}]

\* back in select, with the rest of the message left on c or not
Done(c, causes) ==
  /\ pcR' = "idle" /\ need' = 1 /\ rfd' = 0
  /\ broken' = [broken EXCEPT ![c] = @ \cup causes]

\* handleReceiveFromNodeBeforeLockRcvContext: removeNode and oldLeaderDied
\* are refused in some states of B before anything is read
RcvRequest ==
  /\ pcR = "idle" /\ bridge # 0 /\ stream[bridge] # <<>>
  /\ LET v == Head(stream[bridge]).v IN
       /\ req' = v
       /\ \/ v = clbkCmd /\ ReadNext("type", 4, bridge)
          \/ v \in {newNode, removeNode} /\ ReadNext("key", KeySize, bridge)
          \/ v = oldLeaderDied /\ ReadNext("length", 4, bridge)
          \/ v \in {removeNode, oldLeaderDied, toNewNodeAddPartitions} /\ Done(bridge, {"refused"})
          \/ v \notin {clbkCmd, newNode, removeNode, oldLeaderDied, toNewNodeAddPartitions}
             /\ Done(bridge, {})
  /\ Taken(bridge, 1)
  /\ UNCHANGED <<orders, writers, ends, back, accepts>>

\* mutant: the two counts at the end of the structure are not read
BodySizeNoCounts(type) ==
  CASE type = REQUESTVOTE -> 16
    [] type = REQUESTVOTE_RESPONSE -> 8
    [] type = APPENDENTRIES -> 16
    [] type = APPENDENTRIES_RESPONSE -> 16

BodySize(type) ==
  CASE type = REQUESTVOTE -> 16
    [] type = REQUESTVOTE_RESPONSE -> 8
    [] type = APPENDENTRIES -> 24
    [] type = APPENDENTRIES_RESPONSE -> 16

Enough == rfd # 0 /\ Len(stream[rfd]) >= need

\* HandleSeedClbk: a vote asked for too early is not read, and an unknown
\* type ends the handler
ReadType ==
  /\ pcR = "type" /\ Enough
  /\ LET type == Value(Bytes(rfd, 4)) IN
       \/ type = REQUESTVOTE /\ Done(rfd, {"refused"})
       \/ type \in 0 .. 3 /\ ReadNext(IF type = APPENDENTRIES THEN "entries" ELSE "body", BodySize(type), rfd)
       \/ type > 3 /\ Done(rfd, {})
  /\ Taken(rfd, need)
  /\ UNCHANGED <<orders, writers, ends, back, accepts, req>>

ReadBody ==
  /\ pcR = "body" /\ Enough
  /\ Done(rfd, {})
  /\ Taken(rfd, need)
  /\ UNCHANGED <<orders, writers, ends, back, accepts, req>>

\* m_nSize, the fifth integer, is 0 in what the library sends; a count above
\* the size of the array stands for itself plus one
ReadEntries ==
  /\ pcR = "entries" /\ Enough
  /\ LET m_nSize == Value(SubSeq(Bytes(rfd, need), 17, 20)) IN
       IF m_nSize = 0 THEN Done(rfd, {})
       ELSE ReadNext("body", EntrySize * (IF m_nSize > MaxEntries THEN MaxEntries + 1 ELSE m_nSize), rfd)
  /\ Taken(rfd, need)
  /\ UNCHANGED <<orders, writers, ends, back, accepts, req>>

\* raft_receive_fromAdder_newNode refuses a key it knows
ReadKey ==
  /\ pcR = "key" /\ Enough
  /\ \/ ReadNext("length", 4, rfd)
     \/ req = newNode /\ Done(rfd, {"refused"})
  /\ Taken(rfd, need)
  /\ UNCHANGED <<orders, writers, ends, back, accepts, req>>

\* ReceiveExtraData swaps the length, removeNode does not
ReadLength ==
  /\ pcR = "length" /\ Enough
  /\ LET b == Bytes(rfd, 4)
         n == Value(IF isEndianDiffer /\ req # removeNode THEN SWAP4BYTES(b) ELSE b) IN
       IF n = 0 THEN Done(rfd, {}) ELSE ReadNext("data", n, rfd)
  /\ Taken(rfd, need)
  /\ UNCHANGED <<orders, writers, ends, back, accepts, req>>

ReadData ==
  /\ pcR = "data" /\ Enough
  /\ Done(rfd, {})
  /\ Taken(rfd, need)
  /\ UNCHANGED <<orders, writers, ends, back, accepts, req>>

\* mutant: the descriptor is closed and its number kept
closeCKeeps ==
  /\ bridge' = bridge
  /\ bclosed' = bclosed \cup ({bridge} \ {0})

\* NodeTools::readC closes whatever socket the object holds by now
closeC ==
  /\ bridge' = 0
  /\ bclosed' = bclosed \cup ({bridge} \ {0})

\* mutant: a read ends early only when the writer has gone
ShortReadAtEnd ==
  /\ pcR # "idle" /\ ~Enough /\ sock # rfd
  /\ closeC
  /\ Done(rfd, {})
  /\ UNCHANGED <<orders, writers, ends, stream, back, acc, isEndianDiffer, req>>

\* recv returns what there is, at the end of the stream or after
\* SOCK_TIMEOUT_MS.  ReceiveExtraData leaves the socket open
ShortRead ==
  /\ pcR # "idle" /\ ~Enough
  /\ IF req \in {newNode, oldLeaderDied} /\ pcR \in {"length", "data"}
     THEN /\ Done(rfd, {"cut"})
          /\ UNCHANGED <<bridge, bclosed>>
     ELSE /\ pcR' = "idle" /\ need' = 1 /\ rfd' = 0
          /\ closeC
          /\ UNCHANGED broken
  /\ Taken(rfd, Len(stream[rfd]))
  /\ UNCHANGED <<orders, writers, ends, back, acc, isEndianDiffer, req>>

\* the end of the stream while in select
RcvClosed ==
  /\ pcR = "idle" /\ bridge # 0 /\ stream[bridge] = <<>> /\ sock # bridge
  /\ closeC
  /\ UNCHANGED <<orders, writers, ends, bytes, acc, isEndianDiffer, reader>>
----------------------------------------------------------------------------
Writing(t) == writeC(t) \/ WriteFails(t) \/ FindClosed(t)
Connecting(t) == connectC(t) \/ ReadEndian(t) \/ ConnectFails(t)
Handler(c) == SendEndian(c) \/ ReadRequest(c) \/ ReadPort(c) \/ ReadIndex(c) \/ HandlerFails(c)
Reading == ReadType \/ ReadBody \/ ReadEntries \/ ReadKey \/ ReadLength \/ ReadData \/ ShortRead

Next ==
  \/ \E t \in Thread : Send(t) \/ Writing(t) \/ Connecting(t)
  \/ SendUnlocked \/ RcvTakes \/ RcvEnds
  \/ \E c \in Conn : Handler(c)
  \/ RcvRequest \/ Reading \/ RcvClosed

Spec == Init /\ [][Next]_vars

\* A thread of A that has begun a message goes on, and so does the receive
\* thread of B: connect and the reads have a time-out.  send has none
\* (setTimeout sets SO_RCVTIMEO only) and is assumed not to wait: the buffers
\* of the system are unbounded here.  Nothing is assumed of the thread that accepts: the
\* other host may have stopped
FairSpec ==
  /\ Spec
  /\ \A t \in Thread : WF_vars(Writing(t) \/ Connecting(t))
  /\ WF_vars(Reading)
----------------------------------------------------------------------------
Place == {"idle", "type", "body", "entries", "key", "length", "data", "request", "port", "index"}
MarkedByte == [v : Byte, at : Place, left : Nat, next : Place \X Nat]

\* Every variable stays within its type.  A byte is 8 bits wide, the reader
\* is inside a message exactly when it reads from a connection, the mutex is
\* with a thread that has something to write, and B holds no bridge that it
\* has closed itself
TypeOK ==
  /\ differ \in BOOLEAN /\ greeted \in BOOLEAN /\ isEndianDiffer \in BOOLEAN
  /\ mutex \in Thread \cup {"free"} /\ sent \in 0 .. MaxEvents
  /\ mutex # "free" => pc[mutex] # "idle" /\ todo[mutex] # <<>>
  /\ pc \in [Thread -> {"idle", "write", "connect", "endian"}]
  /\ todo \in [Thread -> Seq(Seq(MarkedByte))]
  /\ shake \in [Thread -> 0 .. 3] /\ went \in [Thread -> 0 .. conns]
  /\ conns \in 0 .. MaxConns /\ sock \in 0 .. conns
  /\ stream \in [Conn -> Seq(MarkedByte)]
  /\ back \in [Conn -> Seq(Byte)] /\ \A c \in Conn : Len(back[c]) <= 2
  /\ broken \in [Conn -> SUBSET Cause]
  /\ acc \in [Conn -> {"none", "accepted", "request", "port", "swapPort", "index", "bridge", "closed"}]
  /\ bclosed \subseteq 1 .. conns /\ bridge \in (0 .. conns) \ bclosed
  /\ pcR \in {"idle", "type", "body", "entries", "key", "length", "data"}
  /\ req \in Byte /\ need \in Nat \ {0} /\ rfd \in 0 .. conns
  /\ pcR = "idle" <=> rfd = 0

\* Between messages the receive thread stands at the first byte of a message
\* (ReceiveFromSocketAndInform takes that byte for a request), unless one of
\* the five things that break a connection has happened on it
InStep ==
  pcR = "idle" /\ bridge # 0 =>
    \/ stream[bridge] = <<>>
    \/ broken[bridge] # {}
    \/ Head(stream[bridge]).at = "idle"

\* Inside a message the receive thread waits for exactly the bytes of the
\* field that comes next, and takes it for what it is: the sizes in
\* HandleSeedClbk and the handlers of news agree with those in
\* SendClbkFunction and SendInformationToNode, whatever the threads of the
\* writer do
ReadsFields ==
  pcR # "idle" =>
    \/ stream[rfd] = <<>>
    \/ broken[rfd] # {}
    \/ Head(stream[rfd]).at = pcR /\ Head(stream[rfd]).left = need

\* What B has guessed of the byte order of A, from the size of the first
\* integer alone (IS_ENDIAN_DIFFER_AND_REQUEST), is true as long as a bridge
\* that nothing has broken is open: the lengths that come over it are swapped
\* when they have to be, and only then.  With raft_swap_4_bytes as it is
\* compiled elsewhere than with MSVC, hosts that differ have no such bridge
OrderKnown ==
  bridge # 0 /\ broken[bridge] = {} => (isEndianDiffer <=> differ)

\* The receive thread never stays inside a message: a writer that stops in
\* the middle of one, or a length that never comes, costs SOCK_TIMEOUT_MS
ReaderReturns == pcR # "idle" ~> pcR = "idle"

\* The send mutex of a bridge is always given back, also when the receive
\* thread has taken the byte order that the thread which holds the mutex
\* waits for in ConnectAndGetEndian2
SendMutexFreed == mutex # "free" ~> mutex = "free"
=============================================================================
