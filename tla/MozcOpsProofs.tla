--------------------------- MODULE MozcOpsProofs ---------------------------
(***************************************************************************)
(* Theorems of the Mozc client, for any number of clients, ops, servers    *)
(* and polls:                                                              *)
(*   OkIsDone           an op that returns Ok was carried out, once;       *)
(*   SessionsAreEnded   a client that is dropped leaves no session.        *)
(*                                                                         *)
(* Both are about requests the server has not served yet: of each op and   *)
(* of each CREATE_SESSION there is one in the queue at most, and none that *)
(* has been served (OpsOnce, Sole).                                        *)
(***************************************************************************)
EXTENDS MozcClientProofs

Owns(c) == pc[c] \in {"ready", "op", "delete", "gone"}

Sent(c, k) == k \in 1..ops[c] /\ (k = ops[c] /\ pc[c] = "op" => waiting[c] # 0)

IsOp(r, c, k) == r.cmd = "op" /\ r.client = c /\ r.op = k

(* An op in the queue is of its client's session, has been sent, is there  *)
(* only once and has not been carried out; what was not sent was not       *)
(* carried out, and what was answered was.                                 *)
OpQueued(i) ==
  LET r == queue[i]
  IN  /\ r.sid = sid[r.client] /\ Owns(r.client)
      /\ Sent(r.client, r.op) /\ executed[r.client][r.op] = 0
      /\ \A j \in 1..Len(queue) : IsOp(queue[j], r.client, r.op) => j = i
OpsOnce ==
  /\ \A i \in 1..Len(queue) : queue[i].cmd = "op" => OpQueued(i)
  /\ \A c \in Clients : \A k \in 1..MaxOps : ~Sent(c, k) => executed[c][k] = 0
  /\ \A c \in Clients :
       answered[c] /\ pc[c] = "op" => executed[c][ops[c]] = 1 \/ sid[c].server # server

OpsInv == SessionInv /\ OpsOnce

LEMMA QueueTypes ==
  ASSUME TypeInv
  PROVE  /\ Len(queue) \in Nat
         /\ \A i \in 1..Len(queue) :
              /\ queue[i].client \in Clients /\ queue[i].cmd \in Commands
              /\ queue[i].op \in 0..MaxOps
<1>1. queue \in Seq(Request)
  BY DEF TypeInv, ClientTypeOK
<1>2. \A i \in 1..Len(queue) : queue[i] \in Request
  BY <1>1
<1> QED BY <1>1, <1>2 DEF Request

LEMMA SentRange ==
  ASSUME TypeInv, NEW c \in Clients, NEW k, Sent(c, k)
  PROVE  k \in 1..MaxOps
<1>1. ops[c] \in 0..MaxOps /\ MaxOps \in Nat
  BY ClientAssumption DEF TypeInv, ClientTypeOK
<1> QED BY <1>1 DEF Sent

(* A step that leaves queue and server alone, after which every client     *)
(* that owned a session owns it, what was sent has been sent, and no op is *)
(* newly answered.                                                         *)
LEMMA OpsKeep ==
  ASSUME OpsInv, queue' = queue, executed' = executed, server' = server,
         \A d \in Clients : Owns(d) => Owns(d)' /\ sid'[d] = sid[d],
         \A d \in Clients : \A k \in 1..MaxOps : Sent(d, k) => Sent(d, k)',
         \A d \in Clients :
           answered'[d] /\ pc'[d] = "op" =>
             answered[d] /\ pc[d] = "op" /\ ops'[d] = ops[d] /\ sid'[d] = sid[d]
  PROVE  OpsOnce'
<1>1. ASSUME NEW i \in 1..Len(queue), queue[i].cmd = "op"
      PROVE  OpQueued(i)'
  <2>1. OpQueued(i) /\ queue[i].client \in Clients /\ queue[i].op \in 0..MaxOps
    BY <1>1, QueueTypes DEF OpsInv, OpsOnce, SessionInv
  <2>2. queue[i].op \in 1..MaxOps
    BY <2>1, SentRange DEF OpQueued, OpsInv, SessionInv
  <2> QED BY <2>1, <2>2 DEF OpQueued
<1>2. \A c \in Clients : \A k \in 1..MaxOps : ~Sent(c, k)' => executed[c][k] = 0
  BY DEF OpsInv, OpsOnce
<1>3. \A c \in Clients :
        answered'[c] /\ pc'[c] = "op" => executed[c][ops'[c]] = 1 \/ sid'[c].server # server
  BY DEF OpsInv, OpsOnce
<1> QED BY <1>1, <1>2, <1>3 DEF OpsOnce

LEMMA OpsInit == ClientInit => OpsInv
<1> SUFFICES ASSUME ClientInit PROVE OpsInv
  OBVIOUS
<1>1. Len(queue) = 0 /\ \A c \in Clients : ~answered[c]
  BY DEF ClientInit
<1>2. \A c \in Clients : \A k \in 1..MaxOps : executed[c][k] = 0
  BY DEF ClientInit
<1> QED BY <1>1, <1>2, SessionInit DEF OpsInv, OpsOnce

LEMMA SearchMoves ==
  ASSUME TypeInv, NEW c \in Clients,
         Begin(c) \/ Quick(c) \/ Find(c) \/ Probe(c) \/ Remove(c) \/ Spawn(c) \/ Poll(c)
  PROVE  /\ pc[c] \in Searching \cup {"none"}
         /\ pc'[c] \in Searching \cup {"create", "gone"}
         /\ pc'[c] = "gone" => pc[c] = "quick"
         /\ \A d \in Clients : d # c => pc'[d] = pc[d]
         /\ UNCHANGED <<at, server, sessions, queue, executed, sid, ops, waiting, answered, ok>>
<1>1. /\ pc[c] \in Searching \cup {"none"}
      /\ UNCHANGED <<at, server, sessions, queue, executed, sid, ops, waiting, answered, ok>>
  BY DEF Begin, Quick, Find, Probe, Remove, Spawn, Poll, Searching, world, exchange
<1>2. \/ pc' = pc /\ pc[c] = "poll"
      \/ \E step \in Searching \cup {"create", "gone"} :
           pc' = [pc EXCEPT ![c] = step] /\ (step = "gone" => pc[c] = "quick")
  BY DEF Begin, Quick, Find, Probe, Remove, Spawn, Poll, Use, Go, Searching
<1>3. pc \in [Clients -> Searching \cup Commands \cup {"none", "ready", "gone"}]
  BY DEF TypeInv, ClientTypeOK
<1>4. \A step : pc' = [pc EXCEPT ![c] = step] =>
        pc'[c] = step /\ \A d \in Clients : d # c => pc'[d] = pc[d]
  BY <1>3
<1>5. CASE pc' = pc /\ pc[c] = "poll"
  BY <1>1, <1>5 DEF Searching
<1>6. ASSUME NEW step \in Searching \cup {"create", "gone"},
             pc' = [pc EXCEPT ![c] = step], step = "gone" => pc[c] = "quick"
      PROVE  /\ pc'[c] \in Searching \cup {"create", "gone"}
             /\ pc'[c] = "gone" => pc[c] = "quick"
             /\ \A d \in Clients : d # c => pc'[d] = pc[d]
  BY <1>4, <1>6
<1> QED BY <1>1, <1>2, <1>5, <1>6

LEMMA FailMoves ==
  ASSUME TypeInv, NEW c \in Clients, Unreachable(c) \/ Hangup(c) \/ Timeout(c)
  PROVE  /\ pc[c] \in Commands /\ ~answered[c] /\ waiting'[c] = 0 /\ ~answered'[c]
         /\ pc[c] = "create" => pc'[c] = "gone"
         /\ pc[c] = "turnOn" => pc'[c] = "delete"
         /\ pc[c] = "op" => pc'[c] = "ready"
         /\ pc[c] = "delete" => pc'[c] = "gone"
         /\ \A d \in Clients : d # c =>
              pc'[d] = pc[d] /\ waiting'[d] = waiting[d] /\ answered'[d] = answered[d]
         /\ UNCHANGED <<at, server, sessions, queue, executed, sid, ops, ok>>
<1>1. /\ pc[c] \in Commands /\ Fails(c) /\ ~answered[c]
      /\ UNCHANGED <<at, server, sessions, queue, executed, sid, ops, ok>>
  BY DEF Unreachable, Hangup, Timeout, Answerless, TypeInv, Asked, world
<1>4. /\ pc[c] = "create" => pc'[c] = "gone"
      /\ pc[c] = "turnOn" => pc'[c] = "delete"
      /\ pc[c] = "op" => pc'[c] = "ready"
      /\ pc[c] = "delete" => pc'[c] = "gone"
      /\ \A d \in Clients : d # c => pc'[d] = pc[d]
  BY <1>1 DEF Fails, Go, TypeInv, ClientTypeOK
<1>5. /\ waiting'[c] = 0 /\ ~answered'[c]
      /\ \A d \in Clients : d # c => waiting'[d] = waiting[d] /\ answered'[d] = answered[d]
  <2>1. CASE Unreachable(c)
    BY <2>1 DEF Unreachable, TypeInv, Asked, exchange
  <2>2. CASE Hangup(c) \/ Timeout(c)
    BY <2>2, EndedKeeps DEF Hangup, Timeout, EndedTypes
  <2> QED BY <2>1, <2>2
<1> QED BY <1>1, <1>4, <1>5

LEMMA ReceiveMoves ==
  ASSUME TypeInv, NEW c \in Clients, Receive(c)
  PROVE  /\ answered[c] /\ waiting[c] # 0 /\ pc[c] \in Commands
         /\ waiting'[c] = 0 /\ ~answered'[c]
         /\ pc[c] = "create" => /\ pc'[c] = "turnOn"
                                /\ sid'[c] = [server |-> waiting[c], client |-> c]
         /\ pc[c] \in {"turnOn", "op"} => pc'[c] = "ready" /\ sid'[c] = sid[c]
         /\ pc[c] = "delete" => pc'[c] = "gone" /\ sid'[c] = sid[c]
         /\ pc[c] # "op" => ok' = ok
         /\ pc[c] = "op" => ok' = [ok EXCEPT ![c] = @ \cup {ops[c]}]
         /\ \A d \in Clients : d # c =>
              /\ pc'[d] = pc[d] /\ sid'[d] = sid[d]
              /\ waiting'[d] = waiting[d] /\ answered'[d] = answered[d]
         /\ UNCHANGED <<at, server, sessions, queue, executed, ops>>
<1>1. /\ answered[c] /\ waiting[c] # 0 /\ pc[c] \in Commands /\ Succeeds(c)
      /\ UNCHANGED <<at, server, sessions, queue, executed, ops>>
  BY DEF Receive, TypeInv, Asked, world
<1>2. /\ waiting'[c] = 0 /\ ~answered'[c]
      /\ \A d \in Clients : d # c => waiting'[d] = waiting[d] /\ answered'[d] = answered[d]
  BY EndedKeeps DEF Receive, EndedTypes
<1>3. \A d \in Clients : d # c => pc'[d] = pc[d] /\ sid'[d] = sid[d]
  BY <1>1, SucceedsKeeps
<1>4. /\ pc[c] = "create" => /\ pc'[c] = "turnOn"
                             /\ sid'[c] = [server |-> waiting[c], client |-> c]
      /\ pc[c] \in {"turnOn", "op"} => pc'[c] = "ready" /\ sid'[c] = sid[c]
      /\ pc[c] = "delete" => pc'[c] = "gone" /\ sid'[c] = sid[c]
  BY <1>1 DEF Succeeds, Go, TypeInv, ClientTypeOK
<1>5. /\ pc[c] # "op" => ok' = ok
      /\ pc[c] = "op" => ok' = [ok EXCEPT ![c] = @ \cup {ops[c]}]
  BY <1>1 DEF Succeeds, Commands
<1> QED BY <1>1, <1>2, <1>3, <1>4, <1>5

LEMMA SendMoves ==
  ASSUME TypeInv, NEW c \in Clients, Send(c)
  PROVE  /\ pc[c] \in Commands /\ waiting[c] = 0 /\ ~answered[c] /\ at # NoSocket
         /\ waiting'[c] = server /\ server \in Nat \ {0}
         /\ \A d \in Clients : d # c => waiting'[d] = waiting[d]
         /\ queue \in Seq(Request) /\ Len(queue) \in Nat /\ Len(queue') = Len(queue) + 1
         /\ \A i \in 1..Len(queue) : queue'[i] = queue[i]
         /\ queue'[Len(queue) + 1] = RequestOf(c)
         /\ UNCHANGED <<at, server, sessions, executed, pc, sid, ops, answered, ok>>
<1>1. /\ pc[c] \in Commands /\ waiting[c] = 0 /\ ~answered[c] /\ Reachable(c)
      /\ queue' = Append(queue, RequestOf(c))
      /\ waiting' = [waiting EXCEPT ![c] = server]
      /\ UNCHANGED <<at, server, sessions, executed, pc, sid, ops, answered, ok>>
  BY DEF Send, TypeInv, Asked
<1>2. at # NoSocket /\ server \in Nat \ {0}
  BY <1>1, ClientAssumption DEF Reachable, FileAnswers, TypeInv, ClientTypeOK, Served
<1>3. waiting'[c] = server /\ \A d \in Clients : d # c => waiting'[d] = waiting[d]
  BY <1>1 DEF TypeInv, ClientTypeOK
<1>4. queue \in Seq(Request)
  BY DEF TypeInv, ClientTypeOK
<1>5. /\ Len(queue) \in Nat /\ Len(queue') = Len(queue) + 1
      /\ \A i \in 1..Len(queue) : queue'[i] = queue[i]
      /\ queue'[Len(queue) + 1] = RequestOf(c)
  BY <1>1, <1>4
<1> QED BY <1>1, <1>2, <1>3, <1>4, <1>5

LEMMA ServeMoves ==
  ASSUME TypeInv, Serve
  PROVE  LET r == queue[1]
         IN  /\ Len(queue) \in Nat /\ 1 \in 1..Len(queue) /\ Len(queue') = Len(queue) - 1
             /\ \A i \in 1..Len(queue') : queue'[i] = queue[i + 1] /\ i + 1 \in 1..Len(queue)
             /\ r \in Request /\ r.client \in Clients /\ r.cmd \in Commands /\ r.op \in 0..MaxOps
             /\ sessions' = SessionsAfter(r) /\ at # NoSocket
             /\ executed' = IF r.cmd = "op" /\ Known(r)
                            THEN [executed EXCEPT ![r.client][r.op] = @ + 1] ELSE executed
             /\ answered' = [answered EXCEPT ![r.client] = @ \/ Awaits(r)]
             /\ UNCHANGED <<at, server, pc, sid, ops, waiting, ok>>
<1>1. queue \in Seq(Request) /\ queue # <<>> /\ at # NoSocket
  BY DEF Serve, TypeInv, ClientTypeOK, Served
<1>2. /\ Len(queue) \in Nat /\ 1 \in 1..Len(queue) /\ Head(queue) = queue[1] /\ queue[1] \in Request
      /\ queue' = Tail(queue) /\ Len(Tail(queue)) = Len(queue) - 1
      /\ \A i \in 1..Len(Tail(queue)) : Tail(queue)[i] = queue[i + 1] /\ i + 1 \in 1..Len(queue)
  <2>1. 1 \in 1..Len(queue)
    BY <1>1
  <2> QED BY <1>1, <2>1, HeadTail DEF Serve
<1>3. queue[1].client \in Clients /\ queue[1].cmd \in Commands /\ queue[1].op \in 0..MaxOps
  BY <1>2 DEF Request
<1> QED BY <1>1, <1>2, <1>3 DEF Serve
-----------------------------------------------------------------------------
LEMMA OpsStep == OpsInv /\ [ClientNext]_cvars => OpsInv'
<1> SUFFICES ASSUME OpsInv, [ClientNext]_cvars PROVE OpsOnce'
  BY SessionStep DEF OpsInv
<1>0. TypeInv /\ TypeInv' /\ SessionInv
  BY TypeStep DEF OpsInv, SessionInv
<1> USE DEF world, exchange, found
<1>1. ASSUME NEW where \in Names \cup {FileSocket}, StartServer(where)
      PROVE  OpsOnce'
  <2>1. server' = server + 1 /\ Len(queue) = 0 /\ queue' = queue /\ UNCHANGED <<executed, pc, sid, ops, exchange>>
    BY <1>0, <1>1 DEF StartServer, TypeInv, Served
  <2>2. ASSUME NEW c \in Clients, answered[c], pc[c] = "op"
        PROVE  sid[c].server # server + 1
    <3>1. server \in Nat /\ sid[c] \in Session /\ sid[c].server <= server
      BY <1>0, <2>2, ClientAssumption DEF SessionInv, Owned, TypeInv, ClientTypeOK
    <3>2. sid[c].server \in Nat
      BY <3>1, ClientAssumption DEF Session
    <3> QED BY <3>1, <3>2
  <2> QED BY <2>1, <2>2 DEF OpsInv, OpsOnce, Sent
<1>2. ASSUME Crash PROVE OpsOnce'
  <2>1. Len(queue') = 0 /\ UNCHANGED <<server, executed, pc, sid, ops, exchange>>
    BY <1>2 DEF Crash
  <2> QED BY <2>1 DEF OpsInv, OpsOnce, Sent
<1>3. ASSUME Serve PROVE OpsOnce'
  <2> DEFINE r == queue[1]
  <2>1. /\ Len(queue) \in Nat /\ 1 \in 1..Len(queue) /\ Len(queue') = Len(queue) - 1
        /\ \A i \in 1..Len(queue') : queue'[i] = queue[i + 1] /\ i + 1 \in 1..Len(queue)
        /\ r.client \in Clients /\ r.cmd \in Commands /\ r.op \in 0..MaxOps
        /\ at # NoSocket
        /\ executed' = IF r.cmd = "op" /\ Known(r)
                       THEN [executed EXCEPT ![r.client][r.op] = @ + 1] ELSE executed
        /\ answered' = [answered EXCEPT ![r.client] = @ \/ Awaits(r)]
        /\ UNCHANGED <<server, pc, sid, ops, waiting>>
    BY <1>0, <1>3, ServeMoves
  <2>2. r.cmd = "op" =>
          /\ r.sid = sid[r.client] /\ Owns(r.client) /\ Sent(r.client, r.op)
          /\ executed[r.client][r.op] = 0
          /\ \A j \in 1..Len(queue) : IsOp(queue[j], r.client, r.op) => j = 1
          /\ r.op \in 1..MaxOps
    <3>1. r.cmd = "op" => OpQueued(1)
      BY <2>1 DEF OpsInv, OpsOnce
    <3>2. r.cmd = "op" /\ Sent(r.client, r.op) => r.op \in 1..MaxOps
      BY <1>0, <2>1, SentRange
    <3> QED BY <3>1, <3>2 DEF OpQueued
  <2>3. executed \in [Clients -> [1..MaxOps -> Nat]]
    BY <1>0 DEF TypeInv, ClientTypeOK
  <2>4. ASSUME NEW c \in Clients, NEW k \in 1..MaxOps
        PROVE  /\ r.cmd = "op" /\ Known(r) /\ c = r.client /\ k = r.op => executed'[c][k] = 1
               /\ ~(r.cmd = "op" /\ c = r.client /\ k = r.op) => executed'[c][k] = executed[c][k]
    <3>1. CASE executed' = executed /\ ~(r.cmd = "op" /\ Known(r))
      BY <3>1
    <3>2. CASE r.cmd = "op" /\ Known(r)
      <4>1. executed' = [executed EXCEPT ![r.client][r.op] = @ + 1]
        BY <2>1, <3>2
      <4>2. executed[r.client] \in [1..MaxOps -> Nat] /\ executed[r.client][r.op] = 0
            /\ r.op \in 1..MaxOps /\ r.client \in Clients
        BY <2>1, <2>2, <2>3, <3>2
      <4>3. /\ c = r.client /\ k = r.op => executed'[c][k] = 1
            /\ ~(c = r.client /\ k = r.op) => executed'[c][k] = executed[c][k]
        <5> DEFINE row == [executed[r.client] EXCEPT ![r.op] = @ + 1]
        <5>1. executed' = [executed EXCEPT ![r.client] = row]
          BY <4>1
        <5>2. row[r.op] = 1 /\ (k # r.op => row[k] = executed[r.client][k])
          <6> DEFINE f == executed[r.client]
          <6>1. f \in [1..MaxOps -> Nat] /\ f[r.op] = 0 /\ r.op \in 1..MaxOps
            BY <4>2
          <6> HIDE DEF f, r
          <6>2. [f EXCEPT ![r.op] = @ + 1][r.op] = 1
            BY <6>1
          <6>3. k # r.op => [f EXCEPT ![r.op] = @ + 1][k] = f[k]
            BY <6>1
          <6> QED BY <6>2, <6>3 DEF f
        <5> HIDE DEF row
        <5>3. executed'[r.client] = row
          BY <2>3, <4>2, <5>1
        <5>4. c # r.client => executed'[c] = executed[c]
          BY <2>3, <5>1
        <5> QED BY <5>2, <5>3, <5>4
      <4> QED BY <3>2, <4>3
    <3> QED BY <2>1, <3>1, <3>2
  <2>5. ASSUME NEW i \in 1..Len(queue'), queue'[i].cmd = "op"
        PROVE  OpQueued(i)'
    <3>1. queue'[i] = queue[i + 1] /\ i + 1 \in 1..Len(queue) /\ i \in Nat \ {0}
      BY <2>1
    <3> DEFINE q == queue[i + 1]
    <3>2. OpQueued(i + 1) /\ q.client \in Clients /\ q.op \in 0..MaxOps
      BY <1>0, <2>5, <3>1, QueueTypes DEF OpsInv, OpsOnce
    <3>3. q.op \in 1..MaxOps
      BY <1>0, <3>2, SentRange DEF OpQueued
    <3>4. ~(r.cmd = "op" /\ q.client = r.client /\ q.op = r.op)
      BY <2>2, <2>5, <3>1 DEF IsOp
    <3>5. executed'[q.client][q.op] = 0
      BY <2>4, <3>2, <3>3, <3>4 DEF OpQueued
    <3>6. \A j \in 1..Len(queue') : IsOp(queue'[j], q.client, q.op) => j = i
      BY <2>1, <3>1, <3>2 DEF OpQueued
    <3> QED BY <2>1, <3>1, <3>2, <3>5, <3>6 DEF OpQueued, Owns, Sent
  <2>6. ASSUME NEW c \in Clients, NEW k \in 1..MaxOps, ~Sent(c, k)'
        PROVE  executed'[c][k] = 0
    <3>1. ~Sent(c, k)
      BY <2>1, <2>6 DEF Sent
    <3> QED BY <2>2, <2>4, <3>1 DEF OpsInv, OpsOnce
  <2>7. ASSUME NEW c \in Clients, answered'[c], pc'[c] = "op"
        PROVE  executed'[c][ops'[c]] = 1 \/ sid'[c].server # server'
    <3>1. ops[c] \in 1..MaxOps
      BY <1>0, <2>1, <2>7, ClientAssumption DEF TypeInv, Asked, ClientTypeOK
    <3>2. CASE answered[c]
      <4>1. executed[c][ops[c]] = 1 \/ sid[c].server # server
        BY <2>1, <2>7, <3>2 DEF OpsInv, OpsOnce
      <4>2. executed[c][ops[c]] = 1 => ~(r.cmd = "op" /\ c = r.client /\ ops[c] = r.op)
        BY <2>2
      <4> QED BY <2>1, <2>4, <3>1, <4>1, <4>2
    <3>3. CASE ~answered[c]
      <4>1. c = r.client /\ Awaits(r)
        BY <1>0, <2>1, <2>7, <3>3 DEF TypeInv, ClientTypeOK
      <4>2. r.cmd = "op" /\ ops[c] = r.op
        BY <2>1, <2>7, <4>1 DEF Awaits
      <4>3. sid[c].server = server => Known(r)
        BY <1>0, <2>1, <2>2, <2>7, <4>1, <4>2 DEF SessionInv, Granted, InUse, Alive, Known
      <4> QED BY <2>1, <2>4, <3>1, <4>1, <4>2, <4>3
    <3> QED BY <3>2, <3>3
  <2> QED BY <2>5, <2>6, <2>7 DEF OpsOnce
<1>4. ASSUME NEW c \in Clients,
             Begin(c) \/ Quick(c) \/ Find(c) \/ Probe(c) \/ Remove(c) \/ Spawn(c) \/ Poll(c)
      PROVE  OpsOnce'
  <2>1. /\ pc[c] \in Searching \cup {"none"}
        /\ pc'[c] \in Searching \cup {"create", "gone"}
        /\ \A d \in Clients : d # c => pc'[d] = pc[d]
        /\ UNCHANGED <<server, queue, executed, sid, ops, waiting, answered>>
    BY <1>0, <1>4, SearchMoves
  <2>2. \A d \in Clients : Owns(d) => Owns(d)' /\ sid'[d] = sid[d]
    BY <2>1 DEF Owns, Searching
  <2>3. \A d \in Clients : \A k \in 1..MaxOps : Sent(d, k) => Sent(d, k)'
    BY <2>1 DEF Sent, Searching
  <2>4. \A d \in Clients : answered'[d] /\ pc'[d] = "op" => answered[d] /\ pc[d] = "op"
    BY <2>1 DEF Searching
  <2> QED BY <2>1, <2>2, <2>3, <2>4, OpsKeep
<1>5. ASSUME NEW c \in Clients, Ask(c)
      PROVE  OpsOnce'
  <2>1. /\ pc[c] = "ready" /\ waiting[c] = 0 /\ ~answered[c] /\ ops[c] \in Nat
        /\ pc'[c] = "op" /\ ops'[c] = ops[c] + 1
        /\ \A d \in Clients : d # c => pc'[d] = pc[d] /\ ops'[d] = ops[d]
        /\ UNCHANGED <<server, queue, executed, sid, waiting, answered>>
    <3>1. /\ pc[c] = "ready" /\ pc' = [pc EXCEPT ![c] = "op"] /\ ops' = [ops EXCEPT ![c] = @ + 1]
          /\ UNCHANGED <<server, queue, executed, sid, waiting, answered>>
      BY <1>5 DEF Ask, Go
    <3>2. /\ pc \in [Clients -> Searching \cup Commands \cup {"none", "ready", "gone"}]
          /\ ops \in [Clients -> 0..MaxOps] /\ waiting \in [Clients -> 0..MaxServers]
      BY <1>0 DEF TypeInv, ClientTypeOK
    <3>3. waiting[c] = 0 /\ ~answered[c]
      BY <1>0, <3>1 DEF TypeInv, Asked, Commands
    <3>4. ops[c] \in Nat
      BY <3>2, ClientAssumption
    <3> QED BY <3>1, <3>2, <3>3, <3>4
  <2>2. \A d \in Clients : Owns(d) => Owns(d)' /\ sid'[d] = sid[d]
    BY <2>1 DEF Owns
  <2>3. ASSUME NEW d \in Clients, NEW k \in 1..MaxOps, Sent(d, k)
        PROVE  Sent(d, k)'
    <3>1. CASE d = c
      BY <2>1, <2>3, <3>1 DEF Sent
    <3>2. CASE d # c
      BY <2>1, <2>3, <3>2 DEF Sent
    <3> QED BY <3>1, <3>2
  <2>4. \A d \in Clients :
          answered'[d] /\ pc'[d] = "op" => answered[d] /\ pc[d] = "op" /\ ops'[d] = ops[d]
    BY <2>1
  <2> QED BY <2>1, <2>2, <2>3, <2>4, OpsKeep
<1>6. ASSUME NEW c \in Clients, Drop(c)
      PROVE  OpsOnce'
  <2>1. /\ pc[c] = "ready" /\ pc'[c] = "delete"
        /\ \A d \in Clients : d # c => pc'[d] = pc[d]
        /\ UNCHANGED <<server, queue, executed, sid, ops, waiting, answered>>
    BY <1>0, <1>6 DEF Drop, Go, TypeInv, ClientTypeOK
  <2>2. \A d \in Clients : Owns(d) => Owns(d)' /\ sid'[d] = sid[d]
    BY <2>1 DEF Owns
  <2>3. \A d \in Clients : \A k \in 1..MaxOps : Sent(d, k) => Sent(d, k)'
    BY <2>1 DEF Sent
  <2>4. \A d \in Clients : answered'[d] /\ pc'[d] = "op" => answered[d] /\ pc[d] = "op"
    BY <2>1
  <2> QED BY <2>1, <2>2, <2>3, <2>4, OpsKeep
<1>7. ASSUME NEW c \in Clients, Send(c)
      PROVE  OpsOnce'
  <2>1. /\ pc[c] \in Commands /\ waiting[c] = 0 /\ ~answered[c]
        /\ waiting'[c] = server /\ server \in Nat \ {0}
        /\ \A d \in Clients : d # c => waiting'[d] = waiting[d]
        /\ Len(queue) \in Nat /\ Len(queue') = Len(queue) + 1
        /\ \A i \in 1..Len(queue) : queue'[i] = queue[i]
        /\ queue'[Len(queue) + 1] = RequestOf(c)
        /\ UNCHANGED <<server, executed, pc, sid, ops, answered>>
    BY <1>0, <1>7, SendMoves
  <2>2. RequestOf(c).client = c /\ RequestOf(c).cmd = pc[c] /\ RequestOf(c).sid = sid[c]
        /\ RequestOf(c).op = ops[c]
    BY DEF RequestOf
  <2>3. \A d \in Clients : \A k \in 1..MaxOps : Sent(d, k) => Sent(d, k)'
    BY <2>1 DEF Sent
  <2>4. pc[c] = "op" =>
          /\ ops[c] \in 1..MaxOps /\ ~Sent(c, ops[c]) /\ Sent(c, ops[c])'
          /\ executed[c][ops[c]] = 0
          /\ \A j \in 1..Len(queue) : ~IsOp(queue[j], c, ops[c])
    <3>1. pc[c] = "op" => ops[c] \in 1..MaxOps
      BY <1>0, ClientAssumption DEF TypeInv, Asked, ClientTypeOK
    <3>2. pc[c] = "op" => ~Sent(c, ops[c]) /\ Sent(c, ops[c])'
      BY <2>1, <3>1 DEF Sent
    <3>3. pc[c] = "op" => executed[c][ops[c]] = 0
      BY <3>1, <3>2 DEF OpsInv, OpsOnce
    <3>4. \A j \in 1..Len(queue) : IsOp(queue[j], c, ops[c]) => Sent(c, ops[c])
      BY DEF OpsInv, OpsOnce, OpQueued, IsOp
    <3> QED BY <3>1, <3>2, <3>3, <3>4
  <2>5. ASSUME NEW i \in 1..Len(queue'), queue'[i].cmd = "op"
        PROVE  OpQueued(i)'
    <3>1. CASE i \in 1..Len(queue)
      <4> DEFINE q == queue[i]
      <4>1. OpQueued(i) /\ q.client \in Clients /\ q.op \in 0..MaxOps /\ queue'[i] = q /\ q.cmd = "op"
        BY <1>0, <2>1, <2>5, <3>1, QueueTypes DEF OpsInv, OpsOnce
      <4>2. q.op \in 1..MaxOps
        BY <1>0, <4>1, SentRange DEF OpQueued
      <4>3. ~IsOp(RequestOf(c), q.client, q.op)
        BY <2>2, <2>4, <3>1, <4>1 DEF IsOp
      <4>4. \A j \in 1..Len(queue') : IsOp(queue'[j], q.client, q.op) => j = i
        <5>1. \A j \in 1..Len(queue') : j \in 1..Len(queue) \/ j = Len(queue) + 1
          BY <2>1
        <5> QED BY <2>1, <4>1, <4>3, <5>1 DEF OpQueued
      <4> QED BY <2>1, <2>3, <4>1, <4>2, <4>4 DEF OpQueued, Owns
    <3>2. CASE i = Len(queue) + 1
      <4>1. queue'[i] = RequestOf(c) /\ pc[c] = "op"
        BY <2>1, <2>2, <2>5, <3>2
      <4>2. \A j \in 1..Len(queue') : IsOp(queue'[j], c, ops[c]) => j = i
        <5>1. \A j \in 1..Len(queue') : j \in 1..Len(queue) \/ j = Len(queue) + 1
          BY <2>1
        <5> QED BY <2>1, <2>4, <3>2, <4>1, <5>1
      <4> QED BY <2>1, <2>2, <2>4, <4>1, <4>2 DEF OpQueued, Owns
    <3> QED BY <2>1, <2>5, <3>1, <3>2
  <2> QED BY <2>1, <2>3, <2>5 DEF OpsInv, OpsOnce
<1>8. ASSUME NEW c \in Clients, Unreachable(c) \/ Hangup(c) \/ Timeout(c)
      PROVE  OpsOnce'
  <2>1. /\ pc[c] \in Commands /\ waiting'[c] = 0 /\ ~answered'[c]
        /\ pc'[c] # "op" /\ (Owns(c) => Owns(c)')
        /\ \A d \in Clients : d # c =>
             pc'[d] = pc[d] /\ waiting'[d] = waiting[d] /\ answered'[d] = answered[d]
        /\ UNCHANGED <<server, queue, executed, sid, ops>>
    BY <1>0, <1>8, FailMoves DEF Commands, Owns
  <2>2. \A d \in Clients : Owns(d) => Owns(d)' /\ sid'[d] = sid[d]
    BY <2>1 DEF Owns
  <2>3. \A d \in Clients : \A k \in 1..MaxOps : Sent(d, k) => Sent(d, k)'
    BY <2>1 DEF Sent
  <2>4. \A d \in Clients : answered'[d] /\ pc'[d] = "op" => answered[d] /\ pc[d] = "op"
    BY <2>1
  <2> QED BY <2>1, <2>2, <2>3, <2>4, OpsKeep
<1>9. ASSUME NEW c \in Clients, Receive(c)
      PROVE  OpsOnce'
  <2>1. /\ pc[c] \in Commands /\ waiting'[c] = 0 /\ ~answered'[c]
        /\ pc'[c] # "op" /\ (Owns(c) => Owns(c)' /\ sid'[c] = sid[c])
        /\ \A d \in Clients : d # c =>
             /\ pc'[d] = pc[d] /\ sid'[d] = sid[d]
             /\ waiting'[d] = waiting[d] /\ answered'[d] = answered[d]
        /\ UNCHANGED <<server, queue, executed, ops>>
    BY <1>0, <1>9, ReceiveMoves DEF Commands, Owns
  <2>2. \A d \in Clients : Owns(d) => Owns(d)' /\ sid'[d] = sid[d]
    BY <2>1 DEF Owns
  <2>3. \A d \in Clients : \A k \in 1..MaxOps : Sent(d, k) => Sent(d, k)'
    BY <2>1 DEF Sent
  <2>4. \A d \in Clients : answered'[d] /\ pc'[d] = "op" => answered[d] /\ pc[d] = "op" /\ sid'[d] = sid[d]
    BY <2>1
  <2> QED BY <2>1, <2>2, <2>3, <2>4, OpsKeep
<1>10. ASSUME UNCHANGED cvars PROVE OpsOnce'
  BY <1>10 DEF cvars, OpsInv, OpsOnce, OpQueued, Owns, Sent, IsOp
<1>11. ASSUME NEW c \in Clients, ClientStep(c)
       PROVE  OpsOnce'
  BY <1>4, <1>7, <1>8, <1>9, <1>11 DEF ClientStep
<1>12. ASSUME ClientNext
       PROVE  OpsOnce'
  BY <1>1, <1>2, <1>3, <1>4, <1>5, <1>6, <1>11, <1>12 DEF ClientNext
<1> QED BY <1>10, <1>12

(* An op that returns Ok was carried out once in the client's session, as  *)
(* long as the server that has it lives: nothing is sent twice, and an     *)
(* answer is never that of another command.                                *)
THEOREM OkIsDone == ClientSpec => OkMeansDone
<1>1. ASSUME OpsInv, [ClientNext]_cvars
      PROVE  [\A c \in Clients : \A k \in ok'[c] \ ok[c] :
                executed[c][k] = 1 \/ sid[c].server # server]_cvars
  <2>0. TypeInv
    BY <1>1 DEF OpsInv, SessionInv
  <2> USE DEF world, exchange, found
  <2>1. ASSUME ok' = ok
        PROVE  \A c \in Clients : \A k \in ok'[c] \ ok[c] :
                 executed[c][k] = 1 \/ sid[c].server # server
    BY <2>1
  <2>2. ASSUME NEW d \in Clients, Receive(d)
        PROVE  \A c \in Clients : \A k \in ok'[c] \ ok[c] :
                 executed[c][k] = 1 \/ sid[c].server # server
    <3>1. /\ answered[d]
          /\ pc[d] # "op" => ok' = ok
          /\ pc[d] = "op" => ok' = [ok EXCEPT ![d] = @ \cup {ops[d]}]
      BY <2>0, <2>2, ReceiveMoves
    <3>2. CASE pc[d] # "op"
      BY <2>1, <3>1, <3>2
    <3>3. CASE pc[d] = "op"
      <4>1. executed[d][ops[d]] = 1 \/ sid[d].server # server
        BY <1>1, <3>1, <3>3 DEF OpsInv, OpsOnce
      <4>2. \A c \in Clients : \A k \in ok'[c] \ ok[c] : c = d /\ k = ops[d]
        BY <2>0, <3>1, <3>3 DEF TypeInv, ClientTypeOK
      <4> QED BY <4>1, <4>2
    <3> QED BY <3>2, <3>3
  <2>3. ASSUME NEW d \in Clients,
               \/ Begin(d) \/ Quick(d) \/ Find(d) \/ Probe(d) \/ Remove(d) \/ Spawn(d) \/ Poll(d)
               \/ Send(d) \/ Unreachable(d) \/ Hangup(d) \/ Timeout(d) \/ Ask(d) \/ Drop(d)
        PROVE  ok' = ok
    BY <2>3 DEF Begin, Quick, Find, Probe, Remove, Spawn, Poll, Send, Unreachable, Hangup,
                Timeout, Ask, Drop
  <2>4. ASSUME Crash \/ Serve \/ \E where \in Names \cup {FileSocket} : StartServer(where)
        PROVE  ok' = ok
    BY <2>4 DEF Crash, Serve, StartServer
  <2> QED BY <1>1, <2>1, <2>2, <2>3, <2>4 DEF ClientNext, ClientStep
<1> QED BY <1>1, OpsInit, OpsStep, PTL DEF ClientSpec, OkMeansDone

-----------------------------------------------------------------------------
(* The session of a client is the one whose id it has, unless it is gone.  *)
SessionKept(s) ==
  LET c == s.client
  IN  /\ c \in Clients /\ s.server = server
      /\ pc[c] \in Commands \cup {"ready", "gone"}
      /\ pc[c] = "create" => waiting[c] = server
      /\ pc[c] \in {"turnOn", "ready", "op", "delete"} => s = sid[c]
      /\ pc[c] = "delete" => ~answered[c]

(* A CREATE_SESSION in the queue is its client's only one, which waits for *)
(* the answer or has given up.                                             *)
Sole(i) ==
  LET c == queue[i].client
  IN  /\ pc[c] \in {"create", "gone"}
      /\ pc[c] = "create" => waiting[c] = server /\ ~answered[c]
      /\ \A j \in 1..Len(queue) : queue[j].cmd = "create" /\ queue[j].client = c => j = i

Ends ==
  /\ at = NoSocket => DOMAIN sessions = {}
  /\ \A s \in DOMAIN sessions : SessionKept(s)
  /\ \A i \in 1..Len(queue) :
       /\ queue[i].cmd = "create" => Sole(i)
       /\ queue[i].cmd = "delete" => queue[i].sid = sid[queue[i].client]

EndsInv == SessionInv /\ Ends

LEMMA EndsInit == ClientInit => EndsInv
<1> SUFFICES ASSUME ClientInit PROVE EndsInv
  OBVIOUS
<1>1. Len(queue) = 0 /\ DOMAIN sessions = {}
  BY DEF ClientInit, NoSessions
<1> QED BY <1>1, SessionInit DEF EndsInv, Ends

(* A step of c that leaves the server alone and, with it, everything that  *)
(* sessions and queue say about c.                                         *)
LEMMA EndsKeep ==
  ASSUME EndsInv, NEW c \in Clients,
         UNCHANGED <<at, server, sessions, queue>>,
         \A d \in Clients : d # c =>
           /\ pc'[d] = pc[d] /\ sid'[d] = sid[d]
           /\ waiting'[d] = waiting[d] /\ answered'[d] = answered[d],
         \A s \in DOMAIN sessions : s.client = c => SessionKept(s)',
         \A i \in 1..Len(queue) :
           queue[i].client = c =>
             /\ queue[i].cmd = "create" =>
                  pc'[c] = "gone" \/ (pc'[c] = "create" /\ waiting'[c] = server /\ ~answered'[c])
             /\ queue[i].cmd = "delete" => sid'[c] = sid[c]
  PROVE  Ends'
<1>1. ASSUME NEW s \in DOMAIN sessions
      PROVE  SessionKept(s)'
  <2>1. SessionKept(s)
    BY DEF EndsInv, Ends
  <2>2. CASE s.client = c
    BY <2>2
  <2>3. CASE s.client # c
    BY <2>1, <2>3 DEF SessionKept
  <2> QED BY <2>2, <2>3
<1>2. ASSUME NEW i \in 1..Len(queue), queue[i].cmd = "create"
      PROVE  Sole(i)'
  <2>1. Sole(i) /\ queue[i].client \in Clients
    BY <1>2, QueueTypes DEF EndsInv, Ends, SessionInv
  <2>2. CASE queue[i].client = c
    BY <1>2, <2>1, <2>2 DEF Sole
  <2>3. CASE queue[i].client # c
    BY <1>2, <2>1, <2>3 DEF Sole
  <2> QED BY <2>2, <2>3
<1>3. ASSUME NEW i \in 1..Len(queue), queue[i].cmd = "delete"
      PROVE  queue[i].sid = sid'[queue[i].client]
  <2>1. queue[i].sid = sid[queue[i].client] /\ queue[i].client \in Clients
    BY <1>3, QueueTypes DEF EndsInv, Ends, SessionInv
  <2> QED BY <1>3, <2>1
<1>4. at' = NoSocket => DOMAIN sessions' = {}
  BY DEF EndsInv, Ends
<1> QED BY <1>1, <1>2, <1>3, <1>4 DEF Ends

LEMMA EndsStep == EndsInv /\ [ClientNext]_cvars => EndsInv'
<1> SUFFICES ASSUME EndsInv, [ClientNext]_cvars PROVE Ends'
  BY SessionStep DEF EndsInv
<1>0. TypeInv /\ TypeInv' /\ SessionInv
  BY TypeStep DEF EndsInv, SessionInv
<1> USE DEF world, exchange, found
<1>1. ASSUME NEW where \in Names \cup {FileSocket}, StartServer(where)
      PROVE  Ends'
  <2>1. /\ at = NoSocket /\ queue' = queue /\ sessions' = sessions /\ Len(queue) = 0
    BY <1>0, <1>1 DEF StartServer, TypeInv, Served
  <2>2. DOMAIN sessions = {}
    BY <2>1 DEF EndsInv, Ends
  <2> QED BY <2>1, <2>2 DEF Ends
<1>2. ASSUME Crash PROVE Ends'
  <2>1. Len(queue') = 0 /\ DOMAIN sessions' = {}
    BY <1>2 DEF Crash, NoSessions
  <2> QED BY <2>1 DEF Ends
<1>3. ASSUME Serve PROVE Ends'
  <2> DEFINE r == queue[1]
  <2>1. /\ Len(queue) \in Nat /\ 1 \in 1..Len(queue) /\ Len(queue') = Len(queue) - 1
        /\ \A i \in 1..Len(queue') : queue'[i] = queue[i + 1] /\ i + 1 \in 1..Len(queue)
        /\ r.client \in Clients /\ r.cmd \in Commands
        /\ sessions' = SessionsAfter(r) /\ at # NoSocket
        /\ answered' = [answered EXCEPT ![r.client] = @ \/ Awaits(r)]
        /\ UNCHANGED <<at, server, pc, sid, ops, waiting>>
    BY <1>0, <1>3, ServeMoves
  <2>2. /\ r.cmd = "create" => Sole(1)
        /\ r.cmd = "delete" => r.sid = sid[r.client] /\ pc[r.client] \in {"delete", "gone"}
    BY <1>0, <2>1 DEF EndsInv, Ends, SessionInv, Harmless
  <2>3. \A d \in Clients : answered'[d] => answered[d] \/ (d = r.client /\ pc[d] = r.cmd)
    BY <1>0, <2>1 DEF Awaits, TypeInv, ClientTypeOK
  <2>4. \A s \in DOMAIN sessions' :
          \/ s \in DOMAIN sessions /\ (r.cmd = "delete" => s # r.sid)
          \/ r.cmd = "create" /\ s = [server |-> server, client |-> r.client]
    <3>1. CASE r.cmd = "create"
      <4>1. DOMAIN sessions' = DOMAIN sessions \cup {[server |-> server, client |-> r.client]}
        BY <2>1, <3>1 DEF SessionsAfter
      <4> QED BY <3>1, <4>1
    <3>2. CASE r.cmd = "turnOn"
      <4>1. DOMAIN sessions' = DOMAIN sessions
        BY <2>1, <3>2 DEF SessionsAfter
      <4> QED BY <3>2, <4>1
    <3>3. CASE r.cmd = "delete"
      <4>1. DOMAIN sessions' = DOMAIN sessions \ {r.sid}
        BY <2>1, <3>3 DEF SessionsAfter, Known
      <4> QED BY <4>1
    <3>4. CASE r.cmd = "op"
      <4>1. sessions' = sessions
        BY <2>1, <3>4 DEF SessionsAfter
      <4> QED BY <3>4, <4>1
    <3> QED BY <2>1, <3>1, <3>2, <3>3, <3>4 DEF Commands
  <2>5. ASSUME NEW s \in DOMAIN sessions'
        PROVE  SessionKept(s)'
    <3>1. CASE s \in DOMAIN sessions /\ (r.cmd = "delete" => s # r.sid)
      <4>1. SessionKept(s)
        BY <3>1 DEF EndsInv, Ends
      <4>2. pc[s.client] = "delete" => ~answered'[s.client]
        BY <2>2, <2>3, <3>1, <4>1 DEF SessionKept
      <4> QED BY <2>1, <4>1, <4>2 DEF SessionKept
    <3>2. CASE r.cmd = "create" /\ s = [server |-> server, client |-> r.client]
      <4>1. s.client = r.client /\ s.server = server /\ Sole(1)
        BY <2>2, <3>2
      <4> QED BY <2>1, <4>1 DEF SessionKept, Sole, Commands
    <3> QED BY <2>4, <3>1, <3>2
  <2>6. ASSUME NEW i \in 1..Len(queue'), queue'[i].cmd = "create"
        PROVE  Sole(i)'
    <3>1. queue'[i] = queue[i + 1] /\ i + 1 \in 1..Len(queue) /\ i \in Nat \ {0}
      BY <2>1
    <3> DEFINE c == queue[i + 1].client
    <3>2. Sole(i + 1) /\ c \in Clients
      BY <1>0, <2>6, <3>1, QueueTypes DEF EndsInv, Ends
    <3>3. ~(r.cmd = "create" /\ r.client = c)
      BY <2>1, <3>1, <3>2 DEF Sole
    <3>4. pc[c] = "create" => waiting[c] = server /\ ~answered'[c]
      BY <2>3, <3>2, <3>3 DEF Sole
    <3>5. \A j \in 1..Len(queue') : queue'[j].cmd = "create" /\ queue'[j].client = c => j = i
      BY <2>1, <3>1, <3>2 DEF Sole
    <3> QED BY <2>1, <3>1, <3>2, <3>4, <3>5 DEF Sole
  <2>7. \A i \in 1..Len(queue') :
          queue'[i].cmd = "delete" => queue'[i].sid = sid'[queue'[i].client]
    BY <2>1 DEF EndsInv, Ends
  <2> QED BY <2>1, <2>5, <2>6, <2>7 DEF Ends
<1>4. ASSUME NEW c \in Clients,
             Begin(c) \/ Quick(c) \/ Find(c) \/ Probe(c) \/ Remove(c) \/ Spawn(c) \/ Poll(c)
      PROVE  Ends'
  <2>1. /\ pc[c] \in Searching \cup {"none"}
        /\ \A d \in Clients : d # c => pc'[d] = pc[d]
        /\ UNCHANGED <<at, server, sessions, queue, sid, waiting, answered>>
    BY <1>0, <1>4, SearchMoves
  <2>2. \A s \in DOMAIN sessions : s.client # c
    BY <2>1 DEF EndsInv, Ends, SessionKept, Searching, Commands
  <2>3. \A i \in 1..Len(queue) : queue[i].client = c => queue[i].cmd # "create"
    BY <2>1 DEF EndsInv, Ends, Sole, Searching
  <2> QED BY <2>1, <2>2, <2>3, EndsKeep
<1>5. ASSUME NEW c \in Clients, Ask(c) \/ Drop(c)
      PROVE  Ends'
  <2>1. /\ pc[c] = "ready" /\ pc'[c] \in {"op", "delete"} /\ ~answered[c]
        /\ \A d \in Clients : d # c => pc'[d] = pc[d]
        /\ UNCHANGED <<at, server, sessions, queue, sid, waiting, answered>>
    <3>1. /\ pc[c] = "ready" /\ \E step \in {"op", "delete"} : pc' = [pc EXCEPT ![c] = step]
          /\ UNCHANGED <<at, server, sessions, queue, sid, waiting, answered>>
      BY <1>5 DEF Ask, Drop, Go
    <3>2. ~answered[c]
      BY <1>0, <3>1 DEF TypeInv, Asked, Commands
    <3>3. pc \in [Clients -> Searching \cup Commands \cup {"none", "ready", "gone"}]
      BY <1>0 DEF TypeInv, ClientTypeOK
    <3> QED BY <3>1, <3>2, <3>3
  <2>2. \A s \in DOMAIN sessions : s.client = c => SessionKept(s)'
    BY <2>1 DEF EndsInv, Ends, SessionKept, Commands
  <2>3. \A i \in 1..Len(queue) : queue[i].client = c => queue[i].cmd # "create"
    BY <2>1 DEF EndsInv, Ends, Sole
  <2> QED BY <2>1, <2>2, <2>3, EndsKeep
<1>6. ASSUME NEW c \in Clients, Send(c)
      PROVE  Ends'
  <2>1. /\ pc[c] \in Commands /\ waiting[c] = 0 /\ ~answered[c] /\ at # NoSocket
        /\ waiting'[c] = server /\ server \in Nat \ {0}
        /\ \A d \in Clients : d # c => waiting'[d] = waiting[d]
        /\ Len(queue) \in Nat /\ Len(queue') = Len(queue) + 1
        /\ \A i \in 1..Len(queue) : queue'[i] = queue[i]
        /\ queue'[Len(queue) + 1] = RequestOf(c)
        /\ UNCHANGED <<at, server, sessions, pc, sid, answered>>
    BY <1>0, <1>6, SendMoves
  <2>2. RequestOf(c).client = c /\ RequestOf(c).cmd = pc[c] /\ RequestOf(c).sid = sid[c]
    BY DEF RequestOf
  <2>3. ASSUME NEW s \in DOMAIN sessions
        PROVE  SessionKept(s)'
    BY <2>1 DEF EndsInv, Ends, SessionKept
  <2>4. pc[c] = "create" =>
          \A i \in 1..Len(queue) : ~(queue[i].cmd = "create" /\ queue[i].client = c)
    BY <2>1 DEF EndsInv, Ends, Sole
  <2>5. \A j \in 1..Len(queue') : j \in 1..Len(queue) \/ j = Len(queue) + 1
    BY <2>1
  <2>6. ASSUME NEW i \in 1..Len(queue'), queue'[i].cmd = "create"
        PROVE  Sole(i)'
    <3>1. CASE i \in 1..Len(queue)
      <4> DEFINE d == queue[i].client
      <4>1. Sole(i) /\ queue'[i] = queue[i] /\ d \in Clients
        BY <1>0, <2>1, <2>6, <3>1, QueueTypes DEF EndsInv, Ends
      <4>2. ~(pc[c] = "create" /\ d = c)
        BY <2>1, <2>4, <2>6, <3>1
      <4>3. \A j \in 1..Len(queue') : queue'[j].cmd = "create" /\ queue'[j].client = d => j = i
        BY <2>1, <2>2, <2>5, <4>1, <4>2 DEF Sole
      <4>4. pc[d] = "create" => waiting'[d] = server
        BY <2>1, <4>1, <4>2 DEF Sole
      <4> QED BY <2>1, <4>1, <4>3, <4>4 DEF Sole
    <3>2. CASE i = Len(queue) + 1
      <4>1. queue'[i].client = c /\ pc[c] = "create"
        BY <2>1, <2>2, <2>6, <3>2
      <4>2. \A j \in 1..Len(queue') : queue'[j].cmd = "create" /\ queue'[j].client = c => j = i
        BY <2>1, <2>4, <2>5, <3>2, <4>1
      <4> QED BY <2>1, <4>1, <4>2 DEF Sole
    <3> QED BY <2>5, <3>1, <3>2
  <2>7. \A i \in 1..Len(queue') :
          queue'[i].cmd = "delete" => queue'[i].sid = sid'[queue'[i].client]
    BY <2>1, <2>2, <2>5 DEF EndsInv, Ends
  <2> QED BY <2>1, <2>3, <2>6, <2>7 DEF Ends
<1>7. ASSUME NEW c \in Clients, Unreachable(c) \/ Hangup(c) \/ Timeout(c)
      PROVE  Ends'
  <2>1. /\ pc[c] \in Commands /\ ~answered'[c]
        /\ pc[c] = "create" => pc'[c] = "gone"
        /\ pc[c] = "turnOn" => pc'[c] = "delete"
        /\ pc[c] = "op" => pc'[c] = "ready"
        /\ pc[c] = "delete" => pc'[c] = "gone"
        /\ \A d \in Clients : d # c =>
             pc'[d] = pc[d] /\ waiting'[d] = waiting[d] /\ answered'[d] = answered[d]
        /\ UNCHANGED <<at, server, sessions, queue, sid>>
    BY <1>0, <1>7, FailMoves
  <2>2. \A s \in DOMAIN sessions : s.client = c => SessionKept(s)'
    BY <2>1 DEF EndsInv, Ends, SessionKept, Commands
  <2>3. \A i \in 1..Len(queue) : queue[i].client = c /\ queue[i].cmd = "create" => pc'[c] = "gone"
    <3>1. \A i \in 1..Len(queue) :
            queue[i].client = c /\ queue[i].cmd = "create" => pc[c] \in {"create", "gone"}
      BY DEF EndsInv, Ends, Sole
    <3> QED BY <2>1, <3>1 DEF Commands
  <2> QED BY <2>1, <2>2, <2>3, EndsKeep
<1>8. ASSUME NEW c \in Clients, Receive(c)
      PROVE  Ends'
  <2>1. /\ answered[c] /\ waiting[c] # 0 /\ pc[c] \in Commands /\ ~answered'[c]
        /\ pc[c] = "create" => /\ pc'[c] = "turnOn"
                               /\ sid'[c] = [server |-> waiting[c], client |-> c]
        /\ pc[c] \in {"turnOn", "op"} => pc'[c] = "ready" /\ sid'[c] = sid[c]
        /\ pc[c] = "delete" => pc'[c] = "gone" /\ sid'[c] = sid[c]
        /\ \A d \in Clients : d # c =>
             /\ pc'[d] = pc[d] /\ sid'[d] = sid[d]
             /\ waiting'[d] = waiting[d] /\ answered'[d] = answered[d]
        /\ UNCHANGED <<at, server, sessions, queue>>
    BY <1>0, <1>8, ReceiveMoves
  <2>2. ASSUME NEW s \in DOMAIN sessions, s.client = c
        PROVE  SessionKept(s)'
    <3>1. SessionKept(s) /\ s \in Session
      BY <1>0, <2>2 DEF EndsInv, Ends, TypeInv, ClientTypeOK
    <3>2. CASE pc[c] = "create"
      <4>1. s = [server |-> waiting[c], client |-> c]
        BY <2>2, <3>1, <3>2 DEF SessionKept, Session
      <4> QED BY <2>1, <2>2, <3>1, <3>2, <4>1 DEF SessionKept, Commands
    <3>3. CASE pc[c] # "create"
      BY <2>1, <2>2, <3>1, <3>3 DEF SessionKept, Commands
    <3> QED BY <3>2, <3>3
  <2>3. \A i \in 1..Len(queue) : queue[i].client = c => queue[i].cmd # "create"
    BY <2>1 DEF EndsInv, Ends, Sole, Commands
  <2>4. \A i \in 1..Len(queue) :
          queue[i].client = c /\ queue[i].cmd = "delete" => sid'[c] = sid[c]
    BY <1>0, <2>1 DEF SessionInv, Harmless, Commands
  <2> QED BY <2>1, <2>2, <2>3, <2>4, EndsKeep
<1>9. ASSUME UNCHANGED cvars PROVE Ends'
  BY <1>9 DEF cvars, EndsInv, Ends, SessionKept, Sole
<1>10. ASSUME NEW c \in Clients, ClientStep(c)
       PROVE  Ends'
  BY <1>4, <1>6, <1>7, <1>8, <1>10 DEF ClientStep
<1>11. ASSUME ClientNext
       PROVE  Ends'
  BY <1>1, <1>2, <1>3, <1>4, <1>5, <1>10, <1>11 DEF ClientNext
<1> QED BY <1>9, <1>11

(* A client leaves no session on the server, whatever step of connecting   *)
(* failed, unless CREATE_SESSION or DELETE_SESSION was not answered.       *)
THEOREM SessionsAreEnded == ClientSpec => SessionsEnd
<1>1. ASSUME EndsInv, [ClientNext]_cvars
      PROVE  [\A c \in Clients :
                pc[c] # "gone" /\ pc'[c] = "gone" =>
                  Left(c) \/ \A s \in DOMAIN sessions : s.client # c]_cvars
  <2>0. TypeInv
    BY <1>1 DEF EndsInv, SessionInv
  <2> SUFFICES ASSUME NEW c \in Clients, pc[c] # "gone", pc'[c] = "gone"
               PROVE  Left(c) \/ \A s \in DOMAIN sessions : s.client # c
    OBVIOUS
  <2> USE DEF world, exchange, found
  <2>1. ASSUME NEW d \in Clients, d # c
        PROVE  ~(Begin(d) \/ Ask(d) \/ Drop(d) \/ ClientStep(d))
    <3>1. ASSUME Begin(d) \/ Quick(d) \/ Find(d) \/ Probe(d) \/ Remove(d) \/ Spawn(d) \/ Poll(d)
          PROVE  pc'[c] = pc[c]
      BY <2>0, <2>1, <3>1, SearchMoves
    <3>2. ASSUME Ask(d) \/ Drop(d) PROVE pc'[c] = pc[c]
      BY <2>0, <2>1, <3>2 DEF Ask, Drop, Go, TypeInv, ClientTypeOK
    <3>3. ASSUME Send(d) PROVE pc'[c] = pc[c]
      BY <3>3 DEF Send
    <3>4. ASSUME Unreachable(d) \/ Hangup(d) \/ Timeout(d) PROVE pc'[c] = pc[c]
      BY <2>0, <2>1, <3>4, FailMoves
    <3>5. ASSUME Receive(d) PROVE pc'[c] = pc[c]
      BY <2>0, <2>1, <3>5, ReceiveMoves
    <3> QED BY <3>1, <3>2, <3>3, <3>4, <3>5 DEF ClientStep
  <2>2. ASSUME Begin(c) \/ Quick(c) \/ Find(c) \/ Probe(c) \/ Remove(c) \/ Spawn(c) \/ Poll(c)
        PROVE  \A s \in DOMAIN sessions : s.client # c
    <3>1. pc[c] = "quick"
      BY <2>0, <2>2, SearchMoves
    <3> QED BY <1>1, <3>1 DEF EndsInv, Ends, SessionKept, Commands
  <2>3. ASSUME Unreachable(c) \/ Hangup(c) \/ Timeout(c)
        PROVE  Left(c)
    BY <2>0, <2>3, FailMoves DEF Left, Commands
  <2>4. ASSUME Receive(c)
        PROVE  \A s \in DOMAIN sessions : s.client # c
    <3>1. pc[c] = "delete" /\ answered[c]
      BY <2>0, <2>4, ReceiveMoves DEF Commands
    <3> QED BY <1>1, <3>1 DEF EndsInv, Ends, SessionKept
  <2>5. ~(Ask(c) \/ Drop(c) \/ Send(c))
    BY <2>0 DEF Ask, Drop, Send, Go, TypeInv, ClientTypeOK
  <2>6. ~(Crash \/ Serve \/ (\E where \in Names \cup {FileSocket} : StartServer(where)) \/ UNCHANGED cvars)
    BY DEF Crash, Serve, StartServer, cvars
  <2> QED BY <1>1, <2>1, <2>2, <2>3, <2>4, <2>5, <2>6 DEF ClientNext, ClientStep
<1> QED BY <1>1, EndsInit, EndsStep, PTL DEF ClientSpec, SessionsEnd
=============================================================================
