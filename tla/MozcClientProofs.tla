------------------------- MODULE MozcClientProofs --------------------------
(***************************************************************************)
(* Theorems of the Mozc client, for any number of clients, ops, servers    *)
(* and polls:                                                              *)
(*   ClientTypes   every field keeps its type, and polling is bounded;     *)
(*   SessionIsOn   a client in use has a live session with IME on.         *)
(*                                                                         *)
(* Neither is inductive.  SessionIsOn needs to know what the server has    *)
(* done by the time a response is there (Granted), and that the commands   *)
(* still in its queue are no threat to a session in use (Harmless).        *)
(***************************************************************************)
EXTENDS MozcClient, TLAPS

Served == /\ at # NoSocket => server # 0
          /\ queue # <<>> => at # NoSocket

Asked == \A c \in Clients : /\ answered[c] => waiting[c] # 0
                            /\ waiting[c] # 0 => pc[c] \in Commands
                            /\ pc[c] = "op" => ops[c] # 0

TypeInv == ClientTypeOK /\ Served /\ Asked

InUse(c) == pc[c] \in {"turnOn", "ready", "op"}
Alive(c) == sid[c].server = server /\ at # NoSocket

(* A client's session is its own, and no younger than the last server.     *)
Owned ==
  \A c \in Clients :
    /\ waiting[c] <= server
    /\ pc[c] \in {"turnOn", "ready", "op", "delete"} =>
         sid[c] \in Session /\ sid[c].client = c /\ sid[c].server <= server

(* What the server has done when a response is there, and keeps.           *)
Granted ==
  \A c \in Clients :
    /\ pc[c] = "create" /\ answered[c] /\ waiting[c] = server /\ at # NoSocket
         => [server |-> server, client |-> c] \in DOMAIN sessions
    /\ InUse(c) /\ Alive(c) => sid[c] \in DOMAIN sessions
    /\ InUse(c) /\ Alive(c) /\ (pc[c] = "turnOn" => answered[c]) => sessions[sid[c]]

(* A TURN_ON_IME in the queue is for its client's session; one that        *)
(* deletes a session is of the client it belongs to, which has dropped it. *)
Harmless ==
  \A i \in 1..Len(queue) :
    LET r == queue[i]
    IN  /\ r.cmd = "turnOn" => /\ InUse(r.client) \/ pc[r.client] \in {"delete", "gone"}
                               /\ r.sid = sid[r.client]
        /\ r.cmd = "delete" => /\ pc[r.client] \in {"delete", "gone"}
                               /\ r.sid.client = r.client

SessionInv == TypeInv /\ Owned /\ Granted /\ Harmless

LEMMA HeadTail ==
  ASSUME NEW S, NEW q \in Seq(S), q # <<>>
  PROVE  /\ Head(q) \in S /\ Tail(q) \in Seq(S)
         /\ Head(q) = q[1] /\ Len(Tail(q)) = Len(q) - 1
         /\ \A i \in 1..Len(Tail(q)) : Tail(q)[i] = q[i + 1] /\ i + 1 \in 1..Len(q)
OBVIOUS

LEMMA Put ==
  ASSUME NEW S, NEW T, NEW f \in [S -> T], NEW x \in S, NEW v \in T
  PROVE  [f EXCEPT ![x] = v] \in [S -> T]
OBVIOUS

LEMMA FailsKeeps ==
  ASSUME TypeInv, NEW c \in Clients, Fails(c), pc[c] \in Commands
  PROVE  /\ pc' \in [Clients -> Searching \cup Commands \cup {"none", "ready", "gone"}]
         /\ pc'[c] \in {"gone", "delete", "ready"}
         /\ \A d \in Clients : d # c => pc'[d] = pc[d]
BY DEF TypeInv, ClientTypeOK, Fails, Go, Commands

LEMMA SucceedsKeeps ==
  ASSUME TypeInv, NEW c \in Clients, Succeeds(c), pc[c] \in Commands, waiting[c] # 0
  PROVE  /\ pc' \in [Clients -> Searching \cup Commands \cup {"none", "ready", "gone"}]
         /\ pc'[c] \in {"turnOn", "ready", "gone"}
         /\ \A d \in Clients : d # c => pc'[d] = pc[d] /\ sid'[d] = sid[d]
         /\ sid' \in [Clients -> Session \cup {NoSession}]
         /\ ok' \in [Clients -> SUBSET (1..MaxOps)]
<1>1. waiting[c] \in 1..MaxServers
  BY ClientAssumption DEF TypeInv, ClientTypeOK
<1>2. [server |-> waiting[c], client |-> c] \in Session
  BY <1>1 DEF Session
<1>3. CASE pc[c] = "create"
  BY <1>2, <1>3 DEF TypeInv, ClientTypeOK, Succeeds, Go, Commands
<1>4. CASE pc[c] = "turnOn"
  BY <1>4 DEF TypeInv, ClientTypeOK, Succeeds, Go, Commands
<1>5. CASE pc[c] = "op"
  <2>1. ops[c] \in 1..MaxOps
    BY <1>5, ClientAssumption DEF TypeInv, Asked, ClientTypeOK
  <2>2. /\ pc' = [pc EXCEPT ![c] = "ready"] /\ sid' = sid
        /\ ok' = [ok EXCEPT ![c] = @ \cup {ops[c]}]
    BY <1>5 DEF Succeeds, Go
  <2>3. ok \in [Clients -> SUBSET (1..MaxOps)] /\ ok[c] \cup {ops[c]} \in SUBSET (1..MaxOps)
    BY <2>1 DEF TypeInv, ClientTypeOK
  <2>4. ok' \in [Clients -> SUBSET (1..MaxOps)]
    BY <2>2, <2>3
  <2> QED BY <2>2, <2>4 DEF TypeInv, ClientTypeOK
<1>6. CASE pc[c] = "delete"
  BY <1>6 DEF TypeInv, ClientTypeOK, Succeeds, Go, Commands
<1> QED BY <1>3, <1>4, <1>5, <1>6 DEF Commands

(* The connection of c is closed, those of the others are as they were.    *)
EndedTypes(c) ==
  /\ waiting' \in [Clients -> 0..MaxServers] /\ answered' \in [Clients -> BOOLEAN]
  /\ waiting'[c] = 0 /\ ~answered'[c]
  /\ \A d \in Clients : d # c => waiting'[d] = waiting[d] /\ answered'[d] = answered[d]

LEMMA EndedKeeps ==
  ASSUME TypeInv, NEW c \in Clients, Ended(c)
  PROVE  EndedTypes(c)
<1>1. /\ waiting' \in [Clients -> 0..MaxServers] /\ waiting'[c] = 0
      /\ \A d \in Clients : d # c => waiting'[d] = waiting[d]
  BY ClientAssumption DEF TypeInv, ClientTypeOK, Ended
<1>2. /\ answered' \in [Clients -> BOOLEAN] /\ ~answered'[c]
      /\ \A d \in Clients : d # c => answered'[d] = answered[d]
  BY DEF TypeInv, ClientTypeOK, Ended
<1> QED BY <1>1, <1>2 DEF EndedTypes

LEMMA SocketKeeps ==
  ASSUME TypeInv, NEW c \in Clients,
         \/ socket' = socket
         \/ \E where \in Names \cup {FileSocket} : socket' = [socket EXCEPT ![c] = where]
  PROVE  socket' \in [Clients -> Names \cup {FileSocket, NoSocket}]
<1>1. socket \in [Clients -> Names \cup {FileSocket, NoSocket}]
  BY DEF TypeInv, ClientTypeOK
<1>2. CASE socket' = socket
  BY <1>1, <1>2
<1>3. ASSUME NEW where \in Names \cup {FileSocket}, socket' = [socket EXCEPT ![c] = where]
      PROVE  socket' \in [Clients -> Names \cup {FileSocket, NoSocket}]
  <2>1. where \in Names \cup {FileSocket, NoSocket}
    OBVIOUS
  <2> QED BY <1>1, <1>3, <2>1, Put
<1> QED BY <1>2, <1>3

LEMMA TypeInit == ClientInit => TypeInv
<1> SUFFICES ASSUME ClientInit PROVE TypeInv
  OBVIOUS
<1>1. Polls - 1 \in Nat /\ MaxServers \in Nat /\ MaxOps \in Nat /\ 0 \in 0..(Polls - 1)
  BY ClientAssumption
<1>2. DOMAIN sessions \subseteq Session /\ \A s \in DOMAIN sessions : sessions[s] \in BOOLEAN
  BY DEF ClientInit, NoSessions
<1>3. answered \in [Clients -> BOOLEAN] /\ \A c \in Clients : ~answered[c]
  BY DEF ClientInit
<1>4. queue \in Seq(Request) /\ queue = <<>>
  BY DEF ClientInit
<1>5. executed \in [Clients -> [1..MaxOps -> Nat]]
  BY DEF ClientInit
<1> QED BY <1>1, <1>2, <1>3, <1>4, <1>5 DEF ClientInit, TypeInv, ClientTypeOK, Served, Asked

LEMMA TypeStep == TypeInv /\ [ClientNext]_cvars => TypeInv'
<1> SUFFICES ASSUME TypeInv, [ClientNext]_cvars PROVE TypeInv'
  OBVIOUS
<1> USE ClientAssumption DEF world, exchange, found
<1>1. ASSUME NEW where \in Names \cup {FileSocket}, StartServer(where)
      PROVE  TypeInv'
  BY <1>1 DEF StartServer, TypeInv, ClientTypeOK, Served, Asked
<1>2. CASE Crash
  <2>1. NoSessions \in [{} -> BOOLEAN] /\ DOMAIN NoSessions = {}
    BY DEF NoSessions
  <2> QED BY <1>2, <2>1 DEF Crash, TypeInv, ClientTypeOK, Served, Asked
<1>3. CASE Serve
  <2> DEFINE r == Head(queue)
  <2>1. queue \in Seq(Request) /\ queue # <<>> /\ r \in Request /\ queue' = Tail(queue)
        /\ queue' \in Seq(Request)
    BY <1>3, HeadTail DEF Serve, TypeInv, ClientTypeOK
  <2>2. server \in 1..MaxServers /\ at # NoSocket
    BY <2>1 DEF TypeInv, Served, ClientTypeOK
  <2>3. r.client \in Clients /\ r.cmd \in Commands
    BY <2>1 DEF Request
  <2>4. DOMAIN sessions' \subseteq Session /\ \A s \in DOMAIN sessions' : sessions'[s] \in BOOLEAN
    <3>1. DOMAIN sessions \subseteq Session /\ \A s \in DOMAIN sessions : sessions[s] \in BOOLEAN
      BY DEF TypeInv, ClientTypeOK
    <3>2. [server |-> server, client |-> r.client] \in Session
      BY <2>2, <2>3 DEF Session
    <3>3. sessions' = SessionsAfter(r)
      BY <1>3 DEF Serve
    <3>4. CASE r.cmd = "create"
      <4>1. sessions' = [s \in DOMAIN sessions \cup {[server |-> server, client |-> r.client]} |->
                           s \in DOMAIN sessions /\ sessions[s]]
        BY <3>3, <3>4 DEF SessionsAfter
      <4> QED BY <3>1, <3>2, <4>1, Zenon
    <3>5. CASE r.cmd = "turnOn" /\ Known(r)
      <4>1. sessions' = [sessions EXCEPT ![r.sid] = TRUE]
        BY <3>3, <3>5 DEF SessionsAfter
      <4> QED BY <3>1, <4>1
    <3>6. CASE r.cmd = "delete" /\ Known(r)
      <4>1. sessions' = [s \in DOMAIN sessions \ {r.sid} |-> sessions[s]]
        BY <3>3, <3>6 DEF SessionsAfter
      <4> QED BY <3>1, <4>1
    <3>7. CASE sessions' = sessions
      BY <3>1, <3>7
    <3> QED BY <3>3, <3>4, <3>5, <3>6, <3>7 DEF SessionsAfter
  <2>5. executed' \in [Clients -> [1..MaxOps -> Nat]]
    <3>1. executed \in [Clients -> [1..MaxOps -> Nat]]
      BY DEF TypeInv, ClientTypeOK
    <3>2. CASE executed' = executed
      BY <3>1, <3>2
    <3>3. CASE executed' = [executed EXCEPT ![r.client][r.op] = @ + 1]
      <4> DEFINE row == [executed[r.client] EXCEPT ![r.op] = @ + 1]
      <4>1. executed[r.client] \in [1..MaxOps -> Nat]
        BY <2>3, <3>1
      <4>2. row \in [1..MaxOps -> Nat]
        <5>1. CASE r.op \in 1..MaxOps
          <6>1. executed[r.client][r.op] + 1 \in Nat
            BY <4>1, <5>1
          <6> QED BY <4>1, <5>1, <6>1, Put
        <5>2. CASE r.op \notin 1..MaxOps
          <6>1. row = executed[r.client]
            BY <4>1, <5>2
          <6> QED BY <4>1, <6>1
        <5> QED BY <5>1, <5>2
      <4>3. executed' = [executed EXCEPT ![r.client] = row]
        BY <3>3
      <4> HIDE DEF row
      <4> QED BY <2>3, <3>1, <4>2, <4>3, Put
    <3> QED BY <1>3, <3>2, <3>3 DEF Serve
  <2>6. answered' \in [Clients -> BOOLEAN]
    <3>1. answered' = [answered EXCEPT ![r.client] = answered[r.client] \/ Awaits(r)]
      BY <1>3 DEF Serve
    <3> QED BY <3>1, Zenon DEF TypeInv, ClientTypeOK
  <2>7. \A c \in Clients : answered'[c] => waiting'[c] # 0
    BY <1>3, <2>3 DEF Serve, TypeInv, Asked, ClientTypeOK, Awaits
  <2> QED BY <1>3, <2>1, <2>2, <2>4, <2>5, <2>6, <2>7 DEF Serve, TypeInv, ClientTypeOK, Served, Asked
<1>4. ASSUME NEW c \in Clients, Begin(c)
      PROVE  TypeInv'
  BY <1>4 DEF Begin, Go, TypeInv, ClientTypeOK, Served, Asked, Searching, Commands
<1>5. ASSUME NEW c \in Clients, Ask(c)
      PROVE  TypeInv'
  <2>1. pc' = [pc EXCEPT ![c] = "op"] /\ ops' = [ops EXCEPT ![c] = @ + 1]
        /\ ops[c] + 1 \in 1..MaxOps /\ pc[c] = "ready"
    BY <1>5 DEF Ask, Go, TypeInv, ClientTypeOK
  <2>2. /\ pc' \in [Clients -> Searching \cup Commands \cup {"none", "ready", "gone"}]
        /\ ops' \in [Clients -> 0..MaxOps]
    BY <2>1 DEF TypeInv, ClientTypeOK, Commands
  <2>3. Asked'
    BY <1>5, <2>1 DEF Ask, TypeInv, ClientTypeOK, Asked, Commands
  <2> QED BY <1>5, <2>2, <2>3 DEF Ask, TypeInv, ClientTypeOK, Served
<1>6. ASSUME NEW c \in Clients, Drop(c)
      PROVE  TypeInv'
  BY <1>6 DEF Drop, Go, TypeInv, ClientTypeOK, Served, Asked, Searching, Commands
<1>7. ASSUME NEW c \in Clients, Quick(c) \/ Find(c) \/ Probe(c) \/ Spawn(c)
      PROVE  TypeInv'
  <2>1. pc[c] \notin Commands
        /\ \E step \in {"create", "gone", "probe", "spawn", "remove", "poll"} :
             pc' = [pc EXCEPT ![c] = step] /\ (pc[c] # "op" => step # "op")
    BY <1>7 DEF Quick, Find, Probe, Spawn, Use, Go, Commands
  <2>2. \/ socket' = socket
        \/ \E where \in Names \cup {FileSocket} : socket' = [socket EXCEPT ![c] = where]
    BY <1>7 DEF Quick, Find, Probe, Spawn, Use, Listed
  <2>3. /\ pc' \in [Clients -> Searching \cup Commands \cup {"none", "ready", "gone"}]
        /\ socket' \in [Clients -> Names \cup {FileSocket, NoSocket}]
    <3>1. pc' \in [Clients -> Searching \cup Commands \cup {"none", "ready", "gone"}]
      BY <2>1, Put DEF TypeInv, ClientTypeOK, Searching, Commands
    <3>2. socket' \in [Clients -> Names \cup {FileSocket, NoSocket}]
      BY <2>2, SocketKeeps
    <3> QED BY <3>1, <3>2
  <2>4. UNCHANGED <<world, polls, sid, ops, exchange, ok>>
    BY <1>7 DEF Quick, Find, Probe, Spawn
  <2>5. Asked'
    BY <2>1, <2>4 DEF TypeInv, ClientTypeOK, Asked, Commands
  <2> QED BY <2>3, <2>4, <2>5 DEF TypeInv, ClientTypeOK, Served
<1>8. ASSUME NEW c \in Clients, Remove(c)
      PROVE  TypeInv'
  BY <1>8 DEF Remove, Go, TypeInv, ClientTypeOK, Served, Asked, Searching, Commands
<1>9. ASSUME NEW c \in Clients, Poll(c)
      PROVE  TypeInv'
  <2>1. pc[c] = "poll" /\ (pc' = pc \/ pc' = [pc EXCEPT ![c] = "create"])
    BY <1>9 DEF Poll, Use, Go
  <2>2. \/ socket' = socket
        \/ \E where \in Names \cup {FileSocket} : socket' = [socket EXCEPT ![c] = where]
    BY <1>9 DEF Poll, Use, Listed
  <2>3. polls[c] \in 0..(Polls - 1) /\ \E n \in 0..(Polls - 1) : polls' = [polls EXCEPT ![c] = n]
    <3>1. polls[c] \in 0..(Polls - 1) /\ Polls \in Nat \ {0}
      BY DEF TypeInv, ClientTypeOK
    <3>2. 0 \in 0..(Polls - 1)
      BY <3>1
    <3>3. polls[c] + 1 < Polls => polls[c] + 1 \in 0..(Polls - 1)
      BY <3>1
    <3>4. \/ polls' = [polls EXCEPT ![c] = 0]
          \/ polls[c] + 1 < Polls /\ polls' = [polls EXCEPT ![c] = polls[c] + 1]
      BY <1>9 DEF Poll
    <3> QED BY <3>1, <3>2, <3>3, <3>4
  <2>4. /\ pc' \in [Clients -> Searching \cup Commands \cup {"none", "ready", "gone"}]
        /\ socket' \in [Clients -> Names \cup {FileSocket, NoSocket}]
        /\ polls' \in [Clients -> 0..(Polls - 1)]
    <3>1. pc' \in [Clients -> Searching \cup Commands \cup {"none", "ready", "gone"}]
      BY <2>1, Put DEF TypeInv, ClientTypeOK, Commands
    <3>2. socket' \in [Clients -> Names \cup {FileSocket, NoSocket}]
      BY <2>2, SocketKeeps
    <3>3. polls' \in [Clients -> 0..(Polls - 1)]
      BY <2>3, Put DEF TypeInv, ClientTypeOK
    <3> QED BY <3>1, <3>2, <3>3
  <2>5. UNCHANGED <<world, sid, ops, exchange, ok>>
    BY <1>9 DEF Poll
  <2>6. Asked'
    BY <2>1, <2>5 DEF TypeInv, ClientTypeOK, Asked, Commands
  <2> QED BY <2>4, <2>5, <2>6 DEF TypeInv, ClientTypeOK, Served
<1>10. ASSUME NEW c \in Clients, Send(c)
       PROVE  TypeInv'
  <2>1. RequestOf(c) \in Request
    BY <1>10 DEF Send, RequestOf, Request, TypeInv, ClientTypeOK
  <2>2. queue' \in Seq(Request)
    BY <1>10, <2>1 DEF Send, TypeInv, ClientTypeOK
  <2>3. at # NoSocket /\ server # 0
    BY <1>10 DEF Send, Reachable, FileAnswers, TypeInv, Served
  <2> QED BY <1>10, <2>2, <2>3 DEF Send, TypeInv, ClientTypeOK, Served, Asked
<1>11. ASSUME NEW c \in Clients, Unreachable(c)
       PROVE  TypeInv'
  <2>1. Fails(c) /\ pc[c] \in Commands
    BY <1>11 DEF Unreachable
  <2>2. /\ pc' \in [Clients -> Searching \cup Commands \cup {"none", "ready", "gone"}]
        /\ pc'[c] \in {"gone", "delete", "ready"}
        /\ \A d \in Clients : d # c => pc'[d] = pc[d]
    BY <2>1, FailsKeeps
  <2>3. UNCHANGED <<world, found, sid, ops, exchange, ok>> /\ waiting[c] = 0
    BY <1>11 DEF Unreachable
  <2>4. Asked'
    BY <2>2, <2>3 DEF TypeInv, Asked
  <2> QED BY <2>2, <2>3, <2>4 DEF TypeInv, ClientTypeOK, Served
<1>12. ASSUME NEW c \in Clients, Hangup(c) \/ Timeout(c)
       PROVE  TypeInv'
  <2>1. Fails(c) /\ Ended(c)
    BY <1>12 DEF Hangup, Timeout
  <2>2. pc[c] \in Commands
    BY <1>12 DEF Hangup, Timeout, Answerless, TypeInv, Asked
  <2>3. /\ pc' \in [Clients -> Searching \cup Commands \cup {"none", "ready", "gone"}]
        /\ pc'[c] \in {"gone", "delete", "ready"}
        /\ \A d \in Clients : d # c => pc'[d] = pc[d]
    BY <2>1, <2>2, FailsKeeps
  <2>4. UNCHANGED <<world, found, sid, ops, ok>>
    BY <1>12 DEF Hangup, Timeout
  <2>5. EndedTypes(c)
    BY <2>1, EndedKeeps
  <2>6. Asked'
    BY <2>3, <2>4, <2>5 DEF EndedTypes, TypeInv, Asked
  <2> QED BY <2>3, <2>4, <2>5, <2>6 DEF EndedTypes, TypeInv, ClientTypeOK, Served
<1>13. ASSUME NEW c \in Clients, Receive(c)
       PROVE  TypeInv'
  <2>1. Succeeds(c) /\ Ended(c) /\ waiting[c] # 0
    BY <1>13 DEF Receive, TypeInv, Asked
  <2>2. pc[c] \in Commands
    BY <2>1 DEF TypeInv, Asked
  <2>3. /\ pc' \in [Clients -> Searching \cup Commands \cup {"none", "ready", "gone"}]
        /\ pc'[c] \in {"turnOn", "ready", "gone"}
        /\ \A d \in Clients : d # c => pc'[d] = pc[d] /\ sid'[d] = sid[d]
        /\ sid' \in [Clients -> Session \cup {NoSession}]
        /\ ok' \in [Clients -> SUBSET (1..MaxOps)]
    BY <2>1, <2>2, SucceedsKeeps
  <2>4. UNCHANGED <<world, found, ops>>
    BY <1>13 DEF Receive
  <2>5. EndedTypes(c)
    BY <2>1, EndedKeeps
  <2>6. Asked'
    BY <2>3, <2>4, <2>5 DEF EndedTypes, TypeInv, Asked
  <2> QED BY <2>3, <2>4, <2>5, <2>6 DEF EndedTypes, TypeInv, ClientTypeOK, Served
<1>14. CASE UNCHANGED cvars
  BY <1>14 DEF cvars, TypeInv, ClientTypeOK, Served, Asked
<1> QED
  BY <1>1, <1>2, <1>3, <1>4, <1>5, <1>6, <1>7, <1>8, <1>9, <1>10, <1>11, <1>12, <1>13, <1>14
  DEF ClientNext, ClientStep

(* Every field of the client and of its server keeps its type, and a       *)
(* client that waits for a server it has started looks Polls times.        *)
THEOREM ClientTypes == ClientSpec => []ClientTypeOK
<1>1. TypeInv => ClientTypeOK
  BY DEF TypeInv
<1> QED BY <1>1, TypeInit, TypeStep, PTL DEF ClientSpec

-----------------------------------------------------------------------------
LEMMA Queued ==
  ASSUME TypeInv
  PROVE  \A i \in 1..Len(queue) : queue[i].client \in Clients /\ queue[i].cmd \in Commands
<1>1. \A i \in 1..Len(queue) : queue[i] \in Request
  BY DEF TypeInv, ClientTypeOK
<1> QED BY <1>1 DEF Request

(* The queue stays harmless while a client keeps its session, and does not *)
(* take up again what it has dropped.                                      *)
Past(d) == pc[d] \in {"delete", "gone"}

LEMMA HarmlessKeeps ==
  ASSUME SessionInv, queue' = queue,
         \A d \in Clients : /\ InUse(d) \/ Past(d) => (InUse(d)' \/ Past(d)') /\ sid'[d] = sid[d]
                            /\ Past(d) => Past(d)'
  PROVE  Harmless'
BY Queued DEF SessionInv, Harmless, Past

LEMMA SessionInit == ClientInit => SessionInv
<1> SUFFICES ASSUME ClientInit PROVE SessionInv
  OBVIOUS
<1>1. TypeInv
  BY TypeInit
<1>2. \A c \in Clients : pc[c] = "none" /\ waiting[c] = 0 /\ ~answered[c]
  BY DEF ClientInit
<1>3. server = 0 /\ Len(queue) = 0
  BY DEF ClientInit
<1> QED BY <1>1, <1>2, <1>3 DEF SessionInv, Owned, Granted, Harmless, InUse

(* A step of a client with no connection and no session that gets neither. *)
LEMMA SearchKeeps ==
  ASSUME SessionInv, NEW c \in Clients,
         pc[c] \in Searching \cup {"none"},
         pc' \in [Clients -> Searching \cup Commands \cup {"none", "ready", "gone"}],
         pc'[c] \in Searching \cup {"create", "gone"},
         \A d \in Clients : d # c => pc'[d] = pc[d],
         UNCHANGED <<at, server, sessions, queue, sid, exchange>>
  PROVE  Owned' /\ Granted' /\ Harmless'
<1> USE DEF SessionInv, exchange, Searching, Commands
<1>1. Owned'
  BY DEF Owned
<1>2. ~answered[c]
  BY DEF TypeInv, Asked
<1>3. Granted'
  BY <1>2 DEF Granted, InUse, Alive
<1>4. Harmless'
  <2>1. \A d \in Clients : /\ InUse(d) \/ Past(d) => (InUse(d)' \/ Past(d)') /\ sid'[d] = sid[d]
                           /\ Past(d) => Past(d)'
    BY DEF InUse, Past
  <2> QED BY <2>1, HarmlessKeeps
<1> QED BY <1>1, <1>3, <1>4

LEMMA SessionStep == SessionInv /\ [ClientNext]_cvars => SessionInv'
<1> SUFFICES ASSUME SessionInv, [ClientNext]_cvars PROVE SessionInv'
  OBVIOUS
<1>0. TypeInv /\ TypeInv'
  BY TypeStep DEF SessionInv
<1> USE DEF world, exchange, found
<1>1. ASSUME NEW where \in Names \cup {FileSocket}, StartServer(where)
      PROVE  Owned' /\ Granted' /\ Harmless'
  <2>1. server' = server + 1 /\ server \in Nat /\ queue = <<>>
    BY <1>0, <1>1, ClientAssumption DEF StartServer, TypeInv, ClientTypeOK, Served
  <2>2. UNCHANGED <<sessions, queue, pc, sid, waiting, answered>>
    BY <1>1 DEF StartServer
  <2>3. \A c \in Clients : waiting[c] <= server /\ waiting[c] \in Nat
    BY <1>0, ClientAssumption DEF SessionInv, Owned, TypeInv, ClientTypeOK
  <2>4. \A c \in Clients : pc[c] \in {"turnOn", "ready", "op", "delete"} =>
          sid[c].server \in Nat /\ sid[c].server <= server
    BY ClientAssumption DEF SessionInv, Owned, Session
  <2>5. Owned'
    BY <2>1, <2>2, <2>3, <2>4 DEF SessionInv, Owned
  <2>6. \A c \in Clients : waiting'[c] # server' /\ (InUse(c)' => ~Alive(c)')
    BY <2>1, <2>2, <2>3, <2>4 DEF InUse, Alive
  <2>7. Granted'
    BY <2>6 DEF Granted
  <2>8. Harmless'
    BY <2>1, <2>2 DEF Harmless
  <2> QED BY <2>5, <2>7, <2>8
<1>2. ASSUME Crash PROVE  Owned' /\ Granted' /\ Harmless'
  <2>1. at' = NoSocket /\ queue' = <<>> /\ UNCHANGED <<server, pc, sid, waiting, answered>>
    BY <1>2 DEF Crash
  <2>2. Owned'
    BY <2>1 DEF SessionInv, Owned
  <2>3. Granted'
    BY <2>1 DEF Granted, Alive
  <2>4. Harmless'
    BY <2>1 DEF Harmless
  <2> QED BY <2>2, <2>3, <2>4
<1>3. ASSUME Serve PROVE  Owned' /\ Granted' /\ Harmless'
  <2> DEFINE r == Head(queue)
  <2>1. /\ queue # <<>> /\ queue' = Tail(queue) /\ sessions' = SessionsAfter(r)
        /\ answered' = [answered EXCEPT ![r.client] = answered[r.client] \/ Awaits(r)]
        /\ UNCHANGED <<at, server, pc, sid, waiting, ops>>
    BY <1>3 DEF Serve
  <2>2. /\ r \in Request /\ r = queue[1] /\ 1 \in 1..Len(queue)
        /\ Len(queue') = Len(queue) - 1
        /\ \A i \in 1..Len(queue') : queue'[i] = queue[i + 1] /\ i + 1 \in 1..Len(queue)
    <3>1. queue \in Seq(Request)
      BY <1>0 DEF TypeInv, ClientTypeOK
    <3>2. 1 \in 1..Len(queue)
      BY <2>1, <3>1
    <3> QED BY <2>1, <3>1, <3>2, HeadTail
  <2>3. /\ r.client \in Clients /\ r.cmd \in Commands
        /\ r.cmd = "turnOn" => r.sid = sid[r.client]
        /\ r.cmd = "delete" => Past(r.client) /\ r.sid.client = r.client
    BY <2>2 DEF Request, SessionInv, Harmless, Past
  <2>4. \A s \in DOMAIN sessions :
          (r.cmd = "delete" => s # r.sid) =>
             s \in DOMAIN sessions' /\ (sessions[s] => sessions'[s])
    <3>1. CASE r.cmd = "create"
      <4>1. sessions' = [s \in DOMAIN sessions \cup {[server |-> server, client |-> r.client]} |->
                           s \in DOMAIN sessions /\ sessions[s]]
        BY <2>1, <3>1 DEF SessionsAfter
      <4> QED BY <3>1, <4>1
    <3>2. CASE r.cmd = "turnOn" /\ Known(r)
      <4>1. sessions' = [sessions EXCEPT ![r.sid] = TRUE]
        BY <2>1, <3>2 DEF SessionsAfter
      <4> QED BY <3>2, <4>1
    <3>3. CASE r.cmd = "delete" /\ Known(r)
      <4>1. sessions' = [s \in DOMAIN sessions \ {r.sid} |-> sessions[s]]
        BY <2>1, <3>3 DEF SessionsAfter
      <4> QED BY <3>3, <4>1
    <3>4. CASE sessions' = sessions
      BY <3>4
    <3> QED BY <2>1, <3>1, <3>2, <3>3, <3>4 DEF SessionsAfter
  <2>5. r.cmd = "create" => [server |-> server, client |-> r.client] \in DOMAIN sessions'
    <3>1. ASSUME r.cmd = "create"
          PROVE  sessions' = [s \in DOMAIN sessions \cup {[server |-> server, client |-> r.client]} |->
                                s \in DOMAIN sessions /\ sessions[s]]
      BY <2>1, <3>1 DEF SessionsAfter
    <3> QED BY <3>1
  <2>6. r.cmd = "turnOn" /\ r.sid \in DOMAIN sessions => sessions'[r.sid]
    <3>1. ASSUME r.cmd = "turnOn", r.sid \in DOMAIN sessions
          PROVE  sessions' = [sessions EXCEPT ![r.sid] = TRUE]
      BY <2>1, <3>1 DEF SessionsAfter, Known
    <3> QED BY <3>1
  <2>7. \A d \in Clients : answered'[d] => answered[d] \/ (d = r.client /\ pc[d] = r.cmd)
    BY <1>0, <2>1, <2>3 DEF Awaits, TypeInv, ClientTypeOK
  <2>8. Owned'
    BY <2>1 DEF SessionInv, Owned
  <2>9. ASSUME NEW d \in Clients, pc[d] = "create", answered'[d], waiting[d] = server, at # NoSocket
        PROVE  [server |-> server, client |-> d] \in DOMAIN sessions'
    <3>1. CASE answered[d]
      <4>1. [server |-> server, client |-> d] \in DOMAIN sessions
        BY <2>9, <3>1 DEF SessionInv, Granted
      <4>2. r.cmd = "delete" => [server |-> server, client |-> d] # r.sid
        BY <2>3, <2>9 DEF Past
      <4> QED BY <2>4, <4>1, <4>2
    <3>2. CASE d = r.client /\ r.cmd = "create"
      BY <2>5, <3>2
    <3> QED BY <2>7, <2>9, <3>1, <3>2
  <2>10. ASSUME NEW d \in Clients, InUse(d), Alive(d)
         PROVE  /\ sid[d] \in DOMAIN sessions'
                /\ (pc[d] = "turnOn" => answered'[d]) => sessions'[sid[d]]
    <3>1. sid[d] \in DOMAIN sessions /\ sid[d].client = d
      BY <2>10 DEF SessionInv, Granted, Owned, InUse
    <3>2. r.cmd = "delete" => sid[d] # r.sid
      BY <2>3, <2>10, <3>1 DEF Past, InUse
    <3>3. (pc[d] = "turnOn" => answered[d]) => sessions[sid[d]]
      BY <2>10 DEF SessionInv, Granted
    <3>4. d = r.client /\ r.cmd = "turnOn" => sessions'[sid[d]]
      BY <2>3, <2>6, <3>1
    <3> QED BY <2>4, <2>7, <3>1, <3>2, <3>3, <3>4
  <2>11. Granted'
    BY <2>1, <2>9, <2>10 DEF Granted, InUse, Alive
  <2>12. Harmless'
    BY <2>1, <2>2 DEF SessionInv, Harmless, InUse
  <2> QED BY <2>8, <2>11, <2>12
<1>4. ASSUME NEW c \in Clients, Begin(c) \/ Quick(c) \/ Find(c) \/ Probe(c) \/ Remove(c) \/ Spawn(c) \/ Poll(c)
      PROVE  Owned' /\ Granted' /\ Harmless'
  <2>1. pc[c] \in Searching \cup {"none"} /\ UNCHANGED <<at, server, sessions, queue, sid, exchange>>
    BY <1>4 DEF Begin, Quick, Find, Probe, Remove, Spawn, Poll, Searching
  <2>2. pc' = pc \/ \E step \in Searching \cup {"create", "gone"} : pc' = [pc EXCEPT ![c] = step]
    BY <1>4 DEF Begin, Quick, Find, Probe, Remove, Spawn, Poll, Use, Go, Searching
  <2>3. CASE pc' = pc
    BY <1>0, <2>1, <2>3 DEF SessionInv, Owned, Granted, Harmless, InUse, Alive
  <2>4. ASSUME NEW step \in Searching \cup {"create", "gone"}, pc' = [pc EXCEPT ![c] = step]
        PROVE  Owned' /\ Granted' /\ Harmless'
    <3>1. pc' \in [Clients -> Searching \cup Commands \cup {"none", "ready", "gone"}]
      BY <1>0 DEF TypeInv, ClientTypeOK
    <3>2. pc'[c] = step /\ \A d \in Clients : d # c => pc'[d] = pc[d]
      BY <1>0, <2>4 DEF TypeInv, ClientTypeOK
    <3> QED BY <2>1, <3>1, <3>2, SearchKeeps
  <2> QED BY <2>2, <2>3, <2>4
<1>5. ASSUME NEW c \in Clients, Ask(c)
      PROVE  Owned' /\ Granted' /\ Harmless'
  <2>1. pc' = [pc EXCEPT ![c] = "op"] /\ pc[c] = "ready" /\ UNCHANGED <<world, sid, exchange>>
    BY <1>5 DEF Ask, Go
  <2>2. Owned'
    BY <1>0, <2>1 DEF SessionInv, Owned, TypeInv, ClientTypeOK
  <2>3. Granted'
    BY <1>0, <2>1 DEF SessionInv, Granted, InUse, Alive, TypeInv, ClientTypeOK
  <2>4. Harmless'
    <3>1. \A d \in Clients : /\ InUse(d) \/ Past(d) => (InUse(d)' \/ Past(d)') /\ sid'[d] = sid[d]
                             /\ Past(d) => Past(d)'
      BY <1>0, <2>1 DEF InUse, Past, TypeInv, ClientTypeOK
    <3> QED BY <2>1, <3>1, HarmlessKeeps
  <2> QED BY <2>2, <2>3, <2>4
<1>6. ASSUME NEW c \in Clients, Drop(c)
      PROVE  Owned' /\ Granted' /\ Harmless'
  <2>1. pc' = [pc EXCEPT ![c] = "delete"] /\ pc[c] = "ready" /\ UNCHANGED <<world, sid, exchange>>
    BY <1>6 DEF Drop, Go
  <2>2. Owned'
    BY <1>0, <2>1 DEF SessionInv, Owned, TypeInv, ClientTypeOK
  <2>3. Granted'
    BY <1>0, <2>1 DEF SessionInv, Granted, InUse, Alive, TypeInv, ClientTypeOK
  <2>4. Harmless'
    <3>1. \A d \in Clients : /\ InUse(d) \/ Past(d) => (InUse(d)' \/ Past(d)') /\ sid'[d] = sid[d]
                             /\ Past(d) => Past(d)'
      BY <1>0, <2>1 DEF InUse, Past, TypeInv, ClientTypeOK
    <3> QED BY <2>1, <3>1, HarmlessKeeps
  <2> QED BY <2>2, <2>3, <2>4
<1>7. ASSUME NEW c \in Clients, Send(c)
      PROVE  Owned' /\ Granted' /\ Harmless'
  <2>1. /\ pc[c] \in Commands /\ queue' = Append(queue, RequestOf(c))
        /\ waiting' = [waiting EXCEPT ![c] = server]
        /\ UNCHANGED <<at, server, sessions, pc, sid, ops, answered>>
    BY <1>7 DEF Send
  <2>2. ~answered[c]
    BY <1>0, <1>7 DEF Send, TypeInv, Asked
  <2>3. \A d \in Clients : waiting'[d] = waiting[d] \/ (d = c /\ waiting'[d] = server)
    BY <1>0, <2>1 DEF TypeInv, ClientTypeOK
  <2>4. server \in Nat
    BY <1>0, ClientAssumption DEF TypeInv, ClientTypeOK
  <2>5. Owned'
    BY <2>1, <2>3, <2>4 DEF SessionInv, Owned
  <2>6. Granted'
    BY <2>1, <2>2, <2>3 DEF SessionInv, Granted, InUse, Alive
  <2>7. Harmless'
    <3>1. queue \in Seq(Request) /\ Len(queue') = Len(queue) + 1
          /\ \A i \in 1..Len(queue) : queue'[i] = queue[i]
          /\ queue'[Len(queue) + 1] = RequestOf(c)
      BY <1>0, <2>1 DEF TypeInv, ClientTypeOK
    <3>2. RequestOf(c).client = c /\ RequestOf(c).cmd = pc[c] /\ RequestOf(c).sid = sid[c]
      BY DEF RequestOf
    <3>3. pc[c] = "delete" => sid[c].client = c
      BY DEF SessionInv, Owned
    <3>4. \A i \in 1..Len(queue') : i \in 1..Len(queue) \/ i = Len(queue) + 1
      BY <3>1
    <3> QED BY <2>1, <3>1, <3>2, <3>3, <3>4 DEF SessionInv, Harmless, InUse
  <2> QED BY <2>5, <2>6, <2>7
<1>8. ASSUME NEW c \in Clients, Unreachable(c) \/ Hangup(c) \/ Timeout(c)
      PROVE  Owned' /\ Granted' /\ Harmless'
  <2>1. /\ pc[c] \in Commands /\ Fails(c) /\ ~answered[c]
        /\ UNCHANGED <<at, server, sessions, queue, sid>>
    BY <1>0, <1>8 DEF Unreachable, Hangup, Timeout, Answerless, TypeInv, Asked
  <2>2. \A d \in Clients : /\ waiting'[d] = waiting[d] \/ (d = c /\ waiting'[d] = 0)
                           /\ answered'[d] => answered[d]
    BY <1>0, <1>8 DEF Unreachable, Hangup, Timeout, Ended, TypeInv, ClientTypeOK
  <2>3. /\ pc'[c] = CASE pc[c] = "create" -> "gone" [] pc[c] = "turnOn" -> "delete"
                      [] pc[c] = "op" -> "ready"    [] pc[c] = "delete" -> "gone"
        /\ \A d \in Clients : d # c => pc'[d] = pc[d]
    BY <1>0, <2>1 DEF Fails, Go, TypeInv, ClientTypeOK
  <2>4. Owned'
    <3>1. server \in Nat
      BY <1>0, ClientAssumption DEF TypeInv, ClientTypeOK
    <3> QED BY <2>1, <2>2, <2>3, <3>1 DEF SessionInv, Owned, Commands
  <2>5. Granted'
    <3>1. \A d \in Clients : InUse(d)' => InUse(d) /\ (pc[d] = "turnOn" => pc'[d] = "turnOn")
      BY <2>1, <2>3 DEF InUse, Commands
    <3>2. \A d \in Clients : answered'[d] => d # c
      BY <2>1, <2>2
    <3>3. \A d \in Clients : pc'[d] = "create" => d # c
      BY <2>1, <2>3 DEF Commands
    <3>4. \A d \in Clients : (pc'[d] = "turnOn" => answered'[d]) /\ InUse(d)'
                               => (pc[d] = "turnOn" => answered[d])
      BY <2>2, <2>3, <3>1
    <3> QED BY <2>1, <2>2, <2>3, <3>1, <3>2, <3>3, <3>4 DEF SessionInv, Granted, Alive
  <2>6. Harmless'
    <3>1. \A d \in Clients : /\ InUse(d) \/ Past(d) => (InUse(d)' \/ Past(d)') /\ sid'[d] = sid[d]
                             /\ Past(d) => Past(d)'
      BY <2>1, <2>3 DEF InUse, Past, Commands
    <3> QED BY <2>1, <3>1, HarmlessKeeps
  <2> QED BY <2>4, <2>5, <2>6
<1>9. ASSUME NEW c \in Clients, Receive(c)
      PROVE  Owned' /\ Granted' /\ Harmless'
  <2>1. /\ answered[c] /\ waiting[c] # 0 /\ pc[c] \in Commands /\ Succeeds(c)
        /\ UNCHANGED <<at, server, sessions, queue>>
    BY <1>0, <1>9 DEF Receive, TypeInv, Asked
  <2>2. /\ waiting'[c] = 0 /\ ~answered'[c]
        /\ \A d \in Clients : d # c => waiting'[d] = waiting[d] /\ answered'[d] = answered[d]
    BY <1>0, <1>9, EndedKeeps DEF Receive, EndedTypes
  <2>3. \A d \in Clients : d # c => pc'[d] = pc[d] /\ sid'[d] = sid[d]
    BY <1>0, <2>1, SucceedsKeeps
  <2>4. server \in Nat /\ waiting[c] \in 1..MaxServers /\ waiting[c] <= server
    BY <1>0, <2>1, ClientAssumption DEF TypeInv, ClientTypeOK, SessionInv, Owned
  <2> DEFINE new == [server |-> waiting[c], client |-> c]
  <2>5. /\ pc[c] = "create" => pc'[c] = "turnOn" /\ sid'[c] = new
        /\ pc[c] \in {"turnOn", "op"} => pc'[c] = "ready" /\ sid'[c] = sid[c]
        /\ pc[c] = "delete" => pc'[c] = "gone" /\ sid'[c] = sid[c]
    BY <1>0, <2>1 DEF Succeeds, Go, TypeInv, ClientTypeOK
  <2>6. new \in Session /\ new.client = c /\ new.server = waiting[c]
    BY <2>4 DEF Session
  <2>7. Owned'
    <3> HIDE DEF new
    <3>1. ASSUME NEW d \in Clients
          PROVE  waiting'[d] <= server
      BY <2>2, <2>4 DEF SessionInv, Owned
    <3>2. ASSUME NEW d \in Clients, pc'[d] \in {"turnOn", "ready", "op", "delete"}
          PROVE  sid'[d] \in Session /\ sid'[d].client = d /\ sid'[d].server <= server
      BY <2>1, <2>3, <2>4, <2>5, <2>6, <3>2 DEF SessionInv, Owned, Commands
    <3> QED BY <2>1, <3>1, <3>2 DEF Owned
  <2>8. ASSUME NEW d \in Clients, InUse(d)', Alive(d)'
        PROVE  /\ sid'[d] \in DOMAIN sessions
               /\ (pc'[d] = "turnOn" => answered'[d]) => sessions[sid'[d]]
    <3>1. CASE d # c
      BY <2>1, <2>2, <2>3, <2>8, <3>1 DEF SessionInv, Granted, InUse, Alive
    <3>2. CASE d = c /\ pc[c] = "create"
      <4>1. waiting[c] = server /\ at # NoSocket
        BY <2>1, <2>5, <2>6, <2>8, <3>2 DEF Alive
      <4>2. new \in DOMAIN sessions
        BY <2>1, <3>2, <4>1 DEF SessionInv, Granted
      <4> QED BY <2>2, <2>5, <3>2, <4>2
    <3>3. CASE d = c /\ pc[c] \in {"turnOn", "op"}
      BY <2>1, <2>5, <2>8, <3>3 DEF SessionInv, Granted, InUse, Alive
    <3>4. CASE d = c /\ pc[c] = "delete"
      BY <2>5, <2>8, <3>4 DEF InUse
    <3> QED BY <2>1, <3>1, <3>2, <3>3, <3>4 DEF Commands
  <2>9. ASSUME NEW d \in Clients, pc'[d] = "create", answered'[d], waiting'[d] = server, at # NoSocket
        PROVE  [server |-> server, client |-> d] \in DOMAIN sessions
    <3>1. d # c
      BY <2>2, <2>9
    <3> QED BY <2>2, <2>3, <2>9, <3>1 DEF SessionInv, Granted
  <2>10. Granted'
    BY <2>1, <2>8, <2>9 DEF Granted
  <2>11. Harmless'
    <3>1. \A d \in Clients : /\ InUse(d) \/ Past(d) => (InUse(d)' \/ Past(d)') /\ sid'[d] = sid[d]
                             /\ Past(d) => Past(d)'
      BY <2>1, <2>3, <2>5 DEF InUse, Past, Commands
    <3> QED BY <2>1, <3>1, HarmlessKeeps
  <2> QED BY <2>7, <2>10, <2>11
<1>10. ASSUME UNCHANGED cvars PROVE  Owned' /\ Granted' /\ Harmless'
  BY <1>10 DEF cvars, SessionInv, Owned, Granted, Harmless, InUse, Alive
<1>11. ASSUME NEW c \in Clients, ClientStep(c)
       PROVE  Owned' /\ Granted' /\ Harmless'
  BY <1>4, <1>7, <1>8, <1>9, <1>11 DEF ClientStep
<1>12. ASSUME ClientNext
       PROVE  Owned' /\ Granted' /\ Harmless'
  BY <1>1, <1>2, <1>3, <1>4, <1>5, <1>6, <1>11, <1>12 DEF ClientNext
<1> QED BY <1>0, <1>10, <1>12 DEF SessionInv

(* A client in use has a live session with IME on, whatever other clients  *)
(* create, give up or delete, as long as its server lives.                 *)
THEOREM SessionIsOn == ClientSpec => []ReadyIsOn
<1>1. SessionInv => ReadyIsOn
  BY DEF SessionInv, Granted, ReadyIsOn, InUse, Alive
<1> QED BY <1>1, SessionInit, SessionStep, PTL DEF ClientSpec
=============================================================================
