----------------------------- MODULE MozcClient -----------------------------
(***************************************************************************)
(* The blocking Mozc client (mzkana-core src/mozc/client.rs, proto.rs):    *)
(* finding and starting mozc_server, one connection per command, the       *)
(* session a client creates, uses and deletes.  A server that crashes      *)
(* loses its sessions and comes back under any name.                       *)
(*                                                                         *)
(* Several clients live at a time: that of the engine's worker, those of   *)
(* workers it has given up, the command line tool's.  A client's steps are *)
(* interleaved with the server's between any two system calls that others  *)
(* can come between; a server that hangs is one that does not serve.       *)
(*                                                                         *)
(* Not reachable, and so no action: a command of a client without session. *)
(***************************************************************************)
EXTENDS Integers, Sequences

CONSTANTS
  Clients,
  Names,        \* abstract socket names
  FileSocket,   \* ~/.mozc/session.sock
  NoSocket,     \* nowhere
  Polls,        \* how often ensure_mozc_server looks for the new server: 10
  MaxServers,   \* bound: servers, one after the other
  MaxOps        \* bound: ops of a client

ASSUME ClientAssumption ==
  /\ FileSocket \notin Names /\ NoSocket \notin Names \cup {FileSocket}
  /\ Polls \in Nat \ {0} /\ MaxServers \in Nat /\ MaxOps \in Nat

VARIABLES
  at,        \* external: where mozc_server listens
  server,    \* external: the number of the last server
  file,      \* external: there is a socket file, of this server or a dead one
  sessions,  \* external: its sessions, [server, client] -> IME is on
  queue,     \* external: commands that have been sent and not been served
  executed,  \* external: how often each op of a client was carried out
  pc,        \* where a client is, see Commands
  socket,    \* socket_path, or abstract_name
  sid,       \* session_id
  polls,     \* turns of the waiting loop in ensure_mozc_server
  ops,       \* ops that were asked of a client
  waiting,   \* the server a command was sent to, 0 if none was
  answered,  \* a response is there
  ok         \* history: the ops that returned Ok

world == <<at, server, file, sessions, queue, executed>>
exchange == <<waiting, answered>>
found == <<socket, polls>>
cvars == <<world, pc, found, sid, ops, exchange, ok>>

Commands  == {"create", "turnOn", "op", "delete"}
Searching == {"quick", "find", "probe", "remove", "spawn", "poll"}
Session   == [server : 1..MaxServers, client : Clients]
NoSession == [server |-> 0]
NoSessions == [s \in {} |-> FALSE]
Request   == [client : Clients, cmd : Commands, sid : Session \cup {NoSession}, op : 0..MaxOps]

ClientInit ==
  /\ at = NoSocket /\ server = 0 /\ file \in BOOLEAN
  /\ sessions = NoSessions /\ queue = <<>>
  /\ executed = [c \in Clients |-> [k \in 1..MaxOps |-> 0]]
  /\ pc = [c \in Clients |-> "none"]
  /\ socket = [c \in Clients |-> NoSocket]
  /\ sid = [c \in Clients |-> NoSession]
  /\ polls = [c \in Clients |-> 0]
  /\ ops = [c \in Clients |-> 0]
  /\ waiting = [c \in Clients |-> 0]
  /\ answered = [c \in Clients |-> FALSE]
  /\ ok = [c \in Clients |-> {}]

-----------------------------------------------------------------------------
(* The server. *)

(* Started by the desktop, by a user, or by a client (Spawn).              *)
StartServer(where) ==
  /\ at = NoSocket /\ server < MaxServers
  /\ at' = where
  /\ server' = server + 1
  /\ file' = (file \/ where = FileSocket)
  /\ UNCHANGED <<sessions, queue, executed, pc, found, sid, ops, exchange, ok>>

Crash ==
  /\ at # NoSocket
  /\ at' = NoSocket
  /\ sessions' = NoSessions /\ queue' = <<>>
  /\ UNCHANGED <<server, file, executed, pc, found, sid, ops, exchange, ok>>

Known(r) == r.sid \in DOMAIN sessions

(* The connection on which r came is still open. *)
Awaits(r) == waiting[r.client] # 0 /\ pc[r.client] = r.cmd /\ ops[r.client] = r.op

SessionsAfter(r) ==
  CASE r.cmd = "create" ->
         [s \in DOMAIN sessions \cup {[server |-> server, client |-> r.client]} |->
            s \in DOMAIN sessions /\ sessions[s]]
    [] r.cmd = "turnOn" /\ Known(r) -> [sessions EXCEPT ![r.sid] = TRUE]
    [] r.cmd = "delete" /\ Known(r) -> [s \in DOMAIN sessions \ {r.sid} |-> sessions[s]]
    [] OTHER -> sessions

(* A command for a session the server does not have is answered as well:   *)
(* by an Output with error_code SESSION_FAILURE (commands.proto).  The     *)
(* client may have closed the connection.                                  *)
Serve ==
  LET r == Head(queue)
  IN  /\ queue # <<>>
      /\ queue' = Tail(queue)
      /\ sessions' = SessionsAfter(r)
      /\ executed' = IF r.cmd = "op" /\ Known(r)
                     THEN [executed EXCEPT ![r.client][r.op] = @ + 1] ELSE executed
      /\ answered' = [answered EXCEPT ![r.client] = @ \/ Awaits(r)]
      /\ UNCHANGED <<at, server, file, pc, found, sid, ops, waiting, ok>>

-----------------------------------------------------------------------------
(* Finding a server.  find_abstract_socket_name: *)

Listed == at \in Names

Go(c, step) == pc' = [pc EXCEPT ![c] = step]

(* A socket to use, and the first command. *)
Use(c, where) == /\ socket' = [socket EXCEPT ![c] = where]
                 /\ Go(c, "create")

Begin(c) ==
  /\ pc[c] = "none"
  /\ Go(c, "quick") \/ Go(c, "find")
  /\ UNCHANGED <<world, found, sid, ops, exchange, ok>>

(* connect_quick *)
Quick(c) ==
  /\ pc[c] = "quick"
  /\ \/ Listed /\ Use(c, at)
     \/ ~Listed /\ file /\ Use(c, FileSocket)
     \/ ~Listed /\ ~file /\ Go(c, "gone") /\ UNCHANGED socket
  /\ UNCHANGED <<world, polls, sid, ops, exchange, ok>>

(* connect, with ensure_mozc_server. *)
Find(c) ==
  /\ pc[c] = "find"
  /\ \/ Listed /\ Use(c, at)
     \/ ~Listed /\ file /\ Go(c, "probe") /\ UNCHANGED socket
     \/ ~Listed /\ ~file /\ Go(c, "spawn") /\ UNCHANGED socket
  /\ UNCHANGED <<world, polls, sid, ops, exchange, ok>>

FileAnswers == file /\ at = FileSocket

Probe(c) ==
  /\ pc[c] = "probe"
  /\ \/ FileAnswers /\ Use(c, FileSocket)
     \/ ~FileAnswers /\ Go(c, "remove") /\ UNCHANGED socket
  /\ UNCHANGED <<world, polls, sid, ops, exchange, ok>>

(* The stale socket; by now it may be a new server's.                      *)
Remove(c) ==
  /\ pc[c] = "remove"
  /\ file' = FALSE
  /\ Go(c, "spawn")
  /\ UNCHANGED <<at, server, sessions, queue, executed, found, sid, ops, exchange, ok>>

(* There is a binary to start, or none (or it cannot be started).          *)
Spawn(c) ==
  /\ pc[c] = "spawn"
  /\ \/ Go(c, "poll") /\ UNCHANGED socket
     \/ Use(c, FileSocket)
  /\ UNCHANGED <<world, polls, sid, ops, exchange, ok>>

(* Mutant of Poll: one turn more. *)
PollOnceMore(c) ==
  /\ pc[c] = "poll"
  /\ \/ Listed /\ Use(c, at) /\ polls' = [polls EXCEPT ![c] = 0]
     \/ /\ ~Listed /\ polls[c] + 1 > Polls
        /\ Use(c, FileSocket)
        /\ polls' = [polls EXCEPT ![c] = 0]
     \/ /\ ~Listed /\ polls[c] + 1 <= Polls
        /\ polls' = [polls EXCEPT ![c] = @ + 1]
        /\ UNCHANGED <<pc, socket>>
  /\ UNCHANGED <<world, sid, ops, exchange, ok>>

Poll(c) ==
  /\ pc[c] = "poll"
  /\ \/ Listed /\ Use(c, at) /\ polls' = [polls EXCEPT ![c] = 0]
     \/ /\ ~Listed /\ polls[c] + 1 = Polls
        /\ Use(c, FileSocket)
        /\ polls' = [polls EXCEPT ![c] = 0]
     \/ /\ ~Listed /\ polls[c] + 1 < Polls
        /\ polls' = [polls EXCEPT ![c] = @ + 1]
        /\ UNCHANGED <<pc, socket>>
  /\ UNCHANGED <<world, sid, ops, exchange, ok>>

-----------------------------------------------------------------------------
(* send_recv: one command over one connection. *)

(* new_connection: a name that has gone is looked up again.                *)
Reachable(c) == IF socket[c] = FileSocket THEN FileAnswers ELSE at \in Names

RequestOf(c) == [client |-> c, cmd |-> pc[c], sid |-> sid[c], op |-> ops[c]]

Send(c) ==
  /\ pc[c] \in Commands /\ waiting[c] = 0
  /\ Reachable(c)
  /\ queue' = Append(queue, RequestOf(c))
  /\ waiting' = [waiting EXCEPT ![c] = server]
  /\ UNCHANGED <<at, server, file, sessions, executed, pc, found, sid, ops, answered, ok>>

Ended(c) == /\ waiting' = [waiting EXCEPT ![c] = 0]
            /\ answered' = [answered EXCEPT ![c] = FALSE]

(* Mutant of Succeeds: new sessions are used as they are. *)
SucceedsAtOnce(c) ==
  CASE pc[c] = "create" -> /\ Go(c, "ready")
                           /\ sid' = [sid EXCEPT ![c] = [server |-> waiting[c], client |-> c]]
                           /\ UNCHANGED ok
    [] pc[c] = "turnOn" -> Go(c, "ready") /\ UNCHANGED <<sid, ok>>
    [] pc[c] = "op"     -> /\ Go(c, "ready")
                           /\ ok' = [ok EXCEPT ![c] = @ \cup {ops[c]}]
                           /\ UNCHANGED sid
    [] pc[c] = "delete" -> Go(c, "gone") /\ UNCHANGED <<sid, ok>>

(* What follows a response; decode_response reads no error_code.           *)
Succeeds(c) ==
  CASE pc[c] = "create" -> /\ Go(c, "turnOn")
                           /\ sid' = [sid EXCEPT ![c] = [server |-> waiting[c], client |-> c]]
                           /\ UNCHANGED ok
    [] pc[c] = "turnOn" -> Go(c, "ready") /\ UNCHANGED <<sid, ok>>
    [] pc[c] = "op"     -> /\ Go(c, "ready")
                           /\ ok' = [ok EXCEPT ![c] = @ \cup {ops[c]}]
                           /\ UNCHANGED sid
    [] pc[c] = "delete" -> Go(c, "gone") /\ UNCHANGED <<sid, ok>>

(* Mutant of Fails: session_id is set when IME is on. *)
FailsWithoutDelete(c) ==
  Go(c, CASE pc[c] \in {"create", "turnOn"} -> "gone"
          [] pc[c] = "op" -> "ready" [] pc[c] = "delete" -> "gone")

(* What follows an error: a client whose session has not been turned on is *)
(* dropped with its session; an op leaves the client to its owner.         *)
Fails(c) ==
  Go(c, CASE pc[c] = "create" -> "gone" [] pc[c] = "turnOn" -> "delete"
          [] pc[c] = "op" -> "ready"    [] pc[c] = "delete" -> "gone")

Unreachable(c) ==
  /\ pc[c] \in Commands /\ waiting[c] = 0
  /\ ~Reachable(c)
  /\ Fails(c)
  /\ UNCHANGED <<world, found, sid, ops, exchange, ok>>

Receive(c) ==
  /\ answered[c]
  /\ Ended(c)
  /\ Succeeds(c)
  /\ UNCHANGED <<world, found, ops>>

Answerless(c) == waiting[c] # 0 /\ ~answered[c]
Cut(c)        == at = NoSocket \/ server # waiting[c]

(* Mutant of Hangup: an empty response decodes to an empty Output. *)
HangupIsAnswer(c) ==
  /\ Answerless(c) /\ Cut(c)
  /\ Ended(c)
  /\ Succeeds(c)
  /\ UNCHANGED <<world, found, ops>>

(* The server is gone: the response is empty, or the connection reset.     *)
Hangup(c) ==
  /\ Answerless(c) /\ Cut(c)
  /\ Ended(c)
  /\ Fails(c)
  /\ UNCHANGED <<world, found, sid, ops, ok>>

(* Mutant of Timeout: the socket has none. *)
NoTimeout(c) == FALSE /\ UNCHANGED cvars

(* The timeout of the socket.  The server still has the command.           *)
Timeout(c) ==
  /\ Answerless(c) /\ ~Cut(c)
  /\ Ended(c)
  /\ Fails(c)
  /\ UNCHANGED <<world, found, sid, ops, ok>>

(* An op of the worker (apply_op), or any other method of the client.      *)
Ask(c) ==
  /\ pc[c] = "ready" /\ ops[c] < MaxOps
  /\ ops' = [ops EXCEPT ![c] = @ + 1]
  /\ Go(c, "op")
  /\ UNCHANGED <<world, found, sid, exchange, ok>>

Drop(c) ==
  /\ pc[c] = "ready"
  /\ Go(c, "delete")
  /\ UNCHANGED <<world, found, sid, ops, exchange, ok>>

ClientStep(c) ==
  \/ Quick(c) \/ Find(c) \/ Probe(c) \/ Remove(c) \/ Spawn(c) \/ Poll(c)
  \/ Send(c) \/ Unreachable(c) \/ Receive(c) \/ Hangup(c) \/ Timeout(c)

ClientNext ==
  \/ \E where \in Names \cup {FileSocket} : StartServer(where)
  \/ Crash
  \/ Serve
  \/ \E c \in Clients : Begin(c) \/ Ask(c) \/ Drop(c) \/ ClientStep(c)

ClientSpec == ClientInit /\ [][ClientNext]_cvars

(* A thread that is in the client runs, and its sockets time out; no       *)
(* server has to be there, nor to answer.                                  *)
FairClientSpec == ClientSpec /\ \A c \in Clients : WF_cvars(ClientStep(c))

-----------------------------------------------------------------------------
(* Every field has its type; a client polls Polls times at most.           *)
ClientTypeOK ==
  /\ at \in Names \cup {FileSocket, NoSocket} /\ server \in 0..MaxServers
  /\ file \in BOOLEAN
  /\ DOMAIN sessions \subseteq Session /\ \A s \in DOMAIN sessions : sessions[s] \in BOOLEAN
  /\ queue \in Seq(Request)
  /\ executed \in [Clients -> [1..MaxOps -> Nat]]
  /\ pc \in [Clients -> Searching \cup Commands \cup {"none", "ready", "gone"}]
  /\ socket \in [Clients -> Names \cup {FileSocket, NoSocket}]
  /\ sid \in [Clients -> Session \cup {NoSession}]
  /\ polls \in [Clients -> 0..(Polls - 1)]
  /\ ops \in [Clients -> 0..MaxOps]
  /\ waiting \in [Clients -> 0..MaxServers]
  /\ answered \in [Clients -> BOOLEAN]
  /\ ok \in [Clients -> SUBSET (1..MaxOps)]

(* A client that is handed to a worker has a session in which IME is on    *)
(* (a new session types nothing), as long as the server lives: nobody else *)
(* deletes it, whatever other clients give up or delete.                   *)
ReadyIsOn ==
  \A c \in Clients :
    pc[c] \in {"ready", "op"} /\ sid[c].server = server /\ at # NoSocket
      => sid[c] \in DOMAIN sessions /\ sessions[sid[c]]

(* An op that returns Ok was carried out, once, in the client's session:   *)
(* the only repetition (new_connection's) comes before anything is sent.   *)
(* After a restart it does not hold: the new server answers for a session  *)
(* it does not have, and that is taken for Ok.                             *)
OkMeansDone ==
  [][\A c \in Clients : \A k \in ok'[c] \ ok[c] :
       executed[c][k] = 1 \/ sid[c].server # server]_cvars

(* A client leaves no session behind: also not if it fails between         *)
(* CREATE_SESSION and TURN_ON_IME.  The exceptions are a server that gave  *)
(* no answer to CREATE_SESSION or to DELETE_SESSION.                       *)
Left(c) == pc[c] \in {"create", "delete"} /\ pc'[c] = "gone" /\ ~answered[c]
SessionsEnd ==
  [][\A c \in Clients :
       pc[c] # "gone" /\ pc'[c] = "gone" =>
         Left(c) \/ \A s \in DOMAIN sessions : s.client # c]_cvars

(* Connecting, an op and Drop end, whether a server runs, hangs or starts  *)
(* too late: they run on the thread of the key event, or are joined by it. *)
CallReturns ==
  \A c \in Clients :
    pc[c] \in Searching \cup Commands ~> pc[c] \in {"ready", "gone"}
=============================================================================
