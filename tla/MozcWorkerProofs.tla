-------------------------- MODULE MozcWorkerProofs --------------------------
(***************************************************************************)
(* Theorems of the Mozc worker, for any number of workers, ops and         *)
(* batches and any timeouts:                                               *)
(*   AnswersAreOwn   the worker implements MozcLink: a batch is answered   *)
(*                   with its own results or given up for good;            *)
(*   FreezeIsBounded an engine call keeps the UI thread at most            *)
(*                   3 * SOCKET_TIMEOUT + WORKER_TIMEOUT.                  *)
(***************************************************************************)
EXTENDS MozcWorker, SequenceTheorems, TLAPS

(* The batch b is in one place only: still in the request channel, being   *)
(* executed, answered, or lost with a thread that panicked.                *)
InFlight(w, b) ==
  \/ /\ thread[w] = "recv" /\ reqs[w] = <<b>> /\ resps[w] = <<>>
  \/ /\ thread[w] \in {"op", "reply"} /\ job[w] = b
     /\ reqs[w] = <<>> /\ resps[w] = <<>>
  \/ /\ thread[w] = "recv" /\ reqs[w] = <<>>
     /\ \E ok \in BOOLEAN : resps[w] = <<[id |-> b.id, ok |-> ok]>>
  \/ /\ thread[w] \in {"drop", "exited"} /\ reqs[w] = <<>> /\ resps[w] = <<>>

(* The thread of w waits for a request, and there is none.                 *)
Ready(w) == thread[w] = "recv" /\ reqs[w] = <<>> /\ resps[w] = <<>>

(* The thread of w has been told to stop and has nothing else to do.       *)
Ending(w) == \/ thread[w] = "recv" /\ reqs[w] = <<Shutdown>>
             \/ thread[w] \in {"drop", "exited"}

Types ==
  /\ ui \in Waits \cup {"idle", "closed"}
  /\ mozc \in Workers \cup {NoWorker}
  /\ joined \in Workers \cup {NoWorker}
  /\ batch \in Batch
  /\ thread \in [Workers -> {"none", "recv", "op", "reply", "drop", "exited"}]
  /\ attached \subseteq Workers
  /\ reqs \in [Workers -> Seq(Batch)]
  /\ resps \in [Workers -> Seq(Answer)]
  /\ job \in [Workers -> Batch]
  /\ results \in [Workers -> Seq(BOOLEAN)]
  /\ sent \in Nat /\ answered \in Nat

(* Where the UI thread is says what the worker it uses has to do.          *)
Protocol ==
  /\ \A w \in Workers : thread[w] = "none" => reqs[w] = <<>> /\ resps[w] = <<>> /\ w # mozc
  /\ ui \in ConnectSteps \cup {"join", "close", "closed"} => mozc = NoWorker
  /\ ui = "dispatch" => mozc \in Workers
  /\ mozc \in Workers => mozc \in attached
  /\ ui \in {"idle", "dispatch"} /\ mozc \in Workers => Ready(mozc)
  /\ IF ui = "batch"
     THEN mozc \in Workers /\ batch.id = sent /\ sent > 0 /\ InFlight(mozc, batch)
     ELSE batch = NoBatch
  /\ ui \in {"join", "close"} => joined \in Workers /\ Ending(joined)

(* How long the current call has lasted, from where it stands.             *)
Timing ==
  /\ waited \in Nat /\ frozen \in Nat /\ retryIn \in 0..RETRY_BACKOFF
  /\ ipc \in [Workers -> 0..SOCKET_TIMEOUT]
  /\ \A w \in Workers : ~InIpc(w) => ipc[w] = 0
  /\ ui \in ConnectSteps => waited <= SOCKET_TIMEOUT
  /\ ui = "batch" => waited <= WORKER_TIMEOUT
  /\ ui \in {"idle", "closed"} => frozen = 0
  /\ ui = "create"   => frozen <= waited
  /\ ui = "turnOn"   => frozen <= SOCKET_TIMEOUT + waited
  /\ ui = "undo"     => frozen <= 2 * SOCKET_TIMEOUT + waited
  /\ ui = "dispatch" => frozen <= 2 * SOCKET_TIMEOUT
  /\ ui = "batch"    => frozen <= 2 * SOCKET_TIMEOUT + waited
  /\ ui \in {"join", "close"} =>
       IF thread[joined] = "exited"
       THEN frozen <= 3 * SOCKET_TIMEOUT + WORKER_TIMEOUT
       ELSE frozen <= 2 * SOCKET_TIMEOUT + WORKER_TIMEOUT + ipc[joined]

Inv == Types /\ Protocol /\ Timing

(* Sequences of one request or answer: what the channels hold. *)
LEMMA OneElement ==
  ASSUME NEW S, NEW e \in S
  PROVE  /\ Append(<<>>, e) = <<e>>
         /\ <<e>> \in Seq(S) /\ <<e>> # <<>>
         /\ Head(<<e>>) = e
         /\ Tail(<<e>>) = <<>>
OBVIOUS

(* The initial state satisfies the invariant. *)
LEMMA InitInv == Init => Inv
<1>. SUFFICES ASSUME Init PROVE Inv
  OBVIOUS
<1>. USE WorkerAssumption, TimeAssumption DEF Init
<1>1. Types
  BY DEF Types, Batch, NoBatch, Answer
<1>2. Protocol
  BY DEF Protocol, ConnectSteps, NoBatch
<1>3. Timing
  BY DEF Timing, InIpc, ConnectSteps
<1>. QED  BY <1>1, <1>2, <1>3 DEF Inv

(* Every action keeps every field's type. *)
LEMMA TypesKept ==
  ASSUME Types, Protocol, Next
  PROVE  Types'
<1>. USE WorkerAssumption, TimeAssumption, SizeAssumption
<1>. USE DEF Types, Waits, ConnectSteps, engine, timers, threads, chans, hist
<1>1. CASE StartConnect
  BY <1>1 DEF StartConnect
<1>2. CASE Close
  <2>1. NoBatch \in Batch /\ Shutdown \in Batch
    BY DEF NoBatch, Shutdown, Batch
  <2>2. CASE mozc = NoWorker
    BY <1>2, <2>2 DEF Close, Join
  <2>3. CASE mozc # NoWorker
    <3>1. Append(reqs[mozc], Shutdown) \in Seq(Batch)
      BY <2>1, <2>3
    <3>. QED  BY <1>2, <2>3, <3>1 DEF Close, Join, Hangup
  <2>. QED  BY <2>2, <2>3
<1>3. ASSUME NEW ops \in 1..MaxOps, NEW lenient \in BOOLEAN, Send(ops, lenient)
      PROVE  Types'
  <2>1. [id |-> sent + 1, ops |-> ops, lenient |-> lenient] \in Batch
    BY DEF Batch
  <2>. QED  BY <1>3, <2>1 DEF Send
<1>4. CASE UiStep
  <2>1. CASE CreateSession
    BY <2>1 DEF CreateSession
  <2>2. CASE TurnOnIme
    BY <2>2 DEF TurnOnIme
  <2>3. CASE UndoSession
    BY <2>3 DEF UndoSession
  <2>4. CASE NoOps
    BY <2>4 DEF NoOps
  <2>5. CASE Answered
    <3>1. mozc \in Workers /\ resps[mozc] # <<>> /\ resps[mozc] \in Seq(Answer)
      BY <2>5 DEF Answered, Protocol
    <3>2. Head(resps[mozc]) \in Answer /\ Tail(resps[mozc]) \in Seq(Answer)
      BY <3>1
    <3>3. Head(resps[mozc]).id \in Nat
      BY <3>2 DEF Answer
    <3>4. NoBatch \in Batch /\ Shutdown \in Batch
      BY DEF NoBatch, Shutdown, Batch
    <3>5. Append(reqs[mozc], Shutdown) \in Seq(Batch)
      BY <3>1, <3>4
    <3>6. resps' \in [Workers -> Seq(Answer)] /\ answered' \in Nat
      BY <2>5, <3>1, <3>2, <3>3 DEF Answered
    <3>7. reqs' \in [Workers -> Seq(Batch)]
      BY <2>5, <3>1, <3>5 DEF Answered, Join, Hangup
    <3>. QED  BY <2>5, <3>1, <3>4, <3>6, <3>7 DEF Answered, Join
  <2>6. CASE Unanswered
    <3>1. NoBatch \in Batch /\ Shutdown \in Batch
      BY DEF NoBatch, Shutdown, Batch
    <3>. QED  BY <2>6, <3>1 DEF Unanswered, Abandon, Hangup, Protocol
  <2>7. CASE Joined
    BY <2>7 DEF Joined
  <2>. QED  BY <1>4, <2>1, <2>2, <2>3, <2>4, <2>5, <2>6, <2>7 DEF UiStep
<1>5. ASSUME NEW w \in Workers, ThreadStep(w) \/ Panic(w)
      PROVE  Types'
  <2>1. NoBatch \in Batch
    BY DEF NoBatch, Batch
  <2>2. CASE Receive(w)
    <3>1. Head(reqs[w]) \in Batch /\ Tail(reqs[w]) \in Seq(Batch)
      BY <2>2 DEF Receive
    <3>2. reqs' \in [Workers -> Seq(Batch)]
      BY <2>2, <3>1 DEF Receive
    <3>3. <<>> \in Seq(BOOLEAN)
      OBVIOUS
    <3>4. job' \in [Workers -> Batch]
      BY <2>2, <3>1 DEF Receive
    <3>5. results' \in [Workers -> Seq(BOOLEAN)]
      <4>1. results' = results \/ results' = [results EXCEPT ![w] = <<>>]
        BY <2>2 DEF Receive
      <4>. QED  BY <3>3, <4>1
    <3>. QED  BY <2>2, <3>2, <3>4, <3>5 DEF Receive
  <2>3. CASE Execute(w)
    BY <2>3 DEF Execute
  <2>4. CASE Reply(w)
    <3>1. BatchResult(w) \in Answer
      <4>1. job[w].id \in Nat
        BY DEF Batch
      <4>. QED  BY <4>1 DEF BatchResult, Answer
    <3>2. Append(resps[w], BatchResult(w)) \in Seq(Answer)
      BY <3>1
    <3>3. resps' \in [Workers -> Seq(Answer)] /\ job' \in [Workers -> Batch]
      BY <2>1, <2>4, <3>2 DEF Reply
    <3>4. <<>> \in Seq(BOOLEAN)
      OBVIOUS
    <3>5. results' \in [Workers -> Seq(BOOLEAN)]
      <4>1. results' = [results EXCEPT ![w] = <<>>]
        BY <2>4 DEF Reply
      <4>. QED  BY <3>4, <4>1
    <3>. QED  BY <2>4, <3>3, <3>5 DEF Reply
  <2>5. CASE DropClient(w)
    BY <2>5 DEF DropClient
  <2>6. CASE Panic(w)
    BY <2>1, <2>6 DEF Panic
  <2>. QED  BY <1>5, <2>2, <2>3, <2>4, <2>5, <2>6 DEF ThreadStep
<1>6. CASE Pass
  BY <1>6 DEF Pass
<1>. QED  BY <1>1, <1>2, <1>3, <1>4, <1>5, <1>6 DEF Next

(* The steps of the UI thread keep the protocol. *)
LEMMA ProtocolKeptByUi ==
  ASSUME Types, Protocol,
         \/ StartConnect \/ Close \/ UiStep
         \/ \E ops \in 1..MaxOps, lenient \in BOOLEAN : Send(ops, lenient)
  PROVE  Protocol'
<1>. USE WorkerAssumption, SizeAssumption
<1>. USE DEF Protocol, ConnectSteps, engine, timers, threads, chans, hist
<1>0. NoBatch \in Batch /\ Shutdown \in Batch
  BY DEF NoBatch, Shutdown, Batch
<1>1. CASE StartConnect
  BY <1>1 DEF StartConnect
<1>2. CASE Close
  <2>1. CASE mozc = NoWorker
    BY <1>2, <2>1 DEF Close, Join
  <2>2. CASE mozc # NoWorker
    <3>1. mozc \in Workers /\ Ready(mozc)
      BY <1>2, <2>2 DEF Close, Types
    <3>2. reqs'[mozc] = <<Shutdown>> /\ thread'[mozc] = "recv" /\ joined' = mozc
      BY <1>0, <1>2, <2>2, <3>1 DEF Close, Join, Hangup, Ready, Types
    <3>3. Ending(joined)'
      BY <3>2 DEF Ending
    <3>. QED  BY <1>2, <2>2, <3>1, <3>2, <3>3 DEF Close, Join, Hangup, Ready, Types
  <2>. QED  BY <2>1, <2>2
<1>3. ASSUME NEW ops \in 1..MaxOps, NEW lenient \in BOOLEAN, Send(ops, lenient)
      PROVE  Protocol'
  <2>. DEFINE b == [id |-> sent + 1, ops |-> ops, lenient |-> lenient]
  <2>1. b \in Batch /\ b.id = sent + 1
    BY DEF Batch, Types
  <2>2. mozc \in Workers /\ Ready(mozc) /\ mozc \in attached
    BY <1>3 DEF Send, Types
  <2>3. reqs'[mozc] = <<b>>
    BY <1>3, <2>1, <2>2 DEF Send, Ready, Types
  <2>4. InFlight(mozc, batch)'
    BY <1>3, <2>2, <2>3 DEF Send, Ready, InFlight
  <2>5. batch'.id = sent' /\ sent' > 0
    BY <1>3, <2>1 DEF Send, Types
  <2>6. \A w \in Workers : w # mozc => reqs'[w] = reqs[w]
    BY <1>3 DEF Send, Types
  <2>. QED  BY <1>3, <2>2, <2>4, <2>5, <2>6 DEF Send, Ready
<1>4. CASE UiStep
  <2>1. CASE CreateSession
    BY <2>1 DEF CreateSession
  <2>2. CASE TurnOnIme
    <3>1. CASE ui' = "undo"
      BY <2>2, <3>1 DEF TurnOnIme
    <3>2. CASE ui' # "undo"
      <4>1. PICK w \in Workers :
              /\ thread[w] = "none" /\ ui' = "dispatch" /\ mozc' = w
              /\ thread' = [thread EXCEPT ![w] = "recv"]
              /\ attached' = attached \cup {w}
        BY <2>2, <3>2 DEF TurnOnIme
      <4>2. Ready(mozc)'
        BY <2>2, <4>1 DEF TurnOnIme, Ready, Types
      <4>. QED  BY <2>2, <4>1, <4>2 DEF TurnOnIme, Types
    <3>. QED  BY <3>1, <3>2
  <2>3. CASE UndoSession
    BY <2>3 DEF UndoSession
  <2>4. CASE NoOps
    BY <2>4 DEF NoOps, Ready
  <2>5. CASE Answered
    <3>1. mozc \in Workers /\ mozc \in attached /\ resps[mozc] # <<>>
      BY <2>5 DEF Answered
    <3>2. PICK ok \in BOOLEAN : /\ thread[mozc] = "recv" /\ reqs[mozc] = <<>>
                               /\ resps[mozc] = <<[id |-> batch.id, ok |-> ok]>>
      BY <2>5, <3>1 DEF Answered, InFlight
    <3>3. resps'[mozc] = <<>> /\ \A w \in Workers : w # mozc => resps'[w] = resps[w]
      BY <2>5, <3>1, <3>2 DEF Answered, Types
    <3>4. CASE mozc' = mozc
      <4>1. ui' = "idle" /\ UNCHANGED <<thread, reqs, attached>>
        BY <2>5, <3>1, <3>4 DEF Answered, Join
      <4>. QED  BY <2>5, <3>1, <3>2, <3>3, <3>4, <4>1 DEF Answered, Ready
    <3>5. CASE mozc' # mozc
      <4>1. Join(mozc, "join")
        BY <2>5, <3>5 DEF Answered
      <4>2. reqs'[mozc] = <<Shutdown>> /\ \A w \in Workers : w # mozc => reqs'[w] = reqs[w]
        BY <1>0, <3>1, <3>2, <4>1 DEF Join, Hangup, Types
      <4>3. Ending(joined)'
        BY <2>5, <3>1, <3>2, <4>1, <4>2 DEF Answered, Join, Ending
      <4>. QED  BY <2>5, <3>1, <3>2, <3>3, <4>1, <4>2, <4>3 DEF Answered, Join
    <3>. QED  BY <3>4, <3>5
  <2>6. CASE Unanswered
    <3>1. mozc \in Workers /\ thread[mozc] # "none"
      BY <2>6 DEF Unanswered, InFlight
    <3>2. \A w \in Workers : w # mozc => reqs'[w] = reqs[w]
      BY <2>6, <3>1 DEF Unanswered, Abandon, Hangup, Types
    <3>. QED  BY <2>6, <3>1, <3>2 DEF Unanswered, Abandon
  <2>7. CASE Joined
    BY <2>7 DEF Joined
  <2>. QED  BY <1>4, <2>1, <2>2, <2>3, <2>4, <2>5, <2>6, <2>7 DEF UiStep
<1>. QED  BY <1>1, <1>2, <1>3, <1>4

(* The steps of a worker thread keep the protocol. *)
LEMMA ProtocolKeptByThread ==
  ASSUME Types, Protocol, NEW w \in Workers, ThreadStep(w) \/ Panic(w)
  PROVE  Protocol'
<1>. USE WorkerAssumption
<1>1. /\ UNCHANGED <<ui, mozc, joined, batch, attached, sent>>
      /\ thread'[w] # "none" /\ thread[w] # "none"
      /\ \A v \in Workers : v # w => /\ thread'[v] = thread[v] /\ reqs'[v] = reqs[v]
                                   /\ resps'[v] = resps[v] /\ job'[v] = job[v]
  BY DEF ThreadStep, Receive, Execute, Reply, DropClient, Panic, Types, engine, timers,
         chans, hist
<1>2. ui \in {"idle", "dispatch"} /\ mozc \in Workers => Ready(mozc)'
  <2>1. SUFFICES ASSUME ui \in {"idle", "dispatch"}, mozc \in Workers, Ready(mozc)
                 PROVE  mozc # w
    BY <1>1 DEF Protocol, Ready
  <2>. QED  BY <2>1 DEF Ready, ThreadStep, Receive, Execute, Reply, DropClient, Panic
<1>3. ui = "batch" => InFlight(mozc, batch)'
  <2>1. SUFFICES ASSUME ui = "batch", mozc = w, InFlight(w, batch),
                        batch.id > 0, batch \in Batch, w \in attached
                 PROVE  InFlight(w, batch)'
    BY <1>1 DEF Protocol, InFlight, Types
  <2>2. batch # Shutdown
    BY <2>1 DEF Shutdown
  <2>3. CASE Receive(w)
    <3>1. reqs[w] = <<batch>> /\ resps[w] = <<>>
      BY <2>1, <2>3 DEF Receive, InFlight
    <3>2. Head(reqs[w]) = batch /\ Tail(reqs[w]) = <<>>
      BY <2>1, <3>1
    <3>. QED  BY <2>2, <2>3, <3>1, <3>2 DEF Receive, InFlight, Types, chans
  <2>4. CASE Execute(w)
    BY <2>1, <2>4, <1>1 DEF Execute, InFlight, Types, chans
  <2>5. CASE Reply(w)
    <3>1. resps[w] = <<>> /\ job[w] = batch /\ reqs[w] = <<>>
      BY <2>1, <2>5 DEF Reply, InFlight
    <3>2. resps'[w] = <<BatchResult(w)>>
      <4>1. resps'[w] = Append(resps[w], BatchResult(w))
        BY <2>1, <2>5 DEF Reply, Types
      <4>. QED  BY <3>1, <4>1
    <3>3. BatchResult(w) = [id |-> batch.id, ok |-> FALSE \notin Range(results[w])]
      BY <3>1 DEF BatchResult
    <3>4. (FALSE \notin Range(results[w])) \in BOOLEAN
      OBVIOUS
    <3>5. thread'[w] = "recv" /\ reqs'[w] = <<>>
      BY <2>1, <2>5, <3>1 DEF Reply, Types
    <3>. QED  BY <1>1, <3>2, <3>3, <3>4, <3>5 DEF InFlight
  <2>6. CASE DropClient(w) \/ Panic(w)
    BY <2>1, <2>6, <1>1 DEF DropClient, Panic, InFlight, Types, chans
  <2>. QED  BY <2>3, <2>4, <2>5, <2>6 DEF ThreadStep
<1>4. ui \in {"join", "close"} => Ending(joined)'
  <2>1. SUFFICES ASSUME joined = w, Ending(w)
                 PROVE  Ending(w)'
    BY <1>1 DEF Protocol, Ending
  <2>2. CASE Receive(w)
    <3>1. reqs[w] = <<Shutdown>>
      BY <2>1, <2>2 DEF Receive, Ending
    <3>2. Head(reqs[w]) = Shutdown
      BY <3>1
    <3>. QED  BY <2>2, <3>2 DEF Receive, Ending, Types
  <2>3. CASE ~Receive(w)
    BY <2>1, <2>3 DEF ThreadStep, Execute, Reply, DropClient, Panic, Ending, Types
  <2>. QED  BY <2>2, <2>3
<1>. QED  BY <1>1, <1>2, <1>3, <1>4 DEF Protocol

(* Every action keeps the protocol. *)
LEMMA ProtocolKept ==
  ASSUME Types, Protocol, Next
  PROVE  Protocol'
<1>1. CASE Pass
  BY <1>1 DEF Pass, Protocol, Ready, InFlight, Ending, chans, hist
<1>2. CASE \E w \in Workers : ThreadStep(w) \/ Panic(w)
  BY <1>2, ProtocolKeptByThread
<1>3. CASE ~Pass /\ ~(\E w \in Workers : ThreadStep(w) \/ Panic(w))
  BY <1>3, ProtocolKeptByUi DEF Next
<1>. QED  BY <1>1, <1>2, <1>3

(* Every action keeps the timing; only Pass lets time go by. *)
LEMMA TimingKept ==
  ASSUME Inv, Next
  PROVE  Timing'
<1>. USE WorkerAssumption, TimeAssumption
<1>. USE DEF ConnectSteps, engine, timers, threads, chans, hist, InIpc
<1>0. Types /\ Protocol /\ Timing
  BY DEF Inv
<1>1. CASE StartConnect
  BY <1>0, <1>1 DEF StartConnect, Timing
<1>2. CASE Close
  <2>1. CASE mozc = NoWorker
    BY <1>0, <1>2, <2>1 DEF Close, Timing, Join
  <2>2. CASE mozc # NoWorker
    <3>1. thread[mozc] = "recv" /\ mozc \in Workers
      BY <1>0, <1>2, <2>2 DEF Close, Types, Protocol, Ready
    <3>. QED  BY <1>0, <1>2, <2>2, <3>1 DEF Close, Timing, Join
  <2>. QED  BY <2>1, <2>2
<1>3. ASSUME NEW ops \in 1..MaxOps, NEW lenient \in BOOLEAN, Send(ops, lenient)
      PROVE  Timing'
  BY <1>0, <1>3 DEF Send, Timing
<1>4. CASE UiStep
  <2>1. CASE CreateSession
    BY <1>0, <2>1 DEF CreateSession, Timing, RetryTime
  <2>2. CASE TurnOnIme
    <3>1. CASE ui' = "undo"
      BY <1>0, <2>2, <3>1 DEF TurnOnIme, Timing
    <3>2. CASE ui' # "undo"
      <4>1. PICK w \in Workers :
              /\ thread[w] = "none" /\ ui' = "dispatch"
              /\ thread' = [thread EXCEPT ![w] = "recv"]
        BY <2>2, <3>2 DEF TurnOnIme
      <4>2. \A v \in Workers : ~InIpc(v)' => ipc[v] = 0
        BY <1>0, <4>1 DEF Timing, Types
      <4>. QED  BY <1>0, <2>2, <4>1, <4>2 DEF TurnOnIme, Timing
    <3>. QED  BY <3>1, <3>2
  <2>3. CASE UndoSession
    BY <1>0, <2>3 DEF UndoSession, Timing, RetryTime
  <2>4. CASE NoOps
    BY <1>0, <2>4 DEF NoOps, Timing
  <2>5. CASE Answered
    <3>1. mozc \in Workers /\ thread[mozc] = "recv"
      BY <1>0, <2>5 DEF Answered, Protocol, InFlight
    <3>2. CASE ui' = "idle"
      BY <1>0, <2>5, <3>2 DEF Answered, Timing, Join
    <3>3. CASE ui' # "idle"
      BY <1>0, <2>5, <3>1, <3>3 DEF Answered, Timing, Join
    <3>. QED  BY <3>2, <3>3
  <2>6. CASE Unanswered
    BY <1>0, <2>6 DEF Unanswered, Abandon, Timing
  <2>7. CASE Joined
    BY <1>0, <2>7 DEF Joined, Timing
  <2>. QED  BY <1>4, <2>1, <2>2, <2>3, <2>4, <2>5, <2>6, <2>7 DEF UiStep
<1>5. ASSUME NEW w \in Workers, ThreadStep(w) \/ Panic(w)
      PROVE  Timing'
  <2>1. UNCHANGED <<ui, joined, retryIn, waited, frozen>>
    BY <1>5 DEF ThreadStep, Receive, Execute, Reply, DropClient, Panic
  <2>2. /\ ipc' = [ipc EXCEPT ![w] = 0] \/ (ipc' = ipc /\ ipc[w] = 0)
        /\ \A v \in Workers : v # w => thread'[v] = thread[v]
    BY <1>0, <1>5 DEF ThreadStep, Receive, Execute, Reply, DropClient, Panic, Types, Timing
  <2>3. ui \in {"join", "close"} /\ joined = w =>
          IF thread'[w] = "exited"
          THEN frozen <= 3 * SOCKET_TIMEOUT + WORKER_TIMEOUT
          ELSE frozen <= 2 * SOCKET_TIMEOUT + WORKER_TIMEOUT
    <3>1. SUFFICES ASSUME ui \in {"join", "close"}, joined = w, Ending(w)
                   PROVE  IF thread'[w] = "exited"
                          THEN frozen <= 3 * SOCKET_TIMEOUT + WORKER_TIMEOUT
                          ELSE frozen <= 2 * SOCKET_TIMEOUT + WORKER_TIMEOUT
      BY <1>0 DEF Protocol
    <3>2. CASE Receive(w)
      <4>1. thread[w] = "recv" /\ thread'[w] \in {"drop", "op"}
        BY <1>0, <3>2 DEF Receive, Types
      <4>2. frozen <= 2 * SOCKET_TIMEOUT + WORKER_TIMEOUT + ipc[w] /\ ipc[w] = 0
        BY <1>0, <3>1, <4>1 DEF Timing
      <4>3. frozen <= 2 * SOCKET_TIMEOUT + WORKER_TIMEOUT
        BY <1>0, <4>2 DEF Timing
      <4>. QED  BY <4>1, <4>3
    <3>3. CASE DropClient(w)
      BY <1>0, <3>1, <3>3 DEF DropClient, Timing, Types
    <3>4. ~(Execute(w) \/ Reply(w) \/ Panic(w))
      BY <3>1 DEF Ending, Execute, Reply, Panic
    <3>. QED  BY <1>5, <3>2, <3>3, <3>4 DEF ThreadStep
  <2>4. ui \in {"join", "close"} => joined \in Workers
    BY <1>0 DEF Protocol
  <2>5. ipc'[w] = 0 /\ \A v \in Workers : v # w => ipc'[v] = ipc[v]
    BY <1>0, <2>2 DEF Timing
  <2>6. ipc' \in [Workers -> 0..SOCKET_TIMEOUT]
    BY <1>0, <2>2 DEF Timing
  <2>7. \A v \in Workers : ~InIpc(v)' => ipc'[v] = 0
    BY <1>0, <2>2, <2>5 DEF Timing
  <2>8. ui \in {"join", "close"} =>
          IF thread'[joined] = "exited"
          THEN frozen <= 3 * SOCKET_TIMEOUT + WORKER_TIMEOUT
          ELSE frozen <= 2 * SOCKET_TIMEOUT + WORKER_TIMEOUT + ipc'[joined]
    <3>1. CASE joined = w
      BY <1>0, <2>3, <2>5, <3>1 DEF Timing
    <3>2. CASE joined # w
      BY <1>0, <2>2, <2>4, <2>5, <3>2 DEF Timing
    <3>. QED  BY <3>1, <3>2
  <2>. QED  BY <1>0, <2>1, <2>6, <2>7, <2>8 DEF Timing
<1>6. CASE Pass
  <2>1. \A w \in Workers : InIpc(w) => ipc[w] < SOCKET_TIMEOUT
    BY <1>6 DEF Pass
  <2>2. ipc' \in [Workers -> 0..SOCKET_TIMEOUT]
    BY <1>0, <1>6, <2>1 DEF Pass, Timing
  <2>3. ui \in {"join", "close"} => joined \in Workers /\ thread[joined] = "drop"
    BY <1>0, <1>6 DEF Pass, Protocol, Ending, UiWorking, Working
  <2>4. \A w \in Workers : thread[w] = "drop" => ipc'[w] = ipc[w] + 1
    BY <1>6 DEF Pass
  <2>5. /\ frozen' \in Nat /\ frozen' <= frozen + 1
        /\ ui \notin Waits => frozen' = frozen
    BY <1>0, <1>6 DEF Pass, Timing
  <2>6. /\ ui' = ui /\ joined' = joined /\ thread' = thread
        /\ waited' = IF ui \in {"batch"} \cup ConnectSteps THEN waited + 1 ELSE waited
        /\ retryIn' = IF retryIn = 0 THEN 0 ELSE retryIn - 1
        /\ ui = "batch" => waited < WORKER_TIMEOUT
        /\ ui \in ConnectSteps => waited < SOCKET_TIMEOUT
        /\ ui # "dispatch"
        /\ \A w \in Workers : ipc'[w] = IF InIpc(w) THEN ipc[w] + 1 ELSE ipc[w]
    BY <1>6 DEF Pass, UiWorking
  <2>. QED  BY <1>0, <2>2, <2>3, <2>4, <2>5, <2>6 DEF Timing, Waits, ConnectSteps, InIpc
<1>. QED  BY <1>1, <1>2, <1>3, <1>4, <1>5, <1>6 DEF Next

(* The invariant is inductive. *)
LEMMA StepInv == Inv /\ [Next]_vars => Inv'
<1>1. CASE Inv /\ Next
  BY <1>1, TypesKept, ProtocolKept, TimingKept DEF Inv
<1>2. CASE Inv /\ UNCHANGED vars
  BY <1>2 DEF Inv, Types, Protocol, Timing, Ready, InFlight, Ending, InIpc,
              vars, engine, timers, threads, chans, hist
<1>. QED  BY <1>1, <1>2

(* The invariant holds in every reachable state. *)
LEMMA InvHolds == Spec => []Inv
BY InitInv, StepInv, PTL DEF Spec

(* Every field keeps its type and every timer its bound. *)
THEOREM WorkerTypes == Spec => []WorkerTypeOK
<1>1. Inv => WorkerTypeOK
  BY DEF Inv, Types, Timing, WorkerTypeOK
<1>. QED  BY <1>1, InvHolds, PTL

(* A call of the engine keeps the UI thread at most for three IPCs and a   *)
(* batch: the thread that is joined only has its session to delete.        *)
THEOREM FreezeIsBounded == Spec => []FreezeBounded
<1>1. Inv => FreezeBounded
  <2>1. SUFFICES ASSUME Inv PROVE FreezeBounded
    OBVIOUS
  <2>2. ui \in {"join", "close"} => joined \in Workers
    BY <2>1 DEF Inv, Protocol
  <2>. QED  BY <2>1, <2>2, TimeAssumption
            DEF Inv, Types, Timing, FreezeBounded, LONGEST_CALL, Waits, ConnectSteps
<1>. QED  BY <1>1, InvHolds, PTL

(* A batch is answered with its own results, or given up for good.         *)
THEOREM AnswersAreOwn == Spec => AnswersOwnBatch
<1>1. Init => Link!LinkInit
  BY DEF Init, Link!LinkInit, NoBatch
<1>2. ASSUME Inv, [Next]_vars
      PROVE  [Link!LinkNext]_Link!linkVars
  <2>. USE WorkerAssumption
  <2>. USE DEF engine, hist, Link!linkVars
  <2>0. Types /\ Protocol
    BY <1>2 DEF Inv
  <2>1. CASE \/ StartConnect \/ CreateSession \/ UndoSession \/ NoOps \/ Joined
             \/ Pass \/ UNCHANGED vars
    BY <2>1 DEF StartConnect, CreateSession, UndoSession, NoOps, Joined, Pass, vars
  <2>2. CASE TurnOnIme
    BY <2>0, <2>2 DEF TurnOnIme, Link!LinkNext, Link!Connect, Protocol, ConnectSteps, NoBatch
  <2>3. CASE Close
    BY <2>0, <2>3 DEF Close, Join, Link!LinkNext, Link!Disconnect, Protocol, NoBatch
  <2>4. ASSUME NEW ops \in 1..MaxOps, NEW lenient \in BOOLEAN, Send(ops, lenient)
        PROVE  Link!Ask
    BY <2>0, <2>4 DEF Send, Link!Ask, Protocol, NoBatch
  <2>5. CASE Answered
    <3>1. PICK ok \in BOOLEAN : resps[mozc] = <<[id |-> batch.id, ok |-> ok]>>
      BY <2>0, <2>5 DEF Answered, Protocol, InFlight
    <3>2. Head(resps[mozc]).id = batch.id
      BY <3>1
    <3>3. batch.id # 0
      BY <2>0, <2>5 DEF Answered, Protocol, Types
    <3>. QED  BY <2>5, <3>2, <3>3 DEF Answered, Link!LinkNext, Link!Answer, NoBatch
  <2>6. CASE Unanswered
    <3>1. batch.id # 0
      BY <2>0, <2>6 DEF Unanswered, Protocol, Types
    <3>. QED  BY <2>6, <3>1 DEF Unanswered, Abandon, Link!LinkNext, Link!GiveUp, NoBatch
  <2>7. ASSUME NEW w \in Workers, ThreadStep(w) \/ Panic(w)
        PROVE  UNCHANGED Link!linkVars
    BY <2>7 DEF ThreadStep, Receive, Execute, Reply, DropClient, Panic
  <2>. QED  BY <1>2, <2>1, <2>2, <2>3, <2>4, <2>5, <2>6, <2>7 DEF Next, UiStep, Link!LinkNext
<1>. QED  BY <1>1, <1>2, InvHolds, PTL DEF Spec, AnswersOwnBatch, Link!LinkSpec
=============================================================================
