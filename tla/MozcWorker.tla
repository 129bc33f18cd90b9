----------------------------- MODULE MozcWorker -----------------------------
(***************************************************************************)
(* Mozc IPC off the input-method thread (mozc/worker.rs), with the way the *)
(* engine connects, uses and discards its workers (mzkana-ffi engine.rs).  *)
(*                                                                         *)
(* The UI thread runs one engine call at a time.  It may connect (blocking *)
(* IPC of its own), run a batch on the worker thread with a hard timeout,  *)
(* and drop a worker: a worker that did not answer is detached, any other  *)
(* one is joined.  A worker thread runs batches op by op, and deletes its  *)
(* session when it ends.                                                   *)
(*                                                                         *)
(* A Mozc round-trip is one IPC: it ends with a result or an error at any  *)
(* time up to SOCKET_TIMEOUT, which stands for a server that answers, is   *)
(* gone, or hangs.  Time is counted in units; the numbers are deadlines.   *)
(*                                                                         *)
(* Not reachable, and so no action: batch() on a dead worker and a failing *)
(* send (the engine drops a worker in the call that finds it dead), and a  *)
(* recv() that finds its channel closed (Drop always sends Shutdown).      *)
(***************************************************************************)
EXTENDS Integers, Sequences, Functions

CONSTANTS
  Workers,         \* worker identities; bound: at most so many connections
  NoWorker,        \* Engine.mozc is None
  WORKER_TIMEOUT,  \* 150 ms, for a batch
  SOCKET_TIMEOUT,  \* 1 s, for an IPC
  RETRY_BACKOFF,   \* 5 s, after a failed connection
  MaxOps,          \* bound: ops in a batch
  MaxBatches       \* bound: batches sent

ASSUME WorkerAssumption == NoWorker \notin Workers

ASSUME TimeAssumption ==
  /\ WORKER_TIMEOUT \in Nat /\ SOCKET_TIMEOUT \in Nat /\ RETRY_BACKOFF \in Nat
  /\ 3 * SOCKET_TIMEOUT <= RETRY_BACKOFF

ASSUME SizeAssumption == MaxOps \in Nat /\ MaxBatches \in Nat

VARIABLES
  ui,        \* what the UI thread does, see Waits
  mozc,      \* Engine.mozc
  retryIn,   \* time left until mozc_retry_at (0: none)
  batch,     \* the batch the UI thread waits for
  joined,    \* the worker whose thread the UI thread joins
  waited,    \* time spent in the current wait of the UI thread
  frozen,    \* time spent in the current engine call (to LONGEST_CALL)
  thread,    \* the state of each worker thread
  attached,  \* workers whose MozcWorker value exists (its channel ends are open)
  reqs,      \* req_tx -> req_rx
  resps,     \* resp_tx -> resp_rx
  job,       \* the batch a thread is executing
  results,   \* the results it has so far
  ipc,       \* time spent in the current IPC of a thread
  sent,      \* batches sent so far
  answered   \* the batch whose results the last answer carried

engine  == <<mozc, retryIn>>
timers  == <<waited, frozen>>
threads == <<thread, job, results, ipc>>
chans   == <<attached, reqs, resps>>
hist    == <<sent, answered>>
vars == <<ui, batch, joined, engine, timers, threads, chans, hist>>

(* CREATE_SESSION, TURN_ON_IME and, if that fails, DELETE_SESSION; the     *)
(* rest of the key event; a batch; the end of a thread, in Drop.           *)
ConnectSteps == {"create", "turnOn", "undo"}
Waits == ConnectSteps \cup {"dispatch", "batch", "join", "close"}

(* lenient: reset() ignores an error of its Revert op.                     *)
Batch    == [id : Nat, ops : Nat, lenient : BOOLEAN]
NoBatch  == [id |-> 0, ops |-> 0, lenient |-> FALSE]
Shutdown == [id |-> 0, ops |-> 0, lenient |-> TRUE]
Answer   == [id : Nat, ok : BOOLEAN]

Init ==
  /\ ui = "idle"
  /\ mozc = NoWorker /\ retryIn = 0
  /\ batch = NoBatch /\ joined = NoWorker
  /\ waited = 0 /\ frozen = 0
  /\ thread = [w \in Workers |-> "none"]
  /\ attached = {}
  /\ reqs = [w \in Workers |-> <<>>]
  /\ resps = [w \in Workers |-> <<>>]
  /\ job = [w \in Workers |-> NoBatch]
  /\ results = [w \in Workers |-> <<>>]
  /\ ipc = [w \in Workers |-> 0]
  /\ sent = 0 /\ answered = 0

-----------------------------------------------------------------------------
(* Connecting: connect_quick(), on the thread of the key event.            *)

StartConnect ==
  /\ ui = "idle" /\ mozc = NoWorker /\ retryIn = 0
  /\ \E w \in Workers : thread[w] = "none"
  /\ ui' = "create"
  /\ waited' = 0
  /\ UNCHANGED <<batch, joined, frozen, engine, threads, chans, hist>>

(* Mutant of RetryTime: the backoff is no longer than an IPC. *)
ShortRetry == SOCKET_TIMEOUT - frozen

(* mozc_retry_at counts from the start of the call, not from its failure.  *)
RetryTime == RETRY_BACKOFF - frozen

CreateSession ==
  /\ ui = "create"
  /\ \/ ui' = "turnOn" /\ UNCHANGED <<retryIn, frozen>>
     \/ ui' = "idle" /\ retryIn' = RetryTime /\ frozen' = 0
  /\ waited' = 0
  /\ UNCHANGED <<batch, joined, mozc, threads, chans, hist>>

TurnOnIme ==
  /\ ui = "turnOn"
  /\ \/ /\ ui' = "undo"
        /\ UNCHANGED <<mozc, thread, attached>>
     \/ \E w \in Workers :
          /\ thread[w] = "none"
          /\ ui' = "dispatch"
          /\ mozc' = w
          /\ thread' = [thread EXCEPT ![w] = "recv"]
          /\ attached' = attached \cup {w}
  /\ waited' = 0
  /\ UNCHANGED <<batch, joined, retryIn, frozen, job, results, ipc, reqs, resps, hist>>

(* The client that could not be turned on is dropped, with its session.    *)
UndoSession ==
  /\ ui = "undo"
  /\ ui' = "idle"
  /\ retryIn' = RetryTime
  /\ waited' = 0 /\ frozen' = 0
  /\ UNCHANGED <<batch, joined, mozc, threads, chans, hist>>

-----------------------------------------------------------------------------
(* Dropping a worker.                                                      *)

(* Mutant of Hangup: the thread is not told to stop. *)
Silent(w) == UNCHANGED reqs

Hangup(w) == reqs' = [reqs EXCEPT ![w] = Append(reqs[w], Shutdown)]

(* A live worker: its channels stay open until its thread has ended.       *)
Join(w, wait) ==
  /\ Hangup(w)
  /\ mozc' = NoWorker
  /\ joined' = w
  /\ ui' = wait
  /\ UNCHANGED <<attached, frozen>>

(* Mutants of Abandon: a late answer is left for the next batch; the       *)
(* worker is not marked dead, so its thread is joined.                     *)
KeepWaiting(w) ==
  /\ ui' = "idle" /\ frozen' = 0
  /\ UNCHANGED <<mozc, joined, attached, reqs>>
JoinStuck(w) == Join(w, "join")

(* A dead worker: its thread is detached.                                  *)
Abandon(w) ==
  /\ Hangup(w)
  /\ attached' = attached \ {w}
  /\ mozc' = NoWorker
  /\ ui' = "idle"
  /\ frozen' = 0
  /\ UNCHANGED joined

Joined ==
  /\ ui \in {"join", "close"} /\ thread[joined] = "exited"
  /\ ui' = IF ui = "join" THEN "idle" ELSE "closed"
  /\ attached' = attached \ {joined}
  /\ joined' = NoWorker
  /\ frozen' = 0
  /\ UNCHANGED <<batch, engine, waited, threads, reqs, resps, hist>>

(* The engine itself is freed.                                             *)
Close ==
  /\ ui = "idle"
  /\ \/ /\ mozc = NoWorker /\ ui' = "closed"
        /\ UNCHANGED <<mozc, joined, attached, frozen, reqs>>
     \/ mozc # NoWorker /\ Join(mozc, "close")
  /\ UNCHANGED <<batch, retryIn, waited, threads, resps, hist>>

-----------------------------------------------------------------------------
(* A batch: key events, ticks and candidates send one, and lose the worker *)
(* if an op fails; reset() sends Revert and only a dead worker costs it    *)
(* the connection.                                                         *)

Send(ops, lenient) ==
  LET b == [id |-> sent + 1, ops |-> ops, lenient |-> lenient]
  IN  /\ ui \in {"idle", "dispatch"} /\ mozc # NoWorker
      /\ sent < MaxBatches
      /\ lenient => ui = "idle" /\ ops = 1
      /\ reqs' = [reqs EXCEPT ![mozc] = Append(reqs[mozc], b)]
      /\ batch' = b
      /\ sent' = sent + 1
      /\ ui' = "batch"
      /\ waited' = 0
      /\ UNCHANGED <<joined, engine, frozen, threads, attached, resps, answered>>

(* The key event after a reconnection asks nothing of Mozc.                *)
NoOps ==
  /\ ui = "dispatch"
  /\ ui' = "idle"
  /\ frozen' = 0
  /\ UNCHANGED <<batch, joined, engine, waited, threads, chans, hist>>

Answered ==
  /\ ui = "batch" /\ resps[mozc] # <<>>
  /\ resps' = [resps EXCEPT ![mozc] = Tail(resps[mozc])]
  /\ answered' = Head(resps[mozc]).id
  /\ \/ /\ Head(resps[mozc]).ok \/ batch.lenient
        /\ ui' = "idle"
        /\ frozen' = 0
        /\ UNCHANGED <<mozc, joined, attached, reqs>>
     \/ ~Head(resps[mozc]).ok /\ ~batch.lenient /\ Join(mozc, "join")
  /\ batch' = NoBatch /\ waited' = 0
  /\ UNCHANGED <<retryIn, threads, sent>>

(* recv_timeout: Timeout, or Disconnected.                                 *)
Unanswered ==
  /\ ui = "batch" /\ resps[mozc] = <<>>
  /\ waited = WORKER_TIMEOUT \/ thread[mozc] = "exited"
  /\ Abandon(mozc)
  /\ batch' = NoBatch /\ waited' = 0
  /\ UNCHANGED <<retryIn, threads, resps, hist>>

-----------------------------------------------------------------------------
(* worker_loop: the thread of worker w.                                    *)

Receive(w) ==
  /\ thread[w] = "recv" /\ reqs[w] # <<>>
  /\ reqs' = [reqs EXCEPT ![w] = Tail(reqs[w])]
  /\ \/ /\ Head(reqs[w]) = Shutdown
        /\ thread' = [thread EXCEPT ![w] = "drop"]
        /\ UNCHANGED <<job, results>>
     \/ /\ Head(reqs[w]) # Shutdown
        /\ thread' = [thread EXCEPT ![w] = "op"]
        /\ job' = [job EXCEPT ![w] = Head(reqs[w])]
        /\ results' = [results EXCEPT ![w] = <<>>]
  /\ ipc' = [ipc EXCEPT ![w] = 0]
  /\ UNCHANGED <<ui, batch, joined, engine, timers, attached, resps, hist>>

(* apply_op; an error does not stop the batch.                             *)
Execute(w) ==
  /\ thread[w] = "op"
  /\ \E ok \in BOOLEAN : results' = [results EXCEPT ![w] = Append(results[w], ok)]
  /\ thread' = [thread EXCEPT ![w] = IF Len(results'[w]) = job[w].ops
                                     THEN "reply" ELSE "op"]
  /\ ipc' = [ipc EXCEPT ![w] = 0]
  /\ UNCHANGED <<ui, batch, joined, job, engine, timers, chans, hist>>

BatchResult(w) == [id |-> job[w].id, ok |-> FALSE \notin Range(results[w])]

(* resp_tx.send, which fails once the receiver is gone.                    *)
Reply(w) ==
  /\ thread[w] = "reply"
  /\ \/ /\ w \in attached
        /\ thread' = [thread EXCEPT ![w] = "recv"]
        /\ resps' = [resps EXCEPT ![w] = Append(resps[w], BatchResult(w))]
     \/ /\ w \notin attached
        /\ thread' = [thread EXCEPT ![w] = "drop"]
        /\ UNCHANGED resps
  /\ job' = [job EXCEPT ![w] = NoBatch]
  /\ results' = [results EXCEPT ![w] = <<>>]
  /\ UNCHANGED <<ui, batch, joined, ipc, engine, timers, attached, reqs, hist>>

(* The thread panics in an op: the client is dropped, then the channels.   *)
Panic(w) ==
  /\ thread[w] = "op"
  /\ thread' = [thread EXCEPT ![w] = "drop"]
  /\ ipc' = [ipc EXCEPT ![w] = 0]
  /\ job' = [job EXCEPT ![w] = NoBatch]
  /\ results' = [results EXCEPT ![w] = <<>>]
  /\ UNCHANGED <<ui, batch, joined, engine, timers, chans, hist>>

(* MozcClient::drop: DELETE_SESSION, whatever comes of it.                 *)
DropClient(w) ==
  /\ thread[w] = "drop"
  /\ thread' = [thread EXCEPT ![w] = "exited"]
  /\ ipc' = [ipc EXCEPT ![w] = 0]
  /\ UNCHANGED <<ui, batch, joined, job, results, engine, timers, chans, hist>>

-----------------------------------------------------------------------------
(* How long a call of the engine can keep the UI thread, see FreezeBounded; *)
(* bound: frozen counts no further than one unit past it.                   *)
LONGEST_CALL == 3 * SOCKET_TIMEOUT + WORKER_TIMEOUT

(* Time passes in waits and IPCs only, none of which outlasts its timeout: *)
(* the steps in between take no time.                                      *)

InIpc(w)   == thread[w] \in {"op", "drop"}
Working(w) == \/ thread[w] = "reply"
              \/ thread[w] = "recv" /\ reqs[w] # <<>>
UiWorking  == \/ ui = "dispatch"
              \/ ui = "batch" /\ resps[mozc] # <<>>
              \/ ui \in {"join", "close"} /\ thread[joined] = "exited"

Pass ==
  /\ ~UiWorking
  /\ ui = "batch" => waited < WORKER_TIMEOUT
  /\ ui \in ConnectSteps => waited < SOCKET_TIMEOUT
  /\ \A w \in Workers : ~Working(w) /\ (InIpc(w) => ipc[w] < SOCKET_TIMEOUT)
  /\ waited' = IF ui \in {"batch"} \cup ConnectSteps THEN waited + 1 ELSE waited
  /\ frozen' = IF ui \in Waits /\ frozen <= LONGEST_CALL THEN frozen + 1 ELSE frozen
  /\ ipc' = [w \in Workers |-> IF InIpc(w) THEN ipc[w] + 1 ELSE ipc[w]]
  /\ retryIn' = IF retryIn = 0 THEN 0 ELSE retryIn - 1
  /\ UNCHANGED <<ui, batch, joined, mozc, thread, job, results, chans, hist>>

(* What the UI thread does by itself once it is in a call.                 *)
UiStep == CreateSession \/ TurnOnIme \/ UndoSession \/ NoOps
          \/ Answered \/ Unanswered \/ Joined

ThreadStep(w) == Receive(w) \/ Execute(w) \/ Reply(w) \/ DropClient(w)

Next ==
  \/ StartConnect
  \/ Close
  \/ \E ops \in 1..MaxOps, lenient \in BOOLEAN : Send(ops, lenient)
  \/ UiStep
  \/ \E w \in Workers : ThreadStep(w) \/ Panic(w)
  \/ Pass

Spec == Init /\ [][Next]_vars

(* Time passes and the operating system schedules every thread.            *)
FairSpec == Spec /\ WF_vars(UiStep) /\ WF_vars(Pass)
                 /\ \A w \in Workers : WF_vars(ThreadStep(w))

-----------------------------------------------------------------------------
(* Every field has its type, and no timer passes what bounds it.           *)
WorkerTypeOK ==
  /\ ui \in Waits \cup {"idle", "closed"}
  /\ mozc \in Workers \cup {NoWorker} /\ joined \in Workers \cup {NoWorker}
  /\ retryIn \in 0..RETRY_BACKOFF
  /\ batch \in Batch
  /\ waited \in Nat /\ frozen \in Nat
  /\ thread \in [Workers -> {"none", "recv", "op", "reply", "drop", "exited"}]
  /\ attached \subseteq Workers
  /\ reqs \in [Workers -> Seq(Batch)]
  /\ resps \in [Workers -> Seq(Answer)]
  /\ job \in [Workers -> Batch]
  /\ results \in [Workers -> Seq(BOOLEAN)]
  /\ ipc \in [Workers -> 0..SOCKET_TIMEOUT]
  /\ sent \in Nat /\ answered \in Nat

(* A batch is answered with its own results or given up for good: a late   *)
(* answer never reaches a later batch, over whatever reconnections.        *)
Link == INSTANCE MozcLink WITH
          link <- mozc # NoWorker,
          call <- batch.id
AnswersOwnBatch == Link!LinkSpec

(* How long a call of the engine can keep the UI thread, whatever the Mozc *)
(* server does: a failed connection takes three IPCs, a good one two, its  *)
(* batch WORKER_TIMEOUT, and a worker that is joined has nothing left to   *)
(* do but to delete its session.                                           *)
FreezeBounded == frozen <= LONGEST_CALL

(* Every call of the engine returns: the UI thread never waits for ever    *)
(* for an answer, nor for a thread that waits for it.                      *)
CallsReturn == ui \in Waits ~> ui \in {"idle", "closed"}
=============================================================================
