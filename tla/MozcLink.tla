------------------------------ MODULE MozcLink ------------------------------
(***************************************************************************)
(* What the engine relies on when it talks to Mozc through a MozcWorker    *)
(* (mozc/worker.rs): one batch at a time, and a batch is either answered   *)
(* with its own results or given up, after which the connection is gone    *)
(* and nothing that was asked over it is ever answered again.              *)
(***************************************************************************)
EXTENDS Integers

CONSTANT MaxBatches   \* bound: batches sent

VARIABLES
  link,      \* is Engine.mozc Some?
  call,      \* the number of the batch being waited for, or 0
  answered,  \* the number of the last batch whose results were returned
  sent       \* how many batches were sent

linkVars == <<link, call, answered, sent>>

LinkInit == link = FALSE /\ call = 0 /\ answered = 0 /\ sent = 0

Connect == ~link /\ call = 0 /\ link' = TRUE /\ UNCHANGED <<call, answered, sent>>

Disconnect == link /\ call = 0 /\ link' = FALSE /\ UNCHANGED <<call, answered, sent>>

Ask == /\ link /\ call = 0 /\ sent < MaxBatches
       /\ sent' = sent + 1
       /\ call' = sent'
       /\ UNCHANGED <<link, answered>>

(* The results are those of the batch that was asked; an op among them may *)
(* have failed, which costs the connection.                                *)
Answer == /\ call # 0
          /\ answered' = call
          /\ call' = 0
          /\ link' \in BOOLEAN
          /\ UNCHANGED sent

GiveUp == call # 0 /\ call' = 0 /\ link' = FALSE /\ UNCHANGED <<answered, sent>>

LinkNext == Connect \/ Disconnect \/ Ask \/ Answer \/ GiveUp

LinkSpec == LinkInit /\ [][LinkNext]_linkVars
=============================================================================
