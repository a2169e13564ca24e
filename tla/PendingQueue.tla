---------------------------- MODULE PendingQueue ----------------------------
(***************************************************************************)
(* What the pending_observer table promises to everything that puts a      *)
(* transcript in it (backend/memory/pending_observer.py): a row is never   *)
(* dropped or rewritten, it is called completed only after the Observer    *)
(* really returned from reading it, and a row that was taken up and not    *)
(* finished - the process died, the model was unreachable - can be taken   *)
(* up again.  Delivery is therefore at least once.                         *)
(*                                                                         *)
(* The module is the abstract half: who takes rows up, in which thread and *)
(* after which crash is SessionLifecycle's business, which implements it.  *)
(***************************************************************************)
EXTENDS Naturals, Sequences

CONSTANT Transcript     \* whatever a row can carry

VARIABLES
  queue,   \* the table: one record per row, in insertion order
  returned \* rows the Observer has returned from, not yet marked completed

queueVars == <<queue, returned>>

Status == {"pending", "processing", "completed", "failed"}

\* The rows _list_for_drain selects: failed and completed are terminal.
Open(status) == status \in {"pending", "processing"}

Init ==
  /\ queue = <<>>
  /\ returned = {}

Enqueue ==
  /\ Len(queue') = Len(queue) + 1
  /\ LET new == queue'[Len(queue) + 1] IN
       /\ queue' = Append(queue, new)
       /\ new.status = "pending" /\ new.transcript \in Transcript
  /\ UNCHANGED returned

\* Taking up a row that is already "processing" is the retry.
Take(n) ==
  /\ Open(queue[n].status)
  /\ queue' = [queue EXCEPT ![n].status = "processing"]
  /\ UNCHANGED returned

Run(n) ==
  /\ queue[n].status = "processing"
  /\ returned' = returned \cup {n}
  /\ UNCHANGED queue

\* A crash: whether a row was read is known only by its status.
Forget ==
  /\ returned' = {}
  /\ UNCHANGED queue

Complete(n) ==
  /\ queue[n].status = "processing"
  /\ n \in returned
  /\ queue' = [queue EXCEPT ![n].status = "completed"]
  /\ returned' = returned \ {n}

Fail(n) ==
  /\ queue[n].status = "processing"
  /\ queue' = [queue EXCEPT ![n].status = "failed"]
  /\ UNCHANGED returned

Next ==
  \/ Enqueue
  \/ Forget
  \/ \E n \in DOMAIN queue : Take(n) \/ Run(n) \/ Complete(n) \/ Fail(n)

Spec == Init /\ [][Next]_queueVars
=============================================================================
