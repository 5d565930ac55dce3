--------------------------- MODULE JobLifecycle ---------------------------
(***************************************************************************)
(* What the image-job service promises about one job, with no worker, no   *)
(* lease and no clock in sight.  A job is submitted once, may be canceled, *)
(* is committed to an upstream call at most once, has that call sent at    *)
(* most once, and reaches one final status that never changes.             *)
(*                                                                         *)
(* Several jobs may move in the same step: one claim transaction of a      *)
(* worker settles every job whose lease has run out.                       *)
(***************************************************************************)
EXTENDS Naturals

CONSTANT Jobs

VARIABLES
  status,       \* [Jobs -> Statuses], the status the owner of the job reads
  cancelAsked,  \* the jobs whose cancellation the service has acknowledged
  committed,    \* the jobs committed to their upstream call
  sends         \* [Jobs -> Nat], upstream image requests made for the job

lifecycleVars == <<status, cancelAsked, committed, sends>>

Final == {"completed", "failed", "canceled", "indeterminate"}
Statuses == {"absent", "queued", "running"} \cup Final

Init ==
  /\ status = [j \in Jobs |-> "absent"]
  /\ cancelAsked = {}
  /\ committed = {}
  /\ sends = [j \in Jobs |-> 0]

(* The parts of job j other than its status keep their value.              *)
SameRest(j) ==
  /\ (j \in cancelAsked') <=> (j \in cancelAsked)
  /\ (j \in committed') <=> (j \in committed)
  /\ sends'[j] = sends[j]

Submit(j) ==
  /\ status[j] = "absent" /\ status'[j] = "queued"
  /\ SameRest(j)

Start(j) ==
  /\ status[j] = "queued" /\ status'[j] = "running"
  /\ SameRest(j)

(* A run abandoned before it was committed is taken up again.              *)
Retry(j) ==
  /\ status[j] = "running" /\ j \notin committed /\ j \notin cancelAsked
  /\ status'[j] = "queued"
  /\ SameRest(j)

(* A queued job is canceled at once; a running one is only asked to stop.  *)
Cancel(j) ==
  /\ status[j] \in {"queued", "running"}
  /\ status'[j] = IF status[j] = "queued" THEN "canceled" ELSE "running"
  /\ j \in cancelAsked'
  /\ (j \in committed') <=> (j \in committed)
  /\ sends'[j] = sends[j]

(* The point of no return: after it the job is never queued again, before  *)
(* it nothing has been sent.                                               *)
Commit(j) ==
  /\ status[j] = "running" /\ j \notin committed /\ j \notin cancelAsked
  /\ status'[j] = "running"
  /\ j \in committed' /\ j \notin cancelAsked'
  /\ sends'[j] = sends[j]

(* The one upstream request.  A worker that outlived its lease may send it *)
(* after the job was declared indeterminate, never after any other end.    *)
Send(j) ==
  /\ j \in committed /\ sends[j] = 0
  /\ status[j] \in {"running", "indeterminate"}
  /\ status'[j] = status[j]
  /\ (j \in cancelAsked') <=> (j \in cancelAsked)
  /\ j \in committed' /\ sends'[j] = 1

(* "canceled" means that nothing was ever sent, "indeterminate" that       *)
(* something may have been, "completed" that the upstream was called.      *)
Finish(j) ==
  /\ status[j] = "running" /\ status'[j] \in Final
  /\ status'[j] = "canceled" => j \in cancelAsked /\ j \notin committed
  /\ status'[j] = "indeterminate" => j \in committed
  /\ status'[j] = "completed" => sends[j] = 1
  /\ SameRest(j)

JobStep(j) ==
  \/ Submit(j) \/ Start(j) \/ Retry(j) \/ Cancel(j)
  \/ Commit(j) \/ Send(j) \/ Finish(j)

Same(j) == status'[j] = status[j] /\ SameRest(j)

Next == \A j \in Jobs : JobStep(j) \/ Same(j)

Spec == Init /\ [][Next]_lifecycleVars
=============================================================================
