----------------------------- MODULE JobQueue -----------------------------
(***************************************************************************)
(* The image-job queue of the Canvas backend: the rows of canvas_jobs, the *)
(* API calls that create and cancel a job, and the worker processes that   *)
(* claim, dispatch and settle jobs                                         *)
(* (backend/internal/job/job.go, backend/cmd/canvas-worker/main.go).       *)
(*                                                                         *)
(* One action is one database transaction, one upstream call or one stored *)
(* asset of the code; a worker may lose its lease, its database connection *)
(* or its life between any two of them.                                    *)
(***************************************************************************)
EXTENDS Naturals, FiniteSets

CONSTANTS
  Jobs,        \* the jobs that may be submitted
  Workers,     \* worker ids; a restarted process draws an id never used before
  NoWorker,    \* lease_owner IS NULL
  NoJob,       \* the worker has no job in hand
  MaxOutputs,  \* requested_count of every job
  MaxFaults    \* bound on crashes, lost database calls and stalled workers

ASSUME JobsAssumption == NoJob \notin Jobs
ASSUME WorkersAssumption == NoWorker \notin Workers
ASSUME OutputsAssumption == MaxOutputs \in Nat \ {0}
ASSUME FaultsAssumption == MaxFaults \in Nat

VARIABLES
  job,       \* [Jobs -> Row], the table canvas_jobs
  results,   \* [Jobs -> set of assets], the table canvas_job_results
  assets,    \* generated assets stored so far (canvas_assets and objects)
  worker,    \* [Workers -> Process]
  sends,     \* [Jobs -> Nat], calls of the upstream image endpoint (history)
  answered,  \* jobs whose upstream call was answered with success (history)
  faults     \* faults so far, at most MaxFaults

vars == <<job, results, assets, worker, sends, answered, faults>>

Terminal == {"completed", "failed", "canceled", "indeterminate"}
Status == {"absent", "queued", "running"} \cup Terminal
Phase == {"preflight", "validating", "upstream", "saving"}

(* error_code; the codes of failures that end alike share one name.        *)
Code == {"none", "preparation_failed", "canceled_before_dispatch",
         "lease_lost_after_dispatch", "upstream_error",
         "official_outcome_unknown", "invalid_official_result",
         "result_storage_failed"}

Asset == [job : Jobs, worker : Workers, index : 1..MaxOutputs]

(* A row of canvas_jobs.  "lease" stands for lease_expires_at compared     *)
(* with NOW(); "started" and "cancel" for upstream_started_at and          *)
(* cancel_requested_at being set.                                          *)
Row == [status : Status, phase : Phase,
        owner : Workers \cup {NoWorker}, lease : {"none", "live", "expired"},
        started : BOOLEAN, cancel : BOOLEAN,
        code : Code, count : 0..MaxOutputs]

(* Where Processor.RunOnce stands.  "failing" is about to call Fail with   *)
(* the status and code in "verdict"; "outputs" is the number of images the *)
(* answer holds (0: unusable) and "stored" how many are assets already.    *)
PC == {"unborn", "idle", "preparing", "dispatching", "waiting",
       "answered", "storing", "failing", "dead"}
Verdict == [status : {"failed", "indeterminate", "canceled"}, code : Code]
Process == [pc : PC, job : Jobs \cup {NoJob}, verdict : Verdict,
            outputs : 0..MaxOutputs, stored : 0..MaxOutputs]

NoVerdict == [status |-> "failed", code |-> "none"]

EmptyRow ==
  [status |-> "absent", phase |-> "preflight", owner |-> NoWorker,
   lease |-> "none", started |-> FALSE, cancel |-> FALSE,
   code |-> "none", count |-> 0]

At(pc) ==
  [pc |-> pc, job |-> NoJob, verdict |-> NoVerdict, outputs |-> 0, stored |-> 0]

Init ==
  /\ job = [j \in Jobs |-> EmptyRow]
  /\ results = [j \in Jobs |-> {}]
  /\ assets = {}
  /\ worker = [w \in Workers |-> At("unborn")]
  /\ sends = [j \in Jobs |-> 0]
  /\ answered = {}
  /\ faults = 0

Alive(w) == worker[w].pc \notin {"unborn", "dead"}

(* UNCHANGED for the actions that touch only rows or only processes.       *)
OnlyRows == UNCHANGED <<results, assets, worker, sends, answered, faults>>

Fault == faults < MaxFaults /\ faults' = faults + 1
NoFault == UNCHANGED faults
-----------------------------------------------------------------------------
(* The API side: Service.Create inserts the row, Service.Cancel is one     *)
(* UPDATE.                                                                 *)

Submit(j) ==
  /\ job[j].status = "absent"
  /\ job' = [job EXCEPT ![j].status = "queued"]
  /\ OnlyRows

(* Faulty variant: a running job is canceled outright as well.             *)
CanceledRowEvenRunning(r) == [r EXCEPT !.status = "canceled", !.cancel = TRUE]

CanceledRow(r) ==
  [r EXCEPT !.status = IF r.status = "queued" THEN "canceled" ELSE r.status,
            !.cancel = TRUE]

Cancel(j) ==
  /\ job[j].status \in {"queued", "running"}
  /\ job' = [job EXCEPT ![j] = CanceledRow(@)]
  /\ OnlyRows
-----------------------------------------------------------------------------
(* Time.  The lease of a dead worker runs out by itself; a live worker     *)
(* outlives the fifteen minutes only by being stalled, which is a fault.   *)

LeaseExpires(j) ==
  /\ job[j].status = "running" /\ job[j].lease = "live"
  /\ IF Alive(job[j].owner) THEN Fault ELSE NoFault
  /\ job' = [job EXCEPT ![j].lease = "expired"]
  /\ UNCHANGED <<results, assets, worker, sends, answered>>
-----------------------------------------------------------------------------
(* The worker process.                                                     *)

Idle(w) == worker' = [worker EXCEPT ![w] = At("idle")]

(* The process ends: Processor.Run returns the error of RunOnce, or it is  *)
(* killed.                                                                 *)
Exit(w) == worker' = [worker EXCEPT ![w] = At("dead")]

StartWorker(w) ==
  /\ worker[w].pc = "unborn"
  /\ Idle(w)
  /\ UNCHANGED <<job, results, assets, sends, answered, faults>>

(* The process is killed, or SIGTERM ends it: main does not wait for the   *)
(* processor, so it can stop anywhere.                                     *)
Crash(w) ==
  /\ Alive(w) /\ Fault
  /\ Exit(w)
  /\ UNCHANGED <<job, results, assets, sends, answered>>

Released(r, status) ==
  [r EXCEPT !.status = status, !.owner = NoWorker, !.lease = "none"]

(* Faulty variant: an expired job is queued again even after dispatch.     *)
SweptRowRequeuesDispatched(r) ==
  IF r.status # "running" \/ r.lease # "expired" THEN r
  ELSE IF r.cancel THEN Released(r, "canceled")
  ELSE [Released(r, "queued") EXCEPT !.phase = "preflight"]

(* Faulty variant: the lease clause is missing, any running job is swept.  *)
SweptRowIgnoresLease(r) ==
  IF r.status # "running" THEN r
  ELSE IF r.started
       THEN [Released(r, "indeterminate") EXCEPT
               !.code = "lease_lost_after_dispatch"]
  ELSE IF r.cancel THEN Released(r, "canceled")
  ELSE [Released(r, "queued") EXCEPT !.phase = "preflight"]

(* Faulty variant: nothing recovers a job lost before dispatch.            *)
SweptRowLeavesUndispatched(r) ==
  IF r.status = "running" /\ r.lease = "expired" /\ r.started
  THEN [Released(r, "indeterminate") EXCEPT
          !.code = "lease_lost_after_dispatch"]
  ELSE r

(* The three UPDATEs a claim starts with, for one row.                     *)
SweptRow(r) ==
  IF r.status # "running" \/ r.lease # "expired" THEN r
  ELSE IF r.started
       THEN [Released(r, "indeterminate") EXCEPT
               !.code = "lease_lost_after_dispatch"]
  ELSE IF r.cancel THEN Released(r, "canceled")
  ELSE [Released(r, "queued") EXCEPT !.phase = "preflight"]

Sweep == [j \in Jobs |-> SweptRow(job[j])]

Claimable(r) == r.status = "queued" /\ ~r.cancel

ClaimedRow(r, w) ==
  [r EXCEPT !.status = "running", !.phase = "validating",
            !.owner = w, !.lease = "live"]

(* A claim takes the oldest queued row that no other transaction has       *)
(* locked; since any of them may be locked, it may take any of them.       *)
ClaimJob(w, j) ==
  /\ worker[w].pc = "idle"
  /\ Claimable(Sweep[j])
  /\ job' = [Sweep EXCEPT ![j] = ClaimedRow(@, w)]
  /\ worker' = [worker EXCEPT ![w] = [At("preparing") EXCEPT !.job = j]]
  /\ UNCHANGED <<results, assets, sends, answered, faults>>

(* Nothing to claim, or all of it locked: what was swept is committed.     *)
ClaimNone(w) ==
  /\ worker[w].pc = "idle"
  /\ job' = Sweep
  /\ OnlyRows

Goto(w, pc) == worker' = [worker EXCEPT ![w].pc = pc]

ToReport(p, status, code) ==
  [p EXCEPT !.pc = "failing", !.verdict = [status |-> status, code |-> code]]

Failing(w, status, code) ==
  worker' = [worker EXCEPT ![w] = ToReport(@, status, code)]

(* The credential, its decryption or the request body is not to be had.    *)
PrepareFails(w) ==
  /\ worker[w].pc = "preparing"
  /\ Failing(w, "failed", "preparation_failed")
  /\ UNCHANGED <<job, results, assets, sends, answered, faults>>

Holds(w, r) == r.status = "running" /\ r.owner = w

Dispatchable(w, r) == Holds(w, r) /\ ~r.cancel

DispatchedRow(r) ==
  [r EXCEPT !.phase = "upstream", !.started = TRUE, !.lease = "live"]

(* BeginUpstream commits the job to its call.  A refused UPDATE is read as *)
(* a cancellation, whether it was one or the lease went to somebody else.  *)
BeginUpstream(w) ==
  LET j == worker[w].job IN
  /\ worker[w].pc = "preparing"
  /\ \/ /\ Dispatchable(w, job[j])
        /\ job' = [job EXCEPT ![j] = DispatchedRow(@)]
        /\ Goto(w, "dispatching")
     \/ /\ ~Dispatchable(w, job[j])
        /\ Failing(w, "canceled", "canceled_before_dispatch")
        /\ UNCHANGED job
  /\ UNCHANGED <<results, assets, sends, answered, faults>>

(* The database call of BeginUpstream fails, before or after the UPDATE    *)
(* took effect.                                                            *)
BeginUpstreamLost(w) ==
  LET j == worker[w].job IN
  /\ worker[w].pc = "preparing" /\ Fault
  /\ \/ UNCHANGED job
     \/ /\ Dispatchable(w, job[j])
        /\ job' = [job EXCEPT ![j] = DispatchedRow(@)]
  /\ Failing(w, "failed", "canceled_before_dispatch")
  /\ UNCHANGED <<results, assets, sends, answered>>

(* DoImageRequest puts the request on the wire ...                         *)
SendRequest(w) ==
  /\ worker[w].pc = "dispatching"
  /\ sends' = [sends EXCEPT ![worker[w].job] = @ + 1]
  /\ Goto(w, "waiting")
  /\ UNCHANGED <<job, results, assets, answered, faults>>

(* ... or refuses it before that: a malformed key or endpoint, a canceled  *)
(* context, a failed dial.                                                 *)
SendFails(w) ==
  /\ worker[w].pc = "dispatching"
  /\ \/ Failing(w, "failed", "upstream_error")
     \/ Failing(w, "indeterminate", "official_outcome_unknown")
  /\ UNCHANGED <<job, results, assets, sends, answered, faults>>

(* A success with some number of images, usable or not.                    *)
Answered(w) ==
  /\ worker[w].pc = "waiting"
  /\ \E n \in 0..MaxOutputs :
       worker' = [worker EXCEPT ![w] = [@ EXCEPT !.pc = "answered", !.outputs = n]]
  /\ answered' = answered \cup {worker[w].job}
  /\ UNCHANGED <<job, results, assets, sends, faults>>

(* An error status, or no readable answer within ten minutes.              *)
Refused(w) ==
  /\ worker[w].pc = "waiting"
  /\ \/ Failing(w, "failed", "upstream_error")
     \/ Failing(w, "indeterminate", "official_outcome_unknown")
  /\ UNCHANGED <<job, results, assets, sends, answered, faults>>

SavingRow(r) == [r EXCEPT !.phase = "saving", !.lease = "live"]

(* MarkSaving renews the lease, or finds the job no longer this worker's:  *)
(* RunOnce then returns the error and the process exits.                   *)
MarkSaving(w) ==
  LET j == worker[w].job IN
  /\ worker[w].pc = "answered"
  /\ \/ /\ Holds(w, job[j])
        /\ job' = [job EXCEPT ![j] = SavingRow(@)]
        /\ Goto(w, "storing")
     \/ /\ ~Holds(w, job[j])
        /\ Exit(w)
        /\ UNCHANGED job
  /\ UNCHANGED <<results, assets, sends, answered, faults>>

(* Faulty variant: an unusable answer is reported as a plain failure.      *)
ParseFailsAsFailure(w) ==
  /\ worker[w].pc = "storing" /\ worker[w].outputs = 0
  /\ Failing(w, "failed", "invalid_official_result")
  /\ UNCHANGED <<job, results, assets, sends, answered, faults>>

(* parseOutputs rejects the answer: no image, too many, or a broken one.   *)
ParseFails(w) ==
  /\ worker[w].pc = "storing" /\ worker[w].outputs = 0
  /\ Failing(w, "indeterminate", "invalid_official_result")
  /\ UNCHANGED <<job, results, assets, sends, answered, faults>>

NextAsset(w) ==
  [job |-> worker[w].job, worker |-> w, index |-> worker[w].stored + 1]

StoreAsset(w) ==
  /\ worker[w].pc = "storing" /\ worker[w].stored < worker[w].outputs
  /\ assets' = assets \cup {NextAsset(w)}
  /\ worker' = [worker EXCEPT ![w].stored = @ + 1]
  /\ UNCHANGED <<job, results, sends, answered, faults>>

(* The object store or the database refuses the asset, or the project was  *)
(* deleted meanwhile.  The assets stored before it stay.                   *)
StoreFails(w) ==
  /\ worker[w].pc = "storing" /\ worker[w].stored < worker[w].outputs
  /\ Failing(w, "indeterminate", "result_storage_failed")
  /\ UNCHANGED <<job, results, assets, sends, answered, faults>>

CreatedBy(w) ==
  {a \in assets : a.job = worker[w].job /\ a.worker = w}

CompletedRow(r, n) ==
  [Released(r, "completed") EXCEPT !.phase = "saving", !.count = n]

(* Faulty variant: the results are inserted in a transaction of their own, *)
(* so that they stay when the job turns out to belong to somebody else.    *)
CompleteInTwoTransactions(w) ==
  LET j == worker[w].job IN
  /\ worker[w].pc = "storing" /\ worker[w].outputs > 0
  /\ worker[w].stored = worker[w].outputs
  /\ results' = [results EXCEPT ![j] = CreatedBy(w)]
  /\ \/ /\ Holds(w, job[j])
        /\ job' = [job EXCEPT ![j] = CompletedRow(@, worker[w].stored)]
        /\ Idle(w)
     \/ /\ ~Holds(w, job[j])
        /\ Exit(w)
        /\ UNCHANGED job
  /\ UNCHANGED <<assets, sends, answered, faults>>

(* Faulty variant: the completing UPDATE does not look at lease_owner.     *)
CompleteUnowned(w) ==
  LET j == worker[w].job IN
  /\ worker[w].pc = "storing" /\ worker[w].outputs > 0
  /\ worker[w].stored = worker[w].outputs
  /\ results' = [results EXCEPT ![j] = CreatedBy(w)]
  /\ job' = [job EXCEPT ![j] = CompletedRow(@, worker[w].stored)]
  /\ Idle(w)
  /\ UNCHANGED <<assets, sends, answered, faults>>

(* Results and row change in one transaction, rolled back when the UPDATE  *)
(* matches no row.                                                         *)
Complete(w) ==
  LET j == worker[w].job IN
  /\ worker[w].pc = "storing" /\ worker[w].outputs > 0
  /\ worker[w].stored = worker[w].outputs
  /\ \/ /\ Holds(w, job[j])
        /\ results' = [results EXCEPT ![j] = CreatedBy(w)]
        /\ job' = [job EXCEPT ![j] = CompletedRow(@, worker[w].stored)]
        /\ Idle(w)
     \/ /\ ~Holds(w, job[j])
        /\ Exit(w)
        /\ UNCHANGED <<job, results>>
  /\ UNCHANGED <<assets, sends, answered, faults>>

FailedRow(r, v) == [Released(r, v.status) EXCEPT !.code = v.code]

(* Service.Fail.                                                           *)
Report(w) ==
  LET j == worker[w].job IN
  /\ worker[w].pc = "failing"
  /\ \/ /\ Holds(w, job[j])
        /\ job' = [job EXCEPT ![j] = FailedRow(@, worker[w].verdict)]
        /\ Idle(w)
     \/ /\ ~Holds(w, job[j])
        /\ Exit(w)
        /\ UNCHANGED job
  /\ UNCHANGED <<results, assets, sends, answered, faults>>
-----------------------------------------------------------------------------
(* One step of the processor of worker w.  A database call that fails in   *)
(* Claim, MarkSaving, Complete or Fail ends the process, so it is a Crash  *)
(* right before or right after the transaction.                            *)
WorkerStep(w) ==
  \/ \E j \in Jobs : ClaimJob(w, j)
  \/ ClaimNone(w) \/ PrepareFails(w)
  \/ BeginUpstream(w) \/ BeginUpstreamLost(w)
  \/ SendRequest(w) \/ SendFails(w) \/ Answered(w) \/ Refused(w)
  \/ MarkSaving(w) \/ ParseFails(w) \/ StoreAsset(w) \/ StoreFails(w)
  \/ Complete(w) \/ Report(w)

Next ==
  \/ \E j \in Jobs : Submit(j) \/ Cancel(j) \/ LeaseExpires(j)
  \/ \E w \in Workers : StartWorker(w) \/ Crash(w) \/ WorkerStep(w)

Spec == Init /\ [][Next]_vars

(* The worker loop runs on, the container runtime starts a new process for *)
(* one that ended, and the lease of a dead worker runs out.  Users owe     *)
(* nothing.                                                                *)
Fairness ==
  /\ \A w \in Workers : WF_vars(WorkerStep(w))
  /\ \A w \in Workers : WF_vars(StartWorker(w))
  /\ \A j \in Jobs : WF_vars(LeaseExpires(j) /\ NoFault)

FairSpec == Spec /\ Fairness
-----------------------------------------------------------------------------
(* Properties.                                                             *)

TypeOK ==
  /\ job \in [Jobs -> Row]
  /\ results \in [Jobs -> SUBSET Asset]
  /\ assets \subseteq Asset
  /\ worker \in [Workers -> Process]
  /\ sends \in [Jobs -> Nat]
  /\ answered \subseteq Jobs
  /\ faults \in 0..MaxFaults

(* The upstream image endpoint is called at most once for a job, however   *)
(* often workers die, stall or take the job over (the claim's first UPDATE *)
(* and BeginUpstream's guard).                                             *)
AtMostOneSend == \A j \in Jobs : sends[j] <= 1

(* Past BeginUpstream: the process holds, or held, the right to call.      *)
PastDispatch(w, j) ==
  worker[w].job = j /\ worker[w].pc \in {"dispatching", "waiting", "answered", "storing"}

(* Never do two processes carry the same job past BeginUpstream, although  *)
(* a stalled worker and its successor may both be preparing it.            *)
OneDispatcher ==
  \A j \in Jobs : \A v, w \in Workers :
    PastDispatch(v, j) /\ PastDispatch(w, j) => v = w

(* A queued row can always be claimed, a running one always has an owner   *)
(* whose lease some claim will see expire, and a settled one is held by    *)
(* nobody: no row is stuck outside the reach of the claim's WHERE clauses. *)
NoStrandedRow ==
  \A j \in Jobs :
    /\ job[j].status = "queued" => Claimable(job[j]) /\ ~job[j].started
    /\ job[j].status = "running" <=> job[j].owner # NoWorker
    /\ job[j].status = "running" <=> job[j].lease # "none"

(* "canceled" tells the user that nothing was spent: no upstream call was  *)
(* or will be made for the job (Cancel, BeginUpstream, the third UPDATE).  *)
CanceledWasNeverSent ==
  \A j \in Jobs :
    job[j].status = "canceled" =>
      /\ job[j].cancel /\ ~job[j].started /\ sends[j] = 0
      /\ \A w \in Workers : ~PastDispatch(w, j)

(* Once the upstream answered with success the job ends completed or       *)
(* indeterminate: it is never queued again, failed or canceled.            *)
AnswerIsNotForgotten ==
  \A j \in answered :
    job[j].status \in {"running", "completed", "indeterminate"}

(* A completed job shows exactly the images stored for it, in the number   *)
(* it reports, and a job that is not completed shows none.                 *)
ResultsMatchAssets ==
  \A j \in Jobs :
    IF job[j].status = "completed"
    THEN /\ results[j] = {a \in assets : a.job = j}
         /\ Cardinality(results[j]) = job[j].count
         /\ job[j].count > 0
    ELSE results[j] = {}

(* What a user has been told of a settled job never changes, nor do its    *)
(* results.                                                                *)
SettledIsFinal ==
  [][\A j \in Jobs :
       job[j].status \in Terminal =>
         job'[j] = job[j] /\ results'[j] = results[j]]_vars

(* A cancellation acknowledged before BeginUpstream stops the upstream     *)
(* call for good, also when the job later changes hands.                   *)
EarlyCancelPreventsSend ==
  [][\A j \in Jobs :
       job[j].cancel /\ ~job[j].started =>
         ~job'[j].started /\ sends'[j] = sends[j]]_vars

(* Only the worker that holds the lease, or a claim that finds the lease   *)
(* expired, or the cancellation of a queued job decides how a job ends.    *)
OutcomeComesFromHolder ==
  [][\A j \in Jobs :
       job[j].status \notin Terminal /\ job'[j].status \in Terminal =>
         \/ job[j].status = "queued"
         \/ job[j].lease = "expired"
         \/ \E w \in Workers :
              /\ job[j].owner = w /\ worker[w].job = j
              /\ worker[w].pc \in {"failing", "storing"}
              /\ worker'[w].pc = "idle"]_vars

(* Every submitted job is settled in the end: no crash, stall or lost      *)
(* answer leaves it queued or running for ever.                            *)
EveryJobSettles ==
  \A j \in Jobs : job[j].status = "queued" ~> job[j].status \in Terminal

(* The service keeps the promise of JobLifecycle: a job is committed when  *)
(* upstream_started_at is set.                                             *)
Lifecycle == INSTANCE JobLifecycle WITH
  status <- [j \in Jobs |-> job[j].status],
  cancelAsked <- {j \in Jobs : job[j].cancel},
  committed <- {j \in Jobs : job[j].started}

KeepsLifecycle == Lifecycle!Spec

(* What a page is shown of a job (canvas-job-controller's terminal, and    *)
(* what it makes of the outcomes).                                         *)
TaskState(status) ==
  CASE status = "absent" -> "none"
    [] status \in {"queued", "running"} -> "open"
    [] status \in {"failed", "indeterminate"} -> "failed"
    [] OTHER -> status

(* The service does with a job what the pages that follow it take it to    *)
(* do: the promise of TaskView, which CanvasGeneration relies on.          *)
Served == INSTANCE TaskView WITH
  Tasks <- Jobs,
  state <- [j \in Jobs |-> TaskState(job[j].status)],
  asked <- {j \in Jobs : job[j].cancel}

ServesTasks == Served!Spec
=============================================================================
