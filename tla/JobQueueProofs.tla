-------------------------- MODULE JobQueueProofs --------------------------
(***************************************************************************)
(* Proofs about JobQueue, for any set of jobs and worker ids, any number   *)
(* of outputs and any number of faults.                                    *)
(***************************************************************************)
EXTENDS JobQueue, FiniteSetTheorems, TLAPS

Busy == {"preparing", "dispatching", "waiting", "answered", "storing", "failing"}

(* A busy process has a job in hand.                                       *)
HandInv == \A w \in Workers : worker[w].pc \in Busy => worker[w].job \in Jobs
-----------------------------------------------------------------------------
(* What the operators on rows and processes yield.                         *)

LEMMA ReleasedType ==
  ASSUME NEW r \in Row, NEW s \in Status
  PROVE  Released(r, s) \in Row
BY DEF Released, Row

LEMMA CodeType ==
  ASSUME NEW r \in Row, NEW c \in Code
  PROVE  [r EXCEPT !.code = c] \in Row
BY DEF Row

LEMMA SweptRowType ==
  ASSUME NEW r \in Row
  PROVE  SweptRow(r) \in Row
<1>1. {"indeterminate", "canceled", "queued"} \subseteq Status
  BY DEF Status, Terminal
<1>2. "lease_lost_after_dispatch" \in Code
  BY DEF Code
<1>3. \A q \in Row : [q EXCEPT !.phase = "preflight"] \in Row
  BY DEF Row, Phase
<1> QED
  BY <1>1, <1>2, <1>3, ReleasedType, CodeType DEF SweptRow

LEMMA ClaimedRowType ==
  ASSUME NEW r \in Row, NEW w \in Workers
  PROVE  ClaimedRow(r, w) \in Row
<1>1. "running" \in Status /\ "validating" \in Phase
  BY DEF Status, Phase
<1> QED
  BY <1>1 DEF ClaimedRow, Row

LEMMA CanceledRowType ==
  ASSUME NEW r \in Row
  PROVE  CanceledRow(r) \in Row
<1>1. "canceled" \in Status
  BY DEF Status, Terminal
<1> QED
  BY <1>1 DEF CanceledRow, Row

LEMMA DispatchedRowType ==
  ASSUME NEW r \in Row
  PROVE  DispatchedRow(r) \in Row /\ SavingRow(r) \in Row
<1>1. "upstream" \in Phase /\ "saving" \in Phase
  BY DEF Phase
<1> QED
  BY <1>1 DEF DispatchedRow, SavingRow, Row

LEMMA CompletedRowType ==
  ASSUME NEW r \in Row, NEW n \in 0..MaxOutputs
  PROVE  CompletedRow(r, n) \in Row
<1>1. "completed" \in Status /\ "saving" \in Phase
  BY DEF Status, Terminal, Phase
<1>2. Released(r, "completed") \in Row
  BY <1>1, ReleasedType
<1> QED
  BY <1>1, <1>2 DEF CompletedRow, Row

LEMMA FailedRowType ==
  ASSUME NEW r \in Row, NEW v \in Verdict
  PROVE  FailedRow(r, v) \in Row
<1>1. v.status \in Status /\ v.code \in Code
  BY DEF Verdict, Status, Terminal
<1> QED
  BY <1>1, ReleasedType, CodeType DEF FailedRow

LEMMA AtType ==
  ASSUME NEW pc \in PC
  PROVE  /\ At(pc) \in Process
         /\ At(pc).pc = pc
         /\ \A j \in Jobs : /\ [At(pc) EXCEPT !.job = j] \in Process
                            /\ [At(pc) EXCEPT !.job = j].pc = pc
                            /\ [At(pc) EXCEPT !.job = j].job = j
<1>1. NoVerdict \in Verdict
  BY DEF NoVerdict, Verdict, Code
<1> QED
  BY <1>1, OutputsAssumption DEF At, Process

LEMMA ToReportType ==
  ASSUME NEW p \in Process,
         NEW s \in {"failed", "indeterminate", "canceled"}, NEW c \in Code
  PROVE  /\ ToReport(p, s, c) \in Process
         /\ ToReport(p, s, c).pc = "failing"
         /\ ToReport(p, s, c).job = p.job
         /\ ToReport(p, s, c).verdict.status = s
<1>1. [status |-> s, code |-> c] \in Verdict /\ "failing" \in PC
  BY DEF Verdict, PC
<1> QED
  BY <1>1 DEF ToReport, Process
-----------------------------------------------------------------------------
LEMMA InitType == Init => TypeOK /\ HandInv
<1> SUFFICES ASSUME Init PROVE TypeOK /\ HandInv
  OBVIOUS
<1>1. EmptyRow \in Row
  BY OutputsAssumption DEF EmptyRow, Row, Status, Phase, Code
<1>2. At("unborn") \in Process /\ At("unborn").pc \notin Busy
  BY AtType DEF PC, Busy
<1> QED
  BY <1>1, <1>2, FaultsAssumption DEF Init, TypeOK, HandInv

(* The ways a process moves on, and that each leaves every process typed   *)
(* and with a job in hand when it is busy.                                 *)
Processes == worker \in [Workers -> Process] /\ HandInv

LEMMA GotoProcesses ==
  ASSUME Processes, NEW w \in Workers, worker[w].pc \in Busy,
         NEW pc \in Busy, Goto(w, pc)
  PROVE  Processes'
<1>1. pc \in PC /\ worker[w] \in Process
  BY DEF Busy, PC, Processes
<1>2. [worker[w] EXCEPT !.pc = pc] \in Process
  BY <1>1 DEF Process
<1>3. [worker[w] EXCEPT !.pc = pc].job = worker[w].job
  BY <1>1 DEF Process
<1> QED
  BY <1>2, <1>3 DEF Goto, Processes, HandInv

LEMMA FailingProcesses ==
  ASSUME Processes, NEW w \in Workers, worker[w].pc \in Busy,
         NEW s \in {"failed", "indeterminate", "canceled"}, NEW c \in Code,
         Failing(w, s, c)
  PROVE  Processes'
<1>1. worker[w] \in Process /\ worker[w].job \in Jobs
  BY DEF Processes, HandInv
<1>2. /\ ToReport(worker[w], s, c) \in Process
      /\ ToReport(worker[w], s, c).job = worker[w].job
  BY <1>1, ToReportType
<1> DEFINE q == ToReport(worker[w], s, c)
<1>q. q \in Process /\ q.job \in Jobs
  BY <1>1, <1>2
<1>3. worker' = [worker EXCEPT ![w] = q]
  BY DEF Failing
<1> HIDE DEF q
<1>4. worker' \in [Workers -> Process]
  BY <1>q, <1>3 DEF Processes
<1>5. \A v \in Workers : worker'[v] = IF v = w THEN q ELSE worker[v]
  BY <1>3 DEF Processes
<1> QED
  BY <1>q, <1>4, <1>5 DEF Processes, HandInv

LEMMA LeaveProcesses ==
  ASSUME Processes, NEW w \in Workers,
         Idle(w) \/ Exit(w)
  PROVE  Processes'
<1>1. /\ At("idle") \in Process /\ At("idle").pc \notin Busy
      /\ At("dead") \in Process /\ At("dead").pc \notin Busy
  BY AtType DEF PC, Busy
<1> QED
  BY <1>1 DEF Idle, Exit, Processes, HandInv

LEMMA ClaimProcesses ==
  ASSUME Processes, NEW w \in Workers, NEW j \in Jobs,
         worker' = [worker EXCEPT ![w] = [At("preparing") EXCEPT !.job = j]]
  PROVE  Processes'
<1>1. "preparing" \in PC
  BY DEF PC
<1> QED
  BY <1>1, AtType DEF Processes, HandInv

LEMMA NextCount ==
  \A a, b \in 0..MaxOutputs : a < b => a + 1 \in 0..MaxOutputs
BY OutputsAssumption

LEMMA CountProcesses ==
  ASSUME Processes, NEW w \in Workers, worker[w].pc \in Busy,
         \/ /\ worker[w].stored < worker[w].outputs
            /\ worker' = [worker EXCEPT ![w].stored = @ + 1]
         \/ \E n \in 0..MaxOutputs :
              worker' = [worker EXCEPT
                ![w] = [@ EXCEPT !.pc = "answered", !.outputs = n]]
  PROVE  Processes'
<1> DEFINE p == worker[w]
<1>1. p \in Process /\ p.job \in Jobs
  BY DEF Processes, HandInv
<1>2. CASE p.stored < p.outputs /\ worker' = [worker EXCEPT ![w].stored = @ + 1]
  <2> DEFINE q == [p EXCEPT !.stored = p.stored + 1]
  <2>0. p.stored \in 0..MaxOutputs /\ p.outputs \in 0..MaxOutputs
    BY <1>1 DEF Process
  <2>b. p.stored < p.outputs
    BY <1>2
  <2>1. p.stored + 1 \in 0..MaxOutputs
    BY <2>0, <2>b, NextCount
  <2>2. q \in Process /\ q.job = p.job
    BY <1>1, <2>1 DEF Process
  <2>3. worker' = [worker EXCEPT ![w] = q]
    BY <1>2
  <2> QED
    BY <1>1, <2>2, <2>3 DEF Processes, HandInv
<1>3. ASSUME NEW n \in 0..MaxOutputs,
             worker' = [worker EXCEPT
                ![w] = [@ EXCEPT !.pc = "answered", !.outputs = n]]
      PROVE  Processes'
  <2> DEFINE q == [p EXCEPT !.pc = "answered", !.outputs = n]
  <2>1. q \in Process /\ q.job = p.job
    BY <1>1 DEF Process, PC
  <2>2. worker' = [worker EXCEPT ![w] = q]
    BY <1>3
  <2> QED
    BY <1>1, <2>1, <2>2 DEF Processes, HandInv
<1> QED
  BY <1>2, <1>3

LEMMA NextType == TypeOK /\ HandInv /\ [Next]_vars => TypeOK' /\ HandInv'
<1> SUFFICES ASSUME TypeOK, HandInv, [Next]_vars
             PROVE  TypeOK' /\ HandInv'
  OBVIOUS
<1>a. /\ \A j \in Jobs : job[j] \in Row
      /\ \A w \in Workers : worker[w] \in Process
      /\ Processes
  BY DEF TypeOK, Processes
<1> USE <1>a, OutputsAssumption, FaultsAssumption DEF TypeOK
<1>1. ASSUME NEW j \in Jobs, Submit(j)
      PROVE  TypeOK' /\ HandInv'
  <2>1. "queued" \in Status
    BY DEF Status
  <2>2. [job[j] EXCEPT !.status = "queued"] \in Row
    BY <2>1 DEF Row
  <2> QED
    BY <1>1, <2>2 DEF Submit, OnlyRows, HandInv
<1>2. ASSUME NEW j \in Jobs, Cancel(j)
      PROVE  TypeOK' /\ HandInv'
  BY <1>2, CanceledRowType DEF Cancel, OnlyRows, HandInv
<1>3. ASSUME NEW j \in Jobs, LeaseExpires(j)
      PROVE  TypeOK' /\ HandInv'
  <2>1. [job[j] EXCEPT !.lease = "expired"] \in Row
    BY DEF Row
  <2> QED
    BY <1>3, <2>1 DEF LeaseExpires, Fault, NoFault, HandInv
<1>4. ASSUME NEW w \in Workers, StartWorker(w)
      PROVE  TypeOK' /\ HandInv'
  BY <1>4, LeaveProcesses DEF StartWorker, Processes
<1>5. ASSUME NEW w \in Workers, Crash(w)
      PROVE  TypeOK' /\ HandInv'
  <2>1. Processes'
    BY <1>5, LeaveProcesses DEF Crash
  <2>2. faults' \in 0..MaxFaults
    BY <1>5 DEF Crash, Fault
  <2> QED
    BY <1>5, <2>1, <2>2 DEF Crash, Processes
<1>6. ASSUME NEW w \in Workers, WorkerStep(w)
      PROVE  TypeOK' /\ HandInv'
  <2>p. {"preparing", "dispatching", "waiting", "answered", "storing", "failing"} \subseteq Busy
    BY DEF Busy
  <2>c. {"preparation_failed", "canceled_before_dispatch", "upstream_error",
         "official_outcome_unknown", "invalid_official_result",
         "result_storage_failed"} \subseteq Code
    BY DEF Code
  <2>1. Sweep \in [Jobs -> Row]
    BY SweptRowType DEF Sweep
  <2>2. ASSUME NEW j \in Jobs, ClaimJob(w, j) PROVE TypeOK' /\ HandInv'
    <3>1. ClaimedRow(Sweep[j], w) \in Row
      BY <2>1, ClaimedRowType
    <3> QED
      BY <2>1, <2>2, <3>1, ClaimProcesses DEF ClaimJob, Processes
  <2>3. CASE ClaimNone(w)
    BY <2>1, <2>3 DEF ClaimNone, OnlyRows, HandInv
  <2>4. CASE PrepareFails(w)
    BY <2>p, <2>c, <2>4, FailingProcesses DEF PrepareFails, Processes
  <2>5. CASE BeginUpstream(w)
    <3>1. DispatchedRow(job[worker[w].job]) \in Row
      BY <2>5, <2>p, DispatchedRowType DEF BeginUpstream, HandInv
    <3> QED
      BY <2>p, <2>c, <2>5, <3>1, FailingProcesses, GotoProcesses
         DEF BeginUpstream, Processes
  <2>6. CASE BeginUpstreamLost(w)
    <3>1. DispatchedRow(job[worker[w].job]) \in Row
      BY <2>6, <2>p, DispatchedRowType DEF BeginUpstreamLost, HandInv
    <3>2. worker[w].pc \in Busy /\ Processes'
      BY <2>p, <2>c, <2>6, FailingProcesses DEF BeginUpstreamLost
    <3>3. job' \in [Jobs -> Row]
      BY <2>6, <3>1 DEF BeginUpstreamLost
    <3> QED
      BY <2>6, <3>2, <3>3 DEF BeginUpstreamLost, Processes, Fault
  <2>7. CASE SendRequest(w)
    <3>1. worker[w].pc \in Busy /\ Processes'
      BY <2>p, <2>7, GotoProcesses DEF SendRequest
    <3> QED
      BY <2>7, <3>1 DEF SendRequest, Processes, HandInv
  <2>8. CASE SendFails(w)
    BY <2>p, <2>c, <2>8, FailingProcesses DEF SendFails, Processes
  <2>9. CASE Answered(w)
    <3>1. worker[w].pc \in Busy /\ Processes'
      BY <2>p, <2>9, CountProcesses DEF Answered
    <3> QED
      BY <2>9, <3>1 DEF Answered, Processes, HandInv
  <2>10. CASE Refused(w)
    BY <2>p, <2>c, <2>10, FailingProcesses DEF Refused, Processes
  <2>11. CASE MarkSaving(w)
    <3>1. SavingRow(job[worker[w].job]) \in Row
      BY <2>11, <2>p, DispatchedRowType DEF MarkSaving, HandInv
    <3> QED
      BY <2>p, <2>11, <3>1, LeaveProcesses, GotoProcesses DEF MarkSaving, Processes
  <2>12. CASE ParseFails(w)
    BY <2>p, <2>c, <2>12, FailingProcesses DEF ParseFails, Processes
  <2>13. CASE StoreAsset(w)
    <3>1. worker[w].stored + 1 \in 1..MaxOutputs
      BY <2>13 DEF StoreAsset, Process
    <3>2. NextAsset(w) \in Asset
      BY <2>13, <2>p, <3>1 DEF StoreAsset, NextAsset, Asset, HandInv
    <3>3. worker[w].pc \in Busy /\ Processes'
      BY <2>13, <2>p, CountProcesses DEF StoreAsset
    <3> QED
      BY <2>13, <3>2, <3>3 DEF StoreAsset, Processes
  <2>14. CASE StoreFails(w)
    BY <2>p, <2>c, <2>14, FailingProcesses DEF StoreFails, Processes
  <2>15. CASE Complete(w)
    <3>1. worker[w].stored \in 0..MaxOutputs
      BY DEF Process
    <3>2. CompletedRow(job[worker[w].job], worker[w].stored) \in Row
      BY <2>p, <2>15, <3>1, CompletedRowType DEF Complete, HandInv
    <3>3. Processes'
      BY <2>15, LeaveProcesses DEF Complete
    <3>4. CreatedBy(w) \in SUBSET Asset
      BY DEF CreatedBy
    <3> QED
      BY <2>15, <3>2, <3>3, <3>4 DEF Complete, Processes
  <2>16. CASE Report(w)
    <3>1. worker[w].verdict \in Verdict
      BY DEF Process
    <3>2. FailedRow(job[worker[w].job], worker[w].verdict) \in Row
      BY <2>p, <2>16, <3>1, FailedRowType DEF Report, HandInv
    <3>3. Processes'
      BY <2>16, LeaveProcesses DEF Report
    <3> QED
      BY <2>16, <3>2, <3>3 DEF Report, Processes
  <2> QED
    BY <1>6, <2>2, <2>3, <2>4, <2>5, <2>6, <2>7, <2>8, <2>9, <2>10, <2>11,
       <2>12, <2>13, <2>14, <2>15, <2>16 DEF WorkerStep
<1>7. CASE UNCHANGED vars
  BY <1>7 DEF vars, HandInv
<1> QED
  BY <1>1, <1>2, <1>3, <1>4, <1>5, <1>6, <1>7 DEF Next

(* The rows, processes and histories of JobQueue keep their types.         *)
THEOREM TypeCorrect == Spec => []TypeOK
<1>1. Init => TypeOK /\ HandInv
  BY InitType
<1>2. TypeOK /\ HandInv /\ [Next]_vars => TypeOK' /\ HandInv'
  BY NextType
<1> QED
  BY <1>1, <1>2, PTL DEF Spec
-----------------------------------------------------------------------------
(***************************************************************************)
(* The inductive invariant.  upstream_started_at is the hinge: a row that  *)
(* has it is never queued again, so a process past BeginUpstream has no    *)
(* successor, and the process that still holds a row without it has not    *)
(* sent anything.                                                          *)
(***************************************************************************)
PastPC == {"dispatching", "waiting", "answered", "storing"}

JobInv(j) ==
  LET r == job[j] IN
  /\ r.status \in {"absent", "queued"} => ~r.cancel /\ ~r.started
  /\ r.status = "running" <=> r.owner # NoWorker
  /\ r.status = "running" <=> r.lease # "none"
  /\ r.status = "canceled" => r.cancel /\ ~r.started
  /\ r.status = "indeterminate" => r.started
  /\ r.status = "completed" => sends[j] = 1
  /\ sends[j] \in {0, 1}
  /\ sends[j] = 1 => r.started
  /\ j \in answered =>
       sends[j] = 1 /\ r.status \in {"running", "completed", "indeterminate"}

PreparingInv(w) ==
  worker[w].pc = "preparing" /\ Holds(w, job[worker[w].job]) =>
    ~job[worker[w].job].started

PastInv(w) ==
  LET j == worker[w].job IN
  worker[w].pc \in PastPC =>
    /\ job[j].started
    /\ job[j].status \in {"running", "indeterminate"}
    /\ job[j].status = "running" => job[j].owner = w
    /\ sends[j] = IF worker[w].pc = "dispatching" THEN 0 ELSE 1
    /\ worker[w].pc = "waiting" => j \notin answered

FailingInv(w) ==
  LET j == worker[w].job
      s == worker[w].verdict.status
  IN
  worker[w].pc = "failing" /\ Holds(w, job[j]) =>
    /\ s = "canceled" => job[j].cancel /\ ~job[j].started
    /\ s = "indeterminate" => job[j].started
    /\ j \in answered => s = "indeterminate"

IInv ==
  /\ \A j \in Jobs : JobInv(j)
  /\ \A w \in Workers : PreparingInv(w) /\ PastInv(w) /\ FailingInv(w)
  /\ OneDispatcher

Typed == TypeOK /\ HandInv
-----------------------------------------------------------------------------
(* What each operator does to the fields the invariant speaks of.          *)

LEMMA SweptFields ==
  ASSUME NEW r \in Row
  PROVE  /\ SweptRow(r).started = r.started
         /\ SweptRow(r).cancel = r.cancel
         /\ r.status # "running" \/ r.lease # "expired" => SweptRow(r) = r
         /\ r.status = "running" /\ r.lease = "expired" =>
              /\ SweptRow(r).owner = NoWorker
              /\ SweptRow(r).lease = "none"
              /\ SweptRow(r).status = IF r.started THEN "indeterminate"
                                      ELSE IF r.cancel THEN "canceled"
                                      ELSE "queued"
BY DEF SweptRow, Released, Row

LEMMA ClaimedFields ==
  ASSUME NEW r \in Row, NEW w \in Workers
  PROVE  LET s == ClaimedRow(r, w) IN
         /\ s.status = "running" /\ s.owner = w /\ s.lease = "live"
         /\ s.started = r.started /\ s.cancel = r.cancel
BY DEF ClaimedRow, Row

LEMMA CanceledFields ==
  ASSUME NEW r \in Row
  PROVE  LET s == CanceledRow(r) IN
         /\ s.status = IF r.status = "queued" THEN "canceled" ELSE r.status
         /\ s.owner = r.owner /\ s.lease = r.lease
         /\ s.started = r.started /\ s.cancel = TRUE
BY DEF CanceledRow, Row

LEMMA DispatchedFields ==
  ASSUME NEW r \in Row
  PROVE  LET s == DispatchedRow(r) IN
         /\ s.status = r.status /\ s.owner = r.owner /\ s.lease = "live"
         /\ s.started = TRUE /\ s.cancel = r.cancel
BY DEF DispatchedRow, Row

LEMMA SavingFields ==
  ASSUME NEW r \in Row
  PROVE  LET s == SavingRow(r) IN
         /\ s.status = r.status /\ s.owner = r.owner /\ s.lease = "live"
         /\ s.started = r.started /\ s.cancel = r.cancel
BY DEF SavingRow, Row

LEMMA CompletedFields ==
  ASSUME NEW r \in Row, NEW n
  PROVE  LET s == CompletedRow(r, n) IN
         /\ s.status = "completed" /\ s.owner = NoWorker /\ s.lease = "none"
         /\ s.started = r.started /\ s.cancel = r.cancel
BY DEF CompletedRow, Released, Row

LEMMA FailedFields ==
  ASSUME NEW r \in Row, NEW v \in Verdict
  PROVE  LET s == FailedRow(r, v) IN
         /\ s.status = v.status /\ s.owner = NoWorker /\ s.lease = "none"
         /\ s.started = r.started /\ s.cancel = r.cancel
BY DEF FailedRow, Released, Row

(* Process w moves to pc with the same job in hand; the others stay.       *)
Moved(w, pc) ==
  /\ \A v \in Workers \ {w} : worker'[v] = worker[v]
  /\ worker'[w].pc = pc
  /\ worker'[w].job = worker[w].job

LEMMA GotoMoves ==
  ASSUME Processes, NEW w \in Workers, NEW pc \in PC, Goto(w, pc)
  PROVE  Moved(w, pc)
<1>1. worker[w] \in Process
  BY DEF Processes
<1> QED
  BY <1>1 DEF Goto, Moved, Processes, Process

LEMMA FailingMoves ==
  ASSUME Processes, NEW w \in Workers,
         NEW s \in {"failed", "indeterminate", "canceled"}, NEW c \in Code,
         Failing(w, s, c)
  PROVE  Moved(w, "failing") /\ worker'[w].verdict.status = s
<1>1. worker[w] \in Process
  BY DEF Processes
<1> QED
  BY <1>1, ToReportType DEF Failing, Moved, Processes

LEMMA LeaveMoves ==
  ASSUME Processes, NEW w \in Workers, Idle(w) \/ Exit(w)
  PROVE  /\ \A v \in Workers \ {w} : worker'[v] = worker[v]
         /\ worker'[w].pc \in {"idle", "dead"}
<1>1. At("idle").pc = "idle" /\ At("dead").pc = "dead"
  BY AtType DEF PC
<1> QED
  BY <1>1 DEF Idle, Exit, Processes

LEMMA CountMoves ==
  ASSUME Processes, NEW w \in Workers
  PROVE  /\ worker' = [worker EXCEPT ![w].stored = @ + 1]
              => Moved(w, worker[w].pc)
         /\ \A n \in 0..MaxOutputs :
              worker' = [worker EXCEPT
                ![w] = [@ EXCEPT !.pc = "answered", !.outputs = n]]
              => Moved(w, "answered")
<1>1. worker[w] \in Process
  BY DEF Processes
<1> QED
  BY <1>1 DEF Moved, Processes, Process

(* Only row j changes.                                                     *)
OnlyRow(j) == \A k \in Jobs \ {j} : job'[k] = job[k]

(* The facts every step starts from.                                       *)
LEMMA TypedFacts ==
  ASSUME Typed
  PROVE  /\ Processes
         /\ job \in [Jobs -> Row]
         /\ \A j \in Jobs : job[j] \in Row
         /\ \A w \in Workers : worker[w] \in Process
         /\ \A w \in Workers : worker[w].pc \in Busy => worker[w].job \in Jobs
BY DEF Typed, TypeOK, Processes, HandInv

(* A row that changes in nothing but its status (never while it is held),  *)
(* its cancellation and its lease disturbs nobody.                         *)
LEMMA SubmitKeeps ==
  ASSUME Typed, IInv, NEW j \in Jobs, Submit(j)
  PROVE  IInv'
<1>1. /\ job'[j].status = "queued" /\ job[j].status = "absent"
      /\ job'[j].owner = job[j].owner /\ job'[j].lease = job[j].lease
      /\ job'[j].started = job[j].started /\ job'[j].cancel = job[j].cancel
      /\ OnlyRow(j)
  BY TypedFacts DEF Submit, OnlyRow, Row
<1>2. worker' = worker /\ sends' = sends /\ answered' = answered
  BY DEF Submit, OnlyRows
<1>3. \A k \in Jobs : JobInv(k)'
  BY <1>1, <1>2 DEF IInv, JobInv, OnlyRow
<1>4. \A w \in Workers : PreparingInv(w)' /\ PastInv(w)' /\ FailingInv(w)'
  BY <1>1, <1>2, TypedFacts DEF IInv, PreparingInv, PastInv, FailingInv, Holds,
     PastPC, Busy, OnlyRow
<1>5. OneDispatcher'
  BY <1>2 DEF IInv, OneDispatcher, PastDispatch
<1> QED
  BY <1>3, <1>4, <1>5 DEF IInv

LEMMA CancelKeeps ==
  ASSUME Typed, IInv, NEW j \in Jobs, Cancel(j)
  PROVE  IInv'
<1>1. /\ job[j].status \in {"queued", "running"}
      /\ job'[j].status = IF job[j].status = "queued" THEN "canceled" ELSE "running"
      /\ job'[j].owner = job[j].owner /\ job'[j].lease = job[j].lease
      /\ job'[j].started = job[j].started /\ job'[j].cancel = TRUE
      /\ OnlyRow(j)
  BY TypedFacts, CanceledFields DEF Cancel, OnlyRow
<1>2. worker' = worker /\ sends' = sends /\ answered' = answered
  BY DEF Cancel, OnlyRows
<1>3. \A k \in Jobs : JobInv(k)'
  BY <1>1, <1>2 DEF IInv, JobInv, OnlyRow
<1>4. \A w \in Workers : PreparingInv(w)' /\ PastInv(w)' /\ FailingInv(w)'
  BY <1>1, <1>2, TypedFacts DEF IInv, PreparingInv, PastInv, FailingInv, Holds,
     PastPC, Busy, OnlyRow
<1>5. OneDispatcher'
  BY <1>2 DEF IInv, OneDispatcher, PastDispatch
<1> QED
  BY <1>3, <1>4, <1>5 DEF IInv

LEMMA ExpiryKeeps ==
  ASSUME Typed, IInv, NEW j \in Jobs, LeaseExpires(j)
  PROVE  IInv'
<1>1. /\ job[j].lease = "live" /\ job'[j].lease = "expired"
      /\ job'[j].status = job[j].status /\ job'[j].owner = job[j].owner
      /\ job'[j].started = job[j].started /\ job'[j].cancel = job[j].cancel
      /\ OnlyRow(j)
  BY TypedFacts DEF LeaseExpires, OnlyRow, Row
<1>2. worker' = worker /\ sends' = sends /\ answered' = answered
  BY DEF LeaseExpires
<1>3. \A k \in Jobs : JobInv(k)'
  BY <1>1, <1>2 DEF IInv, JobInv, OnlyRow
<1>4. \A w \in Workers : PreparingInv(w)' /\ PastInv(w)' /\ FailingInv(w)'
  BY <1>1, <1>2, TypedFacts DEF IInv, PreparingInv, PastInv, FailingInv, Holds,
     PastPC, Busy, OnlyRow
<1>5. OneDispatcher'
  BY <1>2 DEF IInv, OneDispatcher, PastDispatch
<1> QED
  BY <1>3, <1>4, <1>5 DEF IInv

(* A process that leaves the stage, for a while or for good, takes nothing *)
(* with it.                                                                *)
LEMMA LeavingKeeps ==
  ASSUME Typed, IInv, NEW w \in Workers, Idle(w) \/ Exit(w),
         job' = job, sends' = sends, answered' = answered
  PROVE  IInv'
<1>1. /\ \A v \in Workers \ {w} : worker'[v] = worker[v]
      /\ worker'[w].pc \notin Busy
  BY LeaveMoves, TypedFacts DEF Busy
<1>3. \A k \in Jobs : JobInv(k)'
  BY DEF IInv, JobInv
<1>4. \A v \in Workers : PreparingInv(v)' /\ PastInv(v)' /\ FailingInv(v)'
  BY <1>1 DEF IInv, PreparingInv, PastInv, FailingInv, Holds, PastPC, Busy
<1>5. OneDispatcher'
  BY <1>1 DEF IInv, OneDispatcher, PastDispatch, Busy
<1> QED
  BY <1>3, <1>4, <1>5 DEF IInv

(* The sweep of a claim: a row it touches is held by nobody afterwards,    *)
(* and becomes queued only if it was not dispatched.                       *)
LEMMA SweepKeeps ==
  ASSUME Typed, IInv, job' = Sweep,
         worker' = worker, sends' = sends, answered' = answered
  PROVE  IInv'
<1>1. \A k \in Jobs :
        /\ job'[k].started = job[k].started /\ job'[k].cancel = job[k].cancel
        /\ \/ job'[k] = job[k]
           \/ /\ job[k].status = "running"
              /\ job'[k].owner = NoWorker /\ job'[k].lease = "none"
              /\ job'[k].status = IF job[k].started THEN "indeterminate"
                                  ELSE IF job[k].cancel THEN "canceled"
                                  ELSE "queued"
  BY TypedFacts, SweptFields DEF Sweep
<1>3. \A k \in Jobs : JobInv(k)'
  BY <1>1 DEF IInv, JobInv
<1>4. \A w \in Workers : PreparingInv(w)' /\ PastInv(w)' /\ FailingInv(w)'
  BY <1>1, TypedFacts DEF IInv, PreparingInv, PastInv, FailingInv, Holds,
     PastPC, Busy
<1>5. OneDispatcher'
  BY DEF IInv, OneDispatcher, PastDispatch
<1> QED
  BY <1>3, <1>4, <1>5 DEF IInv

(* The claimed row was queued, so it is not dispatched, and its new owner  *)
(* was idle.                                                               *)
LEMMA ClaimKeeps ==
  ASSUME Typed, IInv, NEW w \in Workers, NEW j \in Jobs, ClaimJob(w, j)
  PROVE  IInv'
<1>s. \A k \in Jobs :
        /\ Sweep[k] \in Row
        /\ Sweep[k].started = job[k].started /\ Sweep[k].cancel = job[k].cancel
        /\ \/ Sweep[k] = job[k]
           \/ /\ job[k].status = "running"
              /\ Sweep[k].owner = NoWorker /\ Sweep[k].lease = "none"
              /\ Sweep[k].status = IF job[k].started THEN "indeterminate"
                                   ELSE IF job[k].cancel THEN "canceled"
                                   ELSE "queued"
  BY TypedFacts, SweptFields, SweptRowType DEF Sweep
<1>1. \A k \in Jobs \ {j} :
        /\ job'[k].started = job[k].started /\ job'[k].cancel = job[k].cancel
        /\ \/ job'[k] = job[k]
           \/ /\ job[k].status = "running"
              /\ job'[k].owner = NoWorker /\ job'[k].lease = "none"
              /\ job'[k].status = IF job[k].started THEN "indeterminate"
                                  ELSE IF job[k].cancel THEN "canceled"
                                  ELSE "queued"
  BY <1>s DEF ClaimJob, Sweep
<1>2. Sweep[j].status = "queued" /\ ~Sweep[j].cancel /\ ~Sweep[j].started
  BY <1>s DEF ClaimJob, Claimable, IInv, JobInv
<1>3. /\ job'[j].status = "running" /\ job'[j].owner = w /\ job'[j].lease = "live"
      /\ ~job'[j].started /\ ~job'[j].cancel
      /\ job[j].status \in {"queued", "running"} /\ ~job[j].started
      /\ job[j].owner # w \/ job[j].status = "running"
  <2>1. job'[j] = ClaimedRow(Sweep[j], w)
    BY DEF ClaimJob, Sweep
  <2>2. job[j].owner # w \/ job[j].status = "running"
    BY TypedFacts, WorkersAssumption DEF IInv, JobInv, Row
  <2> QED
    BY <1>s, <1>2, <2>1, <2>2, ClaimedFields
<1>4. /\ \A v \in Workers \ {w} : worker'[v] = worker[v]
      /\ worker'[w].pc = "preparing" /\ worker'[w].job = j
  <2>1. [At("preparing") EXCEPT !.job = j].pc = "preparing"
    BY AtType DEF PC
  <2>2. [At("preparing") EXCEPT !.job = j].job = j
    BY AtType DEF PC
  <2>3. worker' = [worker EXCEPT ![w] = [At("preparing") EXCEPT !.job = j]]
    BY DEF ClaimJob
  <2> QED
    BY <2>1, <2>2, <2>3, TypedFacts DEF Processes
<1>5. sends' = sends /\ answered' = answered
  BY DEF ClaimJob
<1>6. \A k \in Jobs : JobInv(k)'
  <2>1. JobInv(j)'
    BY <1>3, <1>5, WorkersAssumption DEF IInv, JobInv
  <2>2. \A k \in Jobs \ {j} : JobInv(k)'
    BY <1>1, <1>5 DEF IInv, JobInv
  <2> QED
    BY <2>1, <2>2
<1>7. \A v \in Workers : PreparingInv(v)' /\ PastInv(v)' /\ FailingInv(v)'
  <2>1. ASSUME NEW v \in Workers \ {w}
        PROVE  PreparingInv(v)' /\ PastInv(v)' /\ FailingInv(v)'
    BY <1>1, <1>3, <1>4, <1>5, TypedFacts DEF IInv, PreparingInv, PastInv,
       FailingInv, Holds, PastPC, Busy
  <2>2. PreparingInv(w)' /\ PastInv(w)' /\ FailingInv(w)'
    BY <1>3, <1>4 DEF PreparingInv, PastInv, FailingInv, PastPC
  <2> QED
    BY <2>1, <2>2
<1>8. OneDispatcher'
  BY <1>4 DEF IInv, OneDispatcher, PastDispatch
<1> QED
  BY <1>6, <1>7, <1>8 DEF IInv

(* A step that only sends a process on to "failing" with a verdict its row *)
(* allows.                                                                 *)
LEMMA FailingKeeps ==
  ASSUME Typed, IInv, NEW w \in Workers, worker[w].pc \in Busy,
         NEW s \in {"failed", "indeterminate", "canceled"}, NEW c \in Code,
         Failing(w, s, c),
         job' = job, sends' = sends, answered' = answered,
         Holds(w, job[worker[w].job]) =>
           /\ s = "canceled" =>
                job[worker[w].job].cancel /\ ~job[worker[w].job].started
           /\ s = "indeterminate" => job[worker[w].job].started
           /\ worker[w].job \in answered => s = "indeterminate"
  PROVE  IInv'
<1>1. Moved(w, "failing") /\ worker'[w].verdict.status = s
  BY TypedFacts, FailingMoves
<1>3. \A k \in Jobs : JobInv(k)'
  BY DEF IInv, JobInv
<1>4. \A v \in Workers : PreparingInv(v)' /\ PastInv(v)' /\ FailingInv(v)'
  BY <1>1 DEF IInv, PreparingInv, PastInv, FailingInv, Holds, PastPC, Moved
<1>5. OneDispatcher'
  BY <1>1 DEF IInv, OneDispatcher, PastDispatch, Moved
<1> QED
  BY <1>3, <1>4, <1>5 DEF IInv

(* The row is committed to its call.  Nobody else is past BeginUpstream    *)
(* with it, since the row was not started.                                 *)
LEMMA DispatchKeeps ==
  ASSUME Typed, IInv, NEW w \in Workers, worker[w].pc = "preparing",
         NEW j \in Jobs, j = worker[w].job, Dispatchable(w, job[j]),
         job' = [job EXCEPT ![j] = DispatchedRow(@)],
         \/ Moved(w, "dispatching")
         \/ Moved(w, "failing") /\ worker'[w].verdict.status = "failed",
         sends' = sends, answered' = answered
  PROVE  IInv'
<1>h. /\ job[j].status = "running" /\ job[j].owner = w
      /\ ~job[j].started /\ sends[j] = 0 /\ j \notin answered
  BY DEF IInv, PreparingInv, JobInv, Holds, Dispatchable
<1>1. /\ job'[j].status = "running" /\ job'[j].owner = w /\ job'[j].lease = "live"
      /\ job'[j].started = TRUE /\ job'[j].cancel = job[j].cancel
      /\ OnlyRow(j)
  BY <1>h, TypedFacts, DispatchedFields DEF OnlyRow
<1>2. \A v \in Workers : ~PastDispatch(v, j)
  BY <1>h DEF IInv, PastInv, PastDispatch, PastPC
<1>3. \A k \in Jobs : JobInv(k)'
  BY <1>1, <1>h, WorkersAssumption DEF IInv, JobInv, OnlyRow
<1>4. \A v \in Workers : PreparingInv(v)' /\ PastInv(v)' /\ FailingInv(v)'
  <2>1. PreparingInv(w)' /\ PastInv(w)' /\ FailingInv(w)'
    BY <1>1, <1>h DEF PreparingInv, PastInv, FailingInv, PastPC, Moved
  <2>2. ASSUME NEW v \in Workers \ {w}
        PROVE  PreparingInv(v)' /\ PastInv(v)' /\ FailingInv(v)'
    <3>1. worker'[v] = worker[v]
      BY DEF Moved
    <3>2. CASE worker[v].job = j
      BY <1>1, <1>2, <3>1, <3>2 DEF PreparingInv, PastInv, FailingInv, Holds,
         PastPC, PastDispatch
    <3>3. CASE worker[v].job # j
      BY <1>1, <3>1, <3>3, TypedFacts DEF IInv, PreparingInv, PastInv,
         FailingInv, Holds, PastPC, Busy, OnlyRow
    <3> QED
      BY <3>2, <3>3
  <2> QED
    BY <2>1, <2>2
<1>5. OneDispatcher'
  BY <1>2 DEF IInv, OneDispatcher, PastDispatch, Moved
<1> QED
  BY <1>3, <1>4, <1>5 DEF IInv

(* Before the dispatch of the job w has in hand.                           *)
LEMMA PreparingKeeps ==
  ASSUME Typed, IInv, NEW w \in Workers,
         PrepareFails(w) \/ BeginUpstream(w) \/ BeginUpstreamLost(w)
  PROVE  IInv'
<1> DEFINE j == worker[w].job
<1>0. worker[w].pc = "preparing" /\ worker[w].pc \in Busy /\ j \in Jobs
  BY TypedFacts DEF PrepareFails, BeginUpstream, BeginUpstreamLost, Busy
<1>c. {"preparation_failed", "canceled_before_dispatch"} \subseteq Code
  BY DEF Code
<1>p. "dispatching" \in PC
  BY DEF PC
<1>h. Holds(w, job[j]) =>
        ~job[j].started /\ sends[j] = 0 /\ j \notin answered
  BY <1>0 DEF IInv, PreparingInv, JobInv
<1>1. CASE PrepareFails(w)
  BY <1>0, <1>c, <1>h, <1>1, FailingKeeps DEF PrepareFails
<1>2. CASE BeginUpstream(w)
  <2>1. sends' = sends /\ answered' = answered
    BY <1>2 DEF BeginUpstream
  <2>2. CASE Dispatchable(w, job[j])
    <3>1. job' = [job EXCEPT ![j] = DispatchedRow(@)] /\ Goto(w, "dispatching")
      BY <1>2, <2>2 DEF BeginUpstream
    <3>2. Moved(w, "dispatching")
      BY <1>p, <3>1, TypedFacts, GotoMoves
    <3> QED
      BY <1>0, <2>1, <2>2, <3>1, <3>2, DispatchKeeps
  <2>3. CASE ~Dispatchable(w, job[j])
    <3>1. job' = job /\ Failing(w, "canceled", "canceled_before_dispatch")
      BY <1>2, <2>3 DEF BeginUpstream
    <3>2. Holds(w, job[j]) => job[j].cancel
      BY <2>3 DEF Dispatchable
    <3> QED
      BY <1>0, <1>c, <1>h, <2>1, <3>1, <3>2, FailingKeeps
  <2> QED
    BY <2>2, <2>3
<1>3. CASE BeginUpstreamLost(w)
  <2>1. /\ sends' = sends /\ answered' = answered
        /\ Failing(w, "failed", "canceled_before_dispatch")
    BY <1>3 DEF BeginUpstreamLost
  <2>2. CASE job' = job
    BY <1>0, <1>c, <1>h, <2>1, <2>2, FailingKeeps
  <2>3. CASE Dispatchable(w, job[j]) /\ job' = [job EXCEPT ![j] = DispatchedRow(@)]
    <3>1. Moved(w, "failing") /\ worker'[w].verdict.status = "failed"
      BY <1>c, <2>1, TypedFacts, FailingMoves
    <3> QED
      BY <1>0, <2>1, <2>3, <3>1, DispatchKeeps
  <2> QED
    BY <1>3, <2>2, <2>3 DEF BeginUpstreamLost
<1> QED
  BY <1>1, <1>2, <1>3

(* The call itself.                                                        *)
LEMMA SendKeeps ==
  ASSUME Typed, IInv, NEW w \in Workers, SendRequest(w)
  PROVE  IInv'
<1> DEFINE j == worker[w].job
<1>0. /\ worker[w].pc = "dispatching" /\ j \in Jobs
      /\ PastInv(w) /\ JobInv(j) /\ PastDispatch(w, j)
  BY TypedFacts DEF SendRequest, Busy, IInv, PastDispatch
<1>1. Moved(w, "waiting")
  BY TypedFacts, GotoMoves DEF SendRequest, PC
<1>2. job' = job /\ answered' = answered /\ sends' = [sends EXCEPT ![j] = @ + 1]
  BY DEF SendRequest
<1>3. sends[j] = 0 /\ job[j].started /\ j \notin answered
  BY <1>0 DEF PastInv, JobInv, PastPC
<1>4. sends'[j] = 1 /\ \A k \in Jobs \ {j} : sends'[k] = sends[k]
  BY <1>0, <1>2, <1>3 DEF Typed, TypeOK
<1>5. \A v \in Workers \ {w} : worker[v].pc \in PastPC => worker[v].job # j
  BY <1>0 DEF IInv, OneDispatcher, PastDispatch, PastPC
<1>6. \A k \in Jobs : JobInv(k)'
  BY <1>0, <1>2, <1>3, <1>4 DEF IInv, JobInv
<1>7. \A v \in Workers : PreparingInv(v)' /\ PastInv(v)' /\ FailingInv(v)'
  <2>1. PreparingInv(w)' /\ PastInv(w)' /\ FailingInv(w)'
    BY <1>0, <1>1, <1>2, <1>3, <1>4 DEF PreparingInv, PastInv, FailingInv, PastPC, Moved
  <2>2. ASSUME NEW v \in Workers \ {w}
        PROVE  PreparingInv(v)' /\ PastInv(v)' /\ FailingInv(v)'
    <3>1. worker'[v] = worker[v] /\ (worker[v].pc \in PastPC => worker[v].job \in Jobs)
      BY <1>1, TypedFacts DEF Moved, PastPC, Busy
    <3> QED
      BY <1>2, <1>4, <1>5, <3>1 DEF IInv, PreparingInv, PastInv, FailingInv, Holds
  <2> QED
    BY <2>1, <2>2
<1>8. OneDispatcher'
  BY <1>0, <1>1 DEF IInv, OneDispatcher, PastDispatch, Moved
<1> QED
  BY <1>6, <1>7, <1>8 DEF IInv

(* Past BeginUpstream, a process that gives up reports "failed" only while *)
(* no success was answered, and "indeterminate" only of a started row.     *)
LEMMA GivingUpKeeps ==
  ASSUME Typed, IInv, NEW w \in Workers,
         SendFails(w) \/ Refused(w) \/ ParseFails(w) \/ StoreFails(w)
  PROVE  IInv'
<1> DEFINE j == worker[w].job
<1>0. /\ worker[w].pc \in PastPC /\ worker[w].pc \in Busy /\ j \in Jobs
      /\ PastInv(w) /\ JobInv(j)
  BY TypedFacts DEF SendFails, Refused, ParseFails, StoreFails, Busy, PastPC, IInv
<1>c. {"upstream_error", "official_outcome_unknown", "invalid_official_result",
       "result_storage_failed"} \subseteq Code
  BY DEF Code
<1>1. job' = job /\ sends' = sends /\ answered' = answered
  BY DEF SendFails, Refused, ParseFails, StoreFails
<1>2. job[j].started
  BY <1>0 DEF PastInv
<1>3. CASE \E c \in Code : Failing(w, "indeterminate", c)
  BY <1>0, <1>1, <1>2, <1>3, FailingKeeps
<1>4. CASE worker[w].pc \in {"dispatching", "waiting"}
           /\ \E c \in Code : Failing(w, "failed", c)
  <2>1. j \notin answered
    BY <1>0, <1>4 DEF PastInv, JobInv
  <2> QED
    BY <1>0, <1>1, <2>1, <1>4, FailingKeeps
<1> QED
  BY <1>c, <1>3, <1>4 DEF SendFails, Refused, ParseFails, StoreFails

LEMMA AnsweredKeeps ==
  ASSUME Typed, IInv, NEW w \in Workers, Answered(w)
  PROVE  IInv'
<1> DEFINE j == worker[w].job
<1>0. /\ worker[w].pc = "waiting" /\ j \in Jobs
      /\ PastInv(w) /\ JobInv(j) /\ PastDispatch(w, j)
  BY TypedFacts DEF Answered, Busy, IInv, PastDispatch
<1>1. Moved(w, "answered")
  BY TypedFacts, CountMoves DEF Answered
<1>2. job' = job /\ sends' = sends /\ answered' = answered \cup {j}
  BY DEF Answered
<1>3. /\ sends[j] = 1 /\ job[j].started
      /\ job[j].status \in {"running", "indeterminate"}
      /\ job[j].status = "running" => job[j].owner = w
  BY <1>0 DEF PastInv, PastPC
<1>5. \A v \in Workers \ {w} : worker[v].pc \in PastPC => worker[v].job # j
  BY <1>0 DEF IInv, OneDispatcher, PastDispatch, PastPC
<1>6. \A k \in Jobs : JobInv(k)'
  BY <1>2, <1>3 DEF IInv, JobInv
<1>7. \A v \in Workers : PreparingInv(v)' /\ PastInv(v)' /\ FailingInv(v)'
  <2>1. PreparingInv(w)' /\ PastInv(w)' /\ FailingInv(w)'
    BY <1>0, <1>1, <1>2, <1>3 DEF PreparingInv, PastInv, FailingInv, PastPC, Moved
  <2>2. ASSUME NEW v \in Workers \ {w}
        PROVE  PreparingInv(v)' /\ PastInv(v)' /\ FailingInv(v)'
    <3>1. worker'[v] = worker[v]
      BY <1>1 DEF Moved
    <3> QED
      BY <1>2, <1>3, <1>5, <3>1 DEF IInv, PreparingInv, PastInv, FailingInv, Holds, PastPC
  <2> QED
    BY <2>1, <2>2
<1>8. OneDispatcher'
  BY <1>0, <1>1 DEF IInv, OneDispatcher, PastDispatch, Moved
<1> QED
  BY <1>6, <1>7, <1>8 DEF IInv

(* Saving: the row of the holder changes its phase and lease, or nothing   *)
(* but the process.                                                        *)
LEMMA SavingKeeps ==
  ASSUME Typed, IInv, NEW w \in Workers, MarkSaving(w)
  PROVE  IInv'
<1> DEFINE j == worker[w].job
<1>0. /\ worker[w].pc = "answered" /\ j \in Jobs /\ PastDispatch(w, j)
      /\ PastInv(w) /\ sends' = sends /\ answered' = answered
  BY TypedFacts DEF MarkSaving, Busy, PastDispatch, IInv
<1>1. CASE Exit(w) /\ job' = job
  BY <1>0, <1>1, LeavingKeeps
<1>2. CASE /\ Holds(w, job[j]) /\ Goto(w, "storing")
           /\ job' = [job EXCEPT ![j] = SavingRow(@)]
  <2>1. Moved(w, "storing")
    BY <1>2, TypedFacts, GotoMoves DEF PC
  <2>2. /\ job[j].status = "running" /\ job'[j].status = "running"
        /\ job'[j].owner = job[j].owner /\ job'[j].lease = "live"
        /\ job'[j].started = job[j].started /\ job'[j].cancel = job[j].cancel
        /\ OnlyRow(j)
    BY <1>0, <1>2, TypedFacts, SavingFields DEF OnlyRow, Holds
  <2>3. \A k \in Jobs : JobInv(k)'
    BY <1>0, <2>2 DEF IInv, JobInv, OnlyRow
  <2>4. \A v \in Workers : PreparingInv(v)' /\ PastInv(v)' /\ FailingInv(v)'
    <3>1. PreparingInv(w)' /\ PastInv(w)' /\ FailingInv(w)'
      BY <1>0, <2>1, <2>2 DEF PreparingInv, PastInv, FailingInv, PastPC, Moved
    <3>2. \A v \in Workers \ {w} : PreparingInv(v)' /\ PastInv(v)' /\ FailingInv(v)'
      BY <1>0, <2>1, <2>2, TypedFacts DEF IInv, PreparingInv, PastInv,
         FailingInv, Holds, PastPC, Busy, Moved, OnlyRow
    <3> QED
      BY <3>1, <3>2
  <2>5. OneDispatcher'
    BY <1>0, <2>1 DEF IInv, OneDispatcher, PastDispatch, Moved
  <2> QED
    BY <2>3, <2>4, <2>5 DEF IInv
<1> QED
  BY <1>1, <1>2 DEF MarkSaving

LEMMA StoringKeeps ==
  ASSUME Typed, IInv, NEW w \in Workers, StoreAsset(w)
  PROVE  IInv'
<1>1. /\ Moved(w, "storing") /\ worker[w].pc = "storing"
      /\ job' = job /\ sends' = sends /\ answered' = answered
  BY TypedFacts, CountMoves DEF StoreAsset
<1>3. \A k \in Jobs : JobInv(k)'
  BY <1>1 DEF IInv, JobInv
<1>4. \A v \in Workers : PreparingInv(v)' /\ PastInv(v)' /\ FailingInv(v)'
  BY <1>1 DEF IInv, PreparingInv, PastInv, FailingInv, Holds, PastPC, Moved
<1>5. OneDispatcher'
  BY <1>1 DEF IInv, OneDispatcher, PastDispatch, Moved
<1> QED
  BY <1>3, <1>4, <1>5 DEF IInv

(* The holder settles its row and goes idle.                               *)
LEMMA SettlingKeeps ==
  ASSUME Typed, IInv, NEW w \in Workers, NEW j \in Jobs, NEW s \in Terminal,
         Idle(w), Holds(w, job[j]),
         \A v \in Workers \ {w} : worker[v].job = j => worker[v].pc \notin PastPC,
         OnlyRow(j), job'[j].status = s, job'[j].owner = NoWorker,
         job'[j].lease = "none", job'[j].started = job[j].started,
         job'[j].cancel = job[j].cancel,
         sends' = sends, answered' = answered,
         s = "canceled" => job[j].cancel /\ ~job[j].started,
         s = "indeterminate" => job[j].started,
         s = "completed" => sends[j] = 1,
         j \in answered => s \in {"completed", "indeterminate"}
  PROVE  IInv'
<1>1. /\ \A v \in Workers \ {w} : worker'[v] = worker[v]
      /\ worker'[w].pc \notin Busy
  BY LeaveMoves, TypedFacts DEF Busy
<1>2. job[j].status = "running" /\ job[j].owner = w
  BY DEF Holds
<1>3. \A k \in Jobs : JobInv(k)'
  <2>1. JobInv(j)'
    BY <1>2 DEF IInv, JobInv, Terminal
  <2>2. \A k \in Jobs \ {j} : JobInv(k)'
    BY DEF IInv, JobInv, OnlyRow
  <2> QED
    BY <2>1, <2>2
<1>4. \A v \in Workers : PreparingInv(v)' /\ PastInv(v)' /\ FailingInv(v)'
  <2>1. PreparingInv(w)' /\ PastInv(w)' /\ FailingInv(w)'
    BY <1>1 DEF PreparingInv, PastInv, FailingInv, PastPC, Busy
  <2>2. ASSUME NEW v \in Workers \ {w}
        PROVE  PreparingInv(v)' /\ PastInv(v)' /\ FailingInv(v)'
    <3>1. worker'[v] = worker[v]
      BY <1>1
    <3>2. CASE worker[v].job = j
      BY <3>1, <3>2 DEF PreparingInv, PastInv, FailingInv, Holds, Terminal
    <3>3. CASE worker[v].job # j
      BY <3>1, <3>3, TypedFacts DEF IInv, PreparingInv, PastInv,
         FailingInv, Holds, PastPC, Busy, OnlyRow
    <3> QED
      BY <3>2, <3>3
  <2> QED
    BY <2>1, <2>2
<1>5. OneDispatcher'
  BY <1>1 DEF IInv, OneDispatcher, PastDispatch, Busy
<1> QED
  BY <1>3, <1>4, <1>5 DEF IInv

LEMMA CompleteKeeps ==
  ASSUME Typed, IInv, NEW w \in Workers, Complete(w)
  PROVE  IInv'
<1> DEFINE j == worker[w].job
<1>0. /\ worker[w].pc = "storing" /\ j \in Jobs /\ PastDispatch(w, j)
      /\ PastInv(w) /\ sends' = sends /\ answered' = answered
  BY TypedFacts DEF Complete, Busy, PastDispatch, IInv
<1>1. CASE Exit(w) /\ job' = job
  BY <1>0, <1>1, LeavingKeeps
<1>2. CASE /\ Holds(w, job[j]) /\ Idle(w)
           /\ job' = [job EXCEPT ![j] = CompletedRow(@, worker[w].stored)]
  <2>1. /\ job'[j].status = "completed" /\ job'[j].owner = NoWorker
        /\ job'[j].lease = "none" /\ job'[j].started = job[j].started
        /\ job'[j].cancel = job[j].cancel /\ OnlyRow(j)
    BY <1>0, <1>2, TypedFacts, CompletedFields DEF OnlyRow
  <2>2. sends[j] = 1
    BY <1>0 DEF PastInv, PastPC
  <2>3. \A v \in Workers \ {w} : worker[v].job = j => worker[v].pc \notin PastPC
    BY <1>0 DEF IInv, OneDispatcher, PastDispatch, PastPC
  <2> QED
    BY <1>0, <1>2, <2>1, <2>2, <2>3, SettlingKeeps DEF Terminal
<1> QED
  BY <1>1, <1>2 DEF Complete

LEMMA ReportKeeps ==
  ASSUME Typed, IInv, NEW w \in Workers, Report(w)
  PROVE  IInv'
<1> DEFINE j == worker[w].job
           v == worker[w].verdict
<1>0. /\ worker[w].pc = "failing" /\ j \in Jobs /\ v \in Verdict
      /\ sends' = sends /\ answered' = answered
  BY TypedFacts DEF Report, Busy, Process
<1>1. CASE Exit(w) /\ job' = job
  BY <1>0, <1>1, LeavingKeeps
<1>2. CASE /\ Holds(w, job[j]) /\ Idle(w)
           /\ job' = [job EXCEPT ![j] = FailedRow(@, v)]
  <2>1. /\ job'[j].status = v.status /\ job'[j].owner = NoWorker
        /\ job'[j].lease = "none" /\ job'[j].started = job[j].started
        /\ job'[j].cancel = job[j].cancel /\ OnlyRow(j)
    BY <1>0, <1>2, TypedFacts, FailedFields DEF OnlyRow
  <2>2. /\ v.status = "canceled" => job[j].cancel /\ ~job[j].started
        /\ v.status = "indeterminate" => job[j].started
        /\ j \in answered => v.status = "indeterminate"
    BY <1>0, <1>2 DEF IInv, FailingInv
  <2>3. \A u \in Workers \ {w} : worker[u].job = j => worker[u].pc \notin PastPC
    BY <1>2 DEF IInv, PastInv, Holds
  <2>4. v.status \in Terminal /\ v.status # "completed"
    BY <1>0 DEF Verdict, Terminal
  <2> QED
    BY <1>0, <1>2, <2>1, <2>2, <2>3, <2>4, SettlingKeeps
<1> QED
  BY <1>1, <1>2 DEF Report

LEMMA InitIInv == Init => IInv
<1> SUFFICES ASSUME Init PROVE IInv
  OBVIOUS
<1>1. At("unborn").pc = "unborn"
  BY AtType DEF PC
<1> QED
  BY <1>1 DEF Init, EmptyRow, IInv, JobInv, PreparingInv, PastInv, FailingInv,
     PastPC, OneDispatcher, PastDispatch

LEMMA NextIInv == Typed /\ IInv /\ [Next]_vars => IInv'
<1> SUFFICES ASSUME Typed, IInv, [Next]_vars PROVE IInv'
  OBVIOUS
<1>1. ASSUME NEW j \in Jobs, Submit(j) \/ Cancel(j) \/ LeaseExpires(j)
      PROVE  IInv'
  BY <1>1, SubmitKeeps, CancelKeeps, ExpiryKeeps
<1>2. ASSUME NEW w \in Workers, StartWorker(w) \/ Crash(w)
      PROVE  IInv'
  BY <1>2, LeavingKeeps DEF StartWorker, Crash
<1>3. ASSUME NEW w \in Workers, WorkerStep(w)
      PROVE  IInv'
  <2>1. CASE ClaimNone(w)
    BY <2>1, SweepKeeps DEF ClaimNone, OnlyRows
  <2> QED
    BY <1>3, <2>1, ClaimKeeps, PreparingKeeps, SendKeeps, GivingUpKeeps,
       AnsweredKeeps, SavingKeeps, StoringKeeps, CompleteKeeps, ReportKeeps
       DEF WorkerStep
<1>4. CASE UNCHANGED vars
  BY <1>4 DEF vars, IInv, JobInv, PreparingInv, PastInv, FailingInv, Holds,
     OneDispatcher, PastDispatch
<1> QED
  BY <1>1, <1>2, <1>3, <1>4 DEF Next

THEOREM Invariance == Spec => [](Typed /\ IInv)
<1>1. Init => Typed /\ IInv
  BY InitType, InitIInv DEF Typed
<1>2. Typed /\ IInv /\ [Next]_vars => (Typed /\ IInv)'
  BY NextType, NextIInv DEF Typed
<1> QED
  BY <1>1, <1>2, PTL DEF Spec

(* However many workers take a job over, its upstream call is made once.   *)
THEOREM SentOnce == Spec => []AtMostOneSend
<1>1. IInv => AtMostOneSend
  BY DEF IInv, JobInv, AtMostOneSend
<1> QED
  BY <1>1, Invariance, PTL

(* No two workers carry a job past BeginUpstream.                          *)
THEOREM DispatcherUnique == Spec => []OneDispatcher
<1>1. IInv => OneDispatcher
  BY DEF IInv
<1> QED
  BY <1>1, Invariance, PTL

(* Every row that is not settled is within reach of a claim.               *)
THEOREM RowsReachable == Spec => []NoStrandedRow
<1>1. IInv => NoStrandedRow
  BY DEF IInv, JobInv, NoStrandedRow, Claimable
<1> QED
  BY <1>1, Invariance, PTL

(* A job shown as canceled has cost nothing and will cost nothing.         *)
THEOREM CanceledIsFree == Spec => []CanceledWasNeverSent
<1>1. IInv => CanceledWasNeverSent
  BY DEF IInv, JobInv, PastInv, PastPC, CanceledWasNeverSent, PastDispatch
<1> QED
  BY <1>1, Invariance, PTL

(* An answered job is never queued again, failed or canceled.              *)
THEOREM AnswerKept == Spec => []AnswerIsNotForgotten
<1>1. Typed /\ IInv => AnswerIsNotForgotten
  BY DEF Typed, TypeOK, IInv, JobInv, AnswerIsNotForgotten
<1> QED
  BY <1>1, Invariance, PTL
-----------------------------------------------------------------------------
(***************************************************************************)
(* What one step of the system does to one job.                            *)
(***************************************************************************)
SameRow(k) ==
  job'[k] = job[k] /\ results'[k] = results[k]

SameFlags(k) ==
  /\ job'[k].started = job[k].started /\ job'[k].cancel = job[k].cancel
  /\ sends'[k] = sends[k]

Sent(k) ==
  /\ SameRow(k) /\ job[k].started /\ sends[k] = 0 /\ sends'[k] = 1
  /\ job[k].status \in {"running", "indeterminate"}

Canceled(k) ==
  /\ job[k].status \in {"queued", "running"}
  /\ job'[k].status = IF job[k].status = "queued" THEN "canceled" ELSE "running"
  /\ job'[k].cancel /\ job'[k].started = job[k].started
  /\ sends'[k] = sends[k]

Advanced(k) ==
  /\ SameFlags(k)
  /\ \/ job[k].status = "absent" /\ job'[k].status = "queued"
     \/ job[k].status \in {"queued", "running"} /\ job'[k].status = "running"
     \/ /\ job[k].status = "running" /\ job'[k].status = "queued"
        /\ ~job[k].started /\ ~job[k].cancel

Committed(k) ==
  /\ job[k].status = "running" /\ ~job[k].started /\ ~job[k].cancel
  /\ job'[k].status = "running" /\ job'[k].started /\ ~job'[k].cancel
  /\ sends'[k] = sends[k]

SettledBy(w, k) ==
  /\ job[k].owner = w /\ worker[w].job = k
  /\ worker[w].pc \in {"failing", "storing"} /\ worker'[w].pc = "idle"

Settled(k) ==
  /\ SameFlags(k)
  /\ job[k].status = "running" /\ job'[k].status \in Terminal
  /\ job'[k].status = "canceled" => job[k].cancel /\ ~job[k].started
  /\ job'[k].status = "indeterminate" => job[k].started
  /\ job'[k].status = "completed" => sends[k] = 1
  /\ job[k].lease = "expired" \/ \E w \in Workers : SettledBy(w, k)

JobMove(k) ==
  \/ SameRow(k) /\ sends'[k] = sends[k]
  \/ Sent(k) \/ Canceled(k) \/ Advanced(k) \/ Committed(k) \/ Settled(k)

LEMMA RowActionMoves ==
  ASSUME Typed, IInv, NEW j \in Jobs, NEW k \in Jobs,
         Submit(j) \/ Cancel(j) \/ LeaseExpires(j)
  PROVE  JobMove(k)
<1>1. results' = results /\ sends' = sends
  BY DEF Submit, Cancel, LeaseExpires, OnlyRows
<1>2. CASE k # j
  BY <1>1, <1>2, TypedFacts DEF Submit, Cancel, LeaseExpires, JobMove, SameRow
<1>3. CASE k = j /\ Submit(j)
  <2>1. /\ job[k].status = "absent" /\ job'[k].status = "queued"
        /\ job'[k].started = job[k].started /\ job'[k].cancel = job[k].cancel
    BY <1>3, TypedFacts DEF Submit, Row
  <2> QED
    BY <1>1, <2>1 DEF JobMove, Advanced, SameFlags
<1>4. CASE k = j /\ Cancel(j)
  BY <1>1, <1>4, TypedFacts, CanceledFields DEF Cancel, JobMove, Canceled
<1>5. CASE k = j /\ LeaseExpires(j)
  <2>1. /\ job[k].status = "running" /\ job'[k].status = "running"
        /\ job'[k].started = job[k].started /\ job'[k].cancel = job[k].cancel
    BY <1>5, TypedFacts DEF LeaseExpires, Row
  <2> QED
    BY <1>1, <2>1 DEF JobMove, Advanced, SameFlags
<1> QED
  BY <1>2, <1>3, <1>4, <1>5

LEMMA SweepMoves ==
  ASSUME Typed, IInv, NEW w \in Workers, NEW k \in Jobs,
         ClaimNone(w) \/ \E j \in Jobs : ClaimJob(w, j)
  PROVE  JobMove(k)
<1>1. results' = results /\ sends' = sends
  BY DEF ClaimNone, ClaimJob, OnlyRows
<1>2. /\ Sweep[k] = SweptRow(job[k]) /\ Sweep[k] \in Row
      /\ Sweep[k].started = job[k].started /\ Sweep[k].cancel = job[k].cancel
      /\ \/ Sweep[k] = job[k]
         \/ /\ job[k].status = "running" /\ job[k].lease = "expired"
            /\ Sweep[k].status = IF job[k].started THEN "indeterminate"
                                 ELSE IF job[k].cancel THEN "canceled"
                                 ELSE "queued"
  BY TypedFacts, SweptFields, SweptRowType DEF Sweep
<1>3. CASE job'[k] = Sweep[k]
  BY <1>1, <1>2, <1>3 DEF JobMove, SameRow, Advanced, Settled, SameFlags, Terminal
<1>4. CASE ClaimJob(w, k)
  <2>1. job'[k] = ClaimedRow(Sweep[k], w) /\ Sweep[k].status = "queued"
    BY <1>4 DEF ClaimJob, Claimable, Sweep
  <2>2. /\ job'[k].status = "running"
        /\ job'[k].started = job[k].started /\ job'[k].cancel = job[k].cancel
    BY <1>2, <2>1, ClaimedFields
  <2>3. job[k].status \in {"queued", "running"}
    BY <1>2, <2>1
  <2> QED
    BY <1>1, <2>2, <2>3 DEF JobMove, Advanced, SameFlags
<1> QED
  BY <1>3, <1>4 DEF ClaimNone, ClaimJob, Sweep

LEMMA WorkerMoves ==
  ASSUME Typed, IInv, NEW w \in Workers, NEW k \in Jobs,
         \/ PrepareFails(w) \/ BeginUpstream(w) \/ BeginUpstreamLost(w)
         \/ SendFails(w) \/ Answered(w) \/ Refused(w) \/ MarkSaving(w)
         \/ ParseFails(w) \/ StoreAsset(w) \/ StoreFails(w)
  PROVE  JobMove(k)
<1> DEFINE j == worker[w].job
<1>1. results' = results /\ sends' = sends
  BY DEF PrepareFails, BeginUpstream, BeginUpstreamLost, SendFails, Answered,
     Refused, MarkSaving, ParseFails, StoreAsset, StoreFails
<1>2. CASE job'[k] = job[k]
  BY <1>1, <1>2 DEF JobMove, SameRow
<1>3. CASE /\ k = j /\ worker[w].pc = "preparing" /\ Dispatchable(w, job[k])
           /\ job'[k] = DispatchedRow(job[k])
  <2>1. job[k].status = "running" /\ ~job[k].started /\ ~job[k].cancel
    BY <1>3 DEF IInv, PreparingInv, Dispatchable, Holds
  <2>2. job'[k].status = "running" /\ job'[k].started = TRUE /\ ~job'[k].cancel
    <3>1. job[k] \in Row /\ job'[k] = DispatchedRow(job[k])
      BY <1>3, TypedFacts
    <3> QED
      BY <2>1, <3>1, DispatchedFields
  <2> QED
    BY <1>1, <2>1, <2>2 DEF JobMove, Committed
<1>4. CASE /\ k = j /\ Holds(w, job[k]) /\ job'[k] = SavingRow(job[k])
  <2>1. /\ job[k].status = "running" /\ job'[k].status = "running"
        /\ job'[k].started = job[k].started /\ job'[k].cancel = job[k].cancel
    BY <1>4, TypedFacts, SavingFields DEF Holds
  <2> QED
    BY <1>1, <2>1 DEF JobMove, Advanced, SameFlags
<1>5. \/ job' = job
      \/ /\ worker[w].pc = "preparing" /\ Dispatchable(w, job[j])
         /\ job' = [job EXCEPT ![j] = DispatchedRow(@)]
      \/ Holds(w, job[j]) /\ job' = [job EXCEPT ![j] = SavingRow(@)]
  BY DEF PrepareFails, BeginUpstream, BeginUpstreamLost, SendFails, Answered,
     Refused, MarkSaving, ParseFails, StoreAsset, StoreFails
<1> QED
  BY <1>2, <1>3, <1>4, <1>5, TypedFacts

LEMMA SendMoves ==
  ASSUME Typed, IInv, NEW w \in Workers, NEW k \in Jobs, SendRequest(w)
  PROVE  JobMove(k)
<1>1. /\ worker[w].pc = "dispatching" /\ job' = job /\ results' = results
      /\ sends' = [sends EXCEPT ![worker[w].job] = @ + 1]
      /\ sends \in [Jobs -> Nat] /\ PastInv(w)
  BY DEF SendRequest, Typed, TypeOK, IInv
<1>2. CASE k # worker[w].job
  BY <1>1, <1>2 DEF JobMove, SameRow
<1>3. CASE k = worker[w].job
  <2>1. /\ sends[k] = 0 /\ job[k].started
        /\ job[k].status \in {"running", "indeterminate"}
    BY <1>1, <1>3 DEF PastInv, PastPC
  <2>2. sends'[k] = 1
    BY <1>1, <1>3, <2>1
  <2> QED
    BY <1>1, <2>1, <2>2 DEF JobMove, Sent, SameRow
<1> QED
  BY <1>2, <1>3

LEMMA SettlingMoves ==
  ASSUME Typed, IInv, NEW w \in Workers, NEW k \in Jobs, Complete(w) \/ Report(w)
  PROVE  JobMove(k)
<1> DEFINE j == worker[w].job
<1>0. sends' = sends /\ j \in Jobs /\ worker[w].pc \in {"failing", "storing"}
  BY TypedFacts DEF Complete, Report, Busy
<1>1. CASE SameRow(k)
  BY <1>0, <1>1 DEF JobMove
<1>2. CASE k = j /\ Holds(w, job[k]) /\ Idle(w)
  <2>1. worker'[w].pc = "idle"
    <3>1. At("idle").pc = "idle"
      BY AtType DEF PC
    <3> QED
      BY <1>2, <3>1, TypedFacts DEF Idle, Processes
  <2>2. job[k].status = "running" /\ SettledBy(w, k)
    BY <1>0, <1>2, <2>1 DEF Holds, SettledBy
  <2>3. CASE Complete(w)
    <3>1. job'[k] = CompletedRow(job[k], worker[w].stored) \/ SameRow(k)
      BY <1>0, <1>2, <2>3, TypedFacts DEF Complete, SameRow
    <3>2. sends[k] = 1
      BY <1>2, <2>3 DEF Complete, IInv, PastInv, PastPC
    <3>3. job'[k] = CompletedRow(job[k], worker[w].stored) =>
            /\ job'[k].status = "completed"
            /\ job'[k].started = job[k].started /\ job'[k].cancel = job[k].cancel
      BY TypedFacts, CompletedFields
    <3> QED
      BY <1>0, <1>1, <2>2, <3>1, <3>2, <3>3 DEF JobMove, Settled, SameFlags, Terminal
  <2>4. CASE Report(w)
    <3> DEFINE v == worker[w].verdict
    <3>0. v \in Verdict /\ v.status \in Terminal /\ v.status # "completed"
      BY TypedFacts DEF Process, Verdict, Terminal
    <3>1. job'[k] = FailedRow(job[k], v) \/ SameRow(k)
      BY <1>0, <1>2, <2>4, TypedFacts DEF Report, SameRow
    <3>2. /\ v.status = "canceled" => job[k].cancel /\ ~job[k].started
          /\ v.status = "indeterminate" => job[k].started
      BY <1>2, <2>4 DEF Report, IInv, FailingInv
    <3>3. job'[k] = FailedRow(job[k], v) =>
            /\ job'[k].status = v.status
            /\ job'[k].started = job[k].started /\ job'[k].cancel = job[k].cancel
      BY <3>0, TypedFacts, FailedFields
    <3> QED
      BY <1>0, <1>1, <2>2, <3>0, <3>1, <3>2, <3>3 DEF JobMove, Settled, SameFlags
  <2> QED
    BY <2>3, <2>4
<1>3. SameRow(k) \/ (k = j /\ Holds(w, job[k]) /\ Idle(w))
  BY <1>0, TypedFacts DEF Complete, Report, SameRow, Typed, TypeOK
<1> QED
  BY <1>1, <1>2, <1>3

LEMMA NextMoves ==
  Typed /\ IInv /\ [Next]_vars => \A k \in Jobs : JobMove(k)
<1> SUFFICES ASSUME Typed, IInv, [Next]_vars, NEW k \in Jobs PROVE JobMove(k)
  OBVIOUS
<1>1. ASSUME NEW w \in Workers, StartWorker(w) \/ Crash(w) PROVE JobMove(k)
  BY <1>1 DEF StartWorker, Crash, JobMove, SameRow
<1>2. ASSUME NEW w \in Workers, WorkerStep(w) PROVE JobMove(k)
  BY <1>2, SweepMoves, WorkerMoves, SendMoves, SettlingMoves DEF WorkerStep
<1>3. CASE UNCHANGED vars
  BY <1>3 DEF vars, JobMove, SameRow
<1> QED
  BY <1>1, <1>2, <1>3, RowActionMoves DEF Next

(* What a user was told of a settled job never changes.                    *)
THEOREM SettledStays == Spec => SettledIsFinal
<1>1. Typed /\ IInv /\ [Next]_vars =>
        [\A j \in Jobs : job[j].status \in Terminal =>
           job'[j] = job[j] /\ results'[j] = results[j]]_vars
  BY NextMoves DEF JobMove, SameRow, Sent, Canceled, Advanced, Committed,
     Settled, Terminal
<1> QED
  BY <1>1, Invariance, PTL DEF Spec, SettledIsFinal

(* An early cancellation stops the upstream call for good.                 *)
THEOREM CancelStopsSend == Spec => EarlyCancelPreventsSend
<1>1. Typed /\ IInv /\ [Next]_vars =>
        [\A j \in Jobs : job[j].cancel /\ ~job[j].started =>
           ~job'[j].started /\ sends'[j] = sends[j]]_vars
  BY NextMoves DEF JobMove, SameRow, Sent, Canceled, Advanced, Committed,
     Settled, SameFlags
<1> QED
  BY <1>1, Invariance, PTL DEF Spec, EarlyCancelPreventsSend

(* Nobody but the holder, the sweep of an expired lease and the            *)
(* cancellation of a queued job settles a job.                             *)
THEOREM HolderSettles == Spec => OutcomeComesFromHolder
<1>1. Typed /\ IInv /\ [Next]_vars =>
        [\A j \in Jobs :
           job[j].status \notin Terminal /\ job'[j].status \in Terminal =>
             \/ job[j].status = "queued"
             \/ job[j].lease = "expired"
             \/ \E w \in Workers :
                  /\ job[j].owner = w /\ worker[w].job = j
                  /\ worker[w].pc \in {"failing", "storing"}
                  /\ worker'[w].pc = "idle"]_vars
  BY NextMoves DEF JobMove, SameRow, Sent, Canceled, Advanced, Committed,
     Settled, SettledBy, Terminal
<1> QED
  BY <1>1, Invariance, PTL DEF Spec, OutcomeComesFromHolder
-----------------------------------------------------------------------------
(***************************************************************************)
(* JobQueue implements JobLifecycle: every step is, for every job, a step  *)
(* of its lifecycle or none.                                               *)
(***************************************************************************)
LEMMA InitLifecycle == Init => Lifecycle!Init
BY DEF Init, EmptyRow, Lifecycle!Init

LEMMA NextLifecycle ==
  Typed /\ IInv /\ [Next]_vars => [Lifecycle!Next]_(Lifecycle!lifecycleVars)
<1> SUFFICES ASSUME Typed, IInv, [Next]_vars, NEW k \in Jobs
             PROVE  Lifecycle!JobStep(k) \/ Lifecycle!Same(k)
  BY DEF Lifecycle!Next
<1>1. JobMove(k)
  BY NextMoves
<1>2. CASE SameRow(k) /\ sends'[k] = sends[k]
  BY <1>2 DEF SameRow, Lifecycle!Same, Lifecycle!SameRest
<1>3. CASE Sent(k)
  BY <1>3 DEF Sent, SameRow, Lifecycle!JobStep, Lifecycle!Send
<1>4. CASE Canceled(k)
  BY <1>4 DEF Canceled, Lifecycle!JobStep, Lifecycle!Cancel
<1>5. CASE Advanced(k)
  BY <1>5 DEF Advanced, SameFlags, Lifecycle!JobStep, Lifecycle!Submit,
     Lifecycle!Start, Lifecycle!Retry, Lifecycle!Same, Lifecycle!SameRest
<1>6. CASE Committed(k)
  BY <1>6 DEF Committed, Lifecycle!JobStep, Lifecycle!Commit
<1>7. CASE Settled(k)
  BY <1>7 DEF Settled, SameFlags, Terminal, Lifecycle!JobStep,
     Lifecycle!Finish, Lifecycle!Final, Lifecycle!SameRest
<1> QED
  BY <1>1, <1>2, <1>3, <1>4, <1>5, <1>6, <1>7 DEF JobMove

(* The queue with its leases, takeovers and crashes keeps the promise of   *)
(* JobLifecycle.                                                           *)
THEOREM ImplementsLifecycle == Spec => KeepsLifecycle
<1> QED
  BY InitLifecycle, NextLifecycle, Invariance, PTL
     DEF Spec, KeepsLifecycle, Lifecycle!Spec
-----------------------------------------------------------------------------
(* What pages are shown of the jobs, and what they rely on.                *)
LEMMA NextServes ==
  Typed /\ IInv /\ [Next]_vars => [Served!Next]_(Served!taskVars)
<1> SUFFICES ASSUME Typed, IInv, [Next]_vars, NEW k \in Jobs
             PROVE  /\ job[k].cancel => job'[k].cancel
                    /\ Served!Open(k) \/ Served!End(k) \/ Served!Rest(k)
  BY DEF Served!Next
<1>1. JobMove(k)
  BY NextMoves
<1>2. CASE SameRow(k) \/ Sent(k)
  BY <1>2 DEF SameRow, Sent, Served!Rest
<1>3. CASE Canceled(k)
  BY <1>3 DEF Canceled, TaskState, Served!End, Served!Ends, Served!Rest
<1>4. CASE Advanced(k) \/ Committed(k)
  BY <1>4 DEF Advanced, SameFlags, Committed, TaskState, Served!Open, Served!Rest
<1>5. CASE Settled(k)
  BY <1>5 DEF Settled, SameFlags, Terminal, TaskState, Served!End, Served!Ends
<1> QED
  BY <1>1, <1>2, <1>3, <1>4, <1>5 DEF JobMove

(* However workers and leases come and go, a page sees a job open once and *)
(* end once, canceled only if that was asked for.                          *)
THEOREM TasksAreServed == Spec => ServesTasks
<1>1. Init => Served!Init
  BY DEF Init, EmptyRow, TaskState, Served!Init
<1> QED
  BY <1>1, NextServes, Invariance, PTL DEF Spec, ServesTasks, Served!Spec
-----------------------------------------------------------------------------
(***************************************************************************)
(* What is stored for a job.  Only one process ever stores for it, and it  *)
(* counts what it stored; so at Complete the process's own images are all  *)
(* there are, in the number it reports.                                    *)
(***************************************************************************)
Stock(j) == {a \in assets : a.job = j}

Tally(w) ==
  LET p == worker[w] IN
  /\ IsFiniteSet(Stock(p.job)) /\ Cardinality(Stock(p.job)) = p.stored
  /\ \A a \in Stock(p.job) : a.worker = w /\ a.index <= p.stored

ProcessStock(w) ==
  /\ worker[w].pc = "preparing" => worker[w].stored = 0
  /\ worker[w].pc \in PastPC => Tally(w)

Shown(j) ==
  IF job[j].status = "completed"
  THEN /\ results[j] = Stock(j) /\ Cardinality(Stock(j)) = job[j].count
       /\ job[j].count > 0
  ELSE results[j] = {}

StockInv ==
  /\ \A w \in Workers : ProcessStock(w)
  /\ \A j \in Jobs : (~job[j].started => Stock(j) = {}) /\ Shown(j)

LEMMA StockOfMore ==
  ASSUME NEW A, NEW a, NEW k
  PROVE  {b \in A \cup {a} : b.job = k} =
           IF a.job = k THEN {b \in A : b.job = k} \cup {a}
                        ELSE {b \in A : b.job = k}
OBVIOUS

(* What becomes of a process in a step that stores and completes nothing.  *)
StockMove(v) ==
  \/ worker'[v] = worker[v]
  \/ worker'[v].pc \notin PastPC \cup {"preparing"}
  \/ worker'[v].pc = "preparing" /\ worker'[v].stored = 0
  \/ /\ worker'[v].job = worker[v].job /\ worker'[v].stored = worker[v].stored
     /\ worker'[v].pc \in PastPC
     /\ \/ worker[v].pc \in PastPC
        \/ worker[v].pc = "preparing" /\ ~job[worker[v].job].started

LEMMA QuietKeepsStock ==
  ASSUME Typed, IInv, StockInv, results' = results, assets' = assets,
         \A v \in Workers : StockMove(v),
         \A k \in Jobs : JobMove(k),
         \A k \in Jobs : job'[k].status = "completed" => job[k].status = "completed"
  PROVE  StockInv'
<1>1. \A j : Stock(j)' = Stock(j)
  BY DEF Stock
<1>2. ASSUME NEW v \in Workers PROVE ProcessStock(v)'
  <2>1. ProcessStock(v) /\ StockMove(v)
    BY DEF StockInv
  <2>2. CASE worker'[v] = worker[v] \/ worker[v].pc \in PastPC
    BY <1>1, <2>1, <2>2 DEF ProcessStock, Tally, StockMove, PastPC
  <2>3. CASE worker[v].pc = "preparing" /\ ~job[worker[v].job].started
             /\ worker'[v].job = worker[v].job
             /\ worker'[v].stored = worker[v].stored
             /\ worker'[v].pc \in PastPC
    <3>1. worker[v].job \in Jobs
      BY <2>3, TypedFacts DEF Busy
    <3>2. Stock(worker[v].job) = {} /\ worker[v].stored = 0
      BY <2>1, <2>3, <3>1 DEF StockInv, ProcessStock
    <3> QED
      BY <1>1, <2>3, <3>2, FS_EmptySet DEF ProcessStock, Tally, PastPC
  <2>4. CASE worker'[v].pc \notin PastPC
    BY <2>1, <2>4 DEF ProcessStock, StockMove
  <2> QED
    BY <2>1, <2>2, <2>3, <2>4 DEF StockMove, PastPC
<1>3. ASSUME NEW k \in Jobs, ~job'[k].started PROVE Stock(k)' = {}
  <2>1. ~job[k].started
    BY <1>3 DEF JobMove, SameRow, Sent, Canceled, Advanced, SameFlags,
       Committed, Settled
  <2> QED
    BY <1>1, <2>1 DEF StockInv
<1>4. ASSUME NEW k \in Jobs PROVE Shown(k)'
  <2>1. job[k].status = "completed" => job'[k] = job[k]
    BY DEF JobMove, SameRow, Sent, Canceled, Advanced, Committed, Settled
  <2> QED
    BY <1>1, <2>1 DEF StockInv, Shown
<1> QED
  BY <1>2, <1>3, <1>4 DEF StockInv

LEMMA GotoStock ==
  ASSUME Typed, NEW w \in Workers, NEW pc \in PastPC, Goto(w, pc),
         \/ worker[w].pc \in PastPC
         \/ worker[w].pc = "preparing" /\ ~job[worker[w].job].started
  PROVE  \A v \in Workers : StockMove(v)
<1>1. worker[w] \in Process /\ pc \in PC
  BY TypedFacts DEF PastPC, PC
<1>2. /\ worker'[w].pc = pc /\ worker'[w].job = worker[w].job
      /\ worker'[w].stored = worker[w].stored
  BY <1>1, TypedFacts DEF Goto, Processes, Process
<1>3. \A v \in Workers \ {w} : worker'[v] = worker[v]
  BY TypedFacts DEF Goto, Processes
<1> QED
  BY <1>2, <1>3 DEF StockMove

LEMMA FailingStock ==
  ASSUME Typed, NEW w \in Workers,
         NEW s \in {"failed", "indeterminate", "canceled"}, NEW c \in Code,
         Failing(w, s, c)
  PROVE  \A v \in Workers : StockMove(v)
<1>1. Moved(w, "failing")
  BY FailingMoves, TypedFacts
<1> QED
  BY <1>1 DEF Moved, StockMove, PastPC

LEMMA LeaveStock ==
  ASSUME Typed, NEW w \in Workers, Idle(w) \/ Exit(w)
  PROVE  \A v \in Workers : StockMove(v)
BY LeaveMoves, TypedFacts DEF StockMove, PastPC

(* The rows' side of it: only Complete completes.                          *)
NothingCompletes ==
  /\ results' = results /\ assets' = assets
  /\ \A k \in Jobs : job'[k].status = "completed" => job[k].status = "completed"

LEMMA RowsStock ==
  ASSUME Typed, NEW j \in Jobs, Submit(j) \/ Cancel(j) \/ LeaseExpires(j)
  PROVE  NothingCompletes /\ \A v \in Workers : StockMove(v)
<1>1. results' = results /\ assets' = assets /\ worker' = worker
  BY DEF Submit, Cancel, LeaseExpires, OnlyRows
<1>2. CASE Submit(j)
  <2>1. job'[j].status = "queued"
    BY <1>2, TypedFacts DEF Submit, Row
  <2> QED
    BY <1>1, <1>2, <2>1, TypedFacts DEF Submit, NothingCompletes, StockMove
<1>3. CASE Cancel(j)
  <2>1. job'[j] = CanceledRow(job[j]) /\ CanceledRow(job[j]).status # "completed"
    BY <1>3, CanceledFields, TypedFacts DEF Cancel
  <2> QED
    BY <1>1, <1>3, <2>1, TypedFacts DEF Cancel, NothingCompletes, StockMove
<1>4. CASE LeaseExpires(j)
  <2>1. job'[j].status = job[j].status
    BY <1>4, TypedFacts DEF LeaseExpires, Row
  <2> QED
    BY <1>1, <1>4, <2>1, TypedFacts DEF LeaseExpires, NothingCompletes, StockMove
<1> QED
  BY <1>2, <1>3, <1>4

LEMMA ClaimStock ==
  ASSUME Typed, NEW w \in Workers,
         ClaimNone(w) \/ \E j \in Jobs : ClaimJob(w, j)
  PROVE  NothingCompletes /\ \A v \in Workers : StockMove(v)
<1>1. \A k \in Jobs : /\ Sweep[k] = SweptRow(job[k]) /\ Sweep[k] \in Row
                      /\ Sweep[k].status = "completed" => job[k].status = "completed"
  BY TypedFacts, SweptFields, SweptRowType DEF Sweep
<1>2. CASE ClaimNone(w)
  BY <1>1, <1>2 DEF ClaimNone, OnlyRows, NothingCompletes, StockMove
<1>3. ASSUME NEW j \in Jobs, ClaimJob(w, j)
      PROVE  NothingCompletes /\ \A v \in Workers : StockMove(v)
  <2>1. \A k \in Jobs : job'[k] = IF k = j THEN ClaimedRow(Sweep[j], w) ELSE Sweep[k]
    BY <1>3 DEF ClaimJob, Sweep
  <2>2. ClaimedRow(Sweep[j], w).status = "running"
    BY <1>1, ClaimedFields
  <2>3. NothingCompletes
    BY <1>1, <1>3, <2>1, <2>2 DEF ClaimJob, NothingCompletes
  <2>4. LET p == [At("preparing") EXCEPT !.job = j] IN p.pc = "preparing" /\ p.stored = 0
    BY DEF At
  <2>5. \A v \in Workers : StockMove(v)
    BY <1>3, <2>4, TypedFacts DEF ClaimJob, StockMove, Processes
  <2> QED
    BY <2>3, <2>5
<1> QED
  BY <1>2, <1>3

LEMMA DispatchStock ==
  ASSUME Typed, IInv, NEW w \in Workers,
         BeginUpstream(w) \/ BeginUpstreamLost(w) \/ MarkSaving(w)
  PROVE  NothingCompletes /\ \A v \in Workers : StockMove(v)
<1> DEFINE j == worker[w].job
<1>1. j \in Jobs /\ results' = results /\ assets' = assets
  BY TypedFacts DEF BeginUpstream, BeginUpstreamLost, MarkSaving, Busy
<1>2. /\ DispatchedRow(job[j]).status = job[j].status
      /\ SavingRow(job[j]).status = job[j].status
  BY <1>1, TypedFacts, DispatchedFields, SavingFields
<1>3. \/ job' = job
      \/ job' = [job EXCEPT ![j] = DispatchedRow(@)]
      \/ job' = [job EXCEPT ![j] = SavingRow(@)]
  BY DEF BeginUpstream, BeginUpstreamLost, MarkSaving
<1>4. NothingCompletes
  BY <1>1, <1>2, <1>3, TypedFacts DEF NothingCompletes
<1>5. CASE Goto(w, "dispatching") /\ worker[w].pc = "preparing"
           /\ Dispatchable(w, job[j])
  <2>1. ~job[j].started
    BY <1>5 DEF IInv, PreparingInv, Dispatchable
  <2> QED
    BY <1>4, <1>5, <2>1, GotoStock DEF PastPC
<1>6. CASE Goto(w, "storing") /\ worker[w].pc = "answered"
  BY <1>4, <1>6, GotoStock DEF PastPC
<1>7. CASE \/ Failing(w, "canceled", "canceled_before_dispatch")
           \/ Failing(w, "failed", "canceled_before_dispatch")
  BY <1>4, <1>7, FailingStock DEF Code
<1>8. CASE Exit(w)
  BY <1>4, <1>8, LeaveStock
<1> QED
  BY <1>5, <1>6, <1>7, <1>8 DEF BeginUpstream, BeginUpstreamLost, MarkSaving

LEMMA CallStock ==
  ASSUME Typed, NEW w \in Workers,
         \/ StartWorker(w) \/ Crash(w) \/ PrepareFails(w) \/ SendRequest(w)
         \/ SendFails(w) \/ Answered(w) \/ Refused(w) \/ ParseFails(w)
         \/ StoreFails(w)
  PROVE  NothingCompletes /\ \A v \in Workers : StockMove(v)
<1>1. NothingCompletes
  BY DEF StartWorker, Crash, PrepareFails, SendRequest, SendFails, Answered,
     Refused, ParseFails, StoreFails, NothingCompletes
<1>2. CASE StartWorker(w) \/ Crash(w)
  BY <1>1, <1>2, LeaveStock DEF StartWorker, Crash
<1>3. CASE \/ PrepareFails(w) \/ SendFails(w) \/ Refused(w) \/ ParseFails(w)
           \/ StoreFails(w)
  <2>1. {"preparation_failed", "upstream_error", "official_outcome_unknown",
         "invalid_official_result", "result_storage_failed"} \subseteq Code
    BY DEF Code
  <2> QED
    BY <1>1, <1>3, <2>1, FailingStock DEF PrepareFails, SendFails, Refused,
       ParseFails, StoreFails
<1>4. CASE SendRequest(w)
  BY <1>1, <1>4, GotoStock DEF SendRequest, PastPC
<1>5. CASE Answered(w)
  <2>1. PICK n \in 0..MaxOutputs :
          worker' = [worker EXCEPT ![w] = [@ EXCEPT !.pc = "answered", !.outputs = n]]
    BY <1>5 DEF Answered
  <2>2. worker[w] \in Process
    BY TypedFacts
  <2>3. /\ worker'[w].pc = "answered" /\ worker'[w].job = worker[w].job
        /\ worker'[w].stored = worker[w].stored
    BY <2>1, <2>2, TypedFacts DEF Processes, Process
  <2>4. \A v \in Workers \ {w} : worker'[v] = worker[v]
    BY <2>1, TypedFacts DEF Processes
  <2> QED
    BY <1>1, <1>5, <2>3, <2>4 DEF Answered, StockMove, PastPC
<1> QED
  BY <1>1, <1>2, <1>3, <1>4, <1>5

LEMMA ReportStock ==
  ASSUME Typed, NEW w \in Workers, Report(w)
  PROVE  NothingCompletes /\ \A v \in Workers : StockMove(v)
<1> DEFINE j == worker[w].job
           u == worker[w].verdict
<1>1. j \in Jobs /\ u \in Verdict
  BY TypedFacts DEF Report, Busy, Process
<1>2. FailedRow(job[j], u).status # "completed"
  BY <1>1, TypedFacts, FailedFields DEF Verdict
<1>3. NothingCompletes
  BY <1>1, <1>2, TypedFacts DEF Report, NothingCompletes
<1> QED
  BY <1>3, LeaveStock DEF Report

(* The next image of the one process that stores for the job.              *)
LEMMA StoreKeepsStock ==
  ASSUME Typed, IInv, StockInv, NEW w \in Workers, StoreAsset(w)
  PROVE  StockInv'
<1> DEFINE j == worker[w].job
           a == NextAsset(w)
<1>1. /\ worker[w].pc = "storing" /\ j \in Jobs /\ worker[w].stored \in Nat
      /\ job' = job /\ results' = results /\ assets' = assets \cup {a}
      /\ assets \subseteq Asset
  BY TypedFacts, OutputsAssumption DEF StoreAsset, Busy, Process, Typed, TypeOK
<1>2. a.job = j /\ a.worker = w /\ a.index = worker[w].stored + 1
  BY DEF NextAsset
<1>3. Tally(w) /\ PastInv(w)
  BY <1>1 DEF StockInv, ProcessStock, PastPC, IInv
<1>4. /\ \A v \in Workers \ {w} : worker'[v] = worker[v]
      /\ worker'[w].pc = "storing" /\ worker'[w].job = j
      /\ worker'[w].stored = worker[w].stored + 1
  <2>1. worker[w] \in Process
    BY TypedFacts
  <2> QED
    BY <1>1, <2>1, TypedFacts DEF StoreAsset, Processes, Process
<1> HIDE DEF a
<1>5. Stock(j)' = Stock(j) \cup {a} /\ \A k \in Jobs \ {j} : Stock(k)' = Stock(k)
  <2>1. ASSUME NEW k
        PROVE  Stock(k)' = IF a.job = k THEN Stock(k) \cup {a} ELSE Stock(k)
    <3>1. Stock(k)' = {b \in assets \cup {a} : b.job = k}
      BY <1>1 DEF Stock
    <3>2. Stock(k) = {b \in assets : b.job = k}
      BY DEF Stock
    <3> QED
      BY <3>1, <3>2, StockOfMore
  <2> QED
    BY <1>2, <1>4, <2>1
<1>6. Tally(w)'
  <2>1. a \notin Stock(j)
    BY <1>1, <1>2, <1>3 DEF Tally
  <2>2. /\ IsFiniteSet(Stock(j) \cup {a})
        /\ Cardinality(Stock(j) \cup {a}) = worker[w].stored + 1
    BY <1>3, <2>1, FS_AddElement DEF Tally
  <2>3. \A b \in Stock(j) : b.index \in Nat
    BY <1>1, OutputsAssumption DEF Stock, Asset
  <2>4. \A b \in Stock(j) \cup {a} : b.worker = w /\ b.index <= worker[w].stored + 1
    BY <1>1, <1>2, <1>3, <2>3 DEF Tally
  <2> QED
    BY <1>4, <1>5, <2>2, <2>4 DEF Tally
<1>7. ASSUME NEW v \in Workers PROVE ProcessStock(v)'
  <2>1. CASE v = w
    BY <1>4, <1>6, <2>1 DEF ProcessStock
  <2>2. CASE v # w
    <3>1. worker'[v] = worker[v] /\ ProcessStock(v)
      BY <1>4, <2>2 DEF StockInv
    <3>2. worker[v].pc \in PastPC => worker[v].job \in Jobs \ {j}
      BY <1>1, <2>2, TypedFacts DEF IInv, OneDispatcher, PastDispatch, PastPC, Busy
    <3> QED
      BY <1>5, <3>1, <3>2 DEF ProcessStock, Tally
  <2> QED
    BY <2>1, <2>2
<1>8. /\ job[j].started /\ job[j].status # "completed"
  BY <1>1, <1>3 DEF PastInv, PastPC
<1>9. ASSUME NEW k \in Jobs, ~job'[k].started PROVE Stock(k)' = {}
  BY <1>1, <1>5, <1>8, <1>9 DEF StockInv
<1>10. ASSUME NEW k \in Jobs PROVE Shown(k)'
  BY <1>1, <1>5, <1>8 DEF StockInv, Shown
<1> QED
  BY <1>7, <1>9, <1>10 DEF StockInv

(* The holder completes with all that is stored for its job.               *)
LEMMA CompleteKeepsStock ==
  ASSUME Typed, IInv, StockInv, NEW w \in Workers, Complete(w)
  PROVE  StockInv'
<1> DEFINE j == worker[w].job
           n == worker[w].stored
<1>1. /\ worker[w].pc = "storing" /\ j \in Jobs /\ n \in Nat /\ n > 0
      /\ assets' = assets
  BY TypedFacts, OutputsAssumption DEF Complete, Busy, Process
<1>2. \A k \in Jobs : JobMove(k)
  BY SettlingMoves
<1>3. \A v \in Workers : StockMove(v)
  BY LeaveStock DEF Complete
<1>4. CASE job' = job /\ results' = results
  BY <1>1, <1>2, <1>3, <1>4, QuietKeepsStock
<1>5. CASE /\ job' = [job EXCEPT ![j] = CompletedRow(@, n)]
           /\ results' = [results EXCEPT ![j] = CreatedBy(w)] /\ Idle(w)
  <2>1. Tally(w) /\ PastInv(w)
    BY <1>1 DEF StockInv, ProcessStock, PastPC, IInv
  <2>2. CreatedBy(w) = Stock(j) /\ Cardinality(Stock(j)) = n
    BY <2>1 DEF Tally, CreatedBy, Stock
  <2>3. /\ CompletedRow(job[j], n).status = "completed"
        /\ CompletedRow(job[j], n).started = job[j].started
    BY <1>1, TypedFacts, CompletedFields
  <2>4. CompletedRow(job[j], n).count = n
    BY <1>1, TypedFacts DEF CompletedRow, Released, Row
  <2>5. \A k : Stock(k)' = Stock(k)
    BY <1>1 DEF Stock
  <2>6. /\ job'[j] = CompletedRow(job[j], n) /\ results'[j] = Stock(j)
        /\ \A k \in Jobs \ {j} : job'[k] = job[k] /\ results'[k] = results[k]
    BY <1>1, <1>5, <2>2, TypedFacts DEF Typed, TypeOK
  <2>7. ASSUME NEW k \in Jobs PROVE Shown(k)'
    <3>1. CASE k = j
      BY <1>1, <2>2, <2>3, <2>4, <2>5, <2>6, <3>1 DEF Shown
    <3>2. CASE k # j
      BY <2>5, <2>6, <3>2 DEF StockInv, Shown
    <3> QED
      BY <3>1, <3>2
  <2>8. \A k \in Jobs : ~job'[k].started => Stock(k)' = {}
    BY <2>3, <2>5, <2>6 DEF StockInv
  <2>9. \A v \in Workers : ProcessStock(v)'
    <3>1. /\ \A v \in Workers \ {w} : worker'[v] = worker[v]
          /\ worker'[w].pc \in {"idle", "dead"}
      BY <1>5, LeaveMoves, TypedFacts
    <3> QED
      BY <2>5, <3>1 DEF StockInv, ProcessStock, Tally, PastPC
  <2> QED
    BY <2>7, <2>8, <2>9 DEF StockInv
<1> QED
  BY <1>4, <1>5 DEF Complete

LEMMA NextKeepsStock ==
  Typed /\ IInv /\ StockInv /\ [Next]_vars => StockInv'
<1> SUFFICES ASSUME Typed, IInv, StockInv, [Next]_vars PROVE StockInv'
  OBVIOUS
<1>1. CASE NothingCompletes /\ \A v \in Workers : StockMove(v)
  BY <1>1, NextMoves, QuietKeepsStock DEF NothingCompletes
<1>2. CASE UNCHANGED vars
  BY <1>1, <1>2 DEF vars, NothingCompletes, StockMove
<1>3. ASSUME NEW j \in Jobs, Submit(j) \/ Cancel(j) \/ LeaseExpires(j)
      PROVE  StockInv'
  BY <1>1, <1>3, RowsStock
<1>4. ASSUME NEW w \in Workers, StartWorker(w) \/ Crash(w) PROVE StockInv'
  BY <1>1, <1>4, CallStock
<1>5. ASSUME NEW w \in Workers, WorkerStep(w) PROVE StockInv'
  BY <1>1, <1>5, ClaimStock, DispatchStock, CallStock, ReportStock,
     StoreKeepsStock, CompleteKeepsStock DEF WorkerStep
<1> QED
  BY <1>2, <1>3, <1>4, <1>5 DEF Next

(* A completed job shows all that was stored for it, in the number it      *)
(* reports, and no other job shows anything (Complete).                    *)
THEOREM ResultsAreAssets == Spec => []ResultsMatchAssets
<1>1. Init => StockInv
  <2> SUFFICES ASSUME Init PROVE StockInv
    OBVIOUS
  <2>1. At("unborn").pc = "unborn" /\ EmptyRow.status = "absent"
    BY AtType DEF PC, EmptyRow
  <2> QED
    BY <2>1 DEF Init, StockInv, ProcessStock, PastPC, Stock, Shown
<1>2. (Typed /\ IInv) /\ StockInv /\ [Next]_vars => StockInv'
  BY NextKeepsStock
<1>3. StockInv => ResultsMatchAssets
  BY DEF StockInv, Shown, Stock, ResultsMatchAssets
<1> QED
  BY <1>1, <1>2, <1>3, Invariance, PTL DEF Spec
=============================================================================
