----------------------------- MODULE ImageJobs -----------------------------
(***************************************************************************)
(* The image-job service as a whole: the handlers of POST /jobs and the    *)
(* queue with its workers, which meet in one table.  The INSERT of a       *)
(* handler (job.Service.Create) is the row the workers claim, and a        *)
(* picture is stored only in a project that has not been deleted           *)
(* (asset.Service.Create).                                                 *)
(***************************************************************************)
EXTENDS JobAdmission, JobQueue

(* A row is named after the call that inserted it.                         *)
ASSUME RowsAssumption == Jobs = Calls

VARIABLE cleared  \* processes that have found the job's credential active

imageVars == <<admissionVars, vars, cleared>>

ImageInit == AdmissionInit /\ Init /\ cleared = {}

(* The same transaction, seen by the handler and by the queue.             *)
CreateJob(c) == InsertJob(c) /\ Submit(c) /\ UNCHANGED cleared

(* RunOnce looks at the credential once, between Claim and BeginUpstream;  *)
(* one that is not active is among the reasons of PrepareFails.            *)
FindCredential(w) ==
  /\ worker[w].pc = "preparing" /\ w \notin cleared /\ usable
  /\ cleared' = cleared \cup {w}
  /\ UNCHANGED <<admissionVars, vars>>

(* asset.Create resolves the project in the transaction of the picture.    *)
Work(w) ==
  /\ WorkerStep(w)
  /\ BeginUpstream(w) \/ BeginUpstreamLost(w) => w \in cleared
  /\ assets' # assets => project

Forgotten == cleared' = {w \in cleared : worker'[w].pc = "preparing"}

ImageNext ==
  \/ \E c \in Calls : CreateJob(c)
  \/ \E w \in Workers : FindCredential(w)
  \/ /\ \/ \E c \in Calls : CallReads(c)
        \/ \E a \in Admins : AdminStep(a)
        \/ DeleteProject \/ EndCredential \/ BindCredential
     /\ UNCHANGED <<vars, cleared>>
  \/ /\ \/ \E j \in Jobs : Cancel(j) \/ LeaseExpires(j)
        \/ \E w \in Workers : StartWorker(w) \/ Crash(w) \/ Work(w)
     /\ Forgotten /\ UNCHANGED admissionVars

ImageSpec == ImageInit /\ [][ImageNext]_imageVars
-----------------------------------------------------------------------------
(* One Idempotency-Key costs at most one upstream request, however often   *)
(* the client repeats the call, whatever the repetition asks for, and      *)
(* however often workers die or take the job over: the unique index that   *)
(* Create inserts against, together with the queue's upstream_started_at.  *)
OneRequestPerKey ==
  \A c, d \in Calls :
    /\ sends[c] > 0 /\ sends[d] > 0
    /\ call[c].ask.key = call[d].ask.key
    => c = d /\ sends[c] = 1

(* Whoever was given a job that is now canceled can be sure that nothing   *)
(* was spent for its key, neither by this call nor by another one with the *)
(* same key.                                                               *)
CanceledKeyIsFree ==
  \A c, d \in Calls :
    /\ call[c].pc = "accepted" /\ job[call[c].job].status = "canceled"
    /\ call[d].ask.key = call[c].ask.key
    => sends[d] = 0

(* Answers and rows agree, although a commit may go unanswered: the job of *)
(* an accepted call is in the queue, and only a call that was accepted, or *)
(* that failed, has a row of its own there.  So a refusal costs nothing,   *)
(* and no handler inserts a second row (Create and its transaction).       *)
AnswersMatchRows ==
  \A c \in Calls :
    /\ call[c].pc = "accepted" => job[call[c].job].status # "absent"
    /\ job[c].status # "absent" => call[c].pc \in {"accepted", "failed"}

(* Whether a worker has the job, which Get tells as well, may be taken     *)
(* back when a lease runs out, and is nobody's promise.                    *)
Outcome(status) == IF status \in {"queued", "running"} THEN "open" ELSE status

ShownFor(k) ==
  {[job |-> j.id, state |-> Outcome(job[j.id].status)] : j \in {i \in jobs : i.key = k}}

(* The upstream requests made for the calls with the key, counted by call. *)
SpentFor(k) ==
  UNION {{<<c, n>> : n \in 1..sends[c]} : c \in {d \in Calls : call[d].ask.key = k}}

GivenFor(k) ==
  {call[c].job : c \in {d \in Calls : call[d].pc = "accepted" /\ call[d].ask.key = k}}

Keyed == INSTANCE KeyedService WITH
  Jobs <- Calls,
  shown <- [k \in Keys |-> ShownFor(k)],
  spent <- [k \in Keys |-> SpentFor(k)],
  given <- [k \in Keys |-> GivenFor(k)]

(* The service as a whole, with repeated calls, policies that change,      *)
(* crashing workers and leases, keeps the promise of KeyedService: a key   *)
(* gets one job, every acceptance names it, one upstream request is made   *)
(* for the key, and the outcome that Get shows does not change and does    *)
(* not belie what was spent.                                               *)
KeepsPromise == Keyed!Spec
=============================================================================
