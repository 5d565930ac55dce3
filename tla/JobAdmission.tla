---------------------------- MODULE JobAdmission ----------------------------
(***************************************************************************)
(* How an image job gets into the queue: the handler of POST /jobs         *)
(* (job.Service.Create), the model policy it is checked against            *)
(* (policy.Repository.Get and Update) and the administrators who edit it.  *)
(*                                                                         *)
(* Create checks the project, the credential and the policy in separate    *)
(* queries and only the final INSERT is a transaction, so a call works     *)
(* from facts that may have ceased to hold; policy.Get itself is two       *)
(* queries, the policy row first and its items second.                     *)
(***************************************************************************)
EXTENDS Naturals, Sequences

CONSTANTS
  Calls,     \* requests POST /jobs of one user, client retries among them
  Admins,    \* administrators with the model management page open
  Keys,      \* Idempotency-Key values
  Prompts,   \* prompts, standing for all of the request but its parameters
  Sizes,     \* sizes, standing for the parameters a capability lists
  Unset,     \* the parameter is empty: left to the default, or to upstream
  Offers,    \* the policy items an administrator may save
  MaxEdits   \* bound on the policy edits

Size == Sizes \cup {Unset}

(* One model of the policy: item.enabled, the capability's sizes and its   *)
(* default.  validateModels does not ask that a default be listed.         *)
Offer == [on : BOOLEAN, sizes : SUBSET Sizes, default : Size]
Policy == [version : Nat \ {0}, enabled : BOOLEAN, offer : Offer]

ASSUME UnsetAssumption == Unset \notin Sizes
ASSUME OffersAssumption == Offers \subseteq Offer /\ Offers # {}
ASSUME EditsAssumption == MaxEdits \in Nat

VARIABLES
  policy,   \* canvas_model_policies and canvas_model_policy_items
  audits,   \* canvas_model_policy_audits, and what the editor was shown
  project,  \* the project is not deleted
  usable,   \* the credential is bound and active
  jobs,     \* the jobs created, each with its key and digest
  call,     \* [Calls -> where the handler stands and what it has read]
  admin     \* [Admins -> the page and the policy it has loaded]

admissionVars == <<policy, audits, project, usable, jobs, call, admin>>

Ask == [key : Keys, prompt : Prompts, size : Size]

(* A row of canvas_jobs; "size" is the parameter after the defaults and is *)
(* digested with the prompt.  "id" is the call that inserted the row and   *)
(* "edits" the number of policy edits before it (history).                 *)
Job == [id : Calls, key : Keys, prompt : Prompts, size : Size,
        version : Nat \ {0}, edits : Nat]

(* The handler's steps, in the order of Create, and its answers.           *)
Step == {"project", "credential", "policy", "items", "insert"}
Answer == {"accepted", "rejected", "conflict", "failed"}

(* "version" and "enabled" are what policy.Get read of the policy row and  *)
(* "size" the size after the defaults, while the handler runs; "job" is    *)
(* the job it answered with, or the call itself; "since" is what the call  *)
(* found on arrival: the edits so far and the project (history).           *)
Call == [pc : {"unsent"} \cup Step \cup Answer, ask : Ask,
         version : Nat, enabled : BOOLEAN, size : Size, job : Calls,
         since : [edits : Nat, project : BOOLEAN]]

Unsent(c, ask) ==
  [pc |-> "unsent", ask |-> ask, version |-> 0, enabled |-> FALSE,
   size |-> Unset, job |-> c, since |-> [edits |-> 0, project |-> TRUE]]

Page == [pc : {"away", "reading", "editing"}, got : Policy]

(* One policy edit: the version and policy it replaced and the policy it   *)
(* saved, as audited; "shown" is what the administrator had on the page.   *)
Audit == [shown : Policy, before : Policy, after : Policy]

Edits == Len(audits)

(* The policy in force after n edits.                                      *)
InForce(n) == IF n = Edits THEN policy ELSE audits[n + 1].before

(* The first policy, with a model, is part of the migrations (001_core.sql *)
(* and 002_default_policy.sql).                                            *)
AdmissionInit ==
  /\ \E offer \in Offers :
       policy = [version |-> 1, enabled |-> TRUE, offer |-> offer]
  /\ audits = <<>>
  /\ project = TRUE
  /\ usable = TRUE
  /\ jobs = {}
  /\ \E ask \in [Calls -> Ask] : call = [c \in Calls |-> Unsent(c, ask[c])]
  /\ admin = [a \in Admins |-> [pc |-> "away", got |-> policy]]
-----------------------------------------------------------------------------
(* The administrators.  Opening or reloading the page is policy.Get: the   *)
(* policy row is read first, the items in a second query.                  *)

OpenPage(a) ==
  /\ admin[a].pc # "reading"
  /\ admin' = [admin EXCEPT ![a] = [pc |-> "reading", got |-> policy]]
  /\ UNCHANGED <<policy, audits, project, usable, jobs, call>>

(* Faulty variant: policy.Get reads the items first and the row last.      *)
ShowPageRowLast(a) ==
  /\ admin[a].pc = "reading"
  /\ admin' = [admin EXCEPT ![a] = [pc |-> "editing",
                 got |-> [policy EXCEPT !.offer = admin[a].got.offer]]]
  /\ UNCHANGED <<policy, audits, project, usable, jobs, call>>

ShowPage(a) ==
  /\ admin[a].pc = "reading"
  /\ admin' = [admin EXCEPT ![a].pc = "editing",
                            ![a].got.offer = policy.offer]
  /\ UNCHANGED <<policy, audits, project, usable, jobs, call>>

SavedPolicy(enabled, offer) ==
  [version |-> policy.version + 1, enabled |-> enabled, offer |-> offer]

UpToDate(a) == policy.version = admin[a].got.version

(* policy.Repository.Update: one transaction that locks the policy row,    *)
(* replaces row and items and writes the audit.  A page that is not up to  *)
(* date is answered with policy_version_conflict and nothing changes.  The *)
(* page continues from the saved policy, or, if the answer is lost, still  *)
(* holds the one it had loaded.                                            *)
SavePolicy(a, enabled, offer) ==
  LET next == SavedPolicy(enabled, offer)
  IN  /\ admin[a].pc = "editing" /\ UpToDate(a)
      /\ Edits < MaxEdits
      /\ policy' = next
      /\ audits' = Append(audits, [shown |-> admin[a].got,
                                   before |-> policy, after |-> next])
      /\ \E answered \in BOOLEAN :
           admin' = IF answered THEN [admin EXCEPT ![a].got = next] ELSE admin
      /\ UNCHANGED <<project, usable, jobs, call>>
-----------------------------------------------------------------------------
(* The user's other tabs and the worker: project.Repository.Delete,        *)
(* credential.Repository.Delete or Disable, and Upsert.                    *)

DeleteProject ==
  /\ project
  /\ project' = FALSE
  /\ UNCHANGED <<policy, audits, usable, jobs, call, admin>>

EndCredential ==
  /\ usable
  /\ usable' = FALSE
  /\ UNCHANGED <<policy, audits, project, jobs, call, admin>>

BindCredential ==
  /\ ~usable
  /\ usable' = TRUE
  /\ UNCHANGED <<policy, audits, project, jobs, call, admin>>
-----------------------------------------------------------------------------
(* The handler of POST /jobs.                                              *)

OnlyCall == UNCHANGED <<policy, audits, project, usable, jobs, admin>>

(* A handler that answers forgets what it has read.                        *)
CallAnswered(c, answer, job) ==
  call' = [call EXCEPT ![c] = [@ EXCEPT !.pc = answer, !.job = job,
             !.version = 0, !.enabled = FALSE, !.size = Unset]]

Proceed(c, pc) == call' = [call EXCEPT ![c].pc = pc]
Reject(c) == CallAnswered(c, "rejected", c)

Arrive(c) ==
  /\ call[c].pc = "unsent"
  /\ call' = [call EXCEPT ![c].pc = "project",
                          ![c].since = [edits |-> Edits, project |-> project]]
  /\ OnlyCall

CheckProject(c) ==
  /\ call[c].pc = "project"
  /\ IF project THEN Proceed(c, "credential") ELSE Reject(c)
  /\ OnlyCall

CheckCredential(c) ==
  /\ call[c].pc = "credential"
  /\ IF usable THEN Proceed(c, "policy") ELSE Reject(c)
  /\ OnlyCall

ReadPolicy(c) ==
  /\ call[c].pc = "policy"
  /\ call' = [call EXCEPT ![c].pc = "items",
                          ![c].version = policy.version,
                          ![c].enabled = policy.enabled]
  /\ OnlyCall

(* Faulty variant: the global switch is not consulted.                     *)
SelectsEvenDisabled(enabled, offer) == offer.on

(* selectCapability, applyDefaults and validateParameters.                 *)
Selects(enabled, offer) == enabled /\ offer.on
Effective(size, offer) == IF size = Unset THEN offer.default ELSE size
Allowed(size, offer) == size = Unset \/ size \in offer.sizes

ReadItems(c) ==
  LET size == Effective(call[c].ask.size, policy.offer)
  IN  /\ call[c].pc = "items"
      /\ IF /\ Selects(call[c].enabled, policy.offer)
            /\ Allowed(size, policy.offer)
           THEN call' = [call EXCEPT ![c].pc = "insert", ![c].size = size]
           ELSE Reject(c)
      /\ OnlyCall

NewJob(c) ==
  [id |-> c, key |-> call[c].ask.key, prompt |-> call[c].ask.prompt,
   size |-> call[c].size, version |-> call[c].version, edits |-> Edits]

(* Faulty variant: the digest of the prompt is not compared.               *)
SameRequestByParameters(c, j) == j.size = call[c].size

SameRequest(c, j) == j.prompt = call[c].ask.prompt /\ j.size = call[c].size

(* Faulty variant: the unique index is on the key and the digest.          *)
ExistingOfSameRequest(c) ==
  {j \in jobs : j.key = call[c].ask.key /\ SameRequest(c, j)}

(* ON CONFLICT (external_user_id, idempotency_key_hash)                    *)
Existing(c) == {j \in jobs : j.key = call[c].ask.key}

InsertJob(c) ==
  /\ call[c].pc = "insert" /\ Existing(c) = {}
  /\ jobs' = jobs \cup {NewJob(c)}
  /\ \/ CallAnswered(c, "accepted", c)
     \/ CallAnswered(c, "failed", c)  \* the commit is not answered, or the read
  /\ UNCHANGED <<policy, audits, project, usable, admin>>

FindJob(c) ==
  /\ call[c].pc = "insert"
  /\ \E j \in Existing(c) :
       IF SameRequest(c, j) THEN CallAnswered(c, "accepted", j.id)
                            ELSE CallAnswered(c, "conflict", c)
  /\ OnlyCall

(* A query fails, or the client goes away, before anything is committed.   *)
CallFails(c) ==
  /\ call[c].pc \in Step
  /\ CallAnswered(c, "failed", c)
  /\ OnlyCall
-----------------------------------------------------------------------------
(* The steps that leave canvas_jobs alone.                                 *)
CallReads(c) ==
  \/ Arrive(c) \/ CheckProject(c) \/ CheckCredential(c)
  \/ ReadPolicy(c) \/ ReadItems(c)
  \/ FindJob(c) \/ CallFails(c)

CallStep(c) == CallReads(c) \/ InsertJob(c)

AdminStep(a) ==
  \/ OpenPage(a) \/ ShowPage(a)
  \/ \E enabled \in BOOLEAN, offer \in Offers : SavePolicy(a, enabled, offer)

AdmissionNext ==
  \/ \E c \in Calls : CallStep(c)
  \/ \E a \in Admins : AdminStep(a)
  \/ DeleteProject \/ EndCredential \/ BindCredential

AdmissionSpec == AdmissionInit /\ [][AdmissionNext]_admissionVars
-----------------------------------------------------------------------------
(* The types of the tables, the handlers and the pages.                    *)
AdmissionTypeOK ==
  /\ policy \in Policy
  /\ audits \in Seq(Audit)
  /\ project \in BOOLEAN /\ usable \in BOOLEAN
  /\ jobs \subseteq Job
  /\ call \in [Calls -> Call]
  /\ admin \in [Admins -> Page]

(* A client may repeat a call whose answer it did not get.  All the calls  *)
(* with one Idempotency-Key that are accepted asked for the same image and *)
(* were given the same job, and no other job carries the key: Create's     *)
(* INSERT ... ON CONFLICT and its comparison of digests.                   *)
RetriesAgree ==
  /\ \A j, k \in jobs : j.key = k.key => j = k
  /\ \A c \in Calls : call[c].pc = "accepted" =>
       \E j \in jobs : /\ j.id = call[c].job /\ j.key = call[c].ask.key
                       /\ j.prompt = call[c].ask.prompt
                       /\ call[c].ask.size \in {Unset, j.size}

(* The checks run before the INSERT and are not repeated in it, and yet a  *)
(* job is never admitted on facts older than its call: the global switch   *)
(* was on at some moment of the call, and at the same or a later moment    *)
(* the model offered the job's parameters (selectCapability and            *)
(* validateParameters on what policy.Get returned).                        *)
AdmittedDuringTheCall ==
  \A j \in jobs :
    \E m \in call[j.id].since.edits..j.edits : \E n \in m..j.edits :
      /\ InForce(m).enabled /\ InForce(m).version = j.version
      /\ InForce(n).offer.on /\ Allowed(j.size, InForce(n).offer)

(* A call that arrives after its project was deleted creates no job; one   *)
(* that arrived before may still do so after (projects.Get in Create).     *)
DeletedProjectGetsNoNewJob ==
  \A j \in jobs : call[j.id].since.project

(* An administrator never overwrites an edit it has not seen: every policy *)
(* that was replaced is, row and items, the one shown on the page that     *)
(* replaced it, although policy.Get may return a row and items of two      *)
(* different policies.  It is the order of its two queries (the version    *)
(* first) that makes the comparison in Update refuse such a page.          *)
NoLostPolicyEdit ==
  \A n \in 1..Edits : audits[n].shown = audits[n].before
=============================================================================
