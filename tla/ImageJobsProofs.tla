-------------------------- MODULE ImageJobsProofs --------------------------
(***************************************************************************)
(* Proofs about JobAdmission, for any number of calls, administrators and  *)
(* edits and any policies, and about ImageJobs, its composition with the   *)
(* queue.                                                                  *)
(***************************************************************************)
EXTENDS ImageJobs, JobQueueProofs, TLAPS

(* A finished handler, as a record.                                        *)
Finished(r, answer, k) ==
  [r EXCEPT !.pc = answer, !.job = k,
            !.version = 0, !.enabled = FALSE, !.size = Unset]

LEMMA FinishedType ==
  ASSUME NEW r \in Call, NEW answer \in Answer, NEW k \in Calls
  PROVE  /\ Finished(r, answer, k) \in Call
         /\ Finished(r, answer, k).pc = answer
         /\ Finished(r, answer, k).job = k
         /\ Finished(r, answer, k).ask = r.ask
         /\ Finished(r, answer, k).since = r.since
BY DEF Finished, Call, Size

(* What an answer does to the handlers: only the one that answers changes. *)
LEMMA AnsweredCall ==
  ASSUME call \in [Calls -> Call], NEW c \in Calls, NEW answer \in Answer,
         NEW k \in Calls, CallAnswered(c, answer, k)
  PROVE  /\ call' \in [Calls -> Call]
         /\ call'[c].pc = answer /\ call'[c].job = k
         /\ call'[c].ask = call[c].ask /\ call'[c].since = call[c].since
         /\ \A d \in Calls \ {c} : call'[d] = call[d]
<1>1. call' = [call EXCEPT ![c] = Finished(call[c], answer, k)]
  BY DEF CallAnswered, Finished
<1>2. call[c] \in Call
  OBVIOUS
<1> QED
  BY <1>1, <1>2, FinishedType

LEMMA ProceedCall ==
  ASSUME call \in [Calls -> Call], NEW c \in Calls, NEW pc \in Step,
         Proceed(c, pc)
  PROVE  /\ call' \in [Calls -> Call]
         /\ call'[c].pc = pc
         /\ call'[c].ask = call[c].ask /\ call'[c].since = call[c].since
         /\ \A d \in Calls \ {c} : call'[d] = call[d]
<1>1. [call[c] EXCEPT !.pc = pc] \in Call
  BY DEF Call
<1>2. /\ [call[c] EXCEPT !.pc = pc].pc = pc
      /\ [call[c] EXCEPT !.pc = pc].ask = call[c].ask
      /\ [call[c] EXCEPT !.pc = pc].since = call[c].since
  BY DEF Call
<1> QED
  BY <1>1, <1>2 DEF Proceed

LEMMA ArriveCall ==
  ASSUME AdmissionTypeOK, NEW c \in Calls, Arrive(c)
  PROVE  /\ call' \in [Calls -> Call]
         /\ call'[c].pc = "project" /\ call'[c].ask = call[c].ask
         /\ call'[c].since = [edits |-> Edits, project |-> project]
         /\ \A d \in Calls \ {c} : call'[d] = call[d]
<1> DEFINE s == [edits |-> Edits, project |-> project]
           r == [call[c] EXCEPT !.pc = "project", !.since = s]
<1>1. Edits \in Nat /\ project \in BOOLEAN /\ call[c] \in Call
  BY DEF AdmissionTypeOK, Edits
<1>2. r \in Call /\ r.pc = "project" /\ r.since = s /\ r.ask = call[c].ask
  BY <1>1 DEF Call, Step
<1>3. call' = [call EXCEPT ![c] = r]
  BY DEF Arrive
<1> QED
  BY <1>2, <1>3 DEF AdmissionTypeOK

LEMMA ReadPolicyCall ==
  ASSUME AdmissionTypeOK, NEW c \in Calls, ReadPolicy(c)
  PROVE  /\ call' \in [Calls -> Call]
         /\ call'[c].pc = "items" /\ call'[c].ask = call[c].ask
         /\ call'[c].since = call[c].since
         /\ call'[c].version = policy.version
         /\ call'[c].enabled = policy.enabled
         /\ \A d \in Calls \ {c} : call'[d] = call[d]
<1> DEFINE r == [call[c] EXCEPT !.pc = "items", !.version = policy.version,
                                !.enabled = policy.enabled]
<1>1. policy.version \in Nat /\ policy.enabled \in BOOLEAN /\ call[c] \in Call
  BY DEF AdmissionTypeOK, Policy
<1>2. /\ r \in Call /\ r.pc = "items" /\ r.since = call[c].since
      /\ r.ask = call[c].ask
      /\ r.version = policy.version /\ r.enabled = policy.enabled
  BY <1>1 DEF Call, Step
<1>3. call' = [call EXCEPT ![c] = r]
  BY DEF ReadPolicy
<1> QED
  BY <1>2, <1>3 DEF AdmissionTypeOK

(* ReadItems either rejects or is ready to insert a size that was asked    *)
(* for, or is the default, and that the offer allows.                      *)
LEMMA ReadItemsCall ==
  ASSUME AdmissionTypeOK, NEW c \in Calls, ReadItems(c)
  PROVE  \/ CallAnswered(c, "rejected", c)
         \/ /\ call' \in [Calls -> Call]
            /\ call'[c].pc = "insert" /\ call'[c].ask = call[c].ask
            /\ call'[c].since = call[c].since
            /\ call'[c].version = call[c].version
            /\ call'[c].size = Effective(call[c].ask.size, policy.offer)
            /\ call'[c].ask.size \in {Unset, call'[c].size}
            /\ call[c].enabled /\ policy.offer.on
            /\ Allowed(call'[c].size, policy.offer)
            /\ \A d \in Calls \ {c} : call'[d] = call[d]
<1> DEFINE size == Effective(call[c].ask.size, policy.offer)
           r == [call[c] EXCEPT !.pc = "insert", !.size = size]
<1> SUFFICES ASSUME ~CallAnswered(c, "rejected", c)
             PROVE  /\ call' \in [Calls -> Call]
                    /\ call'[c].pc = "insert" /\ call'[c].ask = call[c].ask
                    /\ call'[c].since = call[c].since
                    /\ call'[c].version = call[c].version
                    /\ call'[c].size = size
                    /\ call'[c].ask.size \in {Unset, call'[c].size}
                    /\ call[c].enabled /\ policy.offer.on
                    /\ Allowed(call'[c].size, policy.offer)
                    /\ \A d \in Calls \ {c} : call'[d] = call[d]
  OBVIOUS
<1>1. call[c] \in Call /\ call[c].ask \in Ask /\ policy.offer \in Offer
  BY DEF AdmissionTypeOK, Call, Policy
<1>2. size \in Size /\ call[c].ask.size \in {Unset, size}
  BY <1>1 DEF Effective, Ask, Offer
<1>3. /\ r \in Call /\ r.pc = "insert" /\ r.since = call[c].since
      /\ r.ask = call[c].ask /\ r.version = call[c].version /\ r.size = size
  BY <1>1, <1>2 DEF Call, Step
<1>4. /\ call' = [call EXCEPT ![c] = r]
      /\ Selects(call[c].enabled, policy.offer) /\ Allowed(size, policy.offer)
  BY DEF ReadItems, Reject
<1>5. call'[c] = r /\ call' \in [Calls -> Call]
      /\ \A d \in Calls \ {c} : call'[d] = call[d]
  BY <1>3, <1>4 DEF AdmissionTypeOK
<1> HIDE DEF r, size
<1> QED
  BY <1>2, <1>3, <1>4, <1>5 DEF Selects

-----------------------------------------------------------------------------
(* Types.                                                                  *)

LEMMA AdmissionInitType == AdmissionInit => AdmissionTypeOK
<1> SUFFICES ASSUME AdmissionInit PROVE AdmissionTypeOK
  OBVIOUS
<1>1. policy \in Policy
  BY OffersAssumption DEF AdmissionInit, Policy
<1>2. \A ask \in Ask, c \in Calls : Unsent(c, ask) \in Call
  BY DEF Unsent, Call, Size
<1>3. call \in [Calls -> Call]
  BY <1>2 DEF AdmissionInit
<1>4. admin \in [Admins -> Page]
  BY <1>1 DEF AdmissionInit, Page
<1>5. audits \in Seq(Audit)
  BY DEF AdmissionInit
<1>6. project \in BOOLEAN /\ usable \in BOOLEAN /\ jobs \subseteq Job
  BY DEF AdmissionInit
<1> QED
  BY <1>1, <1>3, <1>4, <1>5, <1>6 DEF AdmissionTypeOK

(* Each step of a handler changes that handler only, and never what it     *)
(* found on arrival, unless it is the arrival.                             *)
CallMoved(c) ==
  /\ call' \in [Calls -> Call]
  /\ call'[c].ask = call[c].ask
  /\ call[c].pc \in Step => call'[c].since = call[c].since
  /\ call'[c].pc # "unsent"
  /\ call[c].pc \in {"unsent"} \cup Step
  /\ \A d \in Calls \ {c} : call'[d] = call[d]
  /\ UNCHANGED <<policy, audits, project, usable, admin>>

LEMMA AnsweredMoved ==
  ASSUME AdmissionTypeOK, NEW c \in Calls, NEW answer \in Answer, NEW k \in Calls,
         call[c].pc \in Step, CallAnswered(c, answer, k),
         UNCHANGED <<policy, audits, project, usable, admin>>
  PROVE  CallMoved(c)
BY AnsweredCall DEF AdmissionTypeOK, CallMoved, Answer

LEMMA CallStepMoved ==
  ASSUME AdmissionTypeOK, NEW c \in Calls, CallStep(c)
  PROVE  CallMoved(c)
<1>1. CASE Arrive(c)
  BY <1>1, ArriveCall DEF CallMoved, Arrive, OnlyCall, Step
<1>2. CASE CheckProject(c)
  <2>1. CASE Proceed(c, "credential")
    BY <1>2, <2>1, ProceedCall DEF CheckProject, OnlyCall, CallMoved, AdmissionTypeOK, Step
  <2>2. CASE Reject(c)
    BY <1>2, <2>2, AnsweredMoved DEF CheckProject, OnlyCall, Reject, Step, Answer
  <2> QED
    BY <1>2, <2>1, <2>2 DEF CheckProject
<1>3. CASE CheckCredential(c)
  <2>1. CASE Proceed(c, "policy")
    BY <1>3, <2>1, ProceedCall DEF CheckCredential, OnlyCall, CallMoved, AdmissionTypeOK, Step
  <2>2. CASE Reject(c)
    BY <1>3, <2>2, AnsweredMoved DEF CheckCredential, OnlyCall, Reject, Step, Answer
  <2> QED
    BY <1>3, <2>1, <2>2 DEF CheckCredential
<1>4. CASE ReadPolicy(c)
  BY <1>4, ReadPolicyCall DEF CallMoved, ReadPolicy, OnlyCall, Step
<1>5. CASE ReadItems(c)
  <2>1. CASE CallAnswered(c, "rejected", c)
    BY <1>5, <2>1, AnsweredMoved DEF ReadItems, OnlyCall, Step, Answer
  <2> QED
    BY <1>5, <2>1, ReadItemsCall DEF ReadItems, OnlyCall, CallMoved, Step
<1>6. CASE InsertJob(c)
  BY <1>6, AnsweredMoved DEF InsertJob, Step, Answer
<1>7. CASE FindJob(c)
  <2>1. PICK j \in Existing(c) :
          IF SameRequest(c, j) THEN CallAnswered(c, "accepted", j.id)
                               ELSE CallAnswered(c, "conflict", c)
    BY <1>7 DEF FindJob
  <2>2. j.id \in Calls
    BY <2>1 DEF Existing, AdmissionTypeOK, Job
  <2> QED
    BY <1>7, <2>1, <2>2, AnsweredMoved DEF FindJob, OnlyCall, Step, Answer
<1>8. CASE CallFails(c)
  BY <1>8, AnsweredMoved DEF CallFails, OnlyCall, Answer
<1> QED
  BY <1>1, <1>2, <1>3, <1>4, <1>5, <1>6, <1>7, <1>8 DEF CallStep, CallReads

LEMMA NewJobType ==
  ASSUME AdmissionTypeOK, NEW c \in Calls, call[c].version # 0
  PROVE  /\ NewJob(c) \in Job
         /\ NewJob(c).id = c /\ NewJob(c).key = call[c].ask.key
         /\ NewJob(c).prompt = call[c].ask.prompt
         /\ NewJob(c).size = call[c].size
         /\ NewJob(c).version = call[c].version /\ NewJob(c).edits = Edits
<1>1. Edits \in Nat /\ call[c] \in Call /\ call[c].ask \in Ask
  BY DEF AdmissionTypeOK, Edits, Call
<1> QED
  BY <1>1 DEF NewJob, Job, Call, Ask

(* A handler that has read the policy row holds a version.                 *)
VersionInv ==
  \A c \in Calls : call[c].pc \in {"items", "insert"} => call[c].version # 0

(* Only InsertJob adds a row, that of NewJob.                              *)
LEMMA CallStepJobs ==
  ASSUME NEW c \in Calls, CallStep(c), ~InsertJob(c)
  PROVE  jobs' = jobs
BY DEF CallStep, CallReads, Arrive, CheckProject, CheckCredential, ReadPolicy, ReadItems,
       FindJob, CallFails, OnlyCall

LEMMA CallStepType ==
  ASSUME AdmissionTypeOK, VersionInv, NEW c \in Calls, CallStep(c)
  PROVE  AdmissionTypeOK' /\ VersionInv'
<1>1. CallMoved(c)
  BY CallStepMoved
<1>2. jobs' \subseteq Job
  <2>1. CASE InsertJob(c)
    <3>1. call[c].version # 0
      BY <2>1 DEF InsertJob, VersionInv
    <3> QED
      BY <2>1, <3>1, NewJobType DEF InsertJob, AdmissionTypeOK
  <2> QED
    BY <2>1, CallStepJobs DEF AdmissionTypeOK
<1>3. call'[c].pc \in {"items", "insert"} => call'[c].version # 0
  <2>1. CASE ReadPolicy(c)
    BY <2>1, ReadPolicyCall DEF AdmissionTypeOK, Policy
  <2>2. CASE ReadItems(c)
    <3>1. CASE CallAnswered(c, "rejected", c)
      BY <3>1, AnsweredCall DEF AdmissionTypeOK, Answer
    <3> QED
      BY <2>2, <3>1, ReadItemsCall DEF ReadItems, VersionInv
  <2>3. CASE Arrive(c)
    BY <2>3, ArriveCall
  <2>4. CASE CheckProject(c) \/ CheckCredential(c)
    <3>1. CASE Reject(c)
      BY <3>1, AnsweredCall DEF AdmissionTypeOK, Answer, Reject
    <3> QED
      BY <2>4, <3>1, ProceedCall DEF CheckProject, CheckCredential, AdmissionTypeOK, Step
  <2>5. CASE InsertJob(c) \/ CallFails(c)
    BY <2>5, AnsweredCall DEF InsertJob, CallFails, AdmissionTypeOK, Answer
  <2>6. CASE FindJob(c)
    <3>1. \E k \in Calls, answer \in Answer : CallAnswered(c, answer, k)
      BY <2>6 DEF FindJob, Existing, AdmissionTypeOK, Job, Answer
    <3> QED
      BY <3>1, AnsweredCall DEF AdmissionTypeOK, Answer
  <2> QED
    BY <2>1, <2>2, <2>3, <2>4, <2>5, <2>6 DEF CallStep, CallReads
<1> QED
  BY <1>1, <1>2, <1>3 DEF CallMoved, AdmissionTypeOK, VersionInv
-----------------------------------------------------------------------------
LEMMA AdminStepType ==
  ASSUME AdmissionTypeOK, NEW a \in Admins, AdminStep(a)
  PROVE  /\ AdmissionTypeOK'
         /\ UNCHANGED <<project, usable, jobs, call>>
<1>1. policy \in Policy /\ admin[a] \in Page /\ admin[a].got \in Policy
  BY DEF AdmissionTypeOK, Page
<1>2. CASE OpenPage(a)
  <2>1. [pc |-> "reading", got |-> policy] \in Page
    BY <1>1 DEF Page
  <2> QED
    BY <1>2, <2>1 DEF OpenPage, AdmissionTypeOK
<1>3. CASE ShowPage(a)
  <2> DEFINE p == [admin[a] EXCEPT !.pc = "editing", !.got.offer = policy.offer]
  <2>1. [admin[a].got EXCEPT !.offer = policy.offer] \in Policy
    BY <1>1 DEF Policy
  <2>2. p \in Page
    BY <1>1, <2>1 DEF Page
  <2>3. admin' = [admin EXCEPT ![a] = p]
    BY <1>3 DEF ShowPage
  <2> HIDE DEF p
  <2> QED
    BY <1>3, <2>2, <2>3 DEF ShowPage, AdmissionTypeOK
<1>4. ASSUME NEW enabled \in BOOLEAN, NEW offer \in Offers,
             SavePolicy(a, enabled, offer)
      PROVE  AdmissionTypeOK' /\ UNCHANGED <<project, usable, jobs, call>>
  <2> DEFINE next == SavedPolicy(enabled, offer)
             audit == [shown |-> admin[a].got, before |-> policy, after |-> next]
  <2>1. next \in Policy
    BY <1>1, OffersAssumption DEF SavedPolicy, Policy
  <2>2. audit \in Audit /\ [admin[a] EXCEPT !.got = next] \in Page
    BY <1>1, <2>1 DEF Audit, Page
  <2>3. /\ policy' = next /\ audits' = Append(audits, audit)
        /\ admin' \in {[admin EXCEPT ![a] = [admin[a] EXCEPT !.got = next]], admin}
        /\ UNCHANGED <<project, usable, jobs, call>>
    BY <1>4 DEF SavePolicy
  <2> HIDE DEF next, audit
  <2>4. audits' \in Seq(Audit)
    BY <2>2, <2>3 DEF AdmissionTypeOK
  <2> QED
    BY <2>1, <2>2, <2>3, <2>4 DEF AdmissionTypeOK
<1> QED
  BY <1>2, <1>3, <1>4 DEF AdminStep, OpenPage, ShowPage

Others == DeleteProject \/ EndCredential \/ BindCredential

LEMMA OthersStep ==
  ASSUME AdmissionTypeOK, Others
  PROVE  AdmissionTypeOK' /\ UNCHANGED <<policy, audits, jobs, call, admin>>
BY DEF AdmissionTypeOK, Others, DeleteProject, EndCredential, BindCredential

LEMMA TypeStep ==
  ASSUME AdmissionTypeOK, VersionInv, [AdmissionNext]_admissionVars
  PROVE  AdmissionTypeOK' /\ VersionInv'
<1>1. CASE \E c \in Calls : CallStep(c)
  BY <1>1, CallStepType
<1>2. CASE \E a \in Admins : AdminStep(a)
  BY <1>2, AdminStepType DEF VersionInv
<1>3. CASE Others
  BY <1>3, OthersStep DEF VersionInv
<1>4. CASE UNCHANGED admissionVars
  BY <1>4 DEF admissionVars, AdmissionTypeOK, VersionInv
<1> QED
  BY <1>1, <1>2, <1>3, <1>4 DEF AdmissionNext, Others

(* The tables, the handlers and the pages keep their types, and a handler  *)
(* past the policy row holds a version.                                    *)
THEOREM AdmissionTypes == AdmissionSpec => []AdmissionTypeOK
<1>1. AdmissionInit => AdmissionTypeOK /\ VersionInv
  <2>1. \A c \in Calls, ask \in Ask : Unsent(c, ask).pc = "unsent"
    BY DEF Unsent
  <2> QED
    BY <2>1, AdmissionInitType DEF AdmissionInit, VersionInv
<1>2. AdmissionTypeOK /\ VersionInv /\ [AdmissionNext]_admissionVars => AdmissionTypeOK' /\ VersionInv'
  BY TypeStep
<1> QED
  BY <1>1, <1>2, PTL DEF AdmissionSpec
-----------------------------------------------------------------------------
(* The pages.  A page whose version is still the policy's shows the        *)
(* policy: the row was read before the items, so an edit between the two   *)
(* queries leaves the page with an old version.                            *)
PageInv(a) ==
  /\ admin[a].got.version \leq policy.version
  /\ (admin[a].pc \in {"reading", "editing"}
        /\ admin[a].got.version = policy.version) => admin[a].got = policy

PagesInv == \A a \in Admins : PageInv(a)

(* An edit only ever raises the version.                                   *)
LEMMA PolicyGrows ==
  ASSUME AdmissionTypeOK, [AdmissionNext]_admissionVars
  PROVE  \/ UNCHANGED <<policy, audits>>
         \/ \E a \in Admins, enabled \in BOOLEAN, offer \in Offers :
              SavePolicy(a, enabled, offer)
<1>1. ASSUME NEW c \in Calls, CallStep(c) PROVE UNCHANGED <<policy, audits>>
  BY <1>1, CallStepMoved DEF CallMoved
<1>2. CASE Others
  BY <1>2, OthersStep
<1>3. CASE UNCHANGED admissionVars
  BY <1>3 DEF admissionVars
<1>4. ASSUME NEW a \in Admins, OpenPage(a) \/ ShowPage(a)
      PROVE  UNCHANGED <<policy, audits>>
  BY <1>4 DEF OpenPage, ShowPage
<1> QED
  BY <1>1, <1>2, <1>3, <1>4 DEF AdmissionNext, Others, AdminStep

LEMMA PagesStep ==
  ASSUME AdmissionTypeOK, PagesInv, [AdmissionNext]_admissionVars
  PROVE  PagesInv'
<1>1. policy \in Policy /\ policy.version \in Nat
  BY DEF AdmissionTypeOK, Policy
<1>2. ASSUME NEW b \in Admins
      PROVE  admin[b] \in Page /\ admin[b].got \in Policy
             /\ admin[b].got.version \in Nat
  BY DEF AdmissionTypeOK, Page, Policy
<1>3. CASE UNCHANGED <<policy, admin>>
  BY <1>3 DEF PagesInv, PageInv
<1>4. ASSUME NEW a \in Admins, OpenPage(a) PROVE PagesInv'
  BY <1>1, <1>2, <1>4 DEF OpenPage, PagesInv, PageInv, AdmissionTypeOK
<1>5. ASSUME NEW a \in Admins, ShowPage(a) PROVE PagesInv'
  <2> DEFINE got == [admin[a].got EXCEPT !.offer = policy.offer]
             p == [admin[a] EXCEPT !.pc = "editing", !.got.offer = policy.offer]
  <2>1. got.version = admin[a].got.version /\ p.got = got
    BY <1>2, <1>5 DEF Page, Policy
  <2>2. got.version = policy.version => got = policy
    BY <1>1, <1>2, <1>5, <2>1 DEF ShowPage, PagesInv, PageInv, Policy
  <2>3. admin' = [admin EXCEPT ![a] = p] /\ UNCHANGED policy
    BY <1>5 DEF ShowPage
  <2>4. admin'[a].got = got /\ \A b \in Admins \ {a} : admin'[b] = admin[b]
    BY <1>5, <2>1, <2>3 DEF AdmissionTypeOK
  <2> HIDE DEF p, got
  <2> QED
    BY <1>2, <1>5, <2>1, <2>2, <2>3, <2>4 DEF PagesInv, PageInv
<1>6. ASSUME NEW a \in Admins, NEW enabled \in BOOLEAN, NEW offer \in Offers,
             SavePolicy(a, enabled, offer)
      PROVE  PagesInv'
  <2> DEFINE next == SavedPolicy(enabled, offer)
             p == [admin[a] EXCEPT !.got = next]
  <2>1. next.version = policy.version + 1
    BY DEF SavedPolicy
  <2>2. p.got = next
    BY <1>2, <1>6 DEF Page
  <2>3. policy' = next /\ admin' \in {[admin EXCEPT ![a] = p], admin}
    BY <1>6 DEF SavePolicy
  <2>4. \A b \in Admins : admin'[b].got = next \/ admin'[b] = admin[b]
    BY <2>2, <2>3 DEF AdmissionTypeOK
  <2> HIDE DEF p, next
  <2>5. ASSUME NEW b \in Admins PROVE PageInv(b)'
    <3>1. CASE admin'[b].got = next
      BY <2>1, <2>3, <3>1, <1>1 DEF PageInv
    <3>2. CASE admin'[b] = admin[b]
      <4>1. admin'[b].got.version < policy'.version
        BY <1>1, <1>2, <2>1, <2>3, <2>5, <3>2 DEF PagesInv, PageInv
      <4>2. admin'[b].got.version \in Nat /\ policy'.version \in Nat
        BY <1>1, <1>2, <2>1, <2>3, <2>5, <3>2
      <4> QED
        BY <4>1, <4>2 DEF PageInv
    <3> QED
      BY <2>4, <2>5, <3>1, <3>2
  <2> QED
    BY <2>5 DEF PagesInv
<1>7. \/ UNCHANGED <<policy, admin>>
      \/ \E a \in Admins : AdminStep(a)
  <2>1. ASSUME NEW c \in Calls, CallStep(c) PROVE UNCHANGED <<policy, admin>>
    BY <2>1, CallStepMoved DEF CallMoved
  <2>2. CASE Others
    BY <2>2, OthersStep
  <2> QED
    BY <2>1, <2>2 DEF AdmissionNext, Others, admissionVars
<1> QED
  BY <1>3, <1>4, <1>5, <1>6, <1>7 DEF AdminStep

LEMMA LostEditStep ==
  ASSUME AdmissionTypeOK, PagesInv, NoLostPolicyEdit, [AdmissionNext]_admissionVars
  PROVE  NoLostPolicyEdit'
<1>1. CASE UNCHANGED <<policy, audits>>
  BY <1>1 DEF NoLostPolicyEdit, Edits
<1>2. ASSUME NEW a \in Admins, NEW enabled \in BOOLEAN, NEW offer \in Offers,
             SavePolicy(a, enabled, offer)
      PROVE  NoLostPolicyEdit'
  <2> DEFINE audit == [shown |-> admin[a].got, before |-> policy,
                       after |-> SavedPolicy(enabled, offer)]
  <2>1. audit.shown = audit.before
    BY <1>2 DEF SavePolicy, UpToDate, PagesInv, PageInv
  <2>2. audits' = Append(audits, audit) /\ audits \in Seq(Audit)
    BY <1>2 DEF SavePolicy, AdmissionTypeOK
  <2> HIDE DEF audit
  <2>3. /\ Edits' = Edits + 1 /\ Edits \in Nat
        /\ audits'[Edits + 1] = audit
        /\ \A n \in 1..Edits : audits'[n] = audits[n]
    BY <2>2 DEF Edits
  <2> QED
    BY <2>1, <2>3 DEF NoLostPolicyEdit
<1> QED
  BY <1>1, <1>2, PolicyGrows

(* However many administrators edit the policy, each saved edit replaces   *)
(* exactly the policy its page showed.                                     *)
THEOREM EditsKept == AdmissionSpec => []NoLostPolicyEdit
<1>1. AdmissionInit => PagesInv /\ NoLostPolicyEdit
  <2> SUFFICES ASSUME AdmissionInit PROVE PagesInv /\ NoLostPolicyEdit
    OBVIOUS
  <2>1. policy.version = 1 /\ Edits = 0
    BY DEF AdmissionInit, Edits
  <2> QED
    BY <2>1 DEF AdmissionInit, PagesInv, PageInv, NoLostPolicyEdit
<1>2. AdmissionTypeOK /\ PagesInv /\ NoLostPolicyEdit /\ [AdmissionNext]_admissionVars
        => PagesInv' /\ NoLostPolicyEdit'
  BY PagesStep, LostEditStep
<1> QED
  BY <1>1, <1>2, AdmissionTypes, PTL DEF AdmissionSpec
-----------------------------------------------------------------------------
(* The jobs.                                                               *)

(* What was in force after n edits stays what it was, and a deleted        *)
(* project stays deleted.                                                  *)
History ==
  /\ project' => project
  /\ Edits \in Nat /\ Edits' \in Nat /\ Edits \leq Edits'
  /\ \A n \in 0..Edits : InForce(n)' = InForce(n)

LEMMA HistoryKept ==
  ASSUME AdmissionTypeOK, [AdmissionNext]_admissionVars
  PROVE  History
<1>p. project' => project
  <2>1. ASSUME NEW c \in Calls, CallStep(c) PROVE project' = project
    BY <2>1, CallStepMoved DEF CallMoved
  <2>2. ASSUME NEW a \in Admins, AdminStep(a) PROVE project' = project
    BY <2>2, AdminStepType
  <2> QED
    BY <2>1, <2>2
       DEF AdmissionNext, admissionVars, DeleteProject, EndCredential, BindCredential
<1>1. CASE UNCHANGED <<policy, audits>>
  BY <1>p, <1>1 DEF History, Edits, InForce, AdmissionTypeOK
<1>2. ASSUME NEW a \in Admins, NEW enabled \in BOOLEAN, NEW offer \in Offers,
             SavePolicy(a, enabled, offer)
      PROVE  History
  <2> DEFINE audit == [shown |-> admin[a].got, before |-> policy,
                       after |-> SavedPolicy(enabled, offer)]
  <2>1. audits' = Append(audits, audit) /\ audits \in Seq(Audit)
    BY <1>2 DEF SavePolicy, AdmissionTypeOK
  <2>2. audit.before = policy
    OBVIOUS
  <2> HIDE DEF audit
  <2>3. /\ Edits' = Edits + 1 /\ Edits \in Nat
        /\ audits'[Edits + 1] = audit
        /\ \A n \in 1..Edits : audits'[n] = audits[n]
    BY <2>1 DEF Edits
  <2>4. ASSUME NEW n \in 0..Edits PROVE InForce(n)' = InForce(n)
    <3>1. InForce(n)' = audits'[n + 1].before
      BY <2>3 DEF InForce
    <3>2. CASE n = Edits
      BY <2>2, <2>3, <3>1, <3>2 DEF InForce
    <3>3. CASE n # Edits
      <4>1. n + 1 \in 1..Edits
        BY <2>3, <3>3
      <4> QED
        BY <2>3, <3>1, <3>3, <4>1 DEF InForce
    <3> QED
      BY <3>2, <3>3
  <2> QED
    BY <1>p, <2>3, <2>4 DEF History
<1> QED
  BY <1>1, <1>2, PolicyGrows

(* The policy row a handler has read was in force during its call.         *)
ReadRow(c) ==
  \E m \in call[c].since.edits..Edits :
    /\ InForce(m).enabled = call[c].enabled
    /\ InForce(m).version = call[c].version

(* What a handler about to insert has checked held during its call.        *)
Checked(since, edits, size, version) ==
  \E m \in since..edits : \E n \in m..edits :
    /\ InForce(m).enabled /\ InForce(m).version = version
    /\ InForce(n).offer.on /\ Allowed(size, InForce(n).offer)

Accepted(c) ==
  \E j \in jobs : /\ j.id = call[c].job /\ j.key = call[c].ask.key
                  /\ j.prompt = call[c].ask.prompt
                  /\ call[c].ask.size \in {Unset, j.size}

CallInv(c) ==
  /\ call[c].pc # "unsent" => call[c].since.edits \leq Edits
  /\ call[c].pc \in Step \ {"project"} => call[c].since.project
  /\ call[c].pc = "project" /\ project => call[c].since.project
  /\ call[c].pc = "items" => ReadRow(c)
  /\ call[c].pc = "insert" =>
       /\ Checked(call[c].since.edits, Edits, call[c].size, call[c].version)
       /\ call[c].ask.size \in {Unset, call[c].size}
  /\ call[c].pc = "accepted" => Accepted(c)

(* A job's creator has answered; what it checked is on record.             *)
AdmittedInv(j) ==
  /\ call[j.id].pc \in Answer
  /\ call[j.id].since.project
  /\ j.edits \leq Edits
  /\ Checked(call[j.id].since.edits, j.edits, j.size, j.version)

OneJobPerKey == \A j, k \in jobs : j.key = k.key => j = k

JobsInv ==
  /\ \A c \in Calls : CallInv(c)
  /\ \A j \in jobs : AdmittedInv(j)
  /\ OneJobPerKey

(* The facts on record stay when the policy is edited.                     *)
LEMMA CheckedKept ==
  ASSUME History, NEW since \in Nat, NEW edits \in 0..Edits,
         NEW edits2 \in Nat, edits \leq edits2,
         NEW size, NEW version,
         Checked(since, edits, size, version)
  PROVE  \E m \in since..edits2 : \E n \in m..edits2 :
           /\ InForce(m)'.enabled /\ InForce(m)'.version = version
           /\ InForce(n)'.offer.on /\ Allowed(size, InForce(n)'.offer)
<1>1. PICK m \in since..edits : \E n \in m..edits :
        /\ InForce(m).enabled /\ InForce(m).version = version
        /\ InForce(n).offer.on /\ Allowed(size, InForce(n).offer)
  BY DEF Checked
<1>2. PICK n \in m..edits :
        /\ InForce(m).enabled /\ InForce(m).version = version
        /\ InForce(n).offer.on /\ Allowed(size, InForce(n).offer)
  BY <1>1
<1>3. m \in 0..Edits /\ n \in 0..Edits /\ m \in since..edits2 /\ n \in m..edits2
  BY DEF History
<1>4. InForce(m)' = InForce(m) /\ InForce(n)' = InForce(n)
  BY <1>3 DEF History
<1> QED
  BY <1>2, <1>3, <1>4

LEMMA CallTypes ==
  ASSUME AdmissionTypeOK, NEW c \in Calls
  PROVE  /\ call[c] \in Call /\ call[c].since.edits \in Nat
         /\ call[c].since.project \in BOOLEAN
         /\ Edits \in Nat
BY DEF AdmissionTypeOK, Call, Edits

(* A handler that does not move keeps its part of the invariant.           *)
LEMMA IdleCall ==
  ASSUME AdmissionTypeOK, History, NEW c \in Calls, CallInv(c), call'[c] = call[c],
         jobs \subseteq jobs'
  PROVE  CallInv(c)'
<1>1. call[c].since.edits \in Nat /\ Edits \in Nat /\ Edits' \in Nat
      /\ Edits \leq Edits'
  BY CallTypes DEF History
<1>2. call[c].pc # "unsent" => call[c].since.edits \leq Edits'
  BY <1>1 DEF CallInv
<1>3. ASSUME call[c].pc = "items" PROVE ReadRow(c)'
  <2>1. PICK m \in call[c].since.edits..Edits :
          /\ InForce(m).enabled = call[c].enabled
          /\ InForce(m).version = call[c].version
    BY <1>3 DEF CallInv, ReadRow
  <2>2. m \in call[c].since.edits..Edits' /\ InForce(m)' = InForce(m)
    BY <1>1 DEF History
  <2> QED
    BY <2>1, <2>2 DEF ReadRow
<1>4. ASSUME call[c].pc = "insert"
      PROVE  Checked(call[c].since.edits, Edits, call[c].size, call[c].version)'
  <2>1. Checked(call[c].since.edits, Edits, call[c].size, call[c].version)
    BY <1>4 DEF CallInv
  <2>2. \E m \in call[c].since.edits..Edits' : \E n \in m..Edits' :
          /\ InForce(m)'.enabled /\ InForce(m)'.version = call[c].version
          /\ InForce(n)'.offer.on /\ Allowed(call[c].size, InForce(n)'.offer)
    BY <1>1, <2>1, CheckedKept
  <2> QED
    BY <2>2 DEF Checked
<1>5. ASSUME call[c].pc = "accepted" PROVE Accepted(c)'
  BY <1>5 DEF CallInv, Accepted
<1> QED
  BY <1>2, <1>3, <1>4, <1>5 DEF CallInv, History

(* A job keeps its part when its creator does not move.                    *)
LEMMA IdleJob ==
  ASSUME AdmissionTypeOK, History, NEW j \in jobs, AdmittedInv(j), call'[j.id] = call[j.id]
  PROVE  AdmittedInv(j)'
<1>1. j.id \in Calls /\ j.edits \in Nat
  BY DEF AdmissionTypeOK, Job
<1>2. call[j.id].since.edits \in Nat /\ Edits \in Nat /\ Edits' \in Nat
      /\ Edits \leq Edits' /\ j.edits \in 0..Edits
  BY <1>1, CallTypes DEF History, AdmittedInv
<1>3. \E m \in call[j.id].since.edits..j.edits : \E n \in m..j.edits :
        /\ InForce(m)'.enabled /\ InForce(m)'.version = j.version
        /\ InForce(n)'.offer.on /\ Allowed(j.size, InForce(n)'.offer)
  BY <1>1, <1>2, CheckedKept DEF AdmittedInv
<1>4. Checked(call[j.id].since.edits, j.edits, j.size, j.version)'
  BY <1>3 DEF Checked
<1> QED
  BY <1>2, <1>4 DEF AdmittedInv

LEMMA CallStepNext ==
  ASSUME AdmissionTypeOK, NEW c \in Calls, CallStep(c)
  PROVE  /\ [AdmissionNext]_admissionVars /\ History /\ Edits' = Edits
         /\ \A n : InForce(n)' = InForce(n)
<1>1. [AdmissionNext]_admissionVars
  BY DEF AdmissionNext
<1>2. UNCHANGED <<policy, audits>>
  BY CallStepMoved DEF CallMoved
<1> QED
  BY <1>1, <1>2, HistoryKept DEF Edits, InForce

(* Everything a step of one handler leaves alone.                          *)
LEMMA OtherCalls ==
  ASSUME AdmissionTypeOK, JobsInv, NEW c \in Calls, CallStep(c)
  PROVE  /\ jobs \subseteq jobs'
         /\ \A d \in Calls \ {c} : CallInv(d)'
         /\ \A j \in jobs : AdmittedInv(j)'
<1>1. CallMoved(c) /\ History
  BY CallStepMoved, CallStepNext
<1>2. jobs \subseteq jobs'
  BY CallStepJobs DEF InsertJob
<1>3. ASSUME NEW d \in Calls \ {c} PROVE CallInv(d)'
  BY <1>1, <1>2, IdleCall DEF JobsInv, CallMoved
<1>4. ASSUME NEW j \in jobs PROVE AdmittedInv(j)'
  <2>1. j.id \in Calls /\ j.id # c
    BY <1>1 DEF JobsInv, AdmittedInv, CallMoved, AdmissionTypeOK, Job, Answer, Step
  <2> QED
    BY <1>1, <2>1, IdleJob DEF JobsInv, CallMoved
<1> QED
  BY <1>2, <1>3, <1>4

(* An answer that is not "accepted" needs nothing but the arrival.         *)
LEMMA PlainAnswer ==
  ASSUME AdmissionTypeOK, JobsInv, NEW c \in Calls, CallStep(c), call[c].pc \in Step,
         NEW answer \in Answer \ {"accepted"}, CallAnswered(c, answer, c)
  PROVE  CallInv(c)'
<1>1. /\ call'[c].pc = answer /\ call'[c].since = call[c].since
      /\ Edits' = Edits
  BY AnsweredCall, CallStepNext DEF AdmissionTypeOK
<1>2. call[c].since.edits \leq Edits
  BY DEF JobsInv, CallInv, Step
<1> QED
  BY <1>1, <1>2 DEF CallInv, Answer, Step

LEMMA ArriveInv ==
  ASSUME AdmissionTypeOK, JobsInv, NEW c \in Calls, Arrive(c)
  PROVE  CallInv(c)'
<1>1. Edits \in Nat /\ Edits' = Edits
  BY CallTypes, CallStepNext DEF CallStep, CallReads
<1>2. call'[c].pc = "project" /\ project' = project
  BY ArriveCall DEF Arrive, OnlyCall
<1>3. call'[c].since.edits = Edits /\ call'[c].since.project = project
  BY ArriveCall
<1>4. call'[c].since.edits \leq Edits'
  BY <1>1, <1>3
<1>5. project' => call'[c].since.project
  BY <1>2, <1>3, Zenon
<1> QED
  BY <1>2, <1>4, <1>5 DEF CallInv

LEMMA CheckInv ==
  ASSUME AdmissionTypeOK, JobsInv, NEW c \in Calls, CheckProject(c) \/ CheckCredential(c)
  PROVE  CallInv(c)'
<1>1. CallStep(c) /\ call[c].pc \in Step /\ CallMoved(c) /\ Edits' = Edits
  BY CallStepMoved, CallStepNext
     DEF CallStep, CallReads, CheckProject, CheckCredential, Step
<1>2. CASE Reject(c)
  BY <1>1, <1>2, PlainAnswer DEF Reject, Answer
<1>3. CASE CheckProject(c) /\ ~Reject(c)
  <2>1. Proceed(c, "credential") /\ project
    BY <1>3 DEF CheckProject
  <2>2. call'[c].pc = "credential" /\ call'[c].since = call[c].since
    BY <2>1, ProceedCall DEF AdmissionTypeOK, Step
  <2>3. call[c].since.edits \leq Edits /\ call[c].since.project
    BY <1>1, <1>3, <2>1 DEF JobsInv, CallInv, CheckProject, Step
  <2> QED
    BY <1>1, <2>2, <2>3 DEF CallInv
<1>4. CASE CheckCredential(c) /\ ~Reject(c)
  <2>1. Proceed(c, "policy")
    BY <1>4 DEF CheckCredential
  <2>2. call'[c].pc = "policy" /\ call'[c].since = call[c].since
    BY <2>1, ProceedCall DEF AdmissionTypeOK, Step
  <2>3. call[c].since.edits \leq Edits /\ call[c].since.project
    BY <1>1, <1>4 DEF JobsInv, CallInv, CheckCredential, Step
  <2> QED
    BY <1>1, <2>2, <2>3 DEF CallInv
<1> QED
  BY <1>2, <1>3, <1>4

LEMMA ReadPolicyInv ==
  ASSUME AdmissionTypeOK, JobsInv, NEW c \in Calls, ReadPolicy(c)
  PROVE  CallInv(c)'
<1>1. CallStep(c)
  BY DEF CallStep, CallReads
<1>2. /\ Edits' = Edits /\ Edits \in Nat
      /\ InForce(Edits)' = InForce(Edits) /\ InForce(Edits) = policy
  BY <1>1, CallStepNext, CallTypes DEF InForce, ReadPolicy, OnlyCall, Edits
<1>3. call[c].since.edits \in Nat /\ call[c].since.edits \leq Edits
      /\ call[c].since.project
  BY CallTypes DEF JobsInv, CallInv, ReadPolicy, Step
<1>4. /\ call'[c].pc = "items" /\ call'[c].since = call[c].since
      /\ call'[c].version = policy.version /\ call'[c].enabled = policy.enabled
  BY ReadPolicyCall
<1>5. ReadRow(c)'
  BY <1>2, <1>3, <1>4 DEF ReadRow
<1> QED
  BY <1>2, <1>3, <1>4, <1>5 DEF CallInv

LEMMA ReadItemsInv ==
  ASSUME AdmissionTypeOK, JobsInv, NEW c \in Calls, ReadItems(c)
  PROVE  CallInv(c)'
<1>1. CallStep(c) /\ call[c].pc = "items" /\ UNCHANGED policy
  BY DEF CallStep, CallReads, ReadItems, OnlyCall
<1>2. CASE CallAnswered(c, "rejected", c)
  BY <1>1, <1>2, PlainAnswer DEF Answer, Step
<1>3. CASE ~CallAnswered(c, "rejected", c)
  <2>1. /\ call'[c].pc = "insert" /\ call'[c].ask = call[c].ask
        /\ call'[c].since = call[c].since
        /\ call'[c].version = call[c].version
        /\ call'[c].ask.size \in {Unset, call'[c].size}
        /\ call[c].enabled /\ policy.offer.on
        /\ Allowed(call'[c].size, policy.offer)
    BY <1>3, ReadItemsCall
  <2>2. /\ call[c].since.edits \in Nat /\ Edits \in Nat /\ Edits' = Edits
        /\ call[c].since.edits \leq Edits /\ call[c].since.project
        /\ InForce(Edits) = policy
    BY <1>1, CallTypes, CallStepNext DEF JobsInv, CallInv, Step, InForce
  <2>3. PICK m \in call[c].since.edits..Edits :
          /\ InForce(m).enabled = call[c].enabled
          /\ InForce(m).version = call[c].version
    BY <1>1 DEF JobsInv, CallInv, ReadRow
  <2>4. InForce(m)' = InForce(m) /\ \A n : n = Edits => InForce(n)' = policy
    BY <1>1, <2>2, CallStepNext
  <2>5. \E n \in m..Edits :
          /\ InForce(m)'.enabled /\ InForce(m)'.version = call'[c].version
          /\ InForce(n)'.offer.on /\ Allowed(call'[c].size, InForce(n)'.offer)
    <3>1. Edits \in m..Edits
      BY <2>2, <2>3
    <3> QED
      BY <2>1, <2>3, <2>4, <3>1
  <2>6. Checked(call[c].since.edits, Edits, call[c].size, call[c].version)'
    BY <2>1, <2>2, <2>3, <2>5 DEF Checked
  <2> QED
    BY <2>1, <2>2, <2>6 DEF CallInv
<1> QED
  BY <1>2, <1>3

LEMMA FindJobInv ==
  ASSUME AdmissionTypeOK, JobsInv, NEW c \in Calls, FindJob(c)
  PROVE  CallInv(c)'
<1>1. CallStep(c) /\ call[c].pc = "insert" /\ UNCHANGED jobs
  BY DEF CallStep, CallReads, FindJob, OnlyCall
<1>2. PICK j \in Existing(c) :
        IF SameRequest(c, j) THEN CallAnswered(c, "accepted", j.id)
                             ELSE CallAnswered(c, "conflict", c)
  BY DEF FindJob
<1>3. CASE ~SameRequest(c, j)
  BY <1>1, <1>2, <1>3, PlainAnswer DEF Answer, Step
<1>4. CASE SameRequest(c, j)
  <2>1. j \in jobs /\ j.id \in Calls /\ j.key = call[c].ask.key
    BY DEF Existing, AdmissionTypeOK, Job
  <2>2. /\ call'[c].pc = "accepted" /\ call'[c].job = j.id
        /\ call'[c].ask = call[c].ask /\ call'[c].since = call[c].since
    BY <1>2, <1>4, <2>1, AnsweredCall DEF AdmissionTypeOK, Answer
  <2>3. call[c].since.edits \leq Edits /\ Edits' = Edits
        /\ call[c].ask.size \in {Unset, call[c].size}
    BY <1>1, CallStepNext DEF JobsInv, CallInv
  <2>4. Accepted(c)'
    BY <1>1, <1>4, <2>1, <2>2, <2>3 DEF Accepted, SameRequest
  <2> QED
    BY <2>2, <2>3, <2>4 DEF CallInv, Step
<1> QED
  BY <1>3, <1>4

LEMMA InsertJobInv ==
  ASSUME AdmissionTypeOK, VersionInv, JobsInv, NEW c \in Calls, InsertJob(c)
  PROVE  /\ CallInv(c)' /\ OneJobPerKey'
         /\ \A j : j = NewJob(c) => AdmittedInv(j)'
<1> SUFFICES ASSUME NEW j, j = NewJob(c)
             PROVE  CallInv(c)' /\ OneJobPerKey' /\ AdmittedInv(j)'
  OBVIOUS
<1>1. CallStep(c) /\ call[c].pc = "insert" /\ jobs' = jobs \cup {j}
  BY DEF CallStep, CallReads, InsertJob
<1>2. /\ j.id = c /\ j.key = call[c].ask.key /\ j.prompt = call[c].ask.prompt
      /\ j.size = call[c].size /\ j.version = call[c].version
      /\ j.edits = Edits
  BY <1>1, NewJobType DEF VersionInv
<1>3. /\ call'[c].pc \in {"accepted", "failed"} /\ call'[c].job = c
      /\ call'[c].ask = call[c].ask /\ call'[c].since = call[c].since
  BY AnsweredCall DEF InsertJob, AdmissionTypeOK, Answer
<1>4. /\ call[c].since.edits \in Nat /\ Edits \in Nat /\ Edits' = Edits
      /\ call[c].since.edits \leq Edits /\ call[c].since.project
      /\ Checked(call[c].since.edits, Edits, call[c].size, call[c].version)
      /\ call[c].ask.size \in {Unset, call[c].size}
  BY <1>1, CallTypes, CallStepNext DEF JobsInv, CallInv, Step
<1>5. OneJobPerKey'
  BY <1>1, <1>2 DEF JobsInv, OneJobPerKey, InsertJob, Existing
<1>6. \E m \in call[c].since.edits..Edits : \E n \in m..Edits :
        /\ InForce(m)'.enabled /\ InForce(m)'.version = j.version
        /\ InForce(n)'.offer.on /\ Allowed(j.size, InForce(n)'.offer)
  BY <1>1, <1>2, <1>4, CheckedKept, CallStepNext
<1>7. AdmittedInv(j)'
  <2>1. Checked(call[j.id].since.edits, j.edits, j.size, j.version)'
    BY <1>2, <1>3, <1>6 DEF Checked
  <2> QED
    BY <1>2, <1>3, <1>4, <2>1 DEF AdmittedInv, Answer
<1>8. CallInv(c)'
  BY <1>1, <1>2, <1>3, <1>4 DEF CallInv, Accepted, Step
<1> QED
  BY <1>5, <1>7, <1>8

LEMMA CallStepInv ==
  ASSUME AdmissionTypeOK, VersionInv, JobsInv, NEW c \in Calls, CallStep(c)
  PROVE  JobsInv'
<1>1. \A d \in Calls \ {c} : CallInv(d)'
  BY OtherCalls
<1>2. \A j \in jobs : AdmittedInv(j)'
  BY OtherCalls
<1>3. CASE InsertJob(c)
  <2>1. jobs' = jobs \cup {NewJob(c)}
    BY <1>3 DEF InsertJob
  <2> QED
    BY <1>1, <1>2, <1>3, <2>1, InsertJobInv DEF JobsInv
<1>4. CASE ~InsertJob(c)
  <2>1. jobs' = jobs
    BY <1>4, CallStepJobs
  <2>2. CallInv(c)'
    <3>1. CASE Arrive(c)
      BY <3>1, ArriveInv
    <3>2. CASE CheckProject(c) \/ CheckCredential(c)
      BY <3>2, CheckInv
    <3>3. CASE ReadPolicy(c)
      BY <3>3, ReadPolicyInv
    <3>4. CASE ReadItems(c)
      BY <3>4, ReadItemsInv
    <3>5. CASE FindJob(c)
      BY <3>5, FindJobInv
    <3>6. CASE CallFails(c)
      BY <3>6, PlainAnswer DEF CallFails, Answer
    <3> QED
      BY <1>4, <3>1, <3>2, <3>3, <3>4, <3>5, <3>6 DEF CallStep, CallReads
  <2> QED
    BY <1>1, <1>2, <2>1, <2>2 DEF JobsInv, OneJobPerKey
<1> QED
  BY <1>3, <1>4

LEMMA JobsStep ==
  ASSUME AdmissionTypeOK, VersionInv, JobsInv, [AdmissionNext]_admissionVars
  PROVE  JobsInv'
<1>1. CASE \E c \in Calls : CallStep(c)
  BY <1>1, CallStepInv
<1>2. CASE UNCHANGED <<jobs, call>>
  <2>1. History
    BY HistoryKept
  <2>2. \A c \in Calls : CallInv(c)'
    BY <1>2, <2>1, IdleCall DEF JobsInv
  <2>3. \A j \in jobs : AdmittedInv(j)'
    BY <1>2, <2>1, IdleJob DEF JobsInv
  <2> QED
    BY <1>2, <2>2, <2>3 DEF JobsInv, OneJobPerKey
<1> QED
  BY <1>1, <1>2, AdminStepType, OthersStep DEF AdmissionNext, Others, admissionVars

(* The invariant of the jobs and the handlers that create them: a handler  *)
(* holds what was in force during its call, an accepted one the job of its *)
(* own request, and no two jobs carry one key (Service.Create).            *)
THEOREM AdmissionInvariance == AdmissionSpec => [](AdmissionTypeOK /\ VersionInv /\ JobsInv)
<1>1. AdmissionInit => AdmissionTypeOK /\ VersionInv /\ JobsInv
  <2> SUFFICES ASSUME AdmissionInit PROVE AdmissionTypeOK /\ VersionInv /\ JobsInv
    OBVIOUS
  <2>1. \A c \in Calls : call[c].pc = "unsent"
    <3>1. PICK ask \in [Calls -> Ask] : call = [c \in Calls |-> Unsent(c, ask[c])]
      BY DEF AdmissionInit
    <3>2. \A c \in Calls : call[c] = Unsent(c, ask[c])
      BY <3>1
    <3>3. \A c \in Calls, a \in Ask : Unsent(c, a).pc = "unsent"
      BY DEF Unsent
    <3> QED
      BY <3>2, <3>3
  <2>2. \A c \in Calls : CallInv(c)
    BY <2>1 DEF CallInv, Step
  <2> QED
    BY <2>1, <2>2, AdmissionInitType DEF AdmissionInit, VersionInv, JobsInv, OneJobPerKey
<1>2. AdmissionTypeOK /\ VersionInv /\ JobsInv /\ [AdmissionNext]_admissionVars
        => AdmissionTypeOK' /\ VersionInv' /\ JobsInv'
  BY TypeStep, JobsStep
<1> QED
  BY <1>1, <1>2, PTL DEF AdmissionSpec

(* However often a client repeats a call, its key names one job, and an    *)
(* accepted call got the job of its own request.                           *)
THEOREM OneJobForRetries == AdmissionSpec => []RetriesAgree
<1>1. AdmissionTypeOK /\ JobsInv => RetriesAgree
  BY DEF JobsInv, CallInv, Accepted, OneJobPerKey, RetriesAgree
<1> QED
  BY <1>1, AdmissionInvariance, PTL

(* A job is admitted on facts that held during its own call.               *)
THEOREM AdmissionIsRecent == AdmissionSpec => []AdmittedDuringTheCall
<1>1. JobsInv => AdmittedDuringTheCall
  BY DEF JobsInv, AdmittedInv, Checked, AdmittedDuringTheCall
<1> QED
  BY <1>1, AdmissionInvariance, PTL

(* No call that arrives after the project's deletion creates a job.        *)
THEOREM NoJobAfterDeletion == AdmissionSpec => []DeletedProjectGetsNoNewJob
<1>1. JobsInv => DeletedProjectGetsNoNewJob
  BY DEF JobsInv, AdmittedInv, DeletedProjectGetsNoNewJob
<1> QED
  BY <1>1, AdmissionInvariance, PTL
-----------------------------------------------------------------------------
(***************************************************************************)
(* The composition.  Each of its steps is a step of both components, or of *)
(* one while the other rests, so what was proved of either holds of it;    *)
(* Linked says how the two views of canvas_jobs fit.                       *)
(***************************************************************************)
(* What the API and the workers do with rows that are there.               *)
QueueStep ==
  \/ \E j \in Jobs : Cancel(j) \/ LeaseExpires(j)
  \/ \E w \in Workers : StartWorker(w) \/ Crash(w) \/ WorkerStep(w)

LEMMA ImageSteps ==
  ASSUME ImageNext
  PROVE  \/ \E c \in Calls : CreateJob(c)
         \/ UNCHANGED vars /\ ((\E c \in Calls : CallReads(c)) \/ UNCHANGED <<jobs, call>>)
                           /\ AdmissionNext
         \/ UNCHANGED admissionVars /\ QueueStep
         \/ UNCHANGED <<admissionVars, vars>>
<1>1. \A a \in Admins : AdminStep(a) => UNCHANGED <<jobs, call>>
  BY DEF AdminStep, OpenPage, ShowPage, SavePolicy
<1>2. DeleteProject \/ EndCredential \/ BindCredential => UNCHANGED <<jobs, call>>
  BY DEF DeleteProject, EndCredential, BindCredential
<1>3. CASE /\ (\E c \in Calls : CallReads(c)) \/ (\E a \in Admins : AdminStep(a))
                \/ DeleteProject \/ EndCredential \/ BindCredential
           /\ UNCHANGED <<vars, cleared>>
  BY <1>1, <1>2, <1>3 DEF AdmissionNext, CallStep
<1>4. \A w \in Workers : FindCredential(w) => UNCHANGED <<admissionVars, vars>>
  BY DEF FindCredential
<1> QED
  BY <1>3, <1>4 DEF ImageNext, QueueStep, Work

LEMMA AdmissionStep == [ImageNext]_imageVars => [AdmissionNext]_admissionVars
<1>1. ASSUME NEW c \in Calls, CreateJob(c) PROVE AdmissionNext
  BY <1>1 DEF CreateJob, AdmissionNext, CallStep
<1> QED
  BY <1>1, ImageSteps DEF imageVars

LEMMA QueueNext == [ImageNext]_imageVars => [Next]_vars
<1>1. ASSUME NEW c \in Calls, CreateJob(c) PROVE Next
  BY <1>1, RowsAssumption DEF CreateJob, Next
<1>2. QueueStep => Next
  BY DEF QueueStep, Next
<1> QED
  BY <1>1, <1>2, ImageSteps DEF imageVars

(* The handlers of the whole service are those of JobAdmission: the queue  *)
(* does nothing that admission does not allow for.                         *)
THEOREM ServiceAdmits == ImageSpec => AdmissionSpec
<1>1. ImageInit => AdmissionInit
  BY DEF ImageInit
<1> QED
  BY <1>1, AdmissionStep, PTL DEF ImageSpec, AdmissionSpec

(* The rows and workers of the whole service are those of JobQueue: rows   *)
(* that handlers insert are jobs submitted.                                *)
THEOREM ServiceQueues == ImageSpec => Spec
<1>1. ImageInit => Init
  BY DEF ImageInit
<1> QED
  BY <1>1, QueueNext, PTL DEF ImageSpec, Spec

(* The jobs admission knows of are the rows the workers may claim.         *)
Linked ==
  /\ \A j \in jobs : /\ job[j.id].status # "absent"
                     /\ j.key = call[j.id].ask.key
                     /\ call[j.id].pc \in {"accepted", "failed"}
  /\ \A c \in Calls : job[c].status # "absent" => \E j \in jobs : j.id = c

(* Only Submit makes a row, and nothing removes one.                       *)
SameRows == \A k \in Jobs : job'[k].status = "absent" <=> job[k].status = "absent"

LEMMA SweptRows ==
  ASSUME Typed
  PROVE  \A k \in Jobs : Sweep[k].status = "absent" <=> job[k].status = "absent"
<1>1. \A r \in Row : SweptRow(r).status = "absent" <=> r.status = "absent"
  BY DEF SweptRow, Released, Row
<1> QED
  BY <1>1, TypedFacts DEF Sweep

LEMMA QueueStepRows ==
  ASSUME Typed, IInv, QueueStep
  PROVE  SameRows
<1>1. CASE UNCHANGED job
  BY <1>1 DEF SameRows
<1>2. ASSUME NEW j \in Jobs, Cancel(j) \/ LeaseExpires(j) PROVE SameRows
  <2>1. /\ job[j].status \in {"queued", "running"}
        /\ \A k \in Jobs \ {j} : job'[k] = job[k]
        /\ job'[j].status \in {job[j].status, "canceled"}
    BY <1>2, TypedFacts DEF Cancel, LeaseExpires, CanceledRow, Row
  <2> QED
    BY <2>1 DEF SameRows
<1>3. ASSUME NEW w \in Workers, NEW j \in Jobs, ClaimJob(w, j) PROVE SameRows
  <2>1. /\ Sweep[j].status = "queued"
        /\ \A k \in Jobs \ {j} : job'[k] = Sweep[k]
        /\ job'[j].status = "running"
    BY <1>3, ClaimedFields, SweptRowType, TypedFacts DEF ClaimJob, Claimable, Sweep
  <2> QED
    BY <2>1, SweptRows DEF SameRows
<1>4. ASSUME NEW w \in Workers, ClaimNone(w) PROVE SameRows
  BY <1>4, SweptRows DEF ClaimNone, SameRows
<1>5. ASSUME NEW w \in Workers,
             \/ BeginUpstream(w) \/ BeginUpstreamLost(w) \/ MarkSaving(w)
             \/ Complete(w) \/ Report(w)
      PROVE  SameRows
  <2> DEFINE j == worker[w].job
  <2>1. j \in Jobs
    BY <1>5, TypedFacts
       DEF BeginUpstream, BeginUpstreamLost, MarkSaving, Complete, Report, Busy
  <2>2. CASE UNCHANGED job
    BY <2>2, <1>1
  <2>3. ASSUME Holds(w, job[j]),
               \/ job' = [job EXCEPT ![j] = DispatchedRow(@)]
               \/ job' = [job EXCEPT ![j] = SavingRow(@)]
               \/ job' = [job EXCEPT ![j] = CompletedRow(@, worker[w].stored)]
               \/ job' = [job EXCEPT ![j] = FailedRow(@, worker[w].verdict)]
        PROVE  SameRows
    <3>1. job \in [Jobs -> Row] /\ job[j] \in Row /\ job[j].status = "running"
      BY <2>1, <2>3, TypedFacts DEF Holds
    <3>2. /\ worker[w].verdict \in Verdict
          /\ worker[w].verdict.status \in {"failed", "indeterminate", "canceled"}
      BY TypedFacts DEF Process, Verdict
    <3>3. /\ DispatchedRow(job[j]).status # "absent"
          /\ SavingRow(job[j]).status # "absent"
          /\ CompletedRow(job[j], worker[w].stored).status # "absent"
          /\ FailedRow(job[j], worker[w].verdict).status # "absent"
      BY <3>1, <3>2, DispatchedFields, SavingFields, CompletedFields, FailedFields
    <3>4. \A k \in Jobs \ {j} : job'[k] = job[k]
      BY <2>3, <3>1
    <3>5. job'[j].status # "absent"
      BY <2>1, <2>3, <3>1, <3>3
    <3> QED
      BY <3>1, <3>4, <3>5 DEF SameRows
  <2> QED
    BY <1>5, <2>2, <2>3
       DEF BeginUpstream, BeginUpstreamLost, MarkSaving, Complete, Report, Dispatchable
<1>6. ASSUME NEW w \in Workers,
             \/ StartWorker(w) \/ Crash(w) \/ PrepareFails(w) \/ SendRequest(w)
             \/ SendFails(w) \/ Answered(w) \/ Refused(w) \/ ParseFails(w)
             \/ StoreAsset(w) \/ StoreFails(w)
      PROVE  UNCHANGED job
  BY <1>6 DEF StartWorker, Crash, PrepareFails, SendRequest, SendFails, Answered,
     Refused, ParseFails, StoreAsset, StoreFails
<1> QED
  BY <1>1, <1>2, <1>3, <1>4, <1>5, <1>6 DEF QueueStep, WorkerStep

LEMMA CreateLinks ==
  ASSUME AdmissionTypeOK, Typed, Linked, NEW c \in Calls, CreateJob(c)
  PROVE  Linked'
<1>1. /\ jobs' = jobs \cup {NewJob(c)} /\ call[c].pc = "insert"
      /\ NewJob(c).id = c /\ NewJob(c).key = call[c].ask.key
      /\ \A d \in Calls : call'[d].ask.key = call[d].ask.key
      /\ \A d \in Calls \ {c} : call'[d] = call[d]
      /\ call'[c].pc \in {"accepted", "failed"}
  BY AnsweredCall DEF CreateJob, InsertJob, NewJob, AdmissionTypeOK, Answer
<1>2. /\ job[c].status = "absent" /\ job'[c].status = "queued"
      /\ \A d \in Calls \ {c} : job'[d] = job[d]
  BY TypedFacts, RowsAssumption DEF CreateJob, Submit, Row
<1>3. \A j \in jobs : j.id \in Calls \ {c}
  BY <1>1 DEF Linked, AdmissionTypeOK, Job
<1> QED
  BY <1>1, <1>2, <1>3 DEF Linked

LEMMA ReadsLink ==
  ASSUME AdmissionTypeOK, Linked, UNCHANGED vars, NEW c \in Calls, CallReads(c)
  PROVE  Linked'
<1>1. /\ \A d \in Calls \ {c} : call'[d] = call[d]
      /\ call'[c].ask = call[c].ask
      /\ call[c].pc \in {"unsent"} \cup Step
  BY CallStepMoved DEF CallStep, CallMoved
<1>2. jobs' = jobs /\ job' = job
  BY DEF CallReads, Arrive, CheckProject, CheckCredential, ReadPolicy, ReadItems,
     FindJob, CallFails, OnlyCall, vars
<1>3. \A j \in jobs : j.id \in Calls \ {c}
  BY <1>1 DEF Linked, AdmissionTypeOK, Job, Step
<1> QED
  BY <1>1, <1>2, <1>3 DEF Linked

LEMMA LinkStep ==
  ASSUME AdmissionTypeOK, Typed, IInv, Linked, [ImageNext]_imageVars
  PROVE  Linked'
<1>1. CASE \E c \in Calls : CreateJob(c)
  BY <1>1, CreateLinks
<1>2. CASE UNCHANGED vars /\ \E c \in Calls : CallReads(c)
  BY <1>2, ReadsLink
<1>3. CASE UNCHANGED vars /\ UNCHANGED <<jobs, call>>
  BY <1>3 DEF Linked, vars
<1>4. CASE UNCHANGED admissionVars /\ QueueStep
  <2>1. SameRows /\ jobs' = jobs /\ call' = call
    BY <1>4, QueueStepRows DEF admissionVars
  <2>2. \A j \in jobs : j.id \in Jobs
    BY RowsAssumption DEF AdmissionTypeOK, Job
  <2> QED
    BY <2>1, <2>2, RowsAssumption DEF Linked, SameRows
<1>5. CASE UNCHANGED <<admissionVars, vars>>
  BY <1>5 DEF Linked, vars, admissionVars
<1> QED
  BY <1>1, <1>2, <1>3, <1>4, <1>5, ImageSteps DEF imageVars

(* The two views of a row go together in every state of the service.       *)
THEOREM RowsAreLinked ==
  ImageSpec => [](AdmissionTypeOK /\ JobsInv /\ Typed /\ IInv /\ Linked)
<1>1. ImageInit => Linked
  BY RowsAssumption DEF ImageInit, AdmissionInit, Init, EmptyRow, Linked
<1>2. AdmissionTypeOK /\ Typed /\ IInv /\ Linked /\ [ImageNext]_imageVars => Linked'
  BY LinkStep
<1> QED
  BY <1>1, <1>2, ServiceAdmits, ServiceQueues, AdmissionInvariance, Invariance, PTL
     DEF ImageSpec

(* What was sent for a call was sent for the one job of its key.           *)
LEMMA SentHasJob ==
  ASSUME AdmissionTypeOK, Typed, IInv, Linked, NEW c \in Calls, sends[c] > 0
  PROVE  /\ sends[c] = 1 /\ job[c].started
         /\ \E j \in jobs : j.id = c /\ j.key = call[c].ask.key
<1>1. c \in Jobs /\ JobInv(c)
  BY RowsAssumption DEF IInv
<1>2. sends[c] = 1 /\ job[c].started
  BY <1>1 DEF JobInv
<1>3. job[c].status # "absent"
  BY <1>1, <1>2 DEF JobInv
<1> QED
  BY <1>2, <1>3 DEF Linked

(* One key is paid for once, however often calls and workers try.          *)
THEOREM PaidOncePerKey == ImageSpec => []OneRequestPerKey
<1>1. AdmissionTypeOK /\ JobsInv /\ Typed /\ IInv /\ Linked => OneRequestPerKey
  BY SentHasJob DEF JobsInv, OneJobPerKey, OneRequestPerKey
<1> QED
  BY <1>1, RowsAreLinked, PTL

(* A job that is shown canceled has cost nothing under any of its calls.   *)
THEOREM CanceledKeysAreFree == ImageSpec => []CanceledKeyIsFree
<1>1. ASSUME AdmissionTypeOK, JobsInv, Typed, IInv, Linked,
             NEW c \in Calls, NEW d \in Calls,
             call[c].pc = "accepted", job[call[c].job].status = "canceled",
             call[d].ask.key = call[c].ask.key
      PROVE  sends[d] = 0
  <2>1. PICK j \in jobs : j.id = call[c].job /\ j.key = call[c].ask.key
    BY <1>1 DEF JobsInv, CallInv, Accepted
  <2>2. ASSUME sends[d] > 0 PROVE FALSE
    <3>1. PICK k \in jobs : k.id = d /\ k.key = call[d].ask.key
      BY <1>1, <2>2, SentHasJob
    <3>2. d = call[c].job
      BY <1>1, <2>1, <3>1 DEF JobsInv, OneJobPerKey
    <3>3. job[d].started /\ JobInv(d)
      BY <1>1, <2>2, SentHasJob, RowsAssumption DEF IInv
    <3> QED
      BY <1>1, <3>2, <3>3 DEF JobInv
  <2>3. sends[d] \in Nat
    BY <1>1, RowsAssumption DEF Typed, TypeOK
  <2> QED
    BY <2>2, <2>3
<1>2. AdmissionTypeOK /\ JobsInv /\ Typed /\ IInv /\ Linked => CanceledKeyIsFree
  BY <1>1 DEF CanceledKeyIsFree
<1> QED
  BY <1>2, RowsAreLinked, PTL

(* Answers and rows agree.                                                 *)
THEOREM AnswersAreTrue == ImageSpec => []AnswersMatchRows
<1>1. JobsInv => \A c \in Calls : call[c].pc = "accepted" =>
                   \E j \in jobs : j.id = call[c].job
  BY DEF JobsInv, CallInv, Accepted
<1>2. ASSUME JobsInv, Linked, NEW c \in Calls
      PROVE  /\ call[c].pc = "accepted" => job[call[c].job].status # "absent"
             /\ job[c].status # "absent" => call[c].pc \in {"accepted", "failed"}
  <2>1. ASSUME call[c].pc = "accepted" PROVE job[call[c].job].status # "absent"
    <3>1. PICK j \in jobs : j.id = call[c].job
      BY <1>1, <1>2, <2>1
    <3>2. job[j.id].status # "absent"
      BY <1>2 DEF Linked
    <3> QED
      BY <3>1, <3>2
  <2>2. ASSUME job[c].status # "absent" PROVE call[c].pc \in {"accepted", "failed"}
    <3>1. PICK j \in jobs : j.id = c
      BY <1>2, <2>2 DEF Linked
    <3>2. call[j.id].pc \in {"accepted", "failed"}
      BY <1>2 DEF Linked
    <3> QED
      BY <3>1, <3>2
  <2> QED
    BY <2>1, <2>2
<1>3. JobsInv /\ Linked => AnswersMatchRows
  BY <1>2 DEF AnswersMatchRows
<1> QED
  BY <1>3, RowsAreLinked, PTL
-----------------------------------------------------------------------------
(***************************************************************************)
(* The service implements KeyedService.  Since the jobs of a key are at    *)
(* most one, what a key shows, has spent and was given is read off one     *)
(* row; and what a step does to that row is a JobMove of the queue.        *)
(***************************************************************************)
ServiceInv == AdmissionTypeOK /\ JobsInv /\ Typed /\ IInv /\ Linked

RowShown(j) == [job |-> j.id, state |-> Outcome(job[j.id].status)]
RowSpent(j) == IF sends[j.id] = 0 THEN {} ELSE {<<j.id, 1>>}

KeyView(k) ==
  /\ (\A j \in jobs : j.key # k) =>
       ShownFor(k) = {} /\ SpentFor(k) = {} /\ GivenFor(k) = {}
  /\ \A j \in jobs : j.key = k =>
       /\ ShownFor(k) = {RowShown(j)} /\ SpentFor(k) = RowSpent(j)
       /\ GivenFor(k) \subseteq {j.id}

LEMMA KeyViews == ServiceInv => \A k \in Keys : KeyView(k)
<1> SUFFICES ASSUME ServiceInv, NEW k \in Keys PROVE KeyView(k)
  OBVIOUS
<1>1. /\ AdmissionTypeOK /\ JobsInv /\ Typed /\ IInv /\ Linked
      /\ \A j \in jobs : j.id \in Calls
      /\ \A c \in Calls : sends[c] \in {0, 1}
  BY RowsAssumption DEF ServiceInv, AdmissionTypeOK, Job, IInv, JobInv
<1>2. ASSUME NEW c \in Calls, sends[c] # 0
      PROVE  \E j \in jobs : j.id = c /\ j.key = call[c].ask.key
  BY <1>1, <1>2, SentHasJob
<1>3. ASSUME NEW c \in Calls, call[c].pc = "accepted"
      PROVE  \E j \in jobs : j.id = call[c].job /\ j.key = call[c].ask.key
  BY <1>1, <1>3 DEF JobsInv, CallInv, Accepted
<1>4. \A s : s \in SpentFor(k) <=>
        \E c \in Calls : call[c].ask.key = k /\ sends[c] # 0 /\ s = <<c, 1>>
  BY <1>1 DEF SpentFor
<1>5. ASSUME \A j \in jobs : j.key # k
      PROVE  ShownFor(k) = {} /\ SpentFor(k) = {} /\ GivenFor(k) = {}
  <2>1. ShownFor(k) = {} /\ GivenFor(k) = {}
    BY <1>3, <1>5 DEF ShownFor, GivenFor
  <2>2. SpentFor(k) = {}
    BY <1>2, <1>4, <1>5
  <2> QED
    BY <2>1, <2>2
<1>6. ASSUME NEW j \in jobs, j.key = k
      PROVE  /\ ShownFor(k) = {RowShown(j)} /\ SpentFor(k) = RowSpent(j)
             /\ GivenFor(k) \subseteq {j.id}
  <2>1. \A i \in jobs : i.key = k => i = j
    BY <1>1, <1>6 DEF JobsInv, OneJobPerKey
  <2>2. ShownFor(k) = {RowShown(j)}
    BY <1>6, <2>1 DEF ShownFor, RowShown
  <2>3. GivenFor(k) \subseteq {j.id}
    BY <1>3, <2>1 DEF GivenFor
  <2>4. call[j.id].ask.key = k
    BY <1>1, <1>6 DEF Linked
  <2>5. \A s : s \in SpentFor(k) <=> sends[j.id] # 0 /\ s = <<j.id, 1>>
    BY <1>1, <1>2, <1>4, <2>1, <2>4
  <2>6. SpentFor(k) = RowSpent(j)
    BY <2>5 DEF RowSpent
  <2> QED
    BY <2>2, <2>3, <2>6
<1> QED
  BY <1>5, <1>6 DEF KeyView

(* What handlers leave as it is.                                           *)
Lasting ==
  /\ jobs \subseteq jobs'
  /\ \A c \in Calls : call'[c].ask = call[c].ask
  /\ \A c \in Calls : call[c].pc = "accepted" => call'[c] = call[c]

LEMMA StepLasts ==
  ASSUME AdmissionTypeOK, [ImageNext]_imageVars
  PROVE  Lasting
<1>1. ASSUME NEW c \in Calls, CallStep(c) PROVE Lasting
  <2>1. CallMoved(c)
    BY <1>1, CallStepMoved
  <2>2. jobs \subseteq jobs'
    BY <1>1, CallStepJobs DEF InsertJob
  <2> QED
    BY <2>1, <2>2 DEF CallMoved, Lasting, Step
<1>2. CASE UNCHANGED <<jobs, call>>
  BY <1>2 DEF Lasting
<1>3. \A c \in Calls : CreateJob(c) \/ CallReads(c) => CallStep(c)
  BY DEF CreateJob, CallStep
<1> QED
  BY <1>1, <1>2, <1>3, ImageSteps DEF imageVars, admissionVars

(* A row that was not there is queued, and nothing was sent for it.        *)
LEMMA NewRow ==
  ASSUME ServiceInv, ServiceInv', Lasting, \A c \in Jobs : JobMove(c),
         NEW j \in jobs', \A i \in jobs : i.key # j.key
  PROVE  job'[j.id].status = "queued" /\ sends'[j.id] = 0
<1>1. j.id \in Calls /\ j.id \in Jobs
  BY RowsAssumption DEF ServiceInv, AdmissionTypeOK, Job
<1>2. j.key = call[j.id].ask.key /\ job'[j.id].status # "absent"
  BY <1>1 DEF ServiceInv, Linked, Lasting
<1>3. job[j.id].status = "absent"
  BY <1>1, <1>2 DEF ServiceInv, Linked
<1>4. sends[j.id] = 0
  BY <1>1, <1>3 DEF ServiceInv, IInv, JobInv
<1>5. JobMove(j.id)
  BY <1>1
<1> QED
  BY <1>2, <1>3, <1>4, <1>5 DEF JobMove, SameRow, Sent, Canceled, Advanced,
     SameFlags, Committed, Settled

LEMMA InitKeyed == ImageInit => Keyed!Init
<1> SUFFICES ASSUME ImageInit, NEW k \in Keys
             PROVE  ShownFor(k) = {} /\ SpentFor(k) = {} /\ GivenFor(k) = {}
  BY DEF Keyed!Init
<1>1. jobs = {} /\ \A c \in Calls : call[c].pc = "unsent" /\ sends[c] = 0
  BY RowsAssumption DEF ImageInit, AdmissionInit, Unsent, Init
<1>2. SpentFor(k) = {}
  BY <1>1 DEF SpentFor
<1> QED
  BY <1>1, <1>2 DEF ShownFor, GivenFor

LEMMA KeyViewsNext == (ServiceInv => \A k \in Keys : KeyView(k))'
BY KeyViews, PTL

(* One step, seen by one key.                                              *)
LEMMA KeyMoves ==
  ASSUME ServiceInv, ServiceInv', Lasting, \A c \in Jobs : JobMove(c),
         NEW k \in Keys, KeyView(k), KeyView(k)'
  PROVE  /\ Keyed!Place(k) \/ Keyed!Send(k) \/ Keyed!Settle(k) \/ Keyed!Rest(k)
         /\ Keyed!Answer(k)
<1>1. GivenFor(k) \subseteq GivenFor(k)'
  BY DEF GivenFor, Lasting
<1>2. \A j \in jobs \cup jobs' : j.id \in Calls /\ j.id \in Jobs
  BY RowsAssumption DEF ServiceInv, AdmissionTypeOK, Job
<1>3. CASE \A j \in jobs' : j.key # k
  <2>1. \A j \in jobs : j.key # k
    BY <1>3 DEF Lasting
  <2> QED
    BY <1>3, <2>1 DEF KeyView, Keyed!Rest, Keyed!Answer
<1>4. ASSUME NEW j \in jobs', j.key = k PROVE Keyed!Answer(k)
  <2>1. ShownFor(k)' = {RowShown(j)'} /\ GivenFor(k)' \subseteq {j.id}
    BY <1>4 DEF KeyView
  <2>2. RowShown(j)'.job = j.id
    BY DEF RowShown
  <2> QED
    BY <1>1, <2>1, <2>2 DEF Keyed!Answer
<1>5. ASSUME NEW j \in jobs', j.key = k, \A i \in jobs : i.key # k
      PROVE  Keyed!Place(k)
  <2>1. job'[j.id].status = "queued" /\ sends'[j.id] = 0
    BY <1>5, NewRow
  <2>2. ShownFor(k)' = {RowShown(j)'} /\ SpentFor(k)' = RowSpent(j)'
    BY <1>5 DEF KeyView
  <2>3. ShownFor(k) = {} /\ SpentFor(k) = {}
    BY <1>5 DEF KeyView
  <2> QED
    BY <1>2, <2>1, <2>2, <2>3
       DEF RowShown, RowSpent, Outcome, Keyed!Place, Keyed!Shown
<1>6. ASSUME NEW j \in jobs, j.key = k
      PROVE  Keyed!Send(k) \/ Keyed!Settle(k) \/ Keyed!Rest(k)
  <2>1. /\ ShownFor(k) = {RowShown(j)} /\ SpentFor(k) = RowSpent(j)
        /\ ShownFor(k)' = {RowShown(j)'} /\ SpentFor(k)' = RowSpent(j)'
    BY <1>6 DEF KeyView, Lasting
  <2>2. /\ j.id \in Calls /\ JobInv(j.id) /\ JobMove(j.id)
        /\ job[j.id].status # "absent"
    BY <1>2, <1>6 DEF ServiceInv, IInv, Linked
  <2>3. CASE SameRow(j.id) /\ sends'[j.id] = sends[j.id]
    BY <2>1, <2>3 DEF SameRow, RowShown, RowSpent, Keyed!Rest
  <2>4. CASE Sent(j.id)
    BY <2>1, <2>2, <2>4
       DEF Sent, SameRow, RowShown, RowSpent, Outcome, Keyed!Send, Keyed!Shown
  <2>5. CASE Canceled(j.id)
    <3>1. CASE job[j.id].status = "queued"
      BY <2>1, <2>2, <2>5, <3>1 DEF Canceled, JobInv, RowShown, RowSpent, Outcome,
         Keyed!Settle, Keyed!Shown, Keyed!Outcomes
    <3>2. CASE job[j.id].status = "running"
      BY <2>1, <2>5, <3>2 DEF Canceled, RowShown, RowSpent, Outcome, Keyed!Rest
    <3> QED
      BY <2>5, <3>1, <3>2 DEF Canceled
  <2>6. CASE Advanced(j.id) \/ Committed(j.id)
    BY <2>1, <2>2, <2>6
       DEF Advanced, Committed, SameFlags, RowShown, RowSpent, Outcome, Keyed!Rest
  <2>7. CASE Settled(j.id)
    BY <2>1, <2>2, <2>7 DEF Settled, SameFlags, JobInv, RowShown, RowSpent,
       Outcome, Terminal, Keyed!Settle, Keyed!Shown, Keyed!Outcomes
  <2> QED
    BY <2>2, <2>3, <2>4, <2>5, <2>6, <2>7 DEF JobMove
<1> QED
  BY <1>3, <1>4, <1>5, <1>6 DEF Lasting

LEMMA NextKeyed ==
  ServiceInv /\ ServiceInv' /\ [ImageNext]_imageVars
    => [Keyed!Next]_(Keyed!keyedVars)
<1> SUFFICES ASSUME ServiceInv, ServiceInv', [ImageNext]_imageVars, NEW k \in Keys
             PROVE  /\ \/ Keyed!Place(k) \/ Keyed!Send(k)
                       \/ Keyed!Settle(k) \/ Keyed!Rest(k)
                    /\ Keyed!Answer(k)
  BY DEF Keyed!Next
<1>1. Lasting /\ \A c \in Jobs : JobMove(c)
  BY StepLasts, QueueNext, NextMoves DEF ServiceInv
<1> QED
  BY <1>1, KeyViews, KeyViewsNext, KeyMoves

(* However calls, policies, cancellations, workers and leases interleave,  *)
(* the service keeps the promise of KeyedService to every key.             *)
THEOREM ServiceKeepsPromise == ImageSpec => KeepsPromise
<1>1. ImageSpec => []ServiceInv
  BY RowsAreLinked DEF ServiceInv
<1> QED
  BY <1>1, InitKeyed, NextKeyed, PTL DEF ImageSpec, KeepsPromise, Keyed!Spec
=============================================================================
