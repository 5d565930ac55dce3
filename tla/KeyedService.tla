---------------------------- MODULE KeyedService ----------------------------
(***************************************************************************)
(* What the image service promises to a client that names its wish with an *)
(* Idempotency-Key, with no handler, no policy, no queue and no worker in  *)
(* sight.  A key gets one job, however often it is used; every answer that *)
(* accepts it names that job; at most one upstream request is made for the *)
(* key; and the job has one outcome, which tells whether one was.          *)
(*                                                                         *)
(* Several keys may move in the same step: one claim of a worker settles   *)
(* every job whose lease has run out.                                      *)
(***************************************************************************)
EXTENDS Naturals

CONSTANTS
  Keys,  \* Idempotency-Key values
  Jobs   \* ids of jobs

VARIABLES
  shown,  \* [Keys -> the jobs with the key, each open or with its outcome]
  spent,  \* [Keys -> the upstream requests made for the key, per job]
  given   \* [Keys -> the jobs named in answers that accepted the key]

keyedVars == <<shown, spent, given>>

Outcomes == {"completed", "failed", "canceled", "indeterminate"}

Shown(j, state) == [job |-> j, state |-> state]

Init ==
  /\ shown = [k \in Keys |-> {}]
  /\ spent = [k \in Keys |-> {}]
  /\ given = [k \in Keys |-> {}]

Place(k) ==
  /\ shown[k] = {} /\ spent[k] = {}
  /\ \E j \in Jobs : shown'[k] = {Shown(j, "open")}
  /\ spent'[k] = {}

(* A worker that was thought lost may send after its job was declared      *)
(* indeterminate, and after no other outcome.                              *)
Send(k) ==
  /\ spent[k] = {}
  /\ \E j \in Jobs :
       /\ shown[k] \in {{Shown(j, "open")}, {Shown(j, "indeterminate")}}
       /\ spent'[k] = {<<j, 1>>}
  /\ shown'[k] = shown[k]

Settle(k) ==
  /\ \E j \in Jobs, o \in Outcomes :
       /\ shown[k] = {Shown(j, "open")} /\ shown'[k] = {Shown(j, o)}
       /\ o = "completed" => spent[k] # {}
       /\ o = "canceled" => spent[k] = {}
  /\ spent'[k] = spent[k]

Rest(k) == shown'[k] = shown[k] /\ spent'[k] = spent[k]

(* The answer to a call with the key, in the step that creates the job or  *)
(* in a later one.                                                         *)
Answer(k) ==
  \/ given'[k] = given[k]
  \/ \E r \in shown'[k] : given'[k] = {r.job}

Next ==
  \A k \in Keys :
    /\ Place(k) \/ Send(k) \/ Settle(k) \/ Rest(k)
    /\ Answer(k)

Spec == Init /\ [][Next]_keyedVars
=============================================================================
