------------------------------ MODULE TaskView ------------------------------
(***************************************************************************)
(* What a page may count on about the jobs it follows, and all it knows of *)
(* the service that runs them: a job opens once, ends once, in one of      *)
(* three ways, and is canceled only if somebody asked for it.              *)
(*                                                                         *)
(* Several jobs may move in the same step: one claim of a worker settles   *)
(* every job whose lease has run out, and calls of a tab that was closed   *)
(* may all have arrived.                                                   *)
(***************************************************************************)
CONSTANT Tasks

VARIABLES
  state,  \* [Tasks -> "none", "open" or one of Ends]
  asked   \* the tasks whose cancellation was asked for

taskVars == <<state, asked>>

(* "failed" stands for "indeterminate" as well: no page tells them apart.  *)
Ends == {"completed", "failed", "canceled"}

Init == state = [t \in Tasks |-> "none"] /\ asked = {}

Open(t) == state[t] = "none" /\ state'[t] = "open"

End(t) ==
  /\ state[t] = "open" /\ state'[t] \in Ends
  /\ state'[t] = "canceled" => t \in asked'

Rest(t) == state'[t] = state[t]

Next ==
  /\ asked \subseteq asked'
  /\ \A t \in Tasks : Open(t) \/ End(t) \/ Rest(t)

Spec == Init /\ [][Next]_taskVars
=============================================================================
