---------------------------- MODULE MCImageJobs ----------------------------
(* Small instances of ImageJobs for TLC.                                   *)
EXTENDS ImageJobs, TLC

CONSTANTS small, large

Narrow == [on |-> TRUE, sizes |-> {small}, default |-> small]
Wide == [on |-> TRUE, sizes |-> {small, large}, default |-> large]
Suspended == [on |-> FALSE, sizes |-> {small, large}, default |-> Unset]

(* The model grows, shrinks and changes its default, or is suspended.      *)
MCOffers == {Narrow, Wide, Suspended}

MCSizes == {small, large}

Symmetry == Permutations(Calls) \cup Permutations(Admins)
              \cup Permutations(Prompts)

(* A bound: either the administrators race each other, with all their      *)
(* edits, before any call; or the calls race each other and one edit of    *)
(* one administrator, or the loss of project and credential; or they race  *)
(* the workers, cancellations and the loss of the credential.              *)
QueueIsIdle ==
  /\ \A w \in Workers : worker[w].pc = "unborn"
  /\ \A j \in Jobs : ~job[j].cancel
OneRace ==
  \/ /\ QueueIsIdle /\ project /\ usable
     /\ \A c \in Calls : call[c].pc = "unsent"
  \/ /\ QueueIsIdle /\ Edits <= 1 /\ ((project /\ usable) \/ Edits = 0)
     /\ \E a \in Admins : admin[a].pc = "away"
  \/ /\ Edits = 0 /\ project /\ policy.offer = Wide
     /\ \A a \in Admins : admin[a].pc = "away"
=============================================================================
