---------------------- MODULE DeploymentOperatorProofs ----------------------
(* The safety of DeploymentOperator for any releases and any number of      *)
(* operations, restarts and commands that outlive their script.             *)
(*                                                                          *)
(* Everything rests on the lock: a command keeps it, so at most one command *)
(* goes on, and it belongs to the latest operation that ran one.  Hence no  *)
(* command of an older update can disturb what a later one has deployed.    *)
EXTENDS DeploymentOperator, SequenceTheorems, TLAPS

-----------------------------------------------------------------------------
(* Types.  They need that commands do what their request asks for.          *)

CommandsFit ==
  /\ \A n \in 1..Len(operations) :
       operations[n].component = "sub2api" /\ IsUpdate(operations[n])
         => operations[n].target \in Releases
  /\ \A c \in commands :
       LET o == operations[c.op]
       IN  /\ c.does \in {"deploy", "switch"} => o.component = "sub2api" /\ IsUpdate(o)
           /\ c.does = "rollback" => o.component = "sub2api" /\ o.action = "rollback"
           /\ c.does = "canvas" => o.component = "canvas"
           /\ c.does = "reconcile" => IsUpdate(o)

LEMMA InitType == Init => TypeOK
<1> SUFFICES ASSUME Init PROVE TypeOK
  OBVIOUS
<1>1. operations \in Seq(Operation) /\ Len(operations) = 0
  BY EmptySeq DEF Init
<1>2. thread \in Thread /\ thread.pc = "none"
  BY DEF Init, NoThread, Thread
<1>3. report \in [Ids -> Report]
  BY DEF Init, Report
<1>4. active \in 0..Len(operations) /\ Len(operations) <= MaxOps /\ mishaps \in 0..MaxMishaps
  BY <1>1, BoundsAssumption DEF Init
<1>5. /\ service \in [live : Releases, idle : Releases]
      /\ switch \in [by : {"nobody", "deploy", "rollback", "person"}, from : Releases]
  BY ReleasesAssumption DEF Init
<1>. QED
  BY <1>1, <1>2, <1>3, <1>4, <1>5 DEF Init, TypeOK

(* The record of the active operation. *)
LEMMA ActiveRecord ==
  ASSUME TypeOK, active # 0
  PROVE  active \in 1..Len(operations) /\ active \in Ids /\ Op \in Operation
BY BoundsAssumption, ElementOfSeq DEF TypeOK, Op, Ids

(* A new state of the active operation. *)
LEMMA Recorded ==
  ASSUME TypeOK, active # 0, NEW r \in Operation,
         operations' = [operations EXCEPT ![active] = r]
  PROVE  /\ operations' \in Seq(Operation) /\ Len(operations') = Len(operations)
         /\ operations'[active] = r
         /\ \A n \in 1..Len(operations) : n # active => operations'[n] = operations[n]
BY ActiveRecord, ExceptSeq DEF TypeOK

LEMMA ThreadForms ==
  ASSUME thread \in Thread
  PROVE  /\ NoThread \in Thread
         /\ \A pc \in {"lock", "preflight", "waiting", "check", "exited"} :
              [thread EXCEPT !.pc = pc] \in Thread
         /\ \A pc \in {"queued", "check", "exited"}, exit \in {"ok", "failed", "raised"} :
              [pc |-> pc, exit |-> exit] \in Thread
BY DEF Thread, NoThread

(* A step of the thread that gives it a new place and leaves the rest       *)
(* alone.                                                                   *)
LEMMA ThreadMoves ==
  ASSUME TypeOK, active # 0, thread' \in Thread,
         UNCHANGED <<operations, active, report, service, person, switch, done, mishaps>>,
         commands' = commands \/ \E does \in {"deploy", "rollback", "canvas", "reconcile"} : Run(does)
  PROVE  TypeOK'
<1>1. commands' \subseteq Command /\ \A c \in commands' : c.op <= Len(operations)
  BY ActiveRecord, BoundsAssumption DEF Run, Command, TypeOK
<1>. QED
  BY <1>1 DEF TypeOK

LEMMA StartType ==
  ASSUME TypeOK, NEW component \in Components, NEW action \in Actions,
         NEW target \in Releases \cup {None}, Start(component, action, target)
  PROVE  TypeOK'
<1> DEFINE r == [component |-> component, action |-> action, target |-> target,
                 state |-> "queued", deployed |-> FALSE]
<1>1. r \in Operation
  BY DEF Operation
<1>2. /\ operations' \in Seq(Operation) /\ Len(operations') = Len(operations) + 1
  BY <1>1, AppendProperties DEF Start, TypeOK
<1>3. thread' \in Thread
  BY DEF Start, Thread
<1>4. Len(operations) \in Nat
  BY LenProperties DEF TypeOK
<1>5. Len(operations') <= MaxOps /\ active' \in 0..Len(operations') /\ active' # 0
  BY <1>2, <1>4, BoundsAssumption DEF Start
<1>6. \A c \in commands' : c.op <= Len(operations')
  BY <1>2, <1>4 DEF Start, TypeOK, Command, Ids
<1>7. done' \subseteq 1..Len(operations')
  BY <1>2, <1>4 DEF Start, TypeOK
<1>8. UNCHANGED <<commands, report, service, person, switch, mishaps>>
  BY DEF Start
<1>. QED
  BY <1>2, <1>3, <1>5, <1>6, <1>7, <1>8 DEF TypeOK

LEMMA BeginType == TypeOK /\ Begin => TypeOK'
<1> SUFFICES ASSUME TypeOK, Begin PROVE TypeOK'
  OBVIOUS
<1>0. active # 0 /\ Op \in Operation
  BY ActiveRecord DEF Begin, TypeOK
<1>1. thread' \in Thread
  BY ThreadForms DEF Begin, Goto, Exit, TypeOK
<1>2. operations' \in Seq(Operation) /\ Len(operations') = Len(operations)
  <2>1. CASE operations' = [operations EXCEPT ![active].state = "running"]
    <3>1. [Op EXCEPT !.state = "running"] \in Operation
      BY <1>0 DEF Operation
    <3>2. operations' = [operations EXCEPT ![active] = [Op EXCEPT !.state = "running"]]
      BY <2>1 DEF Op
    <3>. QED
      BY <1>0, <3>1, <3>2, Recorded
  <2>. QED
    BY <2>1 DEF Begin, TypeOK
<1>3. mishaps' \in 0..MaxMishaps
  BY BoundsAssumption DEF Begin, Mishap, TypeOK
<1>. QED
  BY <1>0, <1>1, <1>2, <1>3 DEF Begin, TypeOK

LEMMA FinishedType == TypeOK /\ active # 0 => Finished \in Operation
<1> SUFFICES ASSUME TypeOK, active # 0 PROVE Finished \in Operation
  OBVIOUS
<1>1. Op \in Operation
  BY ActiveRecord
<1>2. Deployed \in BOOLEAN
  BY DEF Deployed
<1>. QED
  BY <1>1, <1>2 DEF Finished, Operation, Terminal

LEMMA FinishType == TypeOK /\ Finish => TypeOK'
<1> SUFFICES ASSUME TypeOK, Finish PROVE TypeOK'
  OBVIOUS
<1>0. active # 0 /\ Finished \in Operation
  BY FinishedType DEF Finish, TypeOK
<1>1. thread' \in Thread /\ thread'.pc = "none"
  BY ThreadForms DEF Finish, TypeOK, NoThread
<1>2. operations' \in Seq(Operation) /\ Len(operations') = Len(operations)
  BY <1>0, Recorded DEF Finish, TypeOK
<1>3. mishaps' \in 0..MaxMishaps
  BY BoundsAssumption DEF Finish, Mishap, TypeOK
<1>4. active' \in 0..Len(operations')
  BY <1>2, LenProperties DEF Finish, TypeOK
<1>. QED
  BY <1>1, <1>2, <1>3, <1>4 DEF Finish, TypeOK

LEMMA RestartType == TypeOK /\ Restart => TypeOK'
<1> SUFFICES ASSUME TypeOK, Restart PROVE TypeOK'
  OBVIOUS
<1>1. \A n \in 1..Len(operations) : Interrupted(operations[n]) \in Operation
  <2>1. ASSUME NEW o \in Operation PROVE Interrupted(o) \in Operation
    BY DEF Interrupted, Operation, Terminal
  <2>. QED
    BY <2>1, ElementOfSeq DEF TypeOK
<1>2. operations' \in Seq(Operation) /\ Len(operations') = Len(operations)
  BY <1>1, IsASeq, LenProperties DEF Restart, TypeOK
<1>3. mishaps' \in 0..MaxMishaps
  BY BoundsAssumption DEF Restart, Mishap, TypeOK
<1>4. commands' \subseteq commands
  BY DEF Restart
<1>5. 0 \in 0..Len(operations')
  BY <1>2, LenProperties DEF TypeOK
<1>6. thread' \in Thread /\ thread'.pc = "none"
  BY ThreadForms DEF Restart, TypeOK, NoThread
<1>. QED
  BY <1>2, <1>3, <1>4, <1>5, <1>6 DEF Restart, TypeOK

LEMMA ThreadStepType == TypeOK /\ (ThreadStep \/ TimesOut) => TypeOK'
<1> SUFFICES ASSUME TypeOK, ThreadStep \/ TimesOut PROVE TypeOK'
  OBVIOUS
<1>1. CASE Begin
  BY <1>1, BeginType
<1>2. CASE Finish
  BY <1>2, FinishType
<1>3. CASE TakeLock
  BY <1>3, ThreadForms, ThreadMoves DEF TakeLock, Goto, Exit, TypeOK
<1>4. CASE Preflight
  BY <1>4, ThreadForms, ThreadMoves DEF Preflight, Goto, Exit, TypeOK, Work
<1>5. CASE Check
  BY <1>5, ThreadForms, ThreadMoves DEF Check, Goto, Exit, TypeOK
<1>6. CASE TimesOut
  BY <1>6, ThreadForms, ThreadMoves DEF TimesOut, Exit, TypeOK
<1>. QED
  BY <1>1, <1>2, <1>3, <1>4, <1>5, <1>6 DEF ThreadStep

(* The end of a command, whatever its script makes of it. *)
LEMMA EndsType ==
  ASSUME TypeOK, NEW c \in commands, NEW how \in {"ok", "failed"}, Ends(c, how)
  PROVE  /\ thread' \in Thread /\ (thread'.pc # "none" => active # 0)
         /\ commands' \subseteq commands
BY ThreadForms DEF Ends, TypeOK

LEMMA CommandStepType ==
  ASSUME TypeOK, CommandsFit, NEW c \in commands, CommandStep(c)
  PROVE  TypeOK'
<1>0. c \in Command /\ c.op \in 1..Len(operations)
  BY LenProperties DEF TypeOK, Command, Ids
<1>1. CASE Place(c)
  <2>1. [c EXCEPT !.does = "switch"] \in Command /\ [c EXCEPT !.does = "switch"].op = c.op
    BY <1>0 DEF Command
  <2>2. operations[c.op].target \in Releases
    BY <1>0, <1>1 DEF Place, CommandsFit, IsUpdate
  <2>3. service' \in [live : Releases, idle : Releases]
    BY <1>1, <2>2 DEF Place, TypeOK
  <2>4. commands' \subseteq Command /\ \A d \in commands' : d.op <= Len(operations)
    BY <1>0, <1>1, <2>1 DEF Place, TypeOK
  <2>. QED
    BY <1>1, <2>3, <2>4 DEF Place, TypeOK
<1>2. CASE SwitchColors(c)
  <2>1. thread' \in Thread /\ (thread'.pc # "none" => active # 0) /\ commands' \subseteq commands
    BY <1>2, EndsType DEF SwitchColors
  <2>2. /\ service' \in [live : Releases, idle : Releases]
        /\ switch' \in [by : {"nobody", "deploy", "rollback", "person"}, from : Releases]
    BY <1>2 DEF SwitchColors, Switched, TypeOK
  <2>. QED
    BY <1>0, <1>2, <2>1, <2>2 DEF SwitchColors, TypeOK
<1>3. CASE ReleaseCanvas(c)
  <2>1. thread' \in Thread /\ (thread'.pc # "none" => active # 0) /\ commands' \subseteq commands
    BY <1>3, EndsType DEF ReleaseCanvas
  <2>. QED
    BY <1>0, <1>3, <2>1 DEF ReleaseCanvas, TypeOK
<1>4. CASE Reconcile(c)
  <2>1. thread' \in Thread /\ (thread'.pc # "none" => active # 0) /\ commands' \subseteq commands
    BY <1>4, EndsType DEF Reconcile
  <2>. QED
    BY <1>4, <2>1 DEF Reconcile, TypeOK
<1>5. CASE CommandFails(c)
  <2>1. thread' \in Thread /\ (thread'.pc # "none" => active # 0) /\ commands' \subseteq commands
    BY <1>5, EndsType DEF CommandFails
  <2>. QED
    BY <1>5, <2>1 DEF CommandFails, TypeOK
<1>. QED
  BY <1>1, <1>2, <1>3, <1>4, <1>5 DEF CommandStep

LEMMA PersonType == TypeOK /\ (PersonLocks \/ PersonDeploys) => TypeOK'
<1> SUFFICES ASSUME TypeOK, PersonLocks \/ PersonDeploys PROVE TypeOK'
  OBVIOUS
<1>1. CASE PersonLocks
  BY <1>1 DEF PersonLocks, TypeOK
<1>2. CASE PersonDeploys
  <2>1. CASE UNCHANGED <<service, switch, mishaps>>
    BY <1>2, <2>1 DEF PersonDeploys, TypeOK
  <2>2. CASE \E r \in Releases :
               /\ Mishap
               /\ service' = [live |-> r, idle |-> service.live]
               /\ switch' = [by |-> "person", from |-> service.live]
    <3>1. service.live \in Releases
      BY DEF TypeOK
    <3>2. /\ service' \in [live : Releases, idle : Releases]
          /\ switch' \in [by : {"nobody", "deploy", "rollback", "person"}, from : Releases]
      BY <2>2, <3>1
    <3>3. mishaps' \in 0..MaxMishaps
      BY <2>2, BoundsAssumption DEF Mishap, TypeOK
    <3>. QED
      BY <1>2, <3>2, <3>3 DEF PersonDeploys, TypeOK
  <2>. QED
    BY <1>2, <2>1, <2>2 DEF PersonDeploys
<1>. QED
  BY <1>1, <1>2

LEMMA NextType == TypeOK /\ CommandsFit /\ [Next]_vars => TypeOK'
<1> SUFFICES ASSUME TypeOK, CommandsFit, [Next]_vars PROVE TypeOK'
  OBVIOUS
<1>1. CASE UNCHANGED vars
  BY <1>1 DEF vars, TypeOK
<1>. QED
  BY <1>1, StartType, ThreadStepType, RestartType, CommandStepType, PersonType DEF Next

-----------------------------------------------------------------------------
(* What a request was for never changes, and commands do what theirs asks   *)
(* for.                                                                     *)

KeepsRequests ==
  /\ Len(operations') = Len(operations)
  /\ \A n \in 1..Len(operations) :
       /\ operations'[n].component = operations[n].component
       /\ operations'[n].action = operations[n].action
       /\ operations'[n].target = operations[n].target

LEMMA RequestsKept ==
  ASSUME TypeOK, Begin \/ Finish \/ Restart \/ UNCHANGED operations
  PROVE  KeepsRequests
<1>1. CASE Begin
  <2>0. active # 0 /\ Op \in Operation
    BY <1>1, ActiveRecord DEF Begin, TypeOK
  <2>1. CASE operations' = [operations EXCEPT ![active].state = "running"]
    <3>1. [Op EXCEPT !.state = "running"] \in Operation
      BY <2>0 DEF Operation
    <3>2. operations' = [operations EXCEPT ![active] = [Op EXCEPT !.state = "running"]]
      BY <2>1 DEF Op
    <3>. QED
      BY <2>0, <3>1, <3>2, Recorded DEF KeepsRequests, Op, Operation
  <2>. QED
    BY <1>1, <2>1 DEF Begin, KeepsRequests
<1>2. CASE Finish
  <2>0. active # 0 /\ Op \in Operation /\ Finished \in Operation
    BY <1>2, ActiveRecord, FinishedType DEF Finish, TypeOK
  <2>1. CASE operations' = [operations EXCEPT ![active] = Finished]
    BY <2>0, <2>1, Recorded DEF KeepsRequests, Op, Finished, Operation
  <2>. QED
    BY <1>2, <2>1 DEF Finish, KeepsRequests
<1>3. CASE Restart
  <2>1. \A n \in 1..Len(operations) : operations[n] \in Operation
    BY ElementOfSeq DEF TypeOK
  <2>2. Len(operations') = Len(operations)
    BY <1>3, LenProperties DEF Restart, TypeOK
  <2>3. \A n \in 1..Len(operations) : operations'[n] = Interrupted(operations[n])
    BY <1>3 DEF Restart
  <2>. QED
    BY <2>1, <2>2, <2>3 DEF KeepsRequests, Interrupted, Operation
<1>4. CASE UNCHANGED operations
  BY <1>4 DEF KeepsRequests
<1>. QED
  BY <1>1, <1>2, <1>3, <1>4

LEMMA FitKept ==
  ASSUME TypeOK, CommandsFit, KeepsRequests, commands' \subseteq commands
  PROVE  CommandsFit'
<1>1. \A c \in commands : c.op \in 1..Len(operations)
  BY LenProperties DEF TypeOK, Command, Ids
<1>. QED
  BY <1>1 DEF CommandsFit, KeepsRequests, IsUpdate

LEMMA FitNext == TypeOK /\ CommandsFit /\ [Next]_vars => CommandsFit'
<1> SUFFICES ASSUME TypeOK, CommandsFit, [Next]_vars PROVE CommandsFit'
  OBVIOUS
<1>0. /\ \A c \in commands : c.op \in 1..Len(operations)
      /\ Len(operations) \in Nat
  BY LenProperties DEF TypeOK, Command, Ids
<1>1. ASSUME NEW component \in Components, NEW action \in Actions,
             NEW target \in Releases \cup {None}, Start(component, action, target)
      PROVE  CommandsFit'
  <2> DEFINE r == [component |-> component, action |-> action, target |-> target,
                   state |-> "queued", deployed |-> FALSE]
  <2>1. r \in Operation
    BY DEF Operation
  <2>2. /\ Len(operations') = Len(operations) + 1
        /\ \A n \in 1..Len(operations) : operations'[n] = operations[n]
        /\ operations'[Len(operations) + 1] = r
    BY <1>1, <2>1, AppendProperties DEF Start, TypeOK
  <2>3. component = "sub2api" /\ action = "update" => target \in Releases
    BY <1>1 DEF Start, Allowed
  <2>4. UNCHANGED commands
    BY <1>1 DEF Start
  <2>5. \A n \in 1..Len(operations') :
          operations'[n].component = "sub2api" /\ operations'[n].action = "update"
            => operations'[n].target \in Releases
    <3> SUFFICES ASSUME NEW n \in 1..Len(operations'),
                        operations'[n].component = "sub2api", operations'[n].action = "update"
                 PROVE  operations'[n].target \in Releases
      OBVIOUS
    <3>1. CASE n \in 1..Len(operations)
      BY <2>2, <3>1 DEF CommandsFit, IsUpdate
    <3>2. CASE n = Len(operations) + 1
      BY <2>2, <2>3, <3>2
    <3>. QED
      BY <1>0, <2>2, <3>1, <3>2
  <2>. QED
    BY <1>0, <2>2, <2>4, <2>5 DEF CommandsFit, IsUpdate
<1>2. CASE Begin \/ Finish \/ Restart
  BY <1>2, RequestsKept, FitKept DEF Begin, Finish, Restart
<1>3. CASE Preflight \/ Check
  <2>0. active \in 1..Len(operations) /\ Op \in Operation
    BY <1>3, ActiveRecord DEF Preflight, Check, TypeOK
  <2>1. \A c \in commands' : \/ c \in commands
                             \/ c.op = active /\ c.does = Work(Op)
                             \/ c.op = active /\ c.does = "reconcile" /\ IsUpdate(Op)
    BY <1>3 DEF Preflight, Check, Run
  <2>2. UNCHANGED operations
    BY <1>3 DEF Preflight, Check
  <2>. QED
    BY <2>0, <2>1, <2>2 DEF CommandsFit, Work, Op, Operation, IsUpdate, Components, Actions
<1>4. ASSUME NEW c \in commands, CommandStep(c) PROVE CommandsFit'
  <2>1. CASE Place(c)
    <3>1. [c EXCEPT !.does = "switch"].op = c.op /\ [c EXCEPT !.does = "switch"].does = "switch"
      BY DEF TypeOK, Command
    <3>. QED
      BY <2>1, <3>1 DEF Place, CommandsFit
  <2>2. CASE SwitchColors(c) \/ ReleaseCanvas(c) \/ Reconcile(c) \/ CommandFails(c)
    <3>1. commands' \subseteq commands /\ UNCHANGED operations
      BY <2>2 DEF SwitchColors, ReleaseCanvas, Reconcile, CommandFails, Ends
    <3>. QED
      BY <3>1, RequestsKept, FitKept
  <2>. QED
    BY <1>4, <2>1, <2>2 DEF CommandStep
<1>5. CASE TakeLock \/ TimesOut \/ PersonLocks \/ PersonDeploys \/ UNCHANGED vars
  <2>1. UNCHANGED <<operations, commands>>
    BY <1>5 DEF TakeLock, TimesOut, PersonLocks, PersonDeploys, vars
  <2>. QED
    BY <2>1, RequestsKept, FitKept
<1>. QED
  BY <1>1, <1>2, <1>3, <1>4, <1>5 DEF Next, ThreadStep

LEMMA TypedAlways == Spec => [](TypeOK /\ CommandsFit)
<1>1. Init => CommandsFit
  BY EmptySeq DEF Init, CommandsFit
<1>. QED
  BY <1>1, InitType, NextType, FitNext, PTL DEF Spec

(* The state is always of the declared shape: what is deployed is a release, *)
(* and a command belongs to a recorded operation.                            *)
THEOREM OperatorTypes == Spec => []TypeOK
BY TypedAlways, PTL
-----------------------------------------------------------------------------
(* One command at a time.                                                   *)

(* A script between two commands, and one that has succeeded, has none.     *)
Locked ==
  /\ OneDeployment
  /\ thread.pc \in {"preflight", "check"} => commands = {}
  /\ thread.pc = "exited" /\ thread.exit = "ok" => commands = {}

(* The state of the thread after a move. *)
LEMMA Moves ==
  ASSUME TypeOK
  PROVE  /\ \A pc \in {"lock", "preflight", "waiting"} : Goto(pc) => thread'.pc = pc /\ thread'.exit = thread.exit
         /\ \A how \in {"ok", "failed", "raised"} : Exit(how) => thread'.pc = "exited" /\ thread'.exit = how
BY DEF TypeOK, Thread, Goto, Exit

(* The end of a command frees the lock, unless its script has it. *)
LEMMA EndsLocked ==
  ASSUME TypeOK, Locked, UNCHANGED person, NEW c \in commands, NEW how \in {"ok", "failed"}, Ends(c, how)
  PROVE  Locked'
<1>1. commands' = {} /\ ~person
  BY DEF Ends, Locked, OneDeployment
<1>. QED
  BY <1>1 DEF Locked, OneDeployment

LEMMA LockedNext == TypeOK /\ Locked /\ [Next]_vars => Locked'
<1> SUFFICES ASSUME TypeOK, Locked, [Next]_vars PROVE Locked'
  OBVIOUS
<1>1. ASSUME NEW component \in Components, NEW action \in Actions,
             NEW target \in Releases \cup {None}, Start(component, action, target)
      PROVE  Locked'
  BY <1>1 DEF Start, Locked, OneDeployment, ScriptHolds
<1>2. CASE Begin
  BY <1>2, Moves DEF Begin, Locked, OneDeployment, ScriptHolds
<1>3. CASE TakeLock
  BY <1>3, Moves DEF TakeLock, LockFree, Locked, OneDeployment, ScriptHolds
<1>4. CASE Preflight
  <2>1. commands = {} /\ ~person
    BY <1>4 DEF Preflight, Locked, OneDeployment, ScriptHolds
  <2>. QED
    BY <1>4, <2>1, Moves DEF Preflight, Run, Locked, OneDeployment, ScriptHolds
<1>5. CASE Check
  <2>1. commands = {} /\ ~person
    BY <1>5 DEF Check, Locked, OneDeployment, ScriptHolds
  <2>. QED
    BY <1>5, <2>1, Moves DEF Check, Run, Locked, OneDeployment, ScriptHolds
<1>6. CASE TimesOut
  BY <1>6, Moves DEF TimesOut, Locked, OneDeployment, ScriptHolds
<1>7. CASE Finish \/ Restart
  BY <1>7 DEF Finish, Restart, NoThread, Locked, OneDeployment, ScriptHolds
<1>8. ASSUME NEW c \in commands, CommandStep(c) PROVE Locked'
  <2>1. CASE Place(c)
    <3>1. commands = {c} /\ ~person
      BY DEF Locked, OneDeployment
    <3>2. commands' = {[c EXCEPT !.does = "switch"]}
      BY <2>1, <3>1 DEF Place
    <3>. QED
      BY <2>1, <3>1, <3>2 DEF Place, Locked, OneDeployment
  <2>2. CASE SwitchColors(c) \/ ReleaseCanvas(c)
    BY <2>2, EndsLocked DEF SwitchColors, ReleaseCanvas
  <2>3. CASE Reconcile(c)
    BY <2>3, EndsLocked DEF Reconcile
  <2>4. CASE CommandFails(c)
    BY <2>4, EndsLocked DEF CommandFails
  <2>. QED
    BY <1>8, <2>1, <2>2, <2>3, <2>4 DEF CommandStep
<1>9. CASE PersonLocks \/ PersonDeploys
  BY <1>9 DEF PersonLocks, PersonDeploys, LockFree, Locked, OneDeployment, ScriptHolds
<1>10. CASE UNCHANGED vars
  BY <1>10 DEF vars, Locked, OneDeployment, ScriptHolds
<1>. QED
  BY <1>1, <1>2, <1>3, <1>4, <1>5, <1>6, <1>7, <1>8, <1>9, <1>10 DEF Next, ThreadStep

LEMMA LockedAlways == Spec => []Locked
<1>1. Init => Locked
  BY DEF Init, NoThread, Locked, OneDeployment, ScriptHolds
<1>. QED
  BY <1>1, LockedNext, OperatorTypes, PTL DEF Spec

(* One command at a time changes what runs, a person's script included, for  *)
(* a command keeps the lock when its script is killed.                       *)
THEOREM OneAtATime == Spec => []OneDeployment
<1>1. Locked => OneDeployment
  BY DEF Locked
<1>. QED
  BY <1>1, LockedAlways, PTL
-----------------------------------------------------------------------------
(* The command that goes on belongs to an operation that nothing after it   *)
(* has overtaken, and is not recorded as succeeded.                         *)

InOrder ==
  /\ active # 0 => active = Len(operations) /\ Op.state # "succeeded"
  /\ thread.pc \in {"queued", "lock", "preflight"} =>
       active \notin done /\ \A c \in commands : c.op # active
  /\ \A c \in commands :
       /\ c.op \in done <=> c.does = "reconcile"
       /\ \A n \in done : n <= c.op
       /\ operations[c.op].state # "succeeded"

(* What the script knows: its command came to its end, and its report.      *)
Proven ==
  /\ thread.pc = "check" /\ thread.exit = "ok" => active \in done
  /\ thread.pc = "exited" /\ thread.exit = "ok" =>
       active \in done /\ (IsUpdate(Op) => report[active] = "ok")
  /\ \A n \in Ids : report[n] # "none" => n \in done

LEMMA Numbers ==
  ASSUME TypeOK
  PROVE  /\ Len(operations) \in Nat
         /\ \A c \in commands : c.op \in 1..Len(operations) /\ c.op \in Ids
         /\ done \subseteq 1..Len(operations)
         /\ \A n \in 1..Len(operations) : operations[n] \in Operation
BY LenProperties, ElementOfSeq DEF TypeOK, Command, Ids

(* A request is a new record after the others. *)
LEMMA Requested ==
  ASSUME TypeOK, NEW component \in Components, NEW action \in Actions,
         NEW target \in Releases \cup {None}, Start(component, action, target)
  PROVE  /\ Len(operations') = Len(operations) + 1
         /\ active' = Len(operations) + 1
         /\ \A n \in 1..Len(operations) : operations'[n] = operations[n]
         /\ operations'[active'].component = component
         /\ operations'[active'].action = action
         /\ operations'[active'].state = "queued" /\ ~operations'[active'].deployed
<1> DEFINE r == [component |-> component, action |-> action, target |-> target,
                 state |-> "queued", deployed |-> FALSE]
<1>1. r \in Operation
  BY DEF Operation
<1>2. operations' = Append(operations, r)
  BY DEF Start
<1>3. /\ Len(operations') = Len(operations) + 1
      /\ \A n \in 1..Len(operations) : operations'[n] = operations[n]
      /\ operations'[Len(operations) + 1] = r
  BY <1>1, <1>2, AppendProperties DEF TypeOK
<1>. QED
  BY <1>3 DEF Start

(* What the other steps do to the records. *)
LEMMA Rewritten ==
  ASSUME TypeOK
  PROVE  /\ Begin => /\ \A n \in 1..Len(operations) :
                          /\ operations'[n].state \in {operations[n].state, "running"}
                          /\ operations'[n].deployed = operations[n].deployed
                     /\ thread'.pc \in {"lock", "exited"} /\ (thread'.pc = "exited" => thread'.exit = "raised")
                     /\ active # 0
         /\ Restart => \A n \in 1..Len(operations) :
                          /\ operations'[n].state \in {operations[n].state, "interrupted"}
                          /\ operations'[n].deployed = operations[n].deployed
         /\ Finish => /\ \A n \in 1..Len(operations) : n # active => operations'[n] = operations[n]
                      /\ operations'[active] \in {operations[active], Finished}
                      /\ active' # 0 => UNCHANGED <<operations, active>>
                      /\ active # 0
<1>1. ASSUME Begin
      PROVE  /\ \A n \in 1..Len(operations) :
                  /\ operations'[n].state \in {operations[n].state, "running"}
                  /\ operations'[n].deployed = operations[n].deployed
             /\ thread'.pc \in {"lock", "exited"} /\ (thread'.pc = "exited" => thread'.exit = "raised")
             /\ active # 0
  <2>0. active # 0 /\ Op \in Operation
    BY <1>1, ActiveRecord DEF Begin, TypeOK
  <2>1. CASE operations' = [operations EXCEPT ![active].state = "running"] /\ Goto("lock")
    <3>1. [Op EXCEPT !.state = "running"] \in Operation
      BY <2>0 DEF Operation
    <3>2. operations' = [operations EXCEPT ![active] = [Op EXCEPT !.state = "running"]]
      BY <2>1 DEF Op
    <3>. QED
      BY <2>0, <2>1, <3>1, <3>2, Recorded, Moves DEF Op, Operation
  <2>2. CASE UNCHANGED operations /\ Exit("raised")
    BY <2>0, <2>2, Moves
  <2>. QED
    BY <1>1, <2>1, <2>2 DEF Begin
<1>2. ASSUME Restart
      PROVE  \A n \in 1..Len(operations) :
               /\ operations'[n].state \in {operations[n].state, "interrupted"}
               /\ operations'[n].deployed = operations[n].deployed
  <2>1. \A n \in 1..Len(operations) : operations'[n] = Interrupted(operations[n])
    BY <1>2 DEF Restart
  <2>. QED
    BY <2>1, Numbers DEF Interrupted, Operation
<1>3. ASSUME Finish
      PROVE  /\ \A n \in 1..Len(operations) : n # active => operations'[n] = operations[n]
             /\ operations'[active] \in {operations[active], Finished}
             /\ active' # 0 => UNCHANGED <<operations, active>>
             /\ active # 0
  <2>1. active # 0 /\ Finished \in Operation
    BY <1>3, FinishedType DEF Finish, TypeOK
  <2>. QED
    BY <1>3, <2>1, Recorded DEF Finish
<1>. QED
  BY <1>1, <1>2, <1>3

LEMMA InOrderNext == TypeOK /\ Locked /\ Proven /\ InOrder /\ [Next]_vars => InOrder'
<1> SUFFICES ASSUME TypeOK, Locked, Proven, InOrder, [Next]_vars PROVE InOrder'
  OBVIOUS
<1>0. /\ Len(operations) \in Nat /\ done \subseteq 1..Len(operations)
      /\ \A c \in commands : c.op \in 1..Len(operations)
  BY Numbers
<1>1. ASSUME NEW component \in Components, NEW action \in Actions,
             NEW target \in Releases \cup {None}, Start(component, action, target)
      PROVE  InOrder'
  <2>1. UNCHANGED <<commands, done>>
    BY <1>1 DEF Start
  <2>. QED
    BY <1>0, <1>1, <2>1, Requested DEF InOrder, Op
<1>2. CASE Begin
  <2>1. UNCHANGED <<active, commands, done>> /\ thread.pc = "queued"
    BY <1>2 DEF Begin
  <2>2. KeepsRequests
    BY <1>2, RequestsKept
  <2>. QED
    BY <1>0, <1>2, <2>1, <2>2, Rewritten DEF InOrder, Op, KeepsRequests
<1>3. CASE Restart
  <2>1. UNCHANGED done /\ active' = 0 /\ commands' \subseteq commands /\ thread'.pc = "none"
    BY <1>3 DEF Restart, NoThread
  <2>. QED
    BY <1>0, <1>3, <2>1, Rewritten DEF InOrder
<1>4. CASE Finish
  <2>1. UNCHANGED <<commands, done>> /\ thread'.pc = "none" /\ thread.pc = "exited"
    BY <1>4 DEF Finish, NoThread
  <2>2. Finished.state = "succeeded" => commands = {}
    BY <2>1, ActiveRecord, <1>4, Rewritten DEF Finished, Succeeded, Locked, Operation
  <2>. QED
    BY <1>0, <1>4, <2>1, <2>2, Rewritten DEF InOrder, Op
<1>5. CASE Preflight
  <2>1. /\ UNCHANGED <<operations, active, done>> /\ active # 0 /\ Op.state # "succeeded"
        /\ thread'.pc \in {"waiting", "exited"} /\ thread.pc = "preflight"
    BY <1>5, Moves DEF Preflight, InOrder, TypeOK
  <2>2. \A c \in commands' : c \in commands \/ (c.op = active /\ c.does # "reconcile")
    BY <1>5 DEF Preflight, Run, Work
  <2>3. active \notin done /\ active = Len(operations) /\ \A n \in done : n <= active
    BY <1>0, <2>1 DEF InOrder
  <2>. QED
    BY <2>1, <2>2, <2>3 DEF InOrder, Op
<1>6. CASE Check
  <2>1. /\ UNCHANGED <<operations, active, done>> /\ active # 0 /\ Op.state # "succeeded"
        /\ thread'.pc \in {"waiting", "exited"} /\ thread.pc = "check"
    BY <1>6, Moves DEF Check, InOrder, TypeOK
  <2>2. \A c \in commands' : c \in commands \/ (c.op = active /\ c.does = "reconcile" /\ thread.exit = "ok")
    BY <1>6 DEF Check, Run
  <2>. QED
    BY <1>0, <2>1, <2>2 DEF InOrder, Op, Proven
<1>7. ASSUME NEW c \in commands, CommandStep(c) PROVE InOrder'
  <2>0. UNCHANGED <<operations, active>> /\ commands = {c}
    BY <1>7 DEF CommandStep, Place, SwitchColors, ReleaseCanvas, Reconcile, CommandFails, Locked, OneDeployment
  <2>1. CASE Place(c)
    <3>1. [c EXCEPT !.does = "switch"].op = c.op /\ [c EXCEPT !.does = "switch"].does = "switch"
      BY DEF TypeOK, Command
    <3>. QED
      BY <2>0, <2>1, <3>1 DEF Place, InOrder, Op
  <2>2. CASE SwitchColors(c) \/ ReleaseCanvas(c) \/ Reconcile(c) \/ CommandFails(c)
    <3>1. commands' = {}
      BY <2>0, <2>2 DEF SwitchColors, ReleaseCanvas, Reconcile, CommandFails, Ends
    <3>2. thread' = thread \/ thread'.pc \in {"exited", "check"}
      BY <2>2 DEF SwitchColors, ReleaseCanvas, Reconcile, CommandFails, Ends
    <3>3. done' \subseteq done \cup {c.op}
      BY <2>2 DEF SwitchColors, ReleaseCanvas, Reconcile, CommandFails
    <3>4. thread.pc \in {"queued", "lock", "preflight"} => active # c.op \/ done' = done
      BY <2>0 DEF InOrder
    <3>. QED
      BY <2>0, <3>1, <3>2, <3>3, <3>4 DEF InOrder, Op
  <2>. QED
    BY <1>7, <2>1, <2>2 DEF CommandStep
<1>8. CASE TakeLock \/ TimesOut \/ PersonLocks \/ PersonDeploys \/ UNCHANGED vars
  <2>1. UNCHANGED <<operations, active, commands, done>>
    BY <1>8 DEF TakeLock, TimesOut, PersonLocks, PersonDeploys, vars
  <2>2. thread'.pc \in {"queued", "lock", "preflight"} => thread.pc \in {"queued", "lock", "preflight"}
    BY <1>8, Moves DEF TakeLock, TimesOut, PersonLocks, PersonDeploys, vars
  <2>. QED
    BY <2>1, <2>2 DEF InOrder, Op
<1>. QED
  BY <1>1, <1>2, <1>3, <1>4, <1>5, <1>6, <1>7, <1>8 DEF Next, ThreadStep

LEMMA ProvenNext == TypeOK /\ CommandsFit /\ Locked /\ Proven /\ InOrder /\ [Next]_vars => Proven'
<1> SUFFICES ASSUME TypeOK, CommandsFit, Locked, Proven, InOrder, [Next]_vars PROVE Proven'
  OBVIOUS
<1>1. ASSUME NEW component \in Components, NEW action \in Actions,
             NEW target \in Releases \cup {None}, Start(component, action, target)
      PROVE  Proven'
  BY <1>1 DEF Start, Proven
<1>2. CASE Begin \/ Restart \/ Finish
  <2>1. UNCHANGED <<report, done>>
    BY <1>2 DEF Begin, Restart, Finish
  <2>2. thread'.pc \in {"none", "lock"} \/ (thread'.pc = "exited" /\ thread'.exit = "raised")
    BY <1>2, Rewritten DEF Restart, Finish, NoThread
  <2>. QED
    BY <2>1, <2>2 DEF Proven
<1>3. CASE TakeLock \/ TimesOut \/ Preflight
  <2>1. UNCHANGED <<report, done>>
    BY <1>3 DEF TakeLock, TimesOut, Preflight
  <2>2. thread'.pc \in {"preflight", "waiting"} \/ (thread'.pc = "exited" /\ thread'.exit = "failed")
    BY <1>3, Moves DEF TakeLock, TimesOut, Preflight
  <2>. QED
    BY <2>1, <2>2 DEF Proven
<1>4. CASE Check
  <2>1. UNCHANGED <<operations, active, report, done>>
    BY <1>4 DEF Check
  <2>2. \/ thread'.pc = "waiting"
        \/ thread'.pc = "exited" /\ thread'.exit = "failed"
        \/ thread'.pc = "exited" /\ active \in done /\ ~IsUpdate(Op)
    BY <1>4, Moves DEF Check, Proven
  <2>. QED
    BY <2>1, <2>2 DEF Proven, Op, IsUpdate
<1>5. ASSUME NEW c \in commands, CommandStep(c) PROVE Proven'
  <2>0. UNCHANGED <<operations, active>> /\ c.op \in Ids
    BY <1>5, Numbers DEF CommandStep, Place, SwitchColors, ReleaseCanvas, Reconcile, CommandFails
  <2>1. CASE Place(c)
    BY <2>0, <2>1 DEF Place, Proven, Op, IsUpdate
  <2>2. CASE SwitchColors(c) \/ ReleaseCanvas(c)
    <3>1. UNCHANGED report /\ done' = done \cup {c.op} /\ Ends(c, "ok") /\ c.does # "reconcile"
      BY <2>2 DEF SwitchColors, ReleaseCanvas
    <3>2. thread' = thread \/ (thread'.pc = "check" /\ c.op = active)
      BY <3>1 DEF Ends
    <3>. QED
      BY <2>0, <3>1, <3>2 DEF Proven, Op, IsUpdate
  <2>3. CASE Reconcile(c)
    <3>1. PICK r \in Report : /\ report' = [report EXCEPT ![c.op] = r]
                              /\ Ends(c, IF r = "ok" THEN "ok" ELSE "failed")
      BY <2>3 DEF Reconcile
    <3>2. c.op \in done /\ UNCHANGED done /\ c.does = "reconcile"
      BY <2>3 DEF Reconcile, InOrder
    <3>3. \/ thread' = thread /\ ~(thread.pc = "exited" /\ thread.exit = "ok")
          \/ thread'.pc = "exited" /\ thread'.exit = "failed"
          \/ thread'.pc = "exited" /\ c.op = active /\ r = "ok"
      BY <3>1, <3>2 DEF Ends, Locked
    <3>4. /\ report'[c.op] = r
          /\ \A n \in Ids : n # c.op => report'[n] = report[n]
      BY <2>0, <3>1 DEF TypeOK
    <3>. QED
      BY <2>0, <3>2, <3>3, <3>4 DEF Proven, Op, IsUpdate
  <2>4. CASE CommandFails(c)
    <3>1. UNCHANGED <<report, done>> /\ Ends(c, "failed") /\ c.does # "reconcile"
      BY <2>4 DEF CommandFails
    <3>2. thread' = thread \/ (thread'.pc = "check" /\ thread'.exit = "failed")
      BY <3>1 DEF Ends
    <3>. QED
      BY <2>0, <3>1, <3>2 DEF Proven, Op, IsUpdate
  <2>. QED
    BY <1>5, <2>1, <2>2, <2>3, <2>4 DEF CommandStep
<1>6. CASE PersonLocks \/ PersonDeploys \/ UNCHANGED vars
  <2>1. UNCHANGED <<operations, active, thread, report, done>>
    BY <1>6 DEF PersonLocks, PersonDeploys, vars
  <2>. QED
    BY <2>1 DEF Proven, Op, IsUpdate
<1>. QED
  BY <1>1, <1>2, <1>3, <1>4, <1>5, <1>6 DEF Next, ThreadStep

LEMMA RecordsNext ==
  TypeOK /\ Locked /\ Proven /\ InOrder /\ RecordsAreTrue /\ [Next]_vars => RecordsAreTrue'
<1> SUFFICES ASSUME TypeOK, Locked, Proven, InOrder, RecordsAreTrue, [Next]_vars
             PROVE  RecordsAreTrue'
  OBVIOUS
<1>0. /\ Len(operations) \in Nat /\ done \subseteq 1..Len(operations)
      /\ 1..Len(operations) \subseteq Ids
  BY Numbers, BoundsAssumption DEF TypeOK, Ids
<1>1. ASSUME NEW component \in Components, NEW action \in Actions,
             NEW target \in Releases \cup {None}, Start(component, action, target)
      PROVE  RecordsAreTrue'
  <2>1. UNCHANGED <<report, done>>
    BY <1>1 DEF Start
  <2>2. \A n \in 1..Len(operations') : n \in 1..Len(operations) \/ n = active'
    BY <1>0, <1>1, Requested
  <2>. QED
    BY <1>1, <2>1, <2>2, Requested DEF RecordsAreTrue, IsUpdate
<1>2. CASE Begin \/ Restart
  <2>1. UNCHANGED <<report, done>>
    BY <1>2 DEF Begin, Restart
  <2>2. KeepsRequests
    BY <1>2, RequestsKept
  <2>. QED
    BY <1>2, <2>1, <2>2, Rewritten DEF RecordsAreTrue, KeepsRequests, IsUpdate
<1>3. CASE Finish
  <2>1. UNCHANGED <<report, done>> /\ thread.pc = "exited" /\ active # 0
    BY <1>3, Rewritten DEF Finish
  <2>2. KeepsRequests /\ active \in 1..Len(operations) /\ active \in Ids /\ Op \in Operation
    BY <1>3, <2>1, RequestsKept, ActiveRecord
  <2>3. /\ Finished.action = Op.action
        /\ Finished.deployed => active \in done
        /\ Finished.state = "succeeded" => active \in done /\ (IsUpdate(Op) => report[active] = "ok")
    BY <2>1, <2>2 DEF Finished, Deployed, Succeeded, Proven, Operation
  <2>4. operations'[active] \in {operations[active], Finished}
    BY <1>3, Rewritten
  <2>5. \A n \in 1..Len(operations) : n # active => operations'[n] = operations[n]
    BY <1>3, Rewritten
  <2>6. Op = operations[active]
    BY DEF Op
  <2>. QED
    BY <2>1, <2>2, <2>3, <2>4, <2>5, <2>6 DEF RecordsAreTrue, KeepsRequests, IsUpdate
<1>4. ASSUME NEW c \in commands, Reconcile(c) PROVE RecordsAreTrue'
  <2>1. UNCHANGED <<operations, done>> /\ operations[c.op].state # "succeeded"
    BY <1>4 DEF Reconcile, InOrder
  <2>2. \A n \in 1..Len(operations) : n # c.op => report'[n] = report[n]
    BY <1>4 DEF Reconcile, TypeOK
  <2>. QED
    BY <2>1, <2>2 DEF RecordsAreTrue
<1>5. ASSUME NEW c \in commands, Place(c) \/ SwitchColors(c) \/ ReleaseCanvas(c) \/ CommandFails(c)
      PROVE  RecordsAreTrue'
  <2>1. UNCHANGED <<operations, report>> /\ done \subseteq done'
    BY <1>5 DEF Place, SwitchColors, ReleaseCanvas, CommandFails
  <2>. QED
    BY <2>1 DEF RecordsAreTrue
<1>6. CASE TakeLock \/ Preflight \/ Check \/ TimesOut \/ PersonLocks \/ PersonDeploys \/ UNCHANGED vars
  <2>1. UNCHANGED <<operations, report, done>>
    BY <1>6 DEF TakeLock, Preflight, Check, TimesOut, PersonLocks, PersonDeploys, vars
  <2>. QED
    BY <2>1 DEF RecordsAreTrue
<1>. QED
  BY <1>1, <1>2, <1>3, <1>4, <1>5, <1>6 DEF Next, ThreadStep, CommandStep

LEMMA RecordsAlways == Spec => [](Proven /\ InOrder /\ RecordsAreTrue)
<1>1. Init => Proven /\ InOrder /\ RecordsAreTrue
  BY EmptySeq DEF Init, NoThread, Proven, InOrder, RecordsAreTrue
<1>. QED
  BY <1>1, InOrderNext, ProvenNext, RecordsNext, TypedAlways, LockedAlways, PTL DEF Spec

(* A record that calls an operation deployed or succeeded is right, though   *)
(* its script was killed or its command ended after it: what was deployed    *)
(* has come to its end, and an update that succeeded was reconciled.         *)
THEOREM RecordsTrue == Spec => []RecordsAreTrue
BY RecordsAlways, PTL
-----------------------------------------------------------------------------
(* Where a rollback goes.                                                   *)

(* The idle color holds the release before the last switch. *)
Ready ==
  \/ switch.by = "person"
  \/ switch.by = "deploy" /\ service.idle = switch.from

Touches(c) == c.does \in {"deploy", "switch", "rollback"}

RollingBack ==
  active # 0 /\ Op.component = "sub2api" /\ Op.action = "rollback" /\ active \notin done

CanRollBack ==
  /\ \A n \in done : Latest(n) /\ IsUpdate(operations[n]) => Ready
  /\ \A c \in commands : c.does = "rollback" => Ready
  /\ RollingBack => Ready /\ \A c \in commands : Touches(c) => c.op = active

LEMMA LatestKept ==
  ASSUME TypeOK, KeepsRequests, NEW n \in 1..Len(operations)
  PROVE  (Latest(n))' <=> Latest(n)
BY DEF Latest, KeepsRequests

(* Steps that leave the service alone and add no rollback. *)
LEMMA RollBackKept ==
  ASSUME TypeOK, CanRollBack, KeepsRequests, UNCHANGED <<service, switch, done>>,
         active' \in {0, active}, commands' \subseteq commands
  PROVE  CanRollBack'
<1>1. \A n \in done : n \in 1..Len(operations) /\ ((Latest(n))' <=> Latest(n))
  BY LatestKept, Numbers
<1>2. active # 0 => active \in 1..Len(operations)
  BY ActiveRecord
<1>3. Ready' <=> Ready
  BY DEF Ready
<1>4. RollingBack' => RollingBack /\ active' = active
  BY <1>2 DEF RollingBack, KeepsRequests, Op
<1>5. \A n \in done' : n \in 1..Len(operations) /\ ((IsUpdate(operations[n]))' <=> IsUpdate(operations[n]))
  BY <1>1 DEF KeepsRequests, IsUpdate
<1>. QED
  <2>1. \A n \in done' : (Latest(n))' /\ (IsUpdate(operations[n]))' => Ready'
    BY <1>1, <1>3, <1>5 DEF CanRollBack
  <2>2. \A c \in commands' : c.does = "rollback" => Ready'
    BY <1>3 DEF CanRollBack
  <2>3. RollingBack' => Ready' /\ \A c \in commands' : Touches(c) => c.op = active'
    BY <1>3, <1>4 DEF CanRollBack
  <2>. QED
    BY <2>1, <2>2, <2>3 DEF CanRollBack, Touches

LEMMA CanRollBackNext ==
  TypeOK /\ CommandsFit /\ Locked /\ InOrder /\ RecordsAreTrue /\ CanRollBack /\ [Next]_vars
    => CanRollBack'
<1> SUFFICES ASSUME TypeOK, CommandsFit, Locked, InOrder, RecordsAreTrue, CanRollBack, [Next]_vars
             PROVE  CanRollBack'
  OBVIOUS
<1>0. /\ Len(operations) \in Nat /\ done \subseteq 1..Len(operations)
      /\ \A c \in commands : c.op \in 1..Len(operations)
  BY Numbers
<1>1. ASSUME NEW component \in Components, NEW action \in Actions,
             NEW target \in Releases \cup {None}, Start(component, action, target)
      PROVE  CanRollBack'
  <2>1. UNCHANGED <<commands, done, service, switch>> /\ Allowed(component, action, target)
    BY <1>1 DEF Start
  <2>2. /\ Len(operations') = Len(operations) + 1 /\ active' = Len(operations) + 1
        /\ \A n \in 1..Len(operations) : operations'[n] = operations[n]
        /\ operations'[active'].component = component /\ operations'[active'].action = action
    BY <1>1, Requested
  <2>3. Ready' <=> Ready
    BY <2>1 DEF Ready
  <2>4. \A n \in done : (Latest(n))' => Latest(n)
    BY <1>0, <2>2 DEF Latest
  <2>5. ASSUME component = "sub2api", action = "rollback"
        PROVE  Ready /\ \A c \in commands : ~Touches(c)
    <3>1. PICK n \in 1..Len(operations) :
            Latest(n) /\ IsUpdate(operations[n]) /\ operations[n].deployed
      BY <2>1, <2>5 DEF Allowed, RollbackAvailable
    <3>2. n \in done
      BY <3>1 DEF RecordsAreTrue
    <3>3. Ready
      BY <3>1, <3>2 DEF CanRollBack
    <3>4. ASSUME NEW c \in commands, Touches(c) PROVE FALSE
      <4>1. c.op \notin done /\ n <= c.op /\ operations[c.op].component = "sub2api"
        BY <3>2, <3>4 DEF InOrder, CommandsFit, Touches
      <4>2. c.op <= n
        BY <1>0, <3>1, <4>1 DEF Latest
      <4>. QED
        BY <1>0, <3>2, <4>1, <4>2
    <3>. QED
      BY <3>3, <3>4
  <2>6. \A n \in done : operations'[n] = operations[n]
    BY <1>0, <2>2
  <2>7. \A n \in done' : (Latest(n))' /\ (IsUpdate(operations[n]))' => Ready'
    BY <2>1, <2>3, <2>4, <2>6 DEF CanRollBack, IsUpdate
  <2>8. RollingBack' => component = "sub2api" /\ action = "rollback"
    BY <2>2 DEF RollingBack, Op
  <2>. QED
    BY <2>1, <2>3, <2>5, <2>7, <2>8 DEF CanRollBack, Touches
<1>2. CASE Begin \/ Finish \/ Restart
  <2>1. UNCHANGED <<service, switch, done>> /\ active' \in {0, active} /\ commands' \subseteq commands
    BY <1>2 DEF Begin, Finish, Restart
  <2>. QED
    BY <1>2, <2>1, RequestsKept, RollBackKept
<1>3. CASE TakeLock \/ TimesOut \/ PersonLocks \/ UNCHANGED vars
  <2>1. UNCHANGED <<operations, active, commands, service, switch, done>>
    BY <1>3 DEF TakeLock, TimesOut, PersonLocks, vars
  <2>. QED
    BY <2>1, RequestsKept, RollBackKept
<1>4. CASE Preflight \/ Check
  <2>1. UNCHANGED <<operations, active, service, switch, done>>
    BY <1>4 DEF Preflight, Check
  <2>2. \A c \in commands' : c \in commands \/ (c.op = active /\ c.does \in {Work(Op), "reconcile"})
    BY <1>4 DEF Preflight, Check, Run
  <2>3. ASSUME NEW c \in commands', c \notin commands, c.does = "rollback" PROVE Ready
    <3>1. c.op = active /\ Work(Op) = "rollback" /\ thread.pc = "preflight" /\ active # 0
      BY <1>4, <2>3 DEF Preflight, Check, Run, TypeOK
    <3>2. Op.component = "sub2api" /\ Op.action = "rollback"
      BY <3>1, ActiveRecord DEF Work, IsUpdate, Operation, Components, Actions
    <3>. QED
      BY <3>1, <3>2 DEF CanRollBack, RollingBack, InOrder
  <2>4. (Ready' <=> Ready) /\ (RollingBack' <=> RollingBack)
    BY <2>1 DEF Ready, RollingBack, Op
  <2>5. \A n \in done : (Latest(n))' <=> Latest(n)
    BY <2>1 DEF Latest
  <2>. QED
    BY <2>1, <2>2, <2>3, <2>4, <2>5 DEF CanRollBack, IsUpdate
<1>5. CASE PersonDeploys
  <2>1. UNCHANGED <<operations, active, commands, done>>
    BY <1>5 DEF PersonDeploys
  <2>2. UNCHANGED <<service, switch>> \/ Ready'
    BY <1>5 DEF PersonDeploys, Ready
  <2>3. CASE UNCHANGED <<service, switch>>
    BY <2>1, <2>3, RequestsKept, RollBackKept
  <2>4. CASE Ready'
    <3>1. commands = {}
      BY <1>5 DEF PersonDeploys, Locked, OneDeployment
    <3>. QED
      BY <2>1, <2>4, <3>1 DEF CanRollBack
  <2>. QED
    BY <2>2, <2>3, <2>4
<1>6. ASSUME NEW c \in commands, CommandStep(c) PROVE CanRollBack'
  <2>0. UNCHANGED <<operations, active>> /\ commands = {c} /\ c.op \in 1..Len(operations)
    BY <1>0, <1>6 DEF CommandStep, Place, SwitchColors, ReleaseCanvas, Reconcile, CommandFails,
                      Locked, OneDeployment
  <2>1. \A n \in done' : (Latest(n))' <=> Latest(n)
    BY <2>0 DEF Latest
  <2>2. ASSUME c.op \notin done, operations[c.op].component = "sub2api", NEW n \in done PROVE ~Latest(n)
    BY <1>0, <2>0, <2>2 DEF InOrder, Latest
  <2>3. CASE Place(c)
    <3>1. c.op \notin done /\ operations[c.op].component = "sub2api" /\ IsUpdate(operations[c.op])
      BY <2>3 DEF Place, InOrder, CommandsFit
    <3>2. [c EXCEPT !.does = "switch"].does = "switch"
      BY DEF TypeOK, Command
    <3>3. commands' = {[c EXCEPT !.does = "switch"]} /\ UNCHANGED done
      BY <2>0, <2>3 DEF Place
    <3>4. ~RollingBack
      <4>1. Touches(c)
        BY <2>3 DEF Place, Touches
      <4>. QED
        BY <3>1, <4>1 DEF CanRollBack, RollingBack, IsUpdate, Op
    <3>5. ~RollingBack'
      BY <2>0, <3>3, <3>4 DEF RollingBack, Op
    <3>. QED
      BY <2>1, <2>2, <3>1, <3>2, <3>3, <3>5 DEF CanRollBack
  <2>4. CASE SwitchColors(c)
    <3>1. /\ c.op \notin done /\ operations[c.op].component = "sub2api"
          /\ commands' = {} /\ done' = done \cup {c.op}
      BY <2>0, <2>4 DEF SwitchColors, Ends, InOrder, CommandsFit
    <3>2. c.does = "switch" => Ready'
      BY <2>4 DEF SwitchColors, Switched, Ready, TypeOK
    <3>3. c.does = "rollback" => ~IsUpdate(operations[c.op])
      BY <2>0 DEF CommandsFit, IsUpdate
    <3>4. c.does \in {"switch", "rollback"} /\ Touches(c)
      BY <2>4 DEF SwitchColors, Touches
    <3>5. RollingBack' => RollingBack /\ active # c.op
      BY <2>0, <3>1 DEF RollingBack, Op
    <3>6. ~RollingBack'
      BY <3>4, <3>5 DEF CanRollBack
    <3>7. \A n \in done : ~Latest(n)
      BY <2>2, <3>1
    <3>8. \A n \in done' : (Latest(n))' /\ (IsUpdate(operations[n]))' => Ready'
      BY <2>0, <2>1, <3>1, <3>2, <3>3, <3>4, <3>7 DEF IsUpdate
    <3>. QED
      BY <3>1, <3>6, <3>8 DEF CanRollBack
  <2>5. CASE ReleaseCanvas(c)
    <3>1. /\ commands' = {} /\ done' = done \cup {c.op} /\ UNCHANGED <<service, switch>>
      BY <2>0, <2>5 DEF ReleaseCanvas, Ends
    <3>2. operations[c.op].component # "sub2api"
      BY <2>0, <2>5 DEF ReleaseCanvas, CommandsFit
    <3>3. (Ready' <=> Ready) /\ (RollingBack' => RollingBack)
      BY <2>0, <3>1 DEF Ready, RollingBack, Op
    <3>. QED
      BY <2>0, <2>1, <3>1, <3>2, <3>3 DEF CanRollBack, Latest, IsUpdate
  <2>6. CASE Reconcile(c) \/ CommandFails(c)
    <3>1. commands' = {} /\ UNCHANGED <<service, switch, done>>
      BY <2>0, <2>6 DEF Reconcile, CommandFails, Ends
    <3>. QED
      BY <2>0, <3>1, RequestsKept, RollBackKept
  <2>. QED
    BY <1>6, <2>3, <2>4, <2>5, <2>6 DEF CommandStep
<1>. QED
  BY <1>1, <1>2, <1>3, <1>4, <1>5, <1>6 DEF Next, ThreadStep

(* A rollback of the official service switches back to the release before    *)
(* the update it undoes: no command of an interrupted or failed operation    *)
(* can come between, and the update it undoes is the last one deployed.      *)
THEOREM RollbacksReturn == Spec => RollbackReturns
<1> DEFINE Returns(c) ==
      (c.does = "rollback" /\ switch'.by = "rollback" /\ switch' # switch)
        => \/ switch.by = "person"
           \/ switch.by = "deploy" /\ service'.live = switch.from
<1>1. ASSUME TypeOK, CanRollBack, [Next]_vars, NEW c \in commands PROVE Returns(c)
  <2>1. SUFFICES ASSUME c.does = "rollback", switch'.by = "rollback", switch' # switch
                 PROVE  \/ switch.by = "person"
                        \/ switch.by = "deploy" /\ service'.live = switch.from
    OBVIOUS
  <2>2. PICK d \in commands : SwitchColors(d)
    <3>1. ~UNCHANGED vars
      BY <2>1 DEF vars
    <3>2. ~\E component \in Components, action \in Actions, target \in Releases \cup {None} :
             Start(component, action, target)
      BY <2>1 DEF Start
    <3>3. ~(ThreadStep \/ TimesOut \/ Restart \/ PersonLocks)
      BY <2>1 DEF ThreadStep, Begin, TakeLock, Preflight, Check, Finish, TimesOut, Restart, PersonLocks
    <3>4. ~PersonDeploys
      BY <2>1 DEF PersonDeploys
    <3>5. PICK d \in commands : CommandStep(d)
      BY <1>1, <3>1, <3>2, <3>3, <3>4 DEF Next
    <3>6. ~(Place(d) \/ ReleaseCanvas(d) \/ Reconcile(d) \/ CommandFails(d))
      BY <2>1 DEF Place, ReleaseCanvas, Reconcile, CommandFails
    <3>. QED
      BY <3>5, <3>6 DEF CommandStep
  <2>3. service'.live = service.idle
    BY <2>2 DEF SwitchColors, Switched
  <2>. QED
    BY <1>1, <2>1, <2>3 DEF CanRollBack, Ready
<1>2. Init => CanRollBack
  BY DEF Init, CanRollBack, RollingBack
<1>3. TypeOK /\ CanRollBack /\ [Next]_vars => [\A c \in commands : Returns(c)]_vars
  BY <1>1
<1>. QED
  BY <1>2, <1>3, CanRollBackNext, TypedAlways, LockedAlways, RecordsAlways, PTL
     DEF Spec, RollbackReturns
=============================================================================
