------------------------ MODULE DeploymentOperator ------------------------
(* The deployment operator of the path proxy (deploy/proxy): it starts one  *)
(* update or rollback at a time, of the official service or of Canvas,      *)
(* records it on disk and runs the script for it.                           *)
(*                                                                          *)
(* A script runs one external command after another.  A command inherits    *)
(* the descriptor of the global deployment lock, so when the script is      *)
(* killed its command goes on and keeps the lock.  The official service has *)
(* two colors: a deployment fills the idle one and switches to it, a        *)
(* rollback switches back.                                                  *)
EXTENDS Naturals, Sequences, FiniteSets

CONSTANTS
  Releases,     \* of the official service
  First,        \* the one it starts with
  None,         \* no target
  MaxOps,       \* operations requested
  MaxMishaps    \* records that cannot be written, restarts and switches by hand

ASSUME ReleasesAssumption == First \in Releases /\ None \notin Releases
ASSUME BoundsAssumption == MaxOps \in Nat /\ MaxMishaps \in Nat

VARIABLES
  operations,   \* the records on disk, in the order of their requests
  active,       \* _active_operation_id, 0 if there is none
  thread,       \* where the active operation's thread and its script are
  commands,     \* external commands that go on
  report,       \* the reconciliation reports on disk
  service,      \* the releases of the live and of the idle color
  person,       \* somebody deploys from a terminal and holds the lock
  switch,       \* the last switch of colors and the release before it (history)
  done,         \* operations whose command has come to its end (history)
  mishaps

vars == <<operations, active, thread, commands, report, service, person, switch,
          done, mishaps>>

Ids == 1..MaxOps
Components == {"sub2api", "canvas"}
Actions == {"update", "rollback"}
Terminal == {"succeeded", "failed", "interrupted"}
Report == {"none", "failed", "ok"}

(* The outcome of the reconciliation is left in its report. *)
Operation ==
  [component : Components, action : Actions, target : Releases \cup {None},
   state : {"queued", "running"} \cup Terminal, deployed : BOOLEAN]

(* "exit" is how the script or, if "raised", the thread itself ended. *)
Thread ==
  [pc : {"none", "queued", "lock", "preflight", "waiting", "check", "exited"},
   exit : {"ok", "failed", "raised"}]

Command ==
  [op : Ids, does : {"deploy", "switch", "rollback", "canvas", "reconcile"}]

TypeOK ==
  /\ operations \in Seq(Operation) /\ Len(operations) <= MaxOps
  /\ active \in 0..Len(operations)
  /\ thread \in Thread /\ (thread.pc # "none" => active # 0)
  /\ commands \subseteq Command /\ \A c \in commands : c.op <= Len(operations)
  /\ report \in [Ids -> Report]
  /\ service \in [live : Releases, idle : Releases]
  /\ person \in BOOLEAN
  /\ switch \in [by : {"nobody", "deploy", "rollback", "person"}, from : Releases]
  /\ done \subseteq 1..Len(operations)
  /\ mishaps \in 0..MaxMishaps

NoThread == [pc |-> "none", exit |-> "ok"]

Init ==
  /\ operations = <<>> /\ active = 0 /\ thread = NoThread /\ commands = {}
  /\ report = [n \in Ids |-> "none"]
  /\ service = [live |-> First, idle |-> First]
  /\ person = FALSE
  /\ switch = [by |-> "nobody", from |-> First] /\ done = {}
  /\ mishaps = 0

Mishap == mishaps < MaxMishaps /\ mishaps' = mishaps + 1

Op == operations[active]
IsUpdate(o) == o.action = "update"
-----------------------------------------------------------------------------
(* Requests. *)

(* The latest operation of the official service. *)
Latest(n) ==
  /\ n \in 1..Len(operations) /\ operations[n].component = "sub2api"
  /\ \A m \in 1..Len(operations) : operations[m].component = "sub2api" => m <= n

(* Faulty variant: any update counts. *)
RollbackAvailableAfterAny ==
  \E n \in 1..Len(operations) : Latest(n) /\ IsUpdate(operations[n])

(* It was an update, and it was deployed. *)
RollbackAvailable ==
  \E n \in 1..Len(operations) :
    Latest(n) /\ IsUpdate(operations[n]) /\ operations[n].deployed

(* What the catalog approves at the time is "target".  The request read the *)
(* version in use when it was authenticated, which may be one switch ago.   *)
(* Whether Canvas has a release to go to or a previous.env is left open.    *)
Allowed(component, action, target) ==
  \/ component = "canvas" /\ target = None
  \/ /\ component = "sub2api" /\ action = "update"
     /\ \E seen \in {service.live, switch.from} : target \in Releases \ {seen}
  \/ component = "sub2api" /\ action = "rollback" /\ target = None /\ RollbackAvailable

(* The release to deploy is fixed here, whatever the catalog says later. *)
Start(component, action, target) ==
  /\ active = 0 /\ Len(operations) < MaxOps
  /\ Allowed(component, action, target)
  /\ operations' = Append(operations,
       [component |-> component, action |-> action, target |-> target,
        state |-> "queued", deployed |-> FALSE])
  /\ active' = Len(operations')
  /\ thread' = [pc |-> "queued", exit |-> "ok"]
  /\ UNCHANGED <<commands, report, service, person, switch, done, mishaps>>
-----------------------------------------------------------------------------
(* The operation's thread and the script it runs. *)

Goto(pc) == thread' = [thread EXCEPT !.pc = pc]
Exit(how) == thread' = [pc |-> "exited", exit |-> how]

Begin ==
  /\ thread.pc = "queued"
  /\ \/ /\ operations' = [operations EXCEPT ![active].state = "running"]
        /\ Goto("lock") /\ UNCHANGED mishaps
     \/ /\ Mishap
        /\ Exit("raised") /\ UNCHANGED operations
  /\ UNCHANGED <<active, commands, report, service, person, switch, done>>

ScriptHolds == thread.pc \in {"preflight", "waiting", "check"}

(* Faulty variant: commands do not inherit the lock. *)
LockFreeOfScripts == ~person /\ ~ScriptHolds

(* flock: the lock is free when no process has its descriptor open. *)
LockFree == ~person /\ ~ScriptHolds /\ commands = {}

(* acquire_global_deploy_lock does not wait. *)
TakeLock ==
  /\ thread.pc = "lock"
  /\ IF LockFree THEN Goto("preflight") ELSE Exit("failed")
  /\ UNCHANGED <<operations, active, commands, report, service, person,
                 switch, done, mishaps>>

Run(does) == commands' = commands \cup {[op |-> active, does |-> does]}

Work(o) ==
  IF o.component = "canvas" THEN "canvas"
  ELSE IF IsUpdate(o) THEN "deploy" ELSE "rollback"

(* Canvas and the official service have to be healthy before anything is    *)
(* changed.                                                                 *)
Preflight ==
  /\ thread.pc = "preflight"
  /\ \/ Run(Work(Op)) /\ Goto("waiting")
     \/ Exit("failed") /\ UNCHANGED commands
  /\ UNCHANGED <<operations, active, report, service, person, switch, done,
                 mishaps>>

(* After the command both services are checked again, then an update is     *)
(* reconciled.                                                              *)
Check ==
  /\ thread.pc = "check"
  /\ \/ /\ thread.exit = "ok"
        /\ IF IsUpdate(Op) THEN Run("reconcile") /\ Goto("waiting")
                           ELSE Exit("ok") /\ UNCHANGED commands
     \/ Exit("failed") /\ UNCHANGED commands
  /\ UNCHANGED <<operations, active, report, service, person, switch, done,
                 mishaps>>

(* Faulty variant: the time limit waits for the script's command.           *)
TimesOutBetween ==
  /\ thread.pc \in {"lock", "preflight", "check"}
  /\ Exit("failed")
  /\ UNCHANGED <<operations, active, commands, report, service, person,
                 switch, done, mishaps>>

(* The time limit kills the script alone. *)
TimesOut ==
  /\ thread.pc \in {"lock", "preflight", "waiting", "check"}
  /\ Exit("failed")
  /\ UNCHANGED <<operations, active, commands, report, service, person,
                 switch, done, mishaps>>

(* Faulty variant: an update is called deployed once its script ran. *)
DeployedOnceRun == IsUpdate(Op) /\ thread.exit # "raised"

(* The script reconciles only what it has deployed and checked, so a report *)
(* shows that the release is live, whatever the report says.                *)
Deployed ==
  IF IsUpdate(Op) THEN thread.exit # "raised" /\ report[active] # "none"
                  ELSE thread.exit = "ok"

Succeeded == thread.exit = "ok" /\ (IsUpdate(Op) => report[active] = "ok")

Finished ==
  [Op EXCEPT !.state = IF Succeeded THEN "succeeded" ELSE "failed",
             !.deployed = Deployed]

(* The last record is written and the operator is free.  If it cannot be    *)
(* written the operation stays active.                                      *)
Finish ==
  /\ thread.pc = "exited" /\ thread' = NoThread
  /\ \/ /\ operations' = [operations EXCEPT ![active] = Finished]
        /\ active' = 0 /\ UNCHANGED mishaps
     \/ /\ Mishap
        /\ UNCHANGED <<operations, active>>
  /\ UNCHANGED <<commands, report, service, person, switch, done>>

Interrupted(o) ==
  IF o.state \in Terminal THEN o ELSE [o EXCEPT !.state = "interrupted"]

(* The proxy is restarted.  Script and commands are killed with it, except  *)
(* commands that run as another user.                                       *)
Restart ==
  /\ thread' = NoThread /\ active' = 0
  /\ commands' \in SUBSET commands
  /\ operations' = [n \in 1..Len(operations) |-> Interrupted(operations[n])]
  /\ Mishap
  /\ UNCHANGED <<report, service, person, switch, done>>
-----------------------------------------------------------------------------
(* External commands, and people. *)

(* The script, if it is still there, goes on: a reconciliation is its last  *)
(* step.                                                                    *)
Ends(c, how) ==
  /\ commands' = commands \ {c}
  /\ thread' = IF thread.pc = "waiting" /\ c.op = active
               THEN [pc |-> IF c.does = "reconcile" THEN "exited" ELSE "check",
                     exit |-> how]
               ELSE thread

Switched(by) ==
  /\ service' = [live |-> service.idle, idle |-> service.live]
  /\ switch' = [by |-> by, from |-> service.live]

Place(c) ==
  /\ c.does = "deploy"
  /\ service' = [service EXCEPT !.idle = operations[c.op].target]
  /\ commands' = (commands \ {c}) \cup {[c EXCEPT !.does = "switch"]}
  /\ UNCHANGED <<operations, active, thread, report, person, switch, done,
                 mishaps>>

SwitchColors(c) ==
  /\ c.does \in {"switch", "rollback"}
  /\ Switched(IF c.does = "switch" THEN "deploy" ELSE "rollback")
  /\ done' = done \cup {c.op}
  /\ Ends(c, "ok")
  /\ UNCHANGED <<operations, active, report, person, mishaps>>

(* CanvasRelease has the steps of a release of Canvas. *)
ReleaseCanvas(c) ==
  /\ c.does = "canvas"
  /\ done' = done \cup {c.op}
  /\ Ends(c, "ok")
  /\ UNCHANGED <<operations, active, report, service, person, switch,
                 mishaps>>

Reconcile(c) ==
  /\ c.does = "reconcile"
  /\ \E r \in Report : /\ report' = [report EXCEPT ![c.op] = r]
                       /\ Ends(c, IF r = "ok" THEN "ok" ELSE "failed")
  /\ UNCHANGED <<operations, active, service, person, switch, done, mishaps>>

CommandFails(c) ==
  /\ c.does # "reconcile"
  /\ Ends(c, "failed")
  /\ UNCHANGED <<operations, active, report, service, person, switch, done,
                 mishaps>>

(* A script started from a terminal, which the operator does not know of:   *)
(* of Canvas, or a release or rollback of the official service.             *)
PersonLocks ==
  /\ LockFree /\ person' = TRUE
  /\ UNCHANGED <<operations, active, thread, commands, report, service,
                 switch, done, mishaps>>

PersonDeploys ==
  /\ person /\ person' = FALSE
  /\ \/ UNCHANGED <<service, switch, mishaps>>
     \/ \E r \in Releases :
          /\ Mishap
          /\ service' = [live |-> r, idle |-> service.live]
          /\ switch' = [by |-> "person", from |-> service.live]
  /\ UNCHANGED <<operations, active, thread, commands, report, done>>

ThreadStep == Begin \/ TakeLock \/ Preflight \/ Check \/ Finish

CommandStep(c) ==
  Place(c) \/ SwitchColors(c) \/ ReleaseCanvas(c) \/ Reconcile(c) \/ CommandFails(c)

Next ==
  \/ \E component \in Components, action \in Actions, target \in Releases \cup {None} :
       Start(component, action, target)
  \/ ThreadStep \/ TimesOut \/ Restart
  \/ \E c \in commands : CommandStep(c)
  \/ PersonLocks \/ PersonDeploys

(* The thread runs and the time limit strikes; nothing is assumed of the    *)
(* external commands.                                                       *)
Fairness == WF_vars(ThreadStep) /\ WF_vars(TimesOut)

Spec == Init /\ [][Next]_vars
FairSpec == Spec /\ Fairness
-----------------------------------------------------------------------------
(* docs/WEB_DEPLOYMENT_CENTER_CN.md:52: the two cards are never deployed at *)
(* the same time.  However scripts are killed and restarted, one command at *)
(* a time changes what runs, a person's included.                           *)
OneDeployment ==
  /\ \A c, d \in commands : c = d
  /\ person => commands = {} /\ ~ScriptHolds

(* A record that says deployed or succeeded is right: its command came to   *)
(* its end, and an update that succeeded was reconciled.                    *)
RecordsAreTrue ==
  \A n \in 1..Len(operations) :
    LET o == operations[n]
    IN  /\ o.deployed \/ o.state = "succeeded" => n \in done
        /\ o.state = "succeeded" /\ IsUpdate(o) => report[n] = "ok"

(* docs/WEB_DEPLOYMENT_CENTER_CN.md:412: a rollback only switches back: to  *)
(* the release before the update that it undoes, never to one that failed   *)
(* half-way into the idle color or that was rolled back itself.  A switch   *)
(* made from a terminal is beyond the operator's knowledge.                 *)
RollbackReturns ==
  [][\A c \in commands :
       (c.does = "rollback" /\ switch'.by = "rollback" /\ switch' # switch)
         => \/ switch.by = "person"
            \/ switch.by = "deploy" /\ service'.live = switch.from]_vars

(* No operation stays queued or running, though its command hang for ever.  *)
(* Only one whose last record could not be written waits for a restart.     *)
Open(n) == n <= Len(operations) /\ operations[n].state \notin Terminal
EveryOperationEnds ==
  \A n \in Ids : Open(n) ~> (~Open(n) \/ (active = n /\ thread = NoThread))
=============================================================================
