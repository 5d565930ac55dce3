--------------------------- MODULE CanvasRelease ---------------------------
(***************************************************************************)
(* Replacing a Canvas release on the host: deploy/canvas-release.sh, with  *)
(* canvas-rollback.sh (a release of what previous.env names) and           *)
(* canvas-route.sh.  A release changes the containers of its slot, the     *)
(* routes of the proxy and two state files, one after the other, under the *)
(* global deployment lock, and undoes them when a command fails.           *)
(*                                                                         *)
(* A command that fails runs the ERR trap (restore_previous).  A check of  *)
(* lib.sh that fails calls die, which is exit 1: no trap restores then.    *)
(* Restoring files on the host is taken to succeed, docker's part is not;  *)
(* a post-update reconciliation runs after the release has succeeded and   *)
(* changes nothing here.                                                   *)
(***************************************************************************)
EXTENDS Naturals

CONSTANTS
  Scripts,    \* invocations of the scripts, by hand or by the operator
  Slots,      \* "stable" and "candidate"
  Releases,   \* releases, each with its images and its build id
  None,       \* no release
  Mixed       \* containers of more than one release, or not all of them

ASSUME NoneAssumption == None \notin Releases \cup Scripts
ASSUME MixedAssumption == Mixed \notin Releases \cup {None}

VARIABLES
  running,   \* [Slots -> the release of the containers api, worker and web]
  routes,    \* the route file: [Slots -> the build id]
  current,   \* [Slots -> current.env]
  previous,  \* [Slots -> previous.env]
  lock,      \* the script that holds deployments.lock
  script,    \* [Scripts -> where it stands and what it has read]
  wrote,     \* [Slots -> the last route written for the slot] (history)
  good,      \* [Slots -> the releases that passed canvas-verify] (history)
  torn       \* the slots where a release was killed between writing
             \* current.env and its verification (history)

vars == <<running, routes, current, previous, lock, script, wrote, good, torn>>

Recorded == Releases \cup {None}
Routes == [Slots -> Recorded]

(* The scripts before they have the lock, and with it.                     *)
Waiting == {"idle", "ready"}
Working == {"migrate", "recreate", "gates", "routes", "replace", "previous",
            "current", "verify"}
Restoring == {"restore routes", "restore services", "restore state"}
Ended == {"succeeded", "failed", "died"}

(* "found" are the backups of the transaction directory and "copy" the     *)
(* route file as update_routes.py has read it; the three flags are         *)
(* rollback_needed, route_updated and state_updated.                       *)
Script ==
  [pc : Waiting \cup Working \cup Restoring \cup Ended,
   kind : {"release", "route"}, slot : Slots, target : Recorded,
   found : [current : Recorded, previous : Recorded, routes : Routes],
   copy : Routes, replaced : BOOLEAN, routed : BOOLEAN, recorded : BOOLEAN]

NoRoutes == [s \in Slots |-> None]

Starting(kind, s, target) ==
  [pc |-> "ready", kind |-> kind, slot |-> s, target |-> target,
   found |-> [current |-> None, previous |-> None, routes |-> NoRoutes],
   copy |-> NoRoutes, replaced |-> FALSE, routed |-> FALSE, recorded |-> FALSE]

Idle(s) == [Starting("release", s, None) EXCEPT !.pc = "idle"]

Init ==
  /\ running = NoRoutes /\ routes = NoRoutes
  /\ current = NoRoutes /\ previous = NoRoutes
  /\ lock = None
  /\ \E s \in Slots : script = [p \in Scripts |-> Idle(s)]
  /\ wrote = NoRoutes
  /\ good = [s \in Slots |-> {}]
  /\ torn = {}

Slot(p) == script[p].slot
Becomes(p, r) == script' = [script EXCEPT ![p] = r]
Goto(p, pc) == script' = [script EXCEPT ![p].pc = pc]
Fails(p) == Goto(p, "restore routes")
-----------------------------------------------------------------------------
(* The commands.  What a script starts from is read before it has the      *)
(* lock: the arguments of a rollback from previous.env, and the build of   *)
(* canvas-route.sh from current.env.                                       *)

Start(p) ==
  /\ script[p].pc = "idle"
  /\ \E s \in Slots :
       \/ \E r \in Releases : Becomes(p, Starting("release", s, r))
       \/ previous[s] # None /\ Becomes(p, Starting("release", s, previous[s]))
       \/ current[s] # None /\ Becomes(p, Starting("route", s, current[s]))
  /\ UNCHANGED <<running, routes, current, previous, lock, wrote, good, torn>>

(* acquire_global_deploy_lock, which does not wait, and the backups.       *)
TakeLock(p) ==
  LET s == Slot(p)
  IN  /\ script[p].pc = "ready" /\ lock = None
      /\ lock' = p
      /\ Becomes(p, [script[p] EXCEPT
           !.pc = IF script[p].kind = "route" THEN "routes" ELSE "migrate",
           !.found = [current |-> current[s], previous |-> previous[s],
                      routes |-> routes]])
      /\ UNCHANGED <<running, routes, current, previous, wrote, good, torn>>

(* The backup, the database and the migrations; nothing is undone if they  *)
(* fail, and nothing has been replaced yet.                                *)
Migrate(p) ==
  /\ script[p].pc = "migrate"
  /\ \/ Becomes(p, [script[p] EXCEPT !.pc = "recreate", !.replaced = TRUE])
     \/ Goto(p, "failed")
  /\ UNCHANGED <<running, routes, current, previous, lock, wrote, good, torn>>

(* docker compose up --force-recreate api worker web.                      *)
Recreate(p) ==
  /\ script[p].pc = "recreate"
  /\ \/ /\ running' = [running EXCEPT ![Slot(p)] = script[p].target]
        /\ Goto(p, "gates")
     \/ /\ running' = [running EXCEPT ![Slot(p)] = Mixed]
        /\ Fails(p)
  /\ UNCHANGED <<routes, current, previous, lock, wrote, good, torn>>

(* wait_container_healthy, wait_http_ready and the image identities: the   *)
(* script dies where it stands if one of them is not met.                  *)
PassGates(p) ==
  /\ script[p].pc = "gates"
  /\ Goto(p, "routes") \/ Goto(p, "died")
  /\ UNCHANGED <<running, routes, current, previous, lock, wrote, good, torn>>

(* update_routes.py reads the whole file ...                               *)
ReadRoutes(p) ==
  /\ script[p].pc = "routes"
  /\ \/ Becomes(p, [script[p] EXCEPT !.pc = "replace", !.copy = routes])
     \/ IF script[p].kind = "route" THEN Goto(p, "failed") ELSE Fails(p)
  /\ UNCHANGED <<running, routes, current, previous, lock, wrote, good, torn>>

(* Faulty variant: the other slot's route is not carried over.             *)
WithRouteAlone(file, s, build) == [NoRoutes EXCEPT ![s] = build]

WithRoute(file, s, build) == [file EXCEPT ![s] = build]

(* ... and replaces it by one with the slot's new build.                   *)
ReplaceRoutes(p) ==
  LET s == Slot(p)
      r == script[p]
  IN  /\ r.pc = "replace"
      /\ routes' = WithRoute(r.copy, s, r.target)
      /\ wrote' = [wrote EXCEPT ![s] = r.target]
      /\ Becomes(p, [r EXCEPT !.routed = TRUE,
           !.pc = IF r.kind = "route" THEN "succeeded" ELSE "previous"])
      /\ UNCHANGED <<running, current, previous, lock, good, torn>>

(* Faulty variant: previous.env is written after current.env.              *)
RecordPreviousOfTarget(p) ==
  LET s == Slot(p)
  IN  /\ script[p].pc = "previous"
      /\ \/ /\ previous' = IF script[p].found.current = None THEN previous
                           ELSE [previous EXCEPT ![s] = script[p].target]
            /\ Becomes(p, [script[p] EXCEPT !.pc = "current",
                                            !.recorded = TRUE])
         \/ /\ UNCHANGED previous
            /\ Becomes(p, [script[p] EXCEPT !.pc = "restore routes",
                                            !.recorded = TRUE])
      /\ UNCHANGED <<running, routes, current, lock, wrote, good, torn>>

(* cp current.env previous.env.new; mv, if there was a release before.     *)
RecordPrevious(p) ==
  LET s == Slot(p)
  IN  /\ script[p].pc = "previous"
      /\ \/ /\ previous' = IF script[p].found.current = None THEN previous
                           ELSE [previous EXCEPT ![s] = current[s]]
            /\ Becomes(p, [script[p] EXCEPT !.pc = "current",
                                            !.recorded = TRUE])
         \/ /\ UNCHANGED previous
            /\ Becomes(p, [script[p] EXCEPT !.pc = "restore routes",
                                            !.recorded = TRUE])
      /\ UNCHANGED <<running, routes, current, lock, wrote, good, torn>>

RecordCurrent(p) ==
  /\ script[p].pc = "current"
  /\ \/ /\ current' = [current EXCEPT ![Slot(p)] = script[p].target]
        /\ Goto(p, "verify")
     \/ UNCHANGED current /\ Fails(p)
  /\ UNCHANGED <<running, routes, previous, lock, wrote, good, torn>>

(* Faulty variant: a failed verification ends the script like die.         *)
VerifyOrDie(p) ==
  /\ script[p].pc = "verify"
  /\ \/ /\ good' = [good EXCEPT ![Slot(p)] = @ \cup {script[p].target}]
        /\ Goto(p, "succeeded")
     \/ UNCHANGED good /\ Goto(p, "died")
  /\ UNCHANGED <<running, routes, current, previous, lock, wrote, torn>>

(* canvas-verify.sh, a script of its own: when it dies the command fails.  *)
Verify(p) ==
  /\ script[p].pc = "verify"
  /\ \/ /\ good' = [good EXCEPT ![Slot(p)] = @ \cup {script[p].target}]
        /\ Goto(p, "succeeded")
     \/ UNCHANGED good /\ Fails(p)
  /\ UNCHANGED <<running, routes, current, previous, lock, wrote, torn>>
-----------------------------------------------------------------------------
(* restore_previous.                                                       *)

RestoreRoutes(p) ==
  LET s == Slot(p)
      r == script[p]
  IN  /\ r.pc = "restore routes"
      /\ IF r.routed
           THEN /\ routes' = r.found.routes
                /\ wrote' = [wrote EXCEPT ![s] = r.found.routes[s]]
           ELSE UNCHANGED <<routes, wrote>>
      /\ Goto(p, "restore services")
      /\ UNCHANGED <<running, current, previous, lock, good, torn>>

(* Only if there was a release before, and as far as docker complies.      *)
RestoreServices(p) ==
  LET s == Slot(p)
      r == script[p]
  IN  /\ r.pc = "restore services"
      /\ IF r.replaced /\ r.found.current # None
           THEN \E c \in {r.found.current, Mixed} :
                  running' = [running EXCEPT ![s] = c]
           ELSE UNCHANGED running
      /\ Goto(p, "restore state")
      /\ UNCHANGED <<routes, current, previous, lock, wrote, good, torn>>

(* Faulty variant: previous.env is not put back.                           *)
RestoreStateOfCurrent(p) ==
  LET s == Slot(p)
      r == script[p]
  IN  /\ r.pc = "restore state"
      /\ current' = [current EXCEPT ![s] = IF r.recorded THEN r.found.current ELSE @]
      /\ Goto(p, "failed")
      /\ UNCHANGED <<running, routes, previous, lock, wrote, good, torn>>

RestoreState(p) ==
  LET s == Slot(p)
      r == script[p]
  IN  /\ r.pc = "restore state"
      /\ IF r.recorded
           THEN /\ current' = [current EXCEPT ![s] = r.found.current]
                /\ previous' = [previous EXCEPT ![s] = r.found.previous]
           ELSE UNCHANGED <<current, previous>>
      /\ Goto(p, "failed")
      /\ UNCHANGED <<running, routes, lock, wrote, good, torn>>
-----------------------------------------------------------------------------
Leave(p) ==
  /\ lock' = None
  /\ Becomes(p, Idle(Slot(p)))

Exit(p) ==
  /\ script[p].pc \in Ended
  /\ Leave(p)
  /\ UNCHANGED <<running, routes, current, previous, wrote, good, torn>>

(* The script is killed or the host goes down: the lock is free again and  *)
(* nothing is restored.                                                    *)
Kill(p) ==
  /\ script[p].pc \in Working \cup Restoring
  /\ Leave(p)
  /\ \/ UNCHANGED running
     \/ /\ script[p].pc \in {"recreate", "restore services"}
        /\ running' = [running EXCEPT ![Slot(p)] = Mixed]
  /\ torn' = IF current[Slot(p)] # script[p].found.current
               THEN torn \cup {Slot(p)} ELSE torn
  /\ UNCHANGED <<routes, current, previous, wrote, good>>

Step(p) ==
  \/ Start(p) \/ TakeLock(p)
  \/ Migrate(p) \/ Recreate(p) \/ PassGates(p)
  \/ ReadRoutes(p) \/ ReplaceRoutes(p)
  \/ RecordPrevious(p) \/ RecordCurrent(p) \/ Verify(p)
  \/ RestoreRoutes(p) \/ RestoreServices(p) \/ RestoreState(p)
  \/ Exit(p) \/ Kill(p)

Next == \E p \in Scripts : Step(p)

Spec == Init /\ [][Next]_vars
-----------------------------------------------------------------------------
(* The types, and the lock: the script that holds it is the only one past  *)
(* acquire_global_deploy_lock.                                             *)
TypeOK ==
  /\ running \in [Slots -> Recorded \cup {Mixed}]
  /\ routes \in Routes /\ current \in Routes /\ previous \in Routes
  /\ script \in [Scripts -> Script]
  /\ wrote \in Routes /\ good \in [Slots -> SUBSET Releases]
  /\ torn \subseteq Slots
  /\ lock \in Scripts \cup {None}
  /\ \A p \in Scripts : script[p].pc \in Waiting <=> lock # p

(* The route file is read, changed and replaced as a whole, and restored   *)
(* as a whole, and yet no script ever loses or revives a route that        *)
(* another one wrote for the other slot.                                   *)
NoRouteIsLost == routes = wrote

(* When a release reports success, its containers, its route and the state *)
(* file agree on it, and previous.env names what it replaced, so that a    *)
(* rollback undoes it.                                                     *)
SuccessIsComplete ==
  \A p \in Scripts :
    LET s == Slot(p)
        r == script[p]
    IN  r.pc = "succeeded" /\ r.kind = "release" =>
          /\ running[s] = r.target /\ routes[s] = r.target
          /\ current[s] = r.target
          /\ r.found.current # None => previous[s] = r.found.current

(* When a command of a release fails, the routes and the state files are   *)
(* what they were, and the services are those of the old release as far as *)
(* docker complied.                                                        *)
TrapRestores ==
  \A p \in Scripts :
    LET s == Slot(p)
        r == script[p]
    IN  r.pc = "failed" =>
          /\ routes = r.found.routes
          /\ current[s] = r.found.current /\ previous[s] = r.found.previous
          /\ r.replaced /\ r.found.current # None
               => running[s] \in {r.found.current, Mixed}

(* A rollback target is a release that served: previous.env never names a  *)
(* release that did not pass canvas-verify, although current.env is        *)
(* written before it runs, unless a release was killed in between.         *)
RollbackTargetServed ==
  \A s \in Slots \ torn :
    /\ previous[s] \in good[s] \cup {None}
    /\ (lock = None => current[s] \in good[s] \cup {None})

(* docs/UPGRADE_CN.md:154, "any gate that fails restores the old           *)
(* containers, the old release state and the old routes".                  *)
GateFailureRestores ==
  \A p \in Scripts :
    LET s == Slot(p)
        r == script[p]
    IN  r.pc = "died" /\ s \notin torn /\ r.found.current # None =>
          /\ running[s] \in {r.found.current, Mixed}
          /\ routes = r.found.routes
          /\ current[s] = r.found.current /\ previous[s] = r.found.previous
=============================================================================
