------------------------ MODULE CanvasReleaseProofs ------------------------
(***************************************************************************)
(* The safety of CanvasRelease for any scripts, slots and releases.        *)
(*                                                                         *)
(* The lock is the key: everything a script that has it needs to know      *)
(* about the shared files is a relation between them and what the script   *)
(* has read, kept or set (Holder), and nobody else changes them.           *)
(***************************************************************************)
EXTENDS CanvasRelease, TLAPS

(* A script that has started names a release, and one that has not the     *)
(* lock has nothing to undo.                                               *)
AimedAt(r) ==
  /\ r.pc # "idle" => r.target \in Releases
  /\ r.pc = "ready" => ~r.replaced /\ ~r.routed /\ ~r.recorded
Aimed == \A p \in Scripts : AimedAt(script[p])

(* Where the routes and the state files are still as they were found.      *)
Untouched == {"migrate", "recreate", "gates", "routes", "replace", "died"}

(* How far it is: a route update only has the middle part of a release.    *)
StageInv(r) ==
  /\ r.pc = "migrate" => ~r.replaced
  /\ r.pc \in Untouched => ~r.routed
  /\ r.pc \in Untouched \cup {"previous"} => ~r.recorded
  /\ r.pc \in {"previous", "current", "verify", "succeeded"} => r.routed
  /\ r.pc \in {"current", "verify"} => r.recorded
  /\ r.kind = "route" =>
       ~r.replaced /\ r.pc \in {"ready", "routes", "replace"} \cup Ended

(* The route file against its backup and its copy.                         *)
RouteInv(r) ==
  /\ \A t \in Slots \ {r.slot} : r.found.routes[t] = routes[t]
  /\ ~r.routed => r.found.routes = routes
  /\ r.pc = "replace" => r.copy = routes
  /\ r.pc \in {"previous", "current", "verify", "succeeded"}
       => routes[r.slot] = r.target
  /\ r.pc \in {"restore services", "restore state", "failed"}
       => routes = r.found.routes

(* The state files against their backups.                                  *)
StateInv(r) ==
  /\ ~r.recorded => /\ current[r.slot] = r.found.current
                    /\ previous[r.slot] = r.found.previous
  /\ r.pc = "current" => current[r.slot] = r.found.current
  /\ r.kind = "release" /\ r.pc \in {"current", "verify", "succeeded"}
       /\ r.found.current # None => previous[r.slot] = r.found.current
  /\ r.kind = "release" /\ r.pc \in {"verify", "succeeded"}
       => current[r.slot] = r.target
  /\ r.pc = "failed" => /\ current[r.slot] = r.found.current
                        /\ previous[r.slot] = r.found.previous

(* The containers.                                                         *)
ServiceInv(r) ==
  /\ r.kind = "release" /\ r.pc \in
       {"gates", "routes", "replace", "previous", "current", "verify", "succeeded"}
       => running[r.slot] = r.target
  /\ r.pc \in {"restore state", "failed"} /\ r.replaced
       /\ r.found.current # None
       => running[r.slot] \in {r.found.current, Mixed}

(* The backups served, unless a release of the slot was killed.            *)
Served(s) == good[s] \cup {None}
BackupInv(r) ==
  r.slot \notin torn =>
    /\ r.found.current \in Served(r.slot)
    /\ r.found.previous \in Served(r.slot)

HolderInv(r) ==
  StageInv(r) /\ RouteInv(r) /\ StateInv(r) /\ ServiceInv(r) /\ BackupInv(r)

Holder == \A p \in Scripts : lock = p => HolderInv(script[p])

(* current.env may name a release that has not served only while a script  *)
(* is at work on the slot.                                                 *)
AtWork(s) ==
  \E p \in Scripts : /\ lock = p /\ script[p].slot = s
                     /\ script[p].pc \notin Ended
StateServed ==
  \A s \in Slots \ torn : /\ previous[s] \in Served(s)
                          /\ current[s] \in Served(s) \/ AtWork(s)

IInv == Aimed /\ Holder /\ NoRouteIsLost /\ StateServed
-----------------------------------------------------------------------------
(* Types.                                                                  *)

(* A step replaces the record of one script.                               *)
LEMMA BecomesScript ==
  ASSUME script \in [Scripts -> Script], NEW p \in Scripts, NEW r \in Script,
         Becomes(p, r)
  PROVE  /\ script' \in [Scripts -> Script]
         /\ script'[p] = r
         /\ \A q \in Scripts \ {p} : script'[q] = script[q]
BY DEF Becomes

LEMMA StartingType ==
  ASSUME NEW kind \in {"release", "route"}, NEW s \in Slots,
         NEW t \in Recorded
  PROVE  /\ Starting(kind, s, t) \in Script
         /\ Starting(kind, s, t).pc = "ready"
         /\ Starting(kind, s, t).target = t
         /\ t \in Releases => AimedAt(Starting(kind, s, t))
         /\ AimedAt(Idle(s))
         /\ Idle(s) \in Script /\ Idle(s).pc = "idle"
BY DEF Starting, Idle, Script, Waiting, NoRoutes, Routes, Recorded, AimedAt

(* A step that only moves on.                                              *)
LEMMA GotoScript ==
  ASSUME script \in [Scripts -> Script], NEW p \in Scripts,
         NEW pc \in Waiting \cup Working \cup Restoring \cup Ended,
         Goto(p, pc)
  PROVE  /\ script' \in [Scripts -> Script]
         /\ script'[p] = [script[p] EXCEPT !.pc = pc]
         /\ \A q \in Scripts \ {p} : script'[q] = script[q]
BY DEF Goto, Script

LEMMA InitType == Init => TypeOK /\ Aimed
<1> SUFFICES ASSUME Init PROVE TypeOK /\ Aimed
  OBVIOUS
<1>1. NoRoutes \in Routes
  BY DEF NoRoutes, Routes, Recorded
<1>2. PICK s \in Slots : script = [p \in Scripts |-> Idle(s)]
  BY DEF Init
<1>3. Idle(s) \in Script /\ Idle(s).pc = "idle" /\ AimedAt(Idle(s))
  BY StartingType DEF Recorded
<1>4. /\ script \in [Scripts -> Script] /\ Aimed
      /\ \A p \in Scripts : script[p].pc = "idle"
  BY <1>2, <1>3 DEF Aimed
<1>5. \A p \in Scripts : lock # p
  BY NoneAssumption DEF Init
<1> QED
  BY <1>1, <1>4, <1>5 DEF Init, TypeOK, Routes, Recorded, Waiting, NoRoutes

(* What a step may make of the script that takes it.                       *)
Moved(p, r) ==
  /\ r \in Script
  /\ AimedAt(r)
  /\ script' = [script EXCEPT ![p] = r]

(* The lock stays with the script, is taken by it or is given up by it.    *)
LockMoved(p, r) ==
  \/ lock' = lock /\ (r.pc \in Waiting <=> script[p].pc \in Waiting)
  \/ lock = None /\ lock' = p /\ r.pc \notin Waiting
  \/ lock = p /\ lock' = None /\ r.pc \in Waiting

LEMMA MovedTypes ==
  ASSUME TypeOK, Aimed, NEW p \in Scripts, NEW r, Moved(p, r), LockMoved(p, r)
  PROVE  /\ script' \in [Scripts -> Script] /\ Aimed'
         /\ lock' \in Scripts \cup {None}
         /\ \A q \in Scripts : script'[q].pc \in Waiting <=> lock' # q
<1>1. /\ script' \in [Scripts -> Script]
      /\ script'[p] = r
      /\ \A q \in Scripts \ {p} : script'[q] = script[q]
  BY DEF Moved, TypeOK
<1>2. Aimed'
  BY <1>1 DEF Aimed, Moved
<1>3. lock' \in Scripts \cup {None}
  BY DEF LockMoved, TypeOK
<1>4. \A q \in Scripts : script'[q].pc \in Waiting <=> lock' # q
  BY <1>1, NoneAssumption DEF LockMoved, TypeOK
<1> QED
  BY <1>1, <1>2, <1>3, <1>4

-----------------------------------------------------------------------------
(* The steps of the script that has the lock.                              *)

Files == <<routes, current, previous, wrote, good, torn>>

(* What is known of the script that takes a step past TakeLock.            *)
LEMMA HolderFacts ==
  ASSUME TypeOK, IInv, NEW p \in Scripts, script[p].pc \notin Waiting
  PROVE  /\ lock = p /\ script[p] \in Script /\ script[p].target \in Releases
         /\ script[p].slot \in Slots /\ HolderInv(script[p])
         /\ \A s \in Slots \ torn : s # script[p].slot => current[s] \in Served(s)
<1>1. lock = p
  BY DEF TypeOK
<1>2. script[p] \in Script /\ script[p].target \in Releases
  BY DEF TypeOK, IInv, Aimed, AimedAt, Waiting
<1>3. HolderInv(script[p])
  BY <1>1 DEF IInv, Holder
<1>4. \A s \in Slots \ torn : s # script[p].slot => current[s] \in Served(s)
  BY <1>1 DEF IInv, StateServed, AtWork
<1> QED
  BY <1>1, <1>2, <1>3, <1>4 DEF Script

(* A step of the script that keeps the lock: what has to be shown of it.   *)
LEMMA HolderStep ==
  ASSUME TypeOK, IInv, NEW p \in Scripts, NEW r \in Script,
         lock = p, lock' = lock, script' = [script EXCEPT ![p] = r],
         r.pc \notin Waiting, r.target \in Releases,
         HolderInv(r)', NoRouteIsLost', torn' = torn,
         running' \in [Slots -> Recorded \cup {Mixed}],
         routes' \in Routes, current' \in Routes, previous' \in Routes,
         wrote' \in Routes, good' \in [Slots -> SUBSET Releases],
         \A s \in Slots \ torn :
           /\ previous'[s] \in good'[s] \cup {None}
           /\ \/ current'[s] \in good'[s] \cup {None}
              \/ s = r.slot /\ r.pc \notin Ended
  PROVE  TypeOK' /\ IInv'
<1>1. Moved(p, r) /\ LockMoved(p, r)
  BY DEF Moved, LockMoved, TypeOK, AimedAt, Waiting
<1>2. /\ script' \in [Scripts -> Script] /\ Aimed'
      /\ lock' \in Scripts \cup {None}
      /\ \A q \in Scripts : script'[q].pc \in Waiting <=> lock' # q
  BY <1>1, MovedTypes DEF IInv
<1>3. script'[p] = r
  BY DEF TypeOK
<1>4. Holder'
  BY <1>3 DEF Holder
<1>5. StateServed'
  BY <1>3 DEF StateServed, AtWork, Served
<1>6. TypeOK'
  BY <1>2 DEF TypeOK
<1> QED
  BY <1>2, <1>4, <1>5, <1>6 DEF IInv

(* The step changes no file.                                               *)
LEMMA QuietStep ==
  ASSUME TypeOK, IInv, NEW p \in Scripts, NEW r \in Script,
         script[p].pc \notin Waiting,
         script' = [script EXCEPT ![p] = r], r.slot = script[p].slot,
         r.target = script[p].target, r.pc \notin Waiting,
         running' \in [Slots -> Recorded \cup {Mixed}],
         UNCHANGED lock, UNCHANGED Files, HolderInv(r)',
         \/ r.pc \notin Ended
         \/ r.slot \notin torn => current[r.slot] \in Served(r.slot)
  PROVE  TypeOK' /\ IInv'
<1>1. /\ lock = p /\ script[p].target \in Releases
      /\ \A s \in Slots \ torn : s # script[p].slot => current[s] \in Served(s)
  BY HolderFacts
<1>2. \A s \in Slots \ torn :
        /\ previous'[s] \in good'[s] \cup {None}
        /\ \/ current'[s] \in good'[s] \cup {None}
           \/ s = r.slot /\ r.pc \notin Ended
  BY <1>1 DEF IInv, StateServed, Served, Files
<1>3. NoRouteIsLost'
  BY DEF IInv, NoRouteIsLost, Files
<1>4. /\ torn' = torn /\ routes' \in Routes /\ current' \in Routes
      /\ previous' \in Routes /\ wrote' \in Routes
      /\ good' \in [Slots -> SUBSET Releases]
  BY DEF TypeOK, Files
<1> QED
  BY <1>1, <1>2, <1>3, <1>4, HolderStep

(* What has not been recorded yet is what was found, and that served.      *)
LEMMA FoundServed ==
  ASSUME NEW r, HolderInv(r), ~r.recorded, r.slot \notin torn
  PROVE  current[r.slot] \in Served(r.slot)
BY DEF HolderInv, StateInv, BackupInv
-----------------------------------------------------------------------------
(* The steps, one by one.                                                  *)

(* Moving on: a pc and nothing else.                                       *)
Onward(p, r, pc) ==
  /\ script' = [script EXCEPT ![p] = r]
  /\ r.pc = pc /\ r.pc \notin Waiting
  /\ r.slot = script[p].slot /\ r.target = script[p].target
  /\ r.kind = script[p].kind /\ r.found = script[p].found
  /\ r.copy = script[p].copy /\ r.replaced = script[p].replaced
  /\ r.routed = script[p].routed /\ r.recorded = script[p].recorded

LEMMA GotoRecord ==
  ASSUME TypeOK, NEW p \in Scripts, NEW pc \in Working \cup Restoring \cup Ended,
         Goto(p, pc)
  PROVE  \E r \in Script : Onward(p, r, pc)
<1> DEFINE r == [script[p] EXCEPT !.pc = pc]
<1>1. script[p] \in Script
  BY DEF TypeOK
<1>2. r \in Script /\ r.pc = pc
  BY <1>1 DEF Script
<1>3. pc \notin Waiting
  BY DEF Working, Restoring, Ended, Waiting
<1>4. script' = [script EXCEPT ![p] = r]
  BY DEF Goto, TypeOK
<1> QED
  BY <1>1, <1>2, <1>3, <1>4 DEF Script, Onward

LEMMA MigrateKeeps ==
  ASSUME TypeOK, IInv, NEW p \in Scripts, Migrate(p)
  PROVE  TypeOK' /\ IInv'
<1>1. /\ script[p].pc \notin Waiting /\ script[p].pc = "migrate"
  BY DEF Migrate, Waiting
<1>2. /\ lock = p /\ script[p] \in Script /\ HolderInv(script[p])
  BY <1>1, HolderFacts
<1>3. UNCHANGED lock /\ UNCHANGED Files /\ UNCHANGED running
      /\ running' \in [Slots -> Recorded \cup {Mixed}]
  BY DEF Migrate, Files, TypeOK
<1>4. CASE Becomes(p, [script[p] EXCEPT !.pc = "recreate", !.replaced = TRUE])
  <2>1. PICK r \in Script :
          /\ r = [script[p] EXCEPT !.pc = "recreate", !.replaced = TRUE]
          /\ script' = [script EXCEPT ![p] = r]
    BY <1>2, <1>4 DEF Becomes, Script, Working
  <2>2. /\ r.pc = "recreate" /\ r.slot = script[p].slot
        /\ r.target = script[p].target /\ r.kind = script[p].kind
        /\ r.found = script[p].found /\ r.routed = script[p].routed
        /\ r.recorded = script[p].recorded /\ r.pc \notin Waiting
        /\ r.pc \notin Ended
    BY <1>2, <2>1 DEF Script, Waiting, Ended
  <2>3. HolderInv(r)'
    BY <1>1, <1>2, <1>3, <2>2 DEF HolderInv, StageInv, RouteInv, StateInv,
         ServiceInv, BackupInv, Served, Files, Untouched, Ended
  <2> QED
    BY <1>1, <1>3, <2>1, <2>2, <2>3, QuietStep
<1>5. CASE Goto(p, "failed")
  <2>1. PICK r \in Script : Onward(p, r, "failed")
    BY <1>5, GotoRecord DEF Ended
  <2>2. ~script[p].recorded
    BY <1>1, <1>2 DEF HolderInv, StageInv, Untouched
  <2>3. HolderInv(r)'
    BY <1>1, <1>2, <1>3, <2>1, <2>2 DEF HolderInv, StageInv, RouteInv, StateInv,
         ServiceInv, BackupInv, Served, Files, Untouched, Ended, Onward
  <2>4. r.slot \notin torn => current[r.slot] \in Served(r.slot)
    BY <1>2, <2>1, <2>2, FoundServed DEF Onward
  <2> QED
    BY <1>1, <1>3, <2>1, <2>3, <2>4, QuietStep DEF Onward
<1> QED
  BY <1>4, <1>5 DEF Migrate

LEMMA RecreateKeeps ==
  ASSUME TypeOK, IInv, NEW p \in Scripts, Recreate(p)
  PROVE  TypeOK' /\ IInv'
<1>1. /\ script[p].pc \notin Waiting /\ script[p].pc = "recreate"
  BY DEF Recreate, Waiting
<1>2. /\ lock = p /\ script[p] \in Script /\ HolderInv(script[p])
      /\ script[p].slot \in Slots /\ script[p].target \in Releases
  BY <1>1, HolderFacts
<1>3. UNCHANGED lock /\ UNCHANGED Files
  BY DEF Recreate, Files
<1>4. \A c \in Recorded \cup {Mixed} :
        [running EXCEPT ![script[p].slot] = c] \in [Slots -> Recorded \cup {Mixed}]
  BY DEF TypeOK
<1>5. PICK pc \in {"gates", "restore routes"} :
        /\ Goto(p, pc)
        /\ running' \in [Slots -> Recorded \cup {Mixed}]
        /\ pc = "gates" => running'[script[p].slot] = script[p].target
  BY <1>2, <1>4 DEF Recreate, Fails, Slot, TypeOK, Recorded
<1>6. pc \in Working \cup Restoring \cup Ended /\ pc \notin Ended
  BY DEF Working, Restoring, Ended
<1>7. PICK r \in Script : Onward(p, r, pc)
  BY <1>5, <1>6, GotoRecord
<1>8. HolderInv(r)'
  BY <1>1, <1>2, <1>3, <1>5, <1>7 DEF HolderInv, StageInv, RouteInv, StateInv,
       ServiceInv, BackupInv, Served, Files, Untouched, Ended, Onward
<1> QED
  BY <1>1, <1>3, <1>5, <1>6, <1>7, <1>8, QuietStep DEF Onward

LEMMA PassGatesKeeps ==
  ASSUME TypeOK, IInv, NEW p \in Scripts, PassGates(p)
  PROVE  TypeOK' /\ IInv'
<1>1. /\ script[p].pc \notin Waiting /\ script[p].pc = "gates"
  BY DEF PassGates, Waiting
<1>2. /\ lock = p /\ script[p] \in Script /\ HolderInv(script[p])
  BY <1>1, HolderFacts
<1>3. UNCHANGED lock /\ UNCHANGED Files /\ UNCHANGED running
      /\ running' \in [Slots -> Recorded \cup {Mixed}]
  BY DEF PassGates, Files, TypeOK
<1>4. PICK pc \in {"routes", "died"} : Goto(p, pc)
  BY DEF PassGates
<1>5. pc \in Working \cup Restoring \cup Ended
  BY DEF Working, Ended
<1>6. PICK r \in Script : Onward(p, r, pc)
  BY <1>4, <1>5, GotoRecord
<1>7. HolderInv(r)'
  BY <1>1, <1>2, <1>3, <1>6 DEF HolderInv, StageInv, RouteInv, StateInv,
       ServiceInv, BackupInv, Served, Files, Untouched, Ended, Onward
<1>8. r.slot \notin torn => current[r.slot] \in Served(r.slot)
  BY <1>1, <1>2, <1>6, FoundServed DEF HolderInv, StageInv, Untouched, Onward
<1> QED
  BY <1>1, <1>3, <1>6, <1>7, <1>8, QuietStep DEF Onward

LEMMA ReadRoutesKeeps ==
  ASSUME TypeOK, IInv, NEW p \in Scripts, ReadRoutes(p)
  PROVE  TypeOK' /\ IInv'
<1>1. /\ script[p].pc \notin Waiting /\ script[p].pc = "routes"
  BY DEF ReadRoutes, Waiting
<1>2. /\ lock = p /\ script[p] \in Script /\ HolderInv(script[p])
  BY <1>1, HolderFacts
<1>3. UNCHANGED lock /\ UNCHANGED Files /\ UNCHANGED running
      /\ running' \in [Slots -> Recorded \cup {Mixed}]
  BY DEF ReadRoutes, Files, TypeOK
<1>4. ~script[p].recorded
  BY <1>1, <1>2 DEF HolderInv, StageInv, Untouched
<1>5. CASE Becomes(p, [script[p] EXCEPT !.pc = "replace", !.copy = routes])
  <2>1. PICK r \in Script :
          /\ r = [script[p] EXCEPT !.pc = "replace", !.copy = routes]
          /\ script' = [script EXCEPT ![p] = r]
    BY <1>2, <1>5 DEF Becomes, Script, Working, TypeOK
  <2>2. /\ r.pc = "replace" /\ r.copy = routes /\ r.slot = script[p].slot
        /\ r.target = script[p].target /\ r.kind = script[p].kind
        /\ r.found = script[p].found /\ r.routed = script[p].routed
        /\ r.recorded = script[p].recorded
        /\ r.replaced = script[p].replaced /\ r.pc \notin Waiting
        /\ r.pc \notin Ended
    BY <1>2, <2>1 DEF Script, Waiting, Ended
  <2>3. HolderInv(r)'
    BY <1>1, <1>2, <1>3, <2>2 DEF HolderInv, StageInv, RouteInv, StateInv,
         ServiceInv, BackupInv, Served, Files, Untouched, Ended
  <2> QED
    BY <1>1, <1>3, <2>1, <2>2, <2>3, QuietStep
<1>6. CASE IF script[p].kind = "route" THEN Goto(p, "failed") ELSE Fails(p)
  <2>1. PICK pc \in {"failed", "restore routes"} :
          Goto(p, pc) /\ (script[p].kind = "route" => pc = "failed")
            /\ (script[p].kind = "release" => pc = "restore routes")
    BY <1>2, <1>6 DEF Fails, Script
  <2>2. pc \in Working \cup Restoring \cup Ended
    BY DEF Restoring, Ended
  <2>3. PICK r \in Script : Onward(p, r, pc)
    BY <2>1, <2>2, GotoRecord
  <2>4. script[p].kind \in {"release", "route"}
    BY <1>2 DEF Script
  <2>5. HolderInv(r)'
    BY <1>1, <1>2, <1>3, <1>4, <2>1, <2>3, <2>4 DEF HolderInv, StageInv,
         RouteInv, StateInv, ServiceInv, BackupInv, Served, Files, Untouched,
         Ended, Onward
  <2>6. r.slot \notin torn => current[r.slot] \in Served(r.slot)
    BY <1>2, <1>4, <2>3, FoundServed DEF Onward
  <2> QED
    BY <1>1, <1>3, <2>3, <2>5, <2>6, QuietStep DEF Onward
<1> QED
  BY <1>5, <1>6 DEF ReadRoutes

(* The copy is still the file, so only the slot's own route changes.       *)
LEMMA ReplaceRoutesKeeps ==
  ASSUME TypeOK, IInv, NEW p \in Scripts, ReplaceRoutes(p)
  PROVE  TypeOK' /\ IInv'
<1>1. /\ script[p].pc \notin Waiting /\ script[p].pc = "replace"
  BY DEF ReplaceRoutes, Waiting
<1>2. /\ lock = p /\ script[p] \in Script /\ HolderInv(script[p])
      /\ script[p].slot \in Slots /\ script[p].target \in Releases
      /\ \A s \in Slots \ torn : s # script[p].slot => current[s] \in Served(s)
  BY <1>1, HolderFacts
<1>3. script[p].copy = routes /\ ~script[p].recorded
  BY <1>1, <1>2 DEF HolderInv, RouteInv, StageInv, Untouched
<1>4. /\ routes' = [routes EXCEPT ![script[p].slot] = script[p].target]
      /\ wrote' = [wrote EXCEPT ![script[p].slot] = script[p].target]
      /\ UNCHANGED <<running, current, previous, lock, good, torn>>
  BY <1>3 DEF ReplaceRoutes, WithRoute, Slot
<1>5. /\ NoRouteIsLost' /\ routes' \in Routes /\ wrote' \in Routes
      /\ routes'[script[p].slot] = script[p].target
      /\ \A t \in Slots \ {script[p].slot} : routes'[t] = routes[t]
  BY <1>2, <1>4 DEF IInv, NoRouteIsLost, TypeOK, Routes, Recorded
<1>6. PICK r \in Script :
        /\ script' = [script EXCEPT ![p] = r]
        /\ r.pc = IF script[p].kind = "route" THEN "succeeded" ELSE "previous"
        /\ r.routed /\ r.slot = script[p].slot /\ r.target = script[p].target
        /\ r.kind = script[p].kind /\ r.found = script[p].found
        /\ r.recorded = script[p].recorded /\ r.replaced = script[p].replaced
  <2> DEFINE r == [script[p] EXCEPT !.routed = TRUE,
                     !.pc = IF script[p].kind = "route" THEN "succeeded"
                                                        ELSE "previous"]
  <2>1. script' = [script EXCEPT ![p] = r]
    BY DEF ReplaceRoutes, Becomes
  <2>2. r \in Script
    BY <1>2 DEF Script, Working, Ended
  <2> QED
    BY <1>2, <2>1, <2>2 DEF Script
<1>7. HolderInv(r)'
  BY <1>1, <1>2, <1>3, <1>4, <1>5, <1>6 DEF HolderInv, StageInv, RouteInv,
       StateInv, ServiceInv, BackupInv, Served, Untouched, Ended
<1>8. \A s \in Slots \ torn :
        /\ previous'[s] \in good'[s] \cup {None}
        /\ current'[s] \in good'[s] \cup {None}
  BY <1>2, <1>3, <1>4, FoundServed DEF IInv, StateServed, Served
<1>9. r.pc \notin Waiting
  BY <1>6 DEF Waiting
<1> QED
  BY <1>2, <1>4, <1>5, <1>6, <1>7, <1>8, <1>9, HolderStep DEF TypeOK

(* The state files are written for the script's own slot only.             *)
LEMMA RecordPreviousKeeps ==
  ASSUME TypeOK, IInv, NEW p \in Scripts, RecordPrevious(p)
  PROVE  TypeOK' /\ IInv'
<1>1. /\ script[p].pc \notin Waiting /\ script[p].pc = "previous"
  BY DEF RecordPrevious, Waiting
<1>2. /\ lock = p /\ script[p] \in Script /\ HolderInv(script[p])
      /\ script[p].slot \in Slots /\ script[p].target \in Releases
      /\ \A s \in Slots \ torn : s # script[p].slot => current[s] \in Served(s)
  BY <1>1, HolderFacts
<1>3. /\ ~script[p].recorded /\ script[p].kind = "release"
      /\ current[script[p].slot] = script[p].found.current
      /\ previous[script[p].slot] = script[p].found.previous
  BY <1>1, <1>2 DEF HolderInv, StateInv, StageInv, Untouched, Script, Ended
<1>4. /\ UNCHANGED <<running, routes, current, lock, wrote, good, torn>>
      /\ NoRouteIsLost'
  BY DEF RecordPrevious, IInv, NoRouteIsLost
<1>5. PICK pc \in {"current", "restore routes"} :
        /\ script' = [script EXCEPT ![p] =
                        [script[p] EXCEPT !.pc = pc, !.recorded = TRUE]]
        /\ previous' \in Routes
        /\ \A t \in Slots \ {script[p].slot} : previous'[t] = previous[t]
        /\ previous'[script[p].slot] \in
             {script[p].found.current, script[p].found.previous}
        /\ pc = "current" /\ script[p].found.current # None
             => previous'[script[p].slot] = script[p].found.current
  BY <1>2, <1>3 DEF RecordPrevious, Becomes, Slot, TypeOK, Routes
<1>6. PICK r \in Script :
        /\ script' = [script EXCEPT ![p] = r]
        /\ r.pc = pc /\ r.recorded
        /\ r.slot = script[p].slot /\ r.target = script[p].target
        /\ r.kind = script[p].kind /\ r.found = script[p].found
        /\ r.routed = script[p].routed /\ r.replaced = script[p].replaced
  <2> DEFINE r == [script[p] EXCEPT !.pc = pc, !.recorded = TRUE]
  <2>1. r \in Script
    BY <1>2 DEF Script, Working, Restoring
  <2> QED
    BY <1>2, <1>5, <2>1 DEF Script
<1>7. HolderInv(r)'
  <2>1. StageInv(r)' /\ RouteInv(r)'
    BY <1>1, <1>2, <1>3, <1>4, <1>6 DEF HolderInv, StageInv, RouteInv,
         Untouched, Ended
  <2>2. StateInv(r)'
    BY <1>3, <1>4, <1>5, <1>6 DEF StateInv
  <2>3. ServiceInv(r)' /\ BackupInv(r)'
    BY <1>1, <1>2, <1>3, <1>4, <1>6 DEF HolderInv, ServiceInv, BackupInv, Served
  <2> QED
    BY <2>1, <2>2, <2>3 DEF HolderInv
<1>8. \A s \in Slots \ torn :
        /\ previous'[s] \in good'[s] \cup {None}
        /\ current'[s] \in good'[s] \cup {None}
  BY <1>2, <1>3, <1>4, <1>5, FoundServed
     DEF IInv, StateServed, Served, HolderInv, BackupInv
<1>9. r.pc \notin Waiting
  BY <1>6 DEF Waiting
<1> QED
  BY <1>2, <1>4, <1>5, <1>6, <1>7, <1>8, <1>9, HolderStep DEF TypeOK

LEMMA RecordCurrentKeeps ==
  ASSUME TypeOK, IInv, NEW p \in Scripts, RecordCurrent(p)
  PROVE  TypeOK' /\ IInv'
<1>1. /\ script[p].pc \notin Waiting /\ script[p].pc = "current"
  BY DEF RecordCurrent, Waiting
<1>2. /\ lock = p /\ script[p] \in Script /\ HolderInv(script[p])
      /\ script[p].slot \in Slots /\ script[p].target \in Releases
      /\ \A s \in Slots \ torn : s # script[p].slot => current[s] \in Served(s)
  BY <1>1, HolderFacts
<1>3. /\ script[p].recorded /\ script[p].kind = "release"
  BY <1>1, <1>2 DEF HolderInv, StageInv, Script, Ended
<1>4. /\ UNCHANGED <<running, routes, previous, lock, wrote, good, torn>>
      /\ NoRouteIsLost'
  BY DEF RecordCurrent, IInv, NoRouteIsLost
<1>5. PICK pc \in {"verify", "restore routes"} :
        /\ Goto(p, pc) /\ current' \in Routes
        /\ \A t \in Slots \ {script[p].slot} : current'[t] = current[t]
        /\ pc = "verify" => current'[script[p].slot] = script[p].target
        /\ pc = "restore routes" => current' = current
  BY <1>2 DEF RecordCurrent, Fails, Slot, TypeOK, Routes, Recorded
<1>6. pc \in Working \cup Restoring \cup Ended /\ pc \notin Ended
  BY DEF Working, Restoring, Ended
<1>7. PICK r \in Script : Onward(p, r, pc)
  BY <1>5, <1>6, GotoRecord
<1>8. HolderInv(r)'
  <2>1. StageInv(r)' /\ RouteInv(r)'
    BY <1>1, <1>2, <1>3, <1>4, <1>7 DEF HolderInv, StageInv, RouteInv,
         Untouched, Ended, Onward
  <2>2. StateInv(r)'
    BY <1>1, <1>2, <1>3, <1>4, <1>5, <1>7 DEF HolderInv, StateInv, Onward
  <2>3. ServiceInv(r)' /\ BackupInv(r)'
    BY <1>1, <1>2, <1>4, <1>7 DEF HolderInv, ServiceInv, BackupInv, Served, Onward
  <2> QED
    BY <2>1, <2>2, <2>3 DEF HolderInv
<1>9. \A s \in Slots \ torn :
        /\ previous'[s] \in good'[s] \cup {None}
        /\ \/ current'[s] \in good'[s] \cup {None}
           \/ s = r.slot /\ r.pc \notin Ended
  BY <1>2, <1>4, <1>5, <1>6, <1>7 DEF IInv, StateServed, Served, Onward
<1> QED
  BY <1>2, <1>4, <1>5, <1>7, <1>8, <1>9, HolderStep DEF TypeOK, Onward

LEMMA VerifyKeeps ==
  ASSUME TypeOK, IInv, NEW p \in Scripts, Verify(p)
  PROVE  TypeOK' /\ IInv'
<1>1. /\ script[p].pc \notin Waiting /\ script[p].pc = "verify"
  BY DEF Verify, Waiting
<1>2. /\ lock = p /\ script[p] \in Script /\ HolderInv(script[p])
      /\ script[p].slot \in Slots /\ script[p].target \in Releases
      /\ \A s \in Slots \ torn : s # script[p].slot => current[s] \in Served(s)
  BY <1>1, HolderFacts
<1>3. /\ script[p].recorded /\ script[p].kind = "release"
      /\ current[script[p].slot] = script[p].target
  BY <1>1, <1>2 DEF HolderInv, StageInv, StateInv, Script, Ended
<1>4. /\ UNCHANGED <<running, routes, current, previous, lock, wrote, torn>>
      /\ NoRouteIsLost'
  BY DEF Verify, IInv, NoRouteIsLost
<1>5. PICK pc \in {"succeeded", "restore routes"} :
        /\ Goto(p, pc) /\ good' \in [Slots -> SUBSET Releases]
        /\ \A t \in Slots : good[t] \subseteq good'[t]
        /\ pc = "succeeded" => script[p].target \in good'[script[p].slot]
  BY <1>2 DEF Verify, Fails, Slot, TypeOK
<1>6. pc \in Working \cup Restoring \cup Ended
  BY DEF Restoring, Ended
<1>7. PICK r \in Script : Onward(p, r, pc)
  BY <1>5, <1>6, GotoRecord
<1>8. HolderInv(r)'
  <2>1. StageInv(r)' /\ RouteInv(r)'
    BY <1>1, <1>2, <1>3, <1>4, <1>7 DEF HolderInv, StageInv, RouteInv,
         Untouched, Ended, Onward
  <2>2. StateInv(r)'
    BY <1>1, <1>2, <1>3, <1>4, <1>7 DEF HolderInv, StateInv, Onward
  <2>3. ServiceInv(r)' /\ BackupInv(r)'
    BY <1>1, <1>2, <1>4, <1>5, <1>7 DEF HolderInv, ServiceInv, BackupInv, Served, Onward
  <2> QED
    BY <2>1, <2>2, <2>3 DEF HolderInv
<1>9. \A s \in Slots \ torn :
        /\ previous'[s] \in good'[s] \cup {None}
        /\ \/ current'[s] \in good'[s] \cup {None}
           \/ s = r.slot /\ r.pc \notin Ended
  <2>1. pc = "restore routes" => r.pc \notin Ended
    BY <1>7 DEF Ended, Onward
  <2>2. \A s \in Slots \ torn : previous'[s] \in good'[s] \cup {None}
    BY <1>4, <1>5 DEF IInv, StateServed, Served
  <2>3. \A s \in Slots \ torn :
          s # script[p].slot => current'[s] \in good'[s] \cup {None}
    BY <1>2, <1>4, <1>5 DEF Served
  <2>4. pc = "succeeded" =>
          current'[script[p].slot] \in good'[script[p].slot] \cup {None}
    BY <1>3, <1>4, <1>5
  <2>5. r.slot = script[p].slot /\ (r.pc = "succeeded" \/ r.pc \notin Ended)
    BY <1>7, <2>1 DEF Onward
  <2>6. pc = "succeeded" \/ r.pc \notin Ended
    BY <2>1
  <2> QED
    BY <2>2, <2>3, <2>4, <2>5, <2>6
<1> QED
  BY <1>2, <1>4, <1>5, <1>7, <1>8, <1>9, HolderStep DEF TypeOK, Onward

(* The backup of the route file differs from it in the slot's own route.   *)
LEMMA RestoreRoutesKeeps ==
  ASSUME TypeOK, IInv, NEW p \in Scripts, RestoreRoutes(p)
  PROVE  TypeOK' /\ IInv'
<1>1. /\ script[p].pc \notin Waiting /\ script[p].pc = "restore routes"
  BY DEF RestoreRoutes, Waiting
<1>2. /\ lock = p /\ script[p] \in Script /\ HolderInv(script[p])
      /\ script[p].slot \in Slots /\ script[p].target \in Releases
      /\ \A s \in Slots \ torn : s # script[p].slot => current[s] \in Served(s)
  BY <1>1, HolderFacts
<1>3. UNCHANGED <<running, current, previous, lock, good, torn>>
  BY DEF RestoreRoutes
<1>4. script[p].found.routes \in Routes
  BY <1>2 DEF Script
<1>5. /\ \A t \in Slots \ {script[p].slot} : script[p].found.routes[t] = routes[t]
      /\ ~script[p].routed => script[p].found.routes = routes
  BY <1>2 DEF HolderInv, RouteInv
<1>6. routes' = script[p].found.routes
  BY <1>5 DEF RestoreRoutes
<1>7. wrote' = script[p].found.routes
  <2>1. wrote = routes /\ routes \in Routes
    BY DEF IInv, NoRouteIsLost, TypeOK
  <2>2. CASE script[p].routed
    <3>1. wrote' = [wrote EXCEPT ![script[p].slot] =
                      script[p].found.routes[script[p].slot]]
      BY <2>2 DEF RestoreRoutes, Slot
    <3> QED
      BY <1>2, <1>4, <1>5, <2>1, <3>1 DEF Routes
  <2>3. CASE ~script[p].routed
    BY <1>5, <2>1, <2>3 DEF RestoreRoutes
  <2> QED
    BY <2>2, <2>3
<1>8. PICK r \in Script : Onward(p, r, "restore services")
  BY GotoRecord DEF RestoreRoutes, Restoring
<1>9. HolderInv(r)'
  <2>1. StageInv(r)' /\ RouteInv(r)'
    BY <1>1, <1>2, <1>6, <1>8 DEF HolderInv, StageInv, RouteInv,
         Untouched, Ended, Onward
  <2>2. StateInv(r)'
    BY <1>1, <1>2, <1>3, <1>8 DEF HolderInv, StateInv, Onward
  <2>3. ServiceInv(r)' /\ BackupInv(r)'
    BY <1>1, <1>2, <1>3, <1>8 DEF HolderInv, ServiceInv, BackupInv, Served, Onward
  <2> QED
    BY <2>1, <2>2, <2>3 DEF HolderInv
<1>10. r.pc \notin Ended
  BY <1>8 DEF Ended, Onward
<1>11. \A s \in Slots \ torn :
        /\ previous'[s] \in good'[s] \cup {None}
        /\ \/ current'[s] \in good'[s] \cup {None}
           \/ s = r.slot /\ r.pc \notin Ended
  BY <1>2, <1>3, <1>8, <1>10 DEF IInv, StateServed, Served, Onward
<1>12. NoRouteIsLost'
  BY <1>6, <1>7 DEF NoRouteIsLost
<1> QED
  BY <1>2, <1>3, <1>4, <1>6, <1>7, <1>8, <1>9, <1>11, <1>12, HolderStep
     DEF TypeOK, Onward

LEMMA RestoreServicesKeeps ==
  ASSUME TypeOK, IInv, NEW p \in Scripts, RestoreServices(p)
  PROVE  TypeOK' /\ IInv'
<1>1. /\ script[p].pc \notin Waiting /\ script[p].pc = "restore services"
  BY DEF RestoreServices, Waiting
<1>2. /\ lock = p /\ script[p] \in Script /\ HolderInv(script[p])
      /\ script[p].slot \in Slots /\ script[p].target \in Releases
  BY <1>1, HolderFacts
<1>3. UNCHANGED lock /\ UNCHANGED Files
  BY DEF RestoreServices, Files
<1>4. /\ running' \in [Slots -> Recorded \cup {Mixed}]
      /\ script[p].replaced /\ script[p].found.current # None =>
           running'[script[p].slot] \in {script[p].found.current, Mixed}
  <2>1. script[p].found.current \in Recorded
    BY <1>2 DEF Script
  <2> QED
    BY <1>2, <2>1 DEF RestoreServices, Slot, TypeOK
<1>5. PICK r \in Script : Onward(p, r, "restore state")
  BY GotoRecord DEF RestoreServices, Restoring
<1>6. HolderInv(r)'
  BY <1>1, <1>2, <1>3, <1>4, <1>5 DEF HolderInv, StageInv, RouteInv, StateInv,
       ServiceInv, BackupInv, Served, Files, Untouched, Ended, Onward
<1>7. r.pc \notin Ended
  BY <1>5 DEF Ended, Onward
<1> QED
  BY <1>1, <1>3, <1>4, <1>5, <1>6, <1>7, QuietStep DEF Onward

LEMMA RestoreStateKeeps ==
  ASSUME TypeOK, IInv, NEW p \in Scripts, RestoreState(p)
  PROVE  TypeOK' /\ IInv'
<1>1. /\ script[p].pc \notin Waiting /\ script[p].pc = "restore state"
  BY DEF RestoreState, Waiting
<1>2. /\ lock = p /\ script[p] \in Script /\ HolderInv(script[p])
      /\ script[p].slot \in Slots /\ script[p].target \in Releases
      /\ \A s \in Slots \ torn : s # script[p].slot => current[s] \in Served(s)
  BY <1>1, HolderFacts
<1>3. /\ UNCHANGED <<running, routes, lock, wrote, good, torn>>
      /\ NoRouteIsLost'
  BY DEF RestoreState, IInv, NoRouteIsLost
<1>4. /\ script[p].found.current \in Recorded
      /\ script[p].found.previous \in Recorded
  BY <1>2 DEF Script
<1>5. /\ current' \in Routes /\ previous' \in Routes
      /\ current'[script[p].slot] = script[p].found.current
      /\ previous'[script[p].slot] = script[p].found.previous
      /\ \A t \in Slots \ {script[p].slot} :
           current'[t] = current[t] /\ previous'[t] = previous[t]
  BY <1>2, <1>4 DEF RestoreState, Slot, TypeOK, Routes, HolderInv, StateInv
<1>6. PICK r \in Script : Onward(p, r, "failed")
  BY GotoRecord DEF RestoreState, Ended
<1>7. HolderInv(r)'
  <2>1. StageInv(r)' /\ RouteInv(r)'
    BY <1>1, <1>2, <1>3, <1>6 DEF HolderInv, StageInv, RouteInv,
         Untouched, Ended, Onward
  <2>2. StateInv(r)'
    BY <1>5, <1>6 DEF StateInv, Onward
  <2>3. ServiceInv(r)' /\ BackupInv(r)'
    BY <1>1, <1>2, <1>3, <1>6 DEF HolderInv, ServiceInv, BackupInv, Served, Onward
  <2> QED
    BY <2>1, <2>2, <2>3 DEF HolderInv
<1>8. \A s \in Slots \ torn :
        /\ previous'[s] \in good'[s] \cup {None}
        /\ current'[s] \in good'[s] \cup {None}
  BY <1>2, <1>3, <1>5 DEF IInv, StateServed, Served, HolderInv, BackupInv
<1> QED
  BY <1>2, <1>3, <1>5, <1>6, <1>7, <1>8, HolderStep DEF TypeOK, Onward

-----------------------------------------------------------------------------
(* The steps that start a script, take the lock or give it up.             *)

(* While nobody works every state file names what served.                  *)
LEMMA FreeServed ==
  ASSUME TypeOK, IInv, lock = None, NEW s \in Slots \ torn
  PROVE  current[s] \in Served(s) /\ previous[s] \in Served(s)
BY NoneAssumption DEF IInv, StateServed, AtWork

(* The step of a script that has not the lock changes nothing for the one  *)
(* that has it.                                                            *)
LEMMA SameFiles ==
  ASSUME NEW r, HolderInv(r),
         UNCHANGED <<running, routes, current, previous, good, torn>>
  PROVE  HolderInv(r)'
<1>1. StageInv(r)'
  BY DEF HolderInv, StageInv
<1>2. RouteInv(r)'
  BY DEF HolderInv, RouteInv
<1>3. StateInv(r)'
  BY DEF HolderInv, StateInv
<1>4. ServiceInv(r)'
  BY DEF HolderInv, ServiceInv
<1>5. BackupInv(r)'
  BY DEF HolderInv, BackupInv, Served
<1> QED
  BY <1>1, <1>2, <1>3, <1>4, <1>5 DEF HolderInv

LEMMA StartKeeps ==
  ASSUME TypeOK, IInv, NEW p \in Scripts, Start(p)
  PROVE  TypeOK' /\ IInv'
<1>1. UNCHANGED <<running, routes, current, previous, lock, wrote, good, torn>>
  BY DEF Start
<1>2. /\ current \in [Slots -> Recorded] /\ previous \in [Slots -> Recorded]
      /\ Releases \subseteq Recorded /\ \A r \in Recorded : r # None => r \in Releases
  BY DEF TypeOK, Routes, Recorded
<1>3. PICK kind \in {"release", "route"}, s \in Slots, t \in Releases :
        Becomes(p, Starting(kind, s, t))
  BY <1>2 DEF Start
<1>4. PICK r \in Script :
        /\ r = Starting(kind, s, t) /\ r.pc = "ready" /\ AimedAt(r)
  BY <1>2, <1>3, StartingType
<1>5. Moved(p, r) /\ LockMoved(p, r)
  BY <1>1, <1>3, <1>4 DEF Moved, LockMoved, Becomes, Start, Waiting
<1>6. /\ script' \in [Scripts -> Script] /\ Aimed'
      /\ lock' \in Scripts \cup {None}
      /\ \A q \in Scripts : script'[q].pc \in Waiting <=> lock' # q
  BY <1>5, MovedTypes DEF IInv
<1>7. TypeOK'
  BY <1>1, <1>6 DEF TypeOK
<1>8. lock # p
  BY DEF Start, TypeOK, Waiting
<1>9. \A q \in Scripts : lock = q => script'[q] = script[q]
  BY <1>5, <1>8 DEF Moved, TypeOK
<1>10. Holder'
  <2>1. \A q \in Scripts : lock' = q => HolderInv(script[q])
    BY <1>1 DEF IInv, Holder
  <2>2. ASSUME NEW q \in Scripts, lock' = q
        PROVE  HolderInv(script[q])'
    <3>1. PICK r0 : r0 = script[q]
      OBVIOUS
    <3>2. HolderInv(r0)' /\ script'[q] = r0
      BY <1>1, <1>9, <2>1, <2>2, <3>1, SameFiles
    <3> QED
      BY <3>2
  <2> QED
    BY <2>2 DEF Holder
<1>11. StateServed' /\ NoRouteIsLost'
  BY <1>1, <1>9 DEF IInv, StateServed, AtWork, Served, NoRouteIsLost
<1> QED
  BY <1>6, <1>7, <1>10, <1>11 DEF IInv

LEMMA TakeLockKeeps ==
  ASSUME TypeOK, IInv, NEW p \in Scripts, TakeLock(p)
  PROVE  TypeOK' /\ IInv'
<1>1. /\ UNCHANGED <<running, routes, current, previous, wrote, good, torn>>
      /\ lock = None /\ lock' = p /\ script[p].pc = "ready"
  BY DEF TakeLock
<1>2. script[p] \in Script /\ script[p].slot \in Slots /\ script[p].target \in Releases
  BY <1>1 DEF TypeOK, IInv, Aimed, AimedAt, Script
<1>3. /\ ~script[p].replaced /\ ~script[p].routed /\ ~script[p].recorded
  BY <1>1 DEF IInv, Aimed, AimedAt
<1>4. PICK r \in Script :
        /\ script' = [script EXCEPT ![p] = r]
        /\ r.pc = IF script[p].kind = "route" THEN "routes" ELSE "migrate"
        /\ r.found.current = current[script[p].slot]
        /\ r.found.previous = previous[script[p].slot]
        /\ r.found.routes = routes
        /\ r.slot = script[p].slot /\ r.target = script[p].target
        /\ r.kind = script[p].kind /\ ~r.replaced /\ ~r.routed /\ ~r.recorded
  <2> DEFINE found == [current |-> current[script[p].slot],
                       previous |-> previous[script[p].slot], routes |-> routes]
             r == [script[p] EXCEPT
                     !.pc = IF script[p].kind = "route" THEN "routes" ELSE "migrate",
                     !.found = found]
  <2>1. found \in [current : Recorded, previous : Recorded, routes : Routes]
    BY <1>2 DEF TypeOK, Routes
  <2>2. r \in Script
    BY <1>2, <2>1 DEF Script, Working
  <2>3. script' = [script EXCEPT ![p] = r]
    BY DEF TakeLock, Becomes, Slot
  <2> QED
    BY <1>2, <1>3, <2>2, <2>3 DEF Script
<1>5. r.pc \notin Waiting /\ r.pc \in {"routes", "migrate"}
      /\ (r.kind = "route" => r.pc = "routes")
  BY <1>4 DEF Waiting
<1>6. Moved(p, r) /\ LockMoved(p, r)
  BY <1>1, <1>2, <1>4, <1>5 DEF Moved, LockMoved, AimedAt
<1>7. /\ script' \in [Scripts -> Script] /\ Aimed'
      /\ lock' \in Scripts \cup {None}
      /\ \A q \in Scripts : script'[q].pc \in Waiting <=> lock' # q
  BY <1>6, MovedTypes DEF IInv
<1>8. TypeOK'
  BY <1>1, <1>7 DEF TypeOK
<1>9. HolderInv(r)'
  <2>1. StageInv(r)' /\ RouteInv(r)' /\ StateInv(r)' /\ ServiceInv(r)'
    BY <1>1, <1>4, <1>5 DEF StageInv, RouteInv, StateInv, ServiceInv, Untouched, Ended
  <2>2. BackupInv(r)'
    BY <1>1, <1>2, <1>4, FreeServed DEF BackupInv, Served
  <2> QED
    BY <2>1, <2>2 DEF HolderInv
<1>10. script'[p] = r
  BY <1>4 DEF TypeOK
<1>11. Holder'
  BY <1>1, <1>9, <1>10 DEF Holder
<1>12. StateServed' /\ NoRouteIsLost'
  BY <1>1, FreeServed DEF IInv, StateServed, Served, NoRouteIsLost
<1> QED
  BY <1>7, <1>8, <1>11, <1>12 DEF IInv

(* The lock is given up: only the state files have to be fit to be found.  *)
LEMMA LeaveKeeps ==
  ASSUME TypeOK, IInv, NEW p \in Scripts, script[p].pc \notin Waiting, Leave(p),
         UNCHANGED <<routes, current, previous, wrote, good>>,
         running' \in [Slots -> Recorded \cup {Mixed}],
         torn \subseteq torn', torn' \subseteq Slots,
         script[p].slot \notin torn' =>
           current[script[p].slot] \in Served(script[p].slot)
  PROVE  TypeOK' /\ IInv'
<1>1. /\ lock = p /\ script[p] \in Script /\ script[p].slot \in Slots
      /\ \A s \in Slots \ torn : s # script[p].slot => current[s] \in Served(s)
  BY HolderFacts
<1>2. PICK r \in Script : r = Idle(script[p].slot) /\ r.pc = "idle" /\ AimedAt(r)
  BY <1>1, StartingType DEF Recorded
<1>3. Moved(p, r) /\ LockMoved(p, r)
  BY <1>1, <1>2 DEF Leave, Moved, LockMoved, Becomes, Slot, Waiting
<1>4. /\ script' \in [Scripts -> Script] /\ Aimed'
      /\ lock' \in Scripts \cup {None}
      /\ \A q \in Scripts : script'[q].pc \in Waiting <=> lock' # q
  BY <1>3, MovedTypes DEF IInv
<1>5. TypeOK'
  BY <1>4 DEF TypeOK
<1>6. Holder'
  BY NoneAssumption DEF Leave, Holder
<1>7. StateServed' /\ NoRouteIsLost'
  BY <1>1 DEF IInv, StateServed, Served, NoRouteIsLost
<1> QED
  BY <1>4, <1>5, <1>6, <1>7 DEF IInv

LEMMA ExitKeeps ==
  ASSUME TypeOK, IInv, NEW p \in Scripts, Exit(p)
  PROVE  TypeOK' /\ IInv'
<1>1. /\ script[p].pc \notin Waiting /\ script[p].pc \in Ended /\ Leave(p)
      /\ UNCHANGED <<running, routes, current, previous, wrote, good, torn>>
  BY DEF Exit, Ended, Waiting
<1>2. lock = p /\ script[p].slot \in Slots
  BY <1>1, HolderFacts
<1>3. \A s \in Slots : AtWork(s) => s # script[p].slot
  BY <1>1, <1>2 DEF AtWork
<1>4. script[p].slot \notin torn =>
        current[script[p].slot] \in Served(script[p].slot)
  BY <1>2, <1>3 DEF IInv, StateServed
<1> QED
  BY <1>1, <1>4, LeaveKeeps DEF TypeOK

(* A script killed after it changed current.env makes its slot torn.       *)
LEMMA KillKeeps ==
  ASSUME TypeOK, IInv, NEW p \in Scripts, Kill(p)
  PROVE  TypeOK' /\ IInv'
<1>1. /\ script[p].pc \notin Waiting /\ Leave(p)
      /\ UNCHANGED <<routes, current, previous, wrote, good>>
  BY DEF Kill, Working, Restoring, Waiting
<1>2. script[p].slot \in Slots /\ HolderInv(script[p])
  BY <1>1, HolderFacts
<1>3. running' \in [Slots -> Recorded \cup {Mixed}]
  BY <1>2 DEF Kill, TypeOK, Slot
<1>4. /\ torn \subseteq torn' /\ torn' \subseteq Slots
      /\ script[p].slot \notin torn' =>
           current[script[p].slot] = script[p].found.current
  BY <1>2 DEF Kill, TypeOK, Slot
<1>5. script[p].slot \notin torn' =>
        current[script[p].slot] \in Served(script[p].slot)
  BY <1>2, <1>4 DEF HolderInv, BackupInv
<1> QED
  BY <1>1, <1>3, <1>4, <1>5, LeaveKeeps

LEMMA InitIInv == Init => TypeOK /\ IInv
<1> SUFFICES ASSUME Init PROVE TypeOK /\ IInv
  OBVIOUS
<1>1. TypeOK /\ Aimed
  BY InitType
<1>2. Holder
  BY NoneAssumption DEF Init, Holder
<1>3. NoRouteIsLost /\ StateServed
  BY DEF Init, NoRouteIsLost, StateServed, Served, NoRoutes
<1> QED
  BY <1>1, <1>2, <1>3 DEF IInv

LEMMA NextIInv == TypeOK /\ IInv /\ [Next]_vars => TypeOK' /\ IInv'
<1> SUFFICES ASSUME TypeOK, IInv, [Next]_vars PROVE TypeOK' /\ IInv'
  OBVIOUS
<1>1. CASE UNCHANGED vars
  <2>1. TypeOK'
    BY <1>1 DEF vars, TypeOK
  <2>2. Aimed' /\ NoRouteIsLost' /\ StateServed'
    BY <1>1 DEF vars, IInv, Aimed, NoRouteIsLost, StateServed, AtWork, Served
  <2>3. Holder'
    BY <1>1 DEF vars, IInv, Holder, HolderInv, StageInv, RouteInv, StateInv,
         ServiceInv, BackupInv, Served
  <2> QED
    BY <2>1, <2>2, <2>3 DEF IInv
<1>2. ASSUME NEW p \in Scripts, Step(p)
      PROVE  TypeOK' /\ IInv'
  BY <1>2, StartKeeps, TakeLockKeeps, MigrateKeeps, RecreateKeeps,
     PassGatesKeeps, ReadRoutesKeeps, ReplaceRoutesKeeps, RecordPreviousKeeps,
     RecordCurrentKeeps, VerifyKeeps, RestoreRoutesKeeps, RestoreServicesKeeps,
     RestoreStateKeeps, ExitKeeps, KillKeeps DEF Step
<1> QED
  BY <1>1, <1>2 DEF Next
-----------------------------------------------------------------------------
(* The theorems.                                                           *)

(* The inductive invariant: what the script with the lock knows of the     *)
(* containers, the routes and the state files.                             *)
THEOREM ReleaseInvariance == Spec => [](TypeOK /\ IInv)
<1>1. Init => TypeOK /\ IInv
  BY InitIInv
<1>2. (TypeOK /\ IInv) /\ [Next]_vars => (TypeOK /\ IInv)'
  BY NextIInv
<1> QED
  BY <1>1, <1>2, PTL DEF Spec

(* The types, and that only the holder of deployments.lock is past         *)
(* acquire_global_deploy_lock.                                             *)
THEOREM ReleaseTypes == Spec => []TypeOK
BY ReleaseInvariance, PTL

(* No script loses or revives a route of another slot (update_routes.py    *)
(* and restore_file replace the whole file).                               *)
THEOREM RoutesKept == Spec => []NoRouteIsLost
<1>1. IInv => NoRouteIsLost
  BY DEF IInv
<1> QED
  BY <1>1, ReleaseInvariance, PTL

(* A release that reports success has left containers, route and state     *)
(* files in agreement, and previous.env undoes it.                         *)
THEOREM SuccessComplete == Spec => []SuccessIsComplete
<1>1. TypeOK /\ IInv => SuccessIsComplete
  <2> SUFFICES ASSUME TypeOK, IInv, NEW p \in Scripts,
                      script[p].pc = "succeeded", script[p].kind = "release"
      PROVE  /\ running[script[p].slot] = script[p].target
             /\ routes[script[p].slot] = script[p].target
             /\ current[script[p].slot] = script[p].target
             /\ script[p].found.current # None =>
                  previous[script[p].slot] = script[p].found.current
    BY DEF SuccessIsComplete, Slot
  <2>1. HolderInv(script[p])
    BY HolderFacts DEF Waiting
  <2> QED
    BY <2>1 DEF HolderInv, RouteInv, StateInv, ServiceInv
<1> QED
  BY <1>1, ReleaseInvariance, PTL

(* A command that fails leaves routes, state files and services as they    *)
(* were (restore_previous).                                                *)
THEOREM TrapUndoes == Spec => []TrapRestores
<1>1. TypeOK /\ IInv => TrapRestores
  <2> SUFFICES ASSUME TypeOK, IInv, NEW p \in Scripts, script[p].pc = "failed"
      PROVE  /\ routes = script[p].found.routes
             /\ current[script[p].slot] = script[p].found.current
             /\ previous[script[p].slot] = script[p].found.previous
             /\ script[p].replaced /\ script[p].found.current # None =>
                  running[script[p].slot] \in {script[p].found.current, Mixed}
    BY DEF TrapRestores, Slot
  <2>1. HolderInv(script[p])
    BY HolderFacts DEF Waiting
  <2> QED
    BY <2>1 DEF HolderInv, RouteInv, StateInv, ServiceInv
<1> QED
  BY <1>1, ReleaseInvariance, PTL

(* previous.env names only releases that passed canvas-verify, if no       *)
(* release of the slot was killed after it wrote current.env.              *)
THEOREM TargetsServed == Spec => []RollbackTargetServed
<1>1. TypeOK /\ IInv => RollbackTargetServed
  BY FreeServed DEF RollbackTargetServed, IInv, StateServed, Served
<1> QED
  BY <1>1, ReleaseInvariance, PTL
=============================================================================
