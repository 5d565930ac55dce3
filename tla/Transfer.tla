------------------------------- MODULE Transfer -------------------------------
(* canvas-migrate: the transfer of projects, jobs and pictures from the old *)
(* installation into this one.  audit-source, export, copy-objects, import  *)
(* and verify-transfer are run by a person, in any order and more than      *)
(* once, while either installation may be at work.                          *)
(*                                                                          *)
(* A job that completed has one picture: a row, and a file of its own.      *)
(* Library items, editor documents, media tasks and the other tables are    *)
(* exported, inserted and compared like projects and jobs.                  *)
EXTENDS Naturals, FiniteSets

CONSTANTS
  Projects, Jobs,    \* of the old installation
  Own,               \* what a user creates in the new one
  Outputs,           \* directories for exports
  NoExport,
  Commands,          \* commands that may run at the same time
  MaxChanges,        \* edits and losses in the old installation
  MaxEdits           \* changes by users and administrators of the new one

ASSUME OwnAssumption == Own \notin Projects
ASSUME OutputsAssumption == NoExport \notin Outputs
ASSUME BoundsAssumption == {MaxChanges, MaxEdits} \subseteq Nat

VARIABLES
  source,            \* the old database and its object store
  decisions,         \* the resolution file: jobs a person decided about
  exports,           \* what is published in every output directory
  target, files,     \* the new database and its object store
  imported,          \* canvas_transfer_imports: the exports recorded
  verified,          \* exports that verify-transfer called complete
  command,
  changes, edits

vars == <<source, decisions, exports, target, files, imported, verified, command,
          changes, edits>>

NoRow == 0
Edited == MaxChanges + 2            \* content given to a row in the new installation
Names == Projects \cup {Own}

Open == {"queued", "running", "indeterminate"}     \* not settled in the old installation
File == {"none", "whole", "other"}  \* "other": part of a picture, or a damaged one
Tables(statuses) ==
  [project: [Names -> 0..Edited], job: [Jobs -> statuses],
   policy: {"default", "legacy", "edited"}]

Rows == Tables({"none", "completed", "indeterminate"})
SourceRows == Tables({"none", "completed"} \cup Open)

Idle == [doing |-> "nothing"]
Command ==
  [doing: {"nothing"}]
  \cup [doing: {"exporting", "publishing"}, seen: SourceRows]
  \cup [doing: {"locking", "importing"}, export: Rows, seen: Rows]
  \cup [doing: {"copying", "verifying"}, export: Rows]

TypeOK ==
  /\ source \in [rows: SourceRows, file: [Jobs -> File]]
  /\ decisions \subseteq Jobs
  /\ exports \in [Outputs -> Rows \cup {NoExport}]
  /\ target \in Rows
  /\ files \in [Jobs -> File]
  /\ imported \subseteq Rows /\ verified \subseteq Rows
  /\ command \in [Commands -> Command]
  /\ changes \in 0..MaxChanges /\ edits \in 0..MaxEdits

(* A job of the old installation is waiting, or its outcome is unknown. *)
Init ==
  /\ \E old \in [Jobs -> {"queued", "indeterminate"}] :
       source = [rows |-> [project |-> [n \in Names |-> IF n = Own THEN NoRow ELSE 1],
                           job |-> old, policy |-> "legacy"],
                 file |-> [j \in Jobs |-> "none"]]
  /\ decisions = {}
  /\ exports = [x \in Outputs |-> NoExport]
  /\ target = [project |-> [n \in Names |-> NoRow], job |-> [j \in Jobs |-> "none"],
               policy |-> "default"]
  /\ files = [j \in Jobs |-> "none"]
  /\ imported = {} /\ verified = {}
  /\ command = [c \in Commands |-> Idle]
  /\ changes = 0 /\ edits = 0

-----------------------------------------------------------------------------
(* The old installation, as the exporter finds it: not in this repository. *)

SourceChanges ==
  /\ changes < MaxChanges
  /\ changes' = changes + 1
  /\ \/ \E p \in Projects : source' = [source EXCEPT !.rows.project[p] = changes + 2]
     \/ \E j \in Jobs : /\ source.file[j] = "whole"
                        /\ \E f \in {"none", "other"} : source' = [source EXCEPT !.file[j] = f]
  /\ UNCHANGED <<decisions, exports, target, files, imported, verified, command, edits>>

(* A job is run: its picture's file comes before its row. *)
SourceRuns(j) ==
  /\ source.rows.job[j] \in {"queued", "running"}
  /\ source' = CASE source.rows.job[j] = "queued" -> [source EXCEPT !.rows.job[j] = "running"]
                 [] source.file[j] = "none" -> [source EXCEPT !.file[j] = "whole"]
                 [] OTHER -> [source EXCEPT !.rows.job[j] = "completed"]
  /\ UNCHANGED <<decisions, exports, target, files, imported, verified, command,
                 changes, edits>>

-----------------------------------------------------------------------------
(* audit-source and export. *)

Unresolved(rows) == {j \in Jobs : rows.job[j] \in Open}
Pictures(rows) == {j \in Jobs : rows.job[j] = "completed"}

(* Every row's file is there with the size and the digest of the row. *)
FilesFit(file, rows) == \A j \in Pictures(rows) : file[j] = "whole"

(* The audit lists the jobs that are not settled; a person decides about    *)
(* them and writes the resolution file.                                     *)
AuditSource ==
  /\ FilesFit(source.file, source.rows)
  /\ decisions' = Unresolved(source.rows)
  /\ UNCHANGED <<source, exports, target, files, imported, verified, command,
                 changes, edits>>

Does(c, state) == command' = [command EXCEPT ![c] = state]
Ends(c) == Does(c, Idle)
Unpublished == UNCHANGED <<source, decisions, exports, changes, edits>>
TargetUntouched == UNCHANGED <<target, files, imported, verified>>

(* The transaction of the export sees one instant of the database. *)
ExportBegins(c) ==
  /\ command[c] = Idle
  /\ Does(c, [doing |-> "exporting", seen |-> source.rows])
  /\ Unpublished /\ TargetUntouched

(* The files are read as they are by now. *)
ReadObjects(c) ==
  /\ command[c].doing = "exporting"
  /\ IF FilesFit(source.file, command[c].seen)
     THEN Does(c, [command[c] EXCEPT !.doing = "publishing"])
     ELSE Ends(c)
  /\ Unpublished /\ TargetUntouched

(* Faulty variant: a decision for every job is not required. *)
ResolvedBySome(rows, decided) == decided \subseteq Unresolved(rows)

(* Each unresolved job has a decision, and each decision an unresolved job. *)
Resolved(rows, decided) == decided = Unresolved(rows)

(* A job that may still run in the old installation is exported as settled. *)
Exported(rows) ==
  [rows EXCEPT !.job = [j \in Jobs |-> IF rows.job[j] \in Open THEN "indeterminate" ELSE rows.job[j]]]

(* An export appears whole, under a name that was free. *)
Publish(c, x) ==
  /\ command[c].doing = "publishing"
  /\ exports[x] = NoExport
  /\ IF Resolved(command[c].seen, decisions)
     THEN exports' = [exports EXCEPT ![x] = Exported(command[c].seen)]
     ELSE UNCHANGED exports
  /\ Ends(c)
  /\ UNCHANGED <<source, decisions, changes, edits>> /\ TargetUntouched

-----------------------------------------------------------------------------
(* import: one serializable transaction, whose snapshot is taken by the     *)
(* statement that waits for the lock.                                       *)

Opened(e) == \E x \in Outputs : exports[x] = e /\ e # NoExport

ImportBegins(c, e) ==
  /\ command[c] = Idle
  /\ Opened(e)
  /\ Does(c, [doing |-> "locking", export |-> e, seen |-> target])
  /\ Unpublished /\ TargetUntouched

LockImport(c) ==
  /\ command[c].doing = "locking"
  /\ \A d \in Commands : command[d].doing # "importing"
  /\ Does(c, [command[c] EXCEPT !.doing = "importing"])
  /\ Unpublished /\ TargetUntouched

Pristine(t) ==
  /\ \A n \in Names : t.project[n] = NoRow
  /\ \A j \in Jobs : t.job[j] = "none"
  /\ t.policy = "default"

PolicyPrepared(t, e) == t.policy = e.policy \/ Pristine(t)

(* Faulty variant: a row that exists is replaced. *)
InsertedOver(t, e) ==
  [t EXCEPT !.project = [n \in Names |-> IF e.project[n] = NoRow THEN t.project[n] ELSE e.project[n]],
            !.job = [j \in Jobs |-> IF e.job[j] = "none" THEN t.job[j] ELSE e.job[j]],
            !.policy = e.policy]

(* Rows that exist are left alone; the policy is replaced. *)
Inserted(t, e) ==
  [t EXCEPT !.project = [n \in Names |-> IF t.project[n] = NoRow THEN e.project[n] ELSE t.project[n]],
            !.job = [j \in Jobs |-> IF t.job[j] = "none" THEN e.job[j] ELSE t.job[j]],
            !.policy = e.policy]

(* Faulty variant: the rows are counted. *)
MatchesInNumber(t, e) ==
  /\ \A n \in Names : t.project[n] = NoRow <=> e.project[n] = NoRow
  /\ \A j \in Jobs : t.job[j] = "none" <=> e.job[j] = "none"
  /\ t.policy = e.policy

(* Every table of the target has the rows of the export and no other. *)
Matches(t, e) == t = e

(* A row of the export, or the policy, was changed by a transaction that    *)
(* committed after the snapshot: PostgreSQL refuses to go on.               *)
ChangedSince(c) ==
  LET e == command[c].export
      seen == command[c].seen
  IN  \/ target.policy # seen.policy
      \/ \E n \in Names : e.project[n] # NoRow /\ target.project[n] # seen.project[n]
      \/ \E j \in Jobs : e.job[j] # "none" /\ target.job[j] # seen.job[j]

Importable(c) ==
  LET e == command[c].export
      seen == command[c].seen
  IN  /\ command[c].doing = "importing"
      /\ PolicyPrepared(seen, e)
      /\ Matches(Inserted(seen, e), e)
      /\ ~ChangedSince(c)

ImportCommits(c) ==
  /\ Importable(c)
  /\ target' = Inserted(target, command[c].export)
  /\ imported' = imported \cup {command[c].export}
  /\ Ends(c)
  /\ Unpublished /\ UNCHANGED <<files, verified>>

ImportRefused(c) ==
  /\ command[c].doing = "importing"
  /\ ~Importable(c)
  /\ Ends(c)
  /\ Unpublished /\ TargetUntouched

-----------------------------------------------------------------------------
(* copy-objects and verify-transfer. *)

CopyBegins(c, e) ==
  /\ command[c] = Idle
  /\ Opened(e)
  /\ Does(c, [doing |-> "copying", export |-> e])
  /\ Unpublished /\ TargetUntouched

(* A file is written under another name, checked and renamed.  One that     *)
(* is there already is left alone, or ends the command if it differs.       *)
CopyOneObject(c, j) ==
  /\ command[c].doing = "copying"
  /\ j \in Pictures(command[c].export) /\ files[j] = "none"
  /\ IF source.file[j] = "whole"
     THEN files' = [files EXCEPT ![j] = "whole"] /\ UNCHANGED command
     ELSE Ends(c) /\ UNCHANGED files
  /\ Unpublished /\ UNCHANGED <<target, imported, verified>>

CopyEnds(c) ==
  /\ command[c].doing = "copying"
  /\ \A j \in Pictures(command[c].export) : files[j] # "none"
  /\ Ends(c)
  /\ Unpublished /\ TargetUntouched

(* The database is compared in one snapshot, *)
VerifyDatabase(c, e) ==
  /\ command[c] = Idle
  /\ Opened(e) /\ Matches(target, e) /\ e \in imported
  /\ Does(c, [doing |-> "verifying", export |-> e])
  /\ Unpublished /\ TargetUntouched

(* Faulty variant: that the database was compared is enough. *)
VerifyNoObjects(c) ==
  /\ command[c].doing = "verifying"
  /\ verified' = verified \cup {command[c].export}
  /\ Ends(c)
  /\ Unpublished /\ UNCHANGED <<target, files, imported>>

(* and then the object store. *)
VerifyObjects(c) ==
  /\ command[c].doing = "verifying"
  /\ verified' = IF FilesFit(files, command[c].export)
                 THEN verified \cup {command[c].export} ELSE verified
  /\ Ends(c)
  /\ Unpublished /\ UNCHANGED <<target, files, imported>>

(* A command ends in the middle: a temporary directory or file, or a        *)
(* transaction that is rolled back, is all it leaves.  A commit whose       *)
(* answer is lost is an ImportCommits.                                      *)
Killed(c) ==
  /\ command[c] # Idle
  /\ Ends(c)
  /\ Unpublished /\ TargetUntouched

-----------------------------------------------------------------------------
(* The new installation at work: its users and administrators. *)

UsersWork ==
  /\ edits < MaxEdits
  /\ edits' = edits + 1
  /\ \/ target' = [target EXCEPT !.project[Own] = Edited]
     \/ \E p \in Projects : /\ target.project[p] # NoRow
                            /\ target' = [target EXCEPT !.project[p] = Edited]
     \/ target' = [target EXCEPT !.policy = "edited"]
  /\ UNCHANGED <<source, decisions, exports, files, imported, verified, command, changes>>

Step(c) ==
  \/ ExportBegins(c) \/ ReadObjects(c) \/ \E x \in Outputs : Publish(c, x)
  \/ \E x \in Outputs : \/ ImportBegins(c, exports[x])
                        \/ CopyBegins(c, exports[x])
                        \/ VerifyDatabase(c, exports[x])
  \/ LockImport(c) \/ ImportCommits(c) \/ ImportRefused(c)
  \/ \E j \in Jobs : CopyOneObject(c, j)
  \/ CopyEnds(c) \/ VerifyObjects(c) \/ Killed(c)

Next ==
  \/ SourceChanges \/ AuditSource \/ UsersWork
  \/ \E j \in Jobs : SourceRuns(j)
  \/ \E c \in Commands : Step(c)

Spec == Init /\ [][Next]_vars

-----------------------------------------------------------------------------
(* Whatever is imported, at any time and however often, rows that users of  *)
(* the new installation made or changed, and the policy its administrator   *)
(* edited, are never replaced.                                              *)
UsersKeepTheirWork ==
  [][/\ \A n \in Names : target.project[n] = Edited => target'.project[n] = Edited
     /\ target.policy = "edited" => target'.policy = "edited"]_vars

(* An import is all or nothing: one that records its export leaves every    *)
(* exported row in the database as it was exported, also if users, other    *)
(* imports or an earlier run of itself were at work; any other changes      *)
(* nothing (verifyTargetDatabase, the snapshot and the lock).               *)
ImportIsAllOrNothing ==
  [][\A c \in Commands :
       command[c].doing = "importing" /\ command'[c] = Idle =>
         LET e == command[c].export
         IN  \/ target' = target /\ imported' = imported
             \/ /\ e \in imported'
                /\ target'.policy = e.policy
                /\ \A n \in Names : e.project[n] # NoRow => target'.project[n] = e.project[n]
                /\ \A j \in Jobs : e.job[j] # "none" => target'.job[j] = e.job[j]]_vars

(* A file stands under its final name only whole and with the exported      *)
(* content: copy-objects may be killed anywhere, meet a source that changes *)
(* and be repeated, without a picture that blocks the next run for ever.    *)
FilesAppearWhole == \A j \in Jobs : files[j] \in {"none", "whole"}

(* What verify-transfer calls complete has a picture for every row of it,   *)
(* although database and files are copied by different commands in any      *)
(* order, and although the old installation goes on.                        *)
VerifiedIsComplete ==
  \A e \in verified : e \in imported /\ \A j \in Pictures(e) : files[j] = "whole"

(* A job that the old installation may still run, and charge for, enters an *)
(* export only if a person decided about that job, and it never enters this *)
(* one as a job a worker could claim.                                       *)
OpenJobsAreDecided ==
  [][\A x \in Outputs : exports[x] = NoExport /\ exports'[x] # NoExport =>
       {j \in Jobs : exports'[x].job[j] = "indeterminate"} = decisions]_vars
=============================================================================
