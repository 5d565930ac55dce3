----------------------------- MODULE TransferProofs -----------------------------
(* The safety of Transfer for any number of rows, exports and commands.     *)
(*                                                                          *)
(* What an import may do follows from its own step: the snapshot was equal  *)
(* to the export once the rows were inserted, and no row of the export has  *)
(* changed since.  What verify-transfer says stays true because a file,     *)
(* once whole, is never touched again.                                      *)
EXTENDS Transfer, TLAPS

-----------------------------------------------------------------------------
(* Types. *)

Exporting == [doing: {"exporting", "publishing"}, seen: SourceRows]
Importing == [doing: {"locking", "importing"}, export: Rows, seen: Rows]
Copying == [doing: {"copying", "verifying"}, export: Rows]

LEMMA CommandKinds ==
  ASSUME NEW r \in Command
  PROVE  /\ r = Idle <=> r.doing = "nothing"
         /\ r.doing \in {"exporting", "publishing"} => r \in Exporting
         /\ r.doing \in {"locking", "importing"} => r \in Importing
         /\ r.doing \in {"copying", "verifying"} => r \in Copying
<1>1. CASE r \in [doing: {"nothing"}]
  BY <1>1 DEF Idle
<1>2. CASE r \in Exporting
  BY <1>2 DEF Idle, Exporting
<1>3. CASE r \in Importing
  BY <1>3 DEF Idle, Importing
<1>4. CASE r \in Copying
  BY <1>4 DEF Idle, Copying
<1>. QED
  BY <1>1, <1>2, <1>3, <1>4 DEF Command, Exporting, Importing, Copying

LEMMA CommandForms ==
  /\ Idle \in Command
  /\ \A r \in Exporting : r \in Command /\ r # Idle
  /\ \A r \in Importing : r \in Command /\ r # Idle
  /\ \A r \in Copying : r \in Command /\ r # Idle
BY DEF Idle, Command, Exporting, Importing, Copying

(* A step of a command gives it a new state and leaves the others alone. *)
LEMMA DoesCommand ==
  ASSUME command \in [Commands -> Command], NEW c \in Commands, NEW r \in Command, Does(c, r)
  PROVE  /\ command' \in [Commands -> Command]
         /\ command'[c] = r
         /\ \A d \in Commands \ {c} : command'[d] = command[d]
BY DEF Does

LEMMA EndsCommand ==
  ASSUME command \in [Commands -> Command], NEW c \in Commands, Ends(c)
  PROVE  /\ command' \in [Commands -> Command]
         /\ command'[c] = Idle
         /\ \A d \in Commands \ {c} : command'[d] = command[d]
BY DoesCommand, CommandForms DEF Ends

LEMMA ExportedType ==
  ASSUME NEW rows \in SourceRows
  PROVE  Exported(rows) \in Rows
BY DEF Exported, SourceRows, Rows, Tables, Open

LEMMA InsertedType ==
  ASSUME NEW t \in Rows, NEW e \in Rows
  PROVE  /\ Inserted(t, e) \in Rows
         /\ Inserted(t, e).policy = e.policy
         /\ \A n \in Names : Inserted(t, e).project[n]
                               = IF t.project[n] = NoRow THEN e.project[n] ELSE t.project[n]
         /\ \A j \in Jobs : Inserted(t, e).job[j]
                               = IF t.job[j] = "none" THEN e.job[j] ELSE t.job[j]
BY DEF Inserted, Rows, Tables

LEMMA Contents == 0 \in 0..Edited /\ 1 \in 0..Edited /\ Edited \in 0..Edited /\ NoRow = 0 /\ Edited # NoRow
BY BoundsAssumption DEF Edited, NoRow

LEMMA InitType == Init => TypeOK
<1> SUFFICES ASSUME Init PROVE TypeOK
  OBVIOUS
<1>1. source \in [rows: SourceRows, file: [Jobs -> File]]
  BY Contents DEF Init, SourceRows, Tables, Open, File
<1>2. target \in Rows
  BY Contents DEF Init, Rows, Tables
<1>. QED
  BY <1>1, <1>2, CommandForms, BoundsAssumption DEF Init, TypeOK, File

(* Commands that touch neither the old installation, the exports nor the    *)
(* counters, and leave the new installation alone.                          *)
LEMMA QuietType ==
  ASSUME TypeOK, NEW c \in Commands, NEW r \in Command, Does(c, r), Unpublished, TargetUntouched
  PROVE  TypeOK'
BY DoesCommand DEF TypeOK, Unpublished, TargetUntouched

LEMMA FilesType ==
  ASSUME TypeOK, NEW j \in Jobs, NEW f \in File
  PROVE  [files EXCEPT ![j] = f] \in [Jobs -> File]
BY DEF TypeOK

LEMMA SourceChangesType == TypeOK /\ SourceChanges => TypeOK'
<1> SUFFICES ASSUME TypeOK, SourceChanges PROVE TypeOK'
  OBVIOUS
<1>1. source' \in [rows: SourceRows, file: [Jobs -> File]]
  <2>1. ASSUME NEW p \in Projects, source' = [source EXCEPT !.rows.project[p] = changes + 2]
        PROVE  source' \in [rows: SourceRows, file: [Jobs -> File]]
    <3>1. changes + 2 \in 0..Edited
      BY BoundsAssumption DEF SourceChanges, TypeOK, Edited
    <3>. QED
      BY <2>1, <3>1 DEF TypeOK, SourceRows, Tables
  <2>2. ASSUME NEW j \in Jobs, NEW f \in {"none", "other"}, source' = [source EXCEPT !.file[j] = f]
        PROVE  source' \in [rows: SourceRows, file: [Jobs -> File]]
    BY <2>2 DEF TypeOK, File
  <2>. QED
    BY <2>1, <2>2 DEF SourceChanges
<1>2. changes' \in 0..MaxChanges
  BY BoundsAssumption DEF SourceChanges, TypeOK
<1>. QED
  BY <1>1, <1>2 DEF SourceChanges, TypeOK

LEMMA SourceRunsType == ASSUME TypeOK, NEW j \in Jobs, SourceRuns(j) PROVE TypeOK'
<1>1. source' \in [rows: SourceRows, file: [Jobs -> File]]
  <2>1. CASE source' = [source EXCEPT !.rows.job[j] = "running"]
    BY <2>1 DEF TypeOK, SourceRows, Tables, Open
  <2>2. CASE source' = [source EXCEPT !.file[j] = "whole"]
    BY <2>2 DEF TypeOK, File
  <2>3. CASE source' = [source EXCEPT !.rows.job[j] = "completed"]
    BY <2>3 DEF TypeOK, SourceRows, Tables, Open
  <2>. QED
    BY <2>1, <2>2, <2>3 DEF SourceRuns
<1>. QED
  BY <1>1 DEF SourceRuns, TypeOK

LEMMA UsersWorkType == TypeOK /\ UsersWork => TypeOK'
<1> SUFFICES ASSUME TypeOK, UsersWork PROVE TypeOK'
  OBVIOUS
<1>1. target' \in Rows
  BY Contents DEF UsersWork, TypeOK, Rows, Tables, Names
<1>2. edits' \in 0..MaxEdits
  BY BoundsAssumption DEF UsersWork, TypeOK
<1>. QED
  BY <1>1, <1>2 DEF UsersWork, TypeOK

LEMMA StepType == ASSUME TypeOK, NEW c \in Commands, Step(c) PROVE TypeOK'
<1>0. command[c] \in Command /\ Idle \in Command
  BY CommandForms DEF TypeOK
<1>1. CASE ExportBegins(c)
  <2>1. [doing |-> "exporting", seen |-> source.rows] \in Command
    BY CommandForms DEF Exporting, TypeOK
  <2>. QED
    BY <1>1, <2>1, QuietType DEF ExportBegins
<1>2. CASE ReadObjects(c)
  <2>1. [command[c] EXCEPT !.doing = "publishing"] \in Command
    BY <1>0, <1>2, CommandKinds, CommandForms DEF ReadObjects, Exporting
  <2>. QED
    BY <1>0, <1>2, <2>1, QuietType DEF ReadObjects, Ends
<1>3. ASSUME NEW x \in Outputs, Publish(c, x) PROVE TypeOK'
  <2>1. Exported(command[c].seen) \in Rows
    BY <1>0, <1>3, CommandKinds, ExportedType DEF Publish, Exporting
  <2>2. exports' \in [Outputs -> Rows \cup {NoExport}]
    BY <1>3, <2>1 DEF Publish, TypeOK
  <2>. QED
    BY <1>3, <2>2, EndsCommand DEF Publish, TargetUntouched, TypeOK
<1>4. ASSUME NEW x \in Outputs, ImportBegins(c, exports[x]) PROVE TypeOK'
  <2>1. exports[x] \in Rows
    BY <1>4 DEF ImportBegins, Opened, TypeOK
  <2>2. [doing |-> "locking", export |-> exports[x], seen |-> target] \in Command
    BY <2>1, CommandForms DEF Importing, TypeOK
  <2>. QED
    BY <1>4, <2>2, QuietType DEF ImportBegins
<1>5. ASSUME NEW x \in Outputs, CopyBegins(c, exports[x]) PROVE TypeOK'
  <2>1. exports[x] \in Rows
    BY <1>5 DEF CopyBegins, Opened, TypeOK
  <2>2. [doing |-> "copying", export |-> exports[x]] \in Command
    BY <2>1, CommandForms DEF Copying
  <2>. QED
    BY <1>5, <2>2, QuietType DEF CopyBegins
<1>6. ASSUME NEW x \in Outputs, VerifyDatabase(c, exports[x]) PROVE TypeOK'
  <2>1. exports[x] \in Rows
    BY <1>6 DEF VerifyDatabase, Opened, TypeOK
  <2>2. [doing |-> "verifying", export |-> exports[x]] \in Command
    BY <2>1, CommandForms DEF Copying
  <2>. QED
    BY <1>6, <2>2, QuietType DEF VerifyDatabase
<1>7. CASE LockImport(c)
  <2>1. [command[c] EXCEPT !.doing = "importing"] \in Command
    BY <1>0, <1>7, CommandKinds, CommandForms DEF LockImport, Importing
  <2>. QED
    BY <1>7, <2>1, QuietType DEF LockImport
<1>8. CASE ImportCommits(c)
  <2>1. command[c].export \in Rows
    BY <1>0, <1>8, CommandKinds DEF ImportCommits, Importable, Importing
  <2>2. target' \in Rows
    BY <1>8, <2>1, InsertedType DEF ImportCommits, TypeOK
  <2>. QED
    BY <1>8, <2>1, <2>2, EndsCommand DEF ImportCommits, Unpublished, TypeOK
<1>9. CASE ImportRefused(c)
  BY <1>0, <1>9, QuietType DEF ImportRefused, Ends
<1>10. ASSUME NEW j \in Jobs, CopyOneObject(c, j) PROVE TypeOK'
  <2>1. files' \in [Jobs -> File] /\ command' \in [Commands -> Command]
    BY <1>10, EndsCommand, FilesType DEF CopyOneObject, TypeOK, File
  <2>. QED
    BY <1>10, <2>1 DEF CopyOneObject, Unpublished, TypeOK
<1>11. CASE CopyEnds(c)
  BY <1>0, <1>11, QuietType DEF CopyEnds, Ends
<1>12. CASE VerifyObjects(c)
  <2>1. command[c].export \in Rows
    BY <1>0, <1>12, CommandKinds DEF VerifyObjects, Copying
  <2>. QED
    BY <1>12, <2>1, EndsCommand DEF VerifyObjects, Unpublished, TypeOK
<1>13. CASE Killed(c)
  BY <1>0, <1>13, QuietType DEF Killed, Ends
<1>. QED
  BY <1>1, <1>2, <1>3, <1>4, <1>5, <1>6, <1>7, <1>8, <1>9, <1>10, <1>11, <1>12, <1>13 DEF Step

LEMMA NextType == TypeOK /\ [Next]_vars => TypeOK'
<1> SUFFICES ASSUME TypeOK, [Next]_vars PROVE TypeOK'
  OBVIOUS
<1>1. CASE AuditSource
  BY <1>1 DEF AuditSource, TypeOK, Unresolved
<1>2. CASE UNCHANGED vars
  BY <1>2 DEF vars, TypeOK
<1>. QED
  BY <1>1, <1>2, SourceChangesType, SourceRunsType, UsersWorkType, StepType DEF Next

(* The state of a transfer is always of its type: what an import leaves is  *)
(* rows of the kinds the new installation knows (target.go).                *)
THEOREM TransferTypes == Spec => []TypeOK
BY InitType, NextType, PTL DEF Spec

-----------------------------------------------------------------------------
(* What changes the new installation. *)

(* Its rows and its record of imports change only when an import commits or *)
(* a user works.                                                            *)
LEMMA RowsChange ==
  ASSUME [Next]_vars, ~UsersWork, ~\E c \in Commands : ImportCommits(c)
  PROVE  target' = target /\ imported' = imported
BY DEF Next, vars, SourceChanges, AuditSource, SourceRuns, Step, ExportBegins, ReadObjects, Publish,
       ImportBegins, CopyBegins, VerifyDatabase, LockImport, ImportRefused, CopyOneObject, CopyEnds,
       VerifyObjects, Killed, TargetUntouched

(* A step that ends an import is that command's own. *)
LEMMA ImportEnds ==
  ASSUME TypeOK, [Next]_vars, NEW c \in Commands,
         command[c].doing = "importing", command'[c] = Idle
  PROVE  ImportCommits(c) \/ (target' = target /\ imported' = imported)
<1>1. command' # command
  BY DEF Idle
<1>2. PICK d \in Commands : Step(d)
  BY <1>1 DEF Next, vars, SourceChanges, AuditSource, SourceRuns, UsersWork
<1>3. d = c
  <2>1. SUFFICES ASSUME d # c PROVE command'[c] = command[c]
    BY DEF Idle
  <2>2. ASSUME NEW r, Does(d, r) PROVE command'[c] = command[c]
    BY <2>1, <2>2 DEF Does, TypeOK
  <2>3. command' = command \/ \E r : Does(d, r)
    BY <1>2 DEF Step, ExportBegins, ReadObjects, Publish, ImportBegins, CopyBegins, VerifyDatabase,
                LockImport, ImportCommits, ImportRefused, CopyOneObject, CopyEnds, VerifyObjects,
                Killed, Ends
  <2>. QED
    BY <2>2, <2>3
<1>. QED
  BY <1>2, <1>3 DEF Step, ExportBegins, ReadObjects, Publish, ImportBegins, CopyBegins,
       VerifyDatabase, LockImport, ImportRefused, CopyOneObject, CopyEnds, VerifyObjects, Killed,
       TargetUntouched

(* What a commit finds: rows of the export that are the ones of the         *)
(* snapshot, and a snapshot the insertion completes to the export.          *)
LEMMA CommitFinds ==
  ASSUME TypeOK, NEW c \in Commands, ImportCommits(c)
  PROVE  LET e == command[c].export
             seen == command[c].seen
         IN  /\ e \in Rows /\ seen \in Rows /\ target \in Rows
             /\ target' = Inserted(target, e) /\ e \in imported'
             /\ Inserted(seen, e) = e /\ PolicyPrepared(seen, e) /\ target.policy = seen.policy
             /\ \A n \in Names : e.project[n] # NoRow => target.project[n] = seen.project[n]
             /\ \A j \in Jobs : e.job[j] # "none" => target.job[j] = seen.job[j]
<1>1. command[c] \in Importing
  BY CommandKinds DEF ImportCommits, Importable, TypeOK
<1>. QED
  BY <1>1 DEF ImportCommits, Importable, Matches, ChangedSince, Importing, TypeOK

(* Work of users and administrators survives every import, whatever else is *)
(* going on: insertTargetRows adds what is missing, and the policy is       *)
(* replaced only if nobody has changed it (prepareTargetPolicy).            *)
THEOREM WorkIsKept == Spec => UsersKeepTheirWork
<1>1. TypeOK /\ [Next]_vars =>
        [/\ \A n \in Names : target.project[n] = Edited => target'.project[n] = Edited
         /\ target.policy = "edited" => target'.policy = "edited"]_vars
  <2> SUFFICES ASSUME TypeOK, [Next]_vars
               PROVE  /\ \A n \in Names : target.project[n] = Edited => target'.project[n] = Edited
                      /\ target.policy = "edited" => target'.policy = "edited"
    OBVIOUS
  <2>1. CASE UsersWork
    BY <2>1 DEF UsersWork, TypeOK, Rows, Tables, Names
  <2>2. ASSUME NEW c \in Commands, ImportCommits(c)
        PROVE  /\ \A n \in Names : target.project[n] = Edited => target'.project[n] = Edited
               /\ target.policy = "edited" => target'.policy = "edited"
    <3> DEFINE e == command[c].export
               seen == command[c].seen
    <3>1. /\ e \in Rows /\ seen \in Rows /\ target \in Rows
          /\ target' = Inserted(target, e)
          /\ PolicyPrepared(seen, e) /\ target.policy = seen.policy
      BY <2>2, CommitFinds
    <3>. HIDE DEF e, seen
    <3>2. \A n \in Names : target.project[n] = Edited => target'.project[n] = Edited
      BY <3>1, InsertedType, Contents
    <3>3. target.policy = "edited" => target'.policy = "edited"
      BY <3>1, InsertedType DEF PolicyPrepared, Pristine
    <3>. QED
      BY <3>2, <3>3
  <2>. QED
    BY <2>1, <2>2, RowsChange
<1>. QED
  BY <1>1, TransferTypes, PTL DEF Spec, UsersKeepTheirWork

(* An import leaves every exported row as it was exported, or nothing at    *)
(* all, although its snapshot may be older than its lock.                   *)
THEOREM ImportsAreWhole == Spec => ImportIsAllOrNothing
<1> DEFINE Whole(c) ==
      command[c].doing = "importing" /\ command'[c] = Idle =>
        LET e == command[c].export
        IN  \/ target' = target /\ imported' = imported
            \/ /\ e \in imported'
               /\ target'.policy = e.policy
               /\ \A n \in Names : e.project[n] # NoRow => target'.project[n] = e.project[n]
               /\ \A j \in Jobs : e.job[j] # "none" => target'.job[j] = e.job[j]
<1>1. ASSUME TypeOK, [Next]_vars, NEW c \in Commands PROVE Whole(c)
  <2>1. SUFFICES ASSUME ImportCommits(c) PROVE Whole(c)
    BY <1>1, ImportEnds
  <2> DEFINE e == command[c].export
             seen == command[c].seen
  <2>2. /\ e \in Rows /\ seen \in Rows /\ target \in Rows
        /\ target' = Inserted(target, e) /\ e \in imported'
        /\ Inserted(seen, e) = e
        /\ \A n \in Names : e.project[n] # NoRow => target.project[n] = seen.project[n]
        /\ \A j \in Jobs : e.job[j] # "none" => target.job[j] = seen.job[j]
    BY <1>1, <2>1, CommitFinds
  <2>3. /\ target'.policy = e.policy
        /\ \A n \in Names : e.project[n] # NoRow => target'.project[n] = e.project[n]
        /\ \A j \in Jobs : e.job[j] # "none" => target'.job[j] = e.job[j]
    <3>. HIDE DEF e, seen
    <3>. QED
      BY <2>2, InsertedType
  <2>. QED
    BY <2>2, <2>3
<1>2. TypeOK /\ [Next]_vars => [\A c \in Commands : Whole(c)]_vars
  BY <1>1
<1>. QED
  BY <1>2, TransferTypes, PTL DEF Spec, ImportIsAllOrNothing

-----------------------------------------------------------------------------
(* The object store. *)

(* A file appears only as copy-objects writes it, and stays. *)
LEMMA FilesChange ==
  ASSUME TypeOK, [Next]_vars
  PROVE  \A j \in Jobs : files'[j] = files[j] \/ (files[j] = "none" /\ files'[j] = "whole")
<1>1. ASSUME NEW c \in Commands, NEW i \in Jobs, CopyOneObject(c, i)
      PROVE  \A j \in Jobs : files'[j] = files[j] \/ (files[j] = "none" /\ files'[j] = "whole")
  BY <1>1 DEF CopyOneObject, TypeOK
<1>2. (~\E c \in Commands, i \in Jobs : CopyOneObject(c, i)) => files' = files
  BY DEF Next, vars, SourceChanges, AuditSource, SourceRuns, UsersWork, Step, ExportBegins,
         ReadObjects, Publish, ImportBegins, CopyBegins, VerifyDatabase, LockImport, ImportCommits,
         ImportRefused, CopyEnds, VerifyObjects, Killed, TargetUntouched
<1>. QED
  BY <1>1, <1>2

(* copyOneObject publishes under the final name only what it has checked:   *)
(* no partial and no foreign file blocks a later run.                       *)
THEOREM CopiesAreWhole == Spec => []FilesAppearWhole
<1>1. Init => FilesAppearWhole
  BY DEF Init, FilesAppearWhole
<1>2. TypeOK /\ FilesAppearWhole /\ [Next]_vars => FilesAppearWhole'
  BY FilesChange DEF FilesAppearWhole
<1>. QED
  BY <1>1, <1>2, TransferTypes, PTL DEF Spec

(* A command that compares files has compared the database in a snapshot    *)
(* that held the record of the import.                                      *)
Comparing == \A c \in Commands : command[c].doing = "verifying" => command[c].export \in imported

LEMMA ImportedGrows == ASSUME [Next]_vars PROVE imported \subseteq imported'
<1>1. ASSUME NEW c \in Commands, ImportCommits(c) PROVE imported \subseteq imported'
  BY <1>1 DEF ImportCommits
<1>2. CASE UsersWork
  BY <1>2 DEF UsersWork
<1>. QED
  BY <1>1, <1>2, RowsChange

LEMMA ComparingNext == TypeOK /\ Comparing /\ [Next]_vars => Comparing'
<1> SUFFICES ASSUME TypeOK, Comparing, [Next]_vars, NEW c \in Commands,
                    command'[c].doing = "verifying"
             PROVE  command'[c].export \in imported'
  BY DEF Comparing
<1>1. CASE command'[c] = command[c]
  BY <1>1, ImportedGrows DEF Comparing
<1>2. CASE command'[c] # command[c]
  <2>1. PICK d \in Commands : Step(d)
    BY <1>2 DEF Next, vars, SourceChanges, AuditSource, SourceRuns, UsersWork
  <2>2. ASSUME NEW r, Does(d, r) PROVE d = c /\ command'[c] = r
    BY <1>2, <2>2 DEF Does, TypeOK
  <2>3. PICK x \in Outputs : VerifyDatabase(c, exports[x])
    <3>1. ASSUME NEW r, Does(d, r), r.doing # "verifying" PROVE FALSE
      BY <2>2, <3>1
    <3>2. ASSUME Ends(d) PROVE FALSE
      BY <3>1, <3>2 DEF Ends, Idle
    <3>3. command[d] \in Command
      BY DEF TypeOK
    <3>4. ~ReadObjects(d) /\ ~LockImport(d)
      BY <3>1, <3>2, <3>3, CommandKinds DEF ReadObjects, LockImport, Exporting, Importing
    <3>5. ~ExportBegins(d) /\ \A x \in Outputs : ~ImportBegins(d, exports[x]) /\ ~CopyBegins(d, exports[x])
      BY <3>1 DEF ExportBegins, ImportBegins, CopyBegins
    <3>6. /\ \A x \in Outputs : ~Publish(d, x)
          /\ ~ImportCommits(d) /\ ~ImportRefused(d) /\ ~CopyEnds(d) /\ ~VerifyObjects(d) /\ ~Killed(d)
      BY <3>2 DEF Publish, ImportCommits, ImportRefused, CopyEnds, VerifyObjects, Killed
    <3>7. \A j \in Jobs : ~CopyOneObject(d, j)
      BY <1>2, <3>2 DEF CopyOneObject
    <3>8. PICK x \in Outputs : VerifyDatabase(d, exports[x])
      BY <2>1, <3>4, <3>5, <3>6, <3>7 DEF Step
    <3>. QED
      BY <2>2, <3>8 DEF VerifyDatabase
  <2>4. command'[c] = [doing |-> "verifying", export |-> exports[x]] /\ exports[x] \in imported
    BY <2>3 DEF VerifyDatabase, Does, TypeOK
  <2>. QED
    BY <2>4, ImportedGrows
<1>. QED
  BY <1>1, <1>2

LEMMA VerifiedChanges ==
  ASSUME [Next]_vars, ~\E c \in Commands : VerifyObjects(c) PROVE verified' = verified
BY DEF Next, vars, SourceChanges, AuditSource, SourceRuns, UsersWork, Step, ExportBegins,
       ReadObjects, Publish, ImportBegins, CopyBegins, VerifyDatabase, LockImport, ImportCommits,
       ImportRefused, CopyOneObject, CopyEnds, Killed, TargetUntouched

LEMMA VerifiedNext ==
  TypeOK /\ Comparing /\ FilesAppearWhole /\ VerifiedIsComplete /\ [Next]_vars => VerifiedIsComplete'
<1> SUFFICES ASSUME TypeOK, Comparing, FilesAppearWhole, VerifiedIsComplete, [Next]_vars,
                    NEW e \in verified'
             PROVE  e \in imported' /\ \A j \in Pictures(e) : files'[j] = "whole"
  BY DEF VerifiedIsComplete, Pictures
<1>1. e \in imported /\ \A j \in Pictures(e) : files[j] = "whole"
  <2>1. CASE e \in verified
    BY <2>1 DEF VerifiedIsComplete
  <2>2. CASE e \notin verified
    <3>1. PICK c \in Commands : VerifyObjects(c)
      BY <2>2, VerifiedChanges
    <3>. QED
      BY <2>2, <3>1 DEF VerifyObjects, FilesFit, Comparing
  <2>. QED
    BY <2>1, <2>2
<1>. QED
  BY <1>1, ImportedGrows, FilesChange DEF Pictures

(* What verify-transfer called complete stays complete: it is recorded, and *)
(* every picture of it is in the object store.                              *)
THEOREM VerifiedStaysComplete == Spec => []VerifiedIsComplete
<1>1. Init => Comparing /\ VerifiedIsComplete
  BY DEF Init, Comparing, VerifiedIsComplete, Idle
<1>. QED
  BY <1>1, ComparingNext, VerifiedNext, TransferTypes, CopiesAreWhole, PTL DEF Spec

(* A job that was open in the old installation enters an export only by the *)
(* decision of a person about that job (validateResolutions), and only as   *)
(* a job no worker claims.                                                  *)
THEOREM DecisionsAreExact == Spec => OpenJobsAreDecided
<1> DEFINE Decided(x) ==
      exports[x] = NoExport /\ exports'[x] # NoExport =>
        {j \in Jobs : exports'[x].job[j] = "indeterminate"} = decisions
<1>1. ASSUME TypeOK, [Next]_vars, NEW x \in Outputs PROVE Decided(x)
  <2>1. SUFFICES ASSUME exports[x] = NoExport, exports'[x] # NoExport
                 PROVE  {j \in Jobs : exports'[x].job[j] = "indeterminate"} = decisions
    OBVIOUS
  <2>2. PICK c \in Commands, y \in Outputs : Publish(c, y)
    <3>1. exports' # exports
      BY <2>1
    <3>. QED
      BY <1>1, <3>1 DEF Next, vars, SourceChanges, AuditSource, SourceRuns, UsersWork, Step, ExportBegins,
         ReadObjects, ImportBegins, CopyBegins, VerifyDatabase, LockImport, ImportCommits,
         ImportRefused, CopyOneObject, CopyEnds, VerifyObjects, Killed, Unpublished
  <2>3. x = y /\ exports'[x] = Exported(command[c].seen) /\ Resolved(command[c].seen, decisions)
    BY <1>1, <2>1, <2>2 DEF Publish, TypeOK
  <2>4. command[c].seen \in SourceRows
    BY <1>1, <2>2, CommandKinds DEF Publish, TypeOK, Exporting
  <2>5. \A j \in Jobs : Exported(command[c].seen).job[j] = "indeterminate"
                          <=> command[c].seen.job[j] \in Open
    BY <2>4 DEF Exported, SourceRows, Tables, Open
  <2>. QED
    BY <2>3, <2>5 DEF Resolved, Unresolved
<1>2. TypeOK /\ [Next]_vars => [\A x \in Outputs : Decided(x)]_vars
  BY <1>1
<1>. QED
  BY <1>2, TransferTypes, PTL DEF Spec, OpenJobsAreDecided
=============================================================================
