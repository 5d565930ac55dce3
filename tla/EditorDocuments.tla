-------------------------- MODULE EditorDocuments --------------------------
(* The focused image editor: one document (one node of one project) edited *)
(* in several tabs.  The server keeps versions and revisions of it; a tab  *)
(* keeps a draft, saves it against the version it knows, and commits the   *)
(* pictures that crops and edit jobs make for it.                          *)
EXTENDS Naturals, Sequences, FiniteSets, SequencesExt

CONSTANTS
  Tabs,
  Pictures,    \* assets that crops and jobs make in the editor
  Base,        \* the picture the document was created from
  NoPicture,
  MaxVersion,  \* versions of the document
  MaxFaults    \* calls, commits and processes that fail

ASSUME PicturesAssumption == Base \notin Pictures /\ NoPicture \notin Pictures \cup {Base}
ASSUME BoundsAssumption == {MaxVersion, MaxFaults} \subseteq Nat /\ MaxVersion > 0

VARIABLES
  log,      \* who wrote each version of the document, and what the writer had seen
  current,  \* canvas_editor_documents.current_asset_id
  revs,     \* canvas_editor_revisions
  rows,     \* pictures with a row in canvas_assets
  objects,  \* pictures with a file in the object store
  making,   \* asset.Service.Create for every picture
  tab,      \* the controllers' state
  load,     \* their hydrate or reload under way
  put,      \* their save under way
  faults

vars == <<log, current, revs, rows, objects, making, tab, load, put, faults>>

Version == Len(log)

(* basis: the version the draft's content comes from; told: the latest      *)
(* version the tab was sent without taking it for its draft, when a         *)
(* conflict was reported to it or behind its own save.                      *)
Entry == [by: Tabs, basis: Nat, told: Nat]
Revision == [version: Nat, picture: Pictures \cup {Base}, result: BOOLEAN]
Options == [picture: Pictures \cup {Base, NoPicture}, result: BOOLEAN]
Plain == [picture |-> NoPicture, result |-> FALSE]

(* work: the picture a crop or a job is making for the tab. *)
Controller == [open: {"closed", "hydrating", "ready", "error"},
               save: {"idle", "saving", "saved", "conflict", "error"},
               version: Nat, basis: Nat, told: Nat,
               retained: Options, work: Pictures \cup {NoPicture}]

Closed == [open |-> "closed", save |-> "idle", version |-> 0, basis |-> 0, told |-> 0,
           retained |-> Plain, work |-> NoPicture]

Load == [pc: {"none", "create", "get", "back"}, version: Nat]
NoLoad == [pc |-> "none", version |-> 0]

(* told, of a save that is stored: another tab's version its answer names.  *)
Put == [pc: {"none", "sent", "read", "committed", "stored", "conflict", "latest"},
        version: Nat, basis: Nat, told: Nat,
        options: Options, read: Pictures \cup {Base, NoPicture},
        fresh: BOOLEAN]     \* the draft is still the one that was sent
NoPut == [pc |-> "none", version |-> 0, basis |-> 0, told |-> 0, options |-> Plain,
          read |-> NoPicture, fresh |-> FALSE]

TypeOK ==
  /\ log \in Seq(Entry)
  /\ current \in Pictures \cup {Base}
  /\ revs \in Seq(Revision)
  /\ rows \subseteq Pictures /\ objects \subseteq Pictures
  /\ making \in [Pictures -> {"no", "asked", "stored", "dropping", "kept", "failed"}]
  /\ tab \in [Tabs -> Controller] /\ load \in [Tabs -> Load] /\ put \in [Tabs -> Put]
  /\ faults \in 0..MaxFaults

Init ==
  /\ log = <<>> /\ current = Base /\ revs = <<>>
  /\ rows = {} /\ objects = {}
  /\ making = [p \in Pictures |-> "no"]
  /\ tab = [e \in Tabs |-> Closed] /\ load = [e \in Tabs |-> NoLoad]
  /\ put = [e \in Tabs |-> NoPut]
  /\ faults = 0

Fault == faults < MaxFaults /\ faults' = faults + 1

-----------------------------------------------------------------------------
(* asset.Service.Create: the object first, then the row; the object is      *)
(* removed again whenever the call does not see its commit succeed.         *)

Document == <<log, current, revs>>

Make(p, pc) == making' = [making EXCEPT ![p] = pc] /\ UNCHANGED <<Document, tab, load, put>>

(* Faulty variant: a file that appears only after its row. *)
PutObjectLater(p) ==
  /\ making[p] = "asked" /\ Make(p, "stored")
  /\ UNCHANGED <<rows, objects, faults>>

PutObject(p) ==
  /\ making[p] = "asked" /\ Make(p, "stored")
  /\ objects' = objects \cup {p}
  /\ UNCHANGED <<rows, faults>>

CommitRow(p) ==
  /\ making[p] = "stored" /\ Make(p, "kept")
  /\ rows' = rows \cup {p}
  /\ UNCHANGED <<objects, faults>>

(* The transaction fails, or its commit's answer does. *)
CommitFails(p) ==
  /\ making[p] = "stored" /\ Make(p, "dropping")
  /\ Fault
  /\ rows' \in {rows, rows \cup {p}}
  /\ UNCHANGED objects

DropObject(p) ==
  /\ making[p] = "dropping" /\ Make(p, "failed")
  /\ objects' = objects \ {p}
  /\ UNCHANGED <<rows, faults>>

(* The process dies on the way, the upload is refused, or the job fails. *)
MakingFails(p) ==
  /\ making[p] \in {"asked", "stored", "dropping"} /\ Make(p, "failed")
  /\ Fault
  /\ UNCHANGED <<rows, objects>>

-----------------------------------------------------------------------------
(* Loading. *)

Store == <<rows, objects, making>>

Busy(e) == tab[e].work # NoPicture \/ tab[e].save = "saving"

(* The page is opened, or the node's picture has changed under an open one. *)
Hydrate(e) ==
  /\ load[e].pc = "none"
  /\ \/ tab[e].open = "closed" /\ tab[e].work = NoPicture /\ put[e].pc = "none" /\ UNCHANGED faults
     \/ tab[e].open = "ready" /\ Fault
  /\ tab' = [tab EXCEPT ![e].open = "hydrating", ![e].save = "idle"]
  /\ load' = [load EXCEPT ![e].pc = "create"]
  /\ UNCHANGED <<Document, Store, put>>

(* Offered when a save met a conflict. *)
Reload(e) ==
  /\ tab[e].open = "ready" /\ tab[e].save = "conflict" /\ ~Busy(e) /\ load[e].pc = "none"
  /\ tab' = [tab EXCEPT ![e].open = "hydrating"]
  /\ load' = [load EXCEPT ![e].pc = "get"]
  /\ UNCHANGED <<Document, Store, put, faults>>

(* editor.Service.Create makes the document or finds the one that is there. *)
Loaded(e) ==
  /\ load[e].pc \in {"create", "get"}
  /\ log' = IF log = <<>> THEN <<[by |-> e, basis |-> 0, told |-> 0]>> ELSE log
  /\ load' = [load EXCEPT ![e] = [pc |-> "back", version |-> Len(log')]]
  /\ UNCHANGED <<current, revs, Store, tab, put, faults>>

LoadedBack(e) ==
  /\ load[e].pc = "back"
  /\ load' = [load EXCEPT ![e] = NoLoad]
  /\ tab' = [tab EXCEPT ![e] = [@ EXCEPT !.open = "ready", !.save = "idle", !.told = 0,
                                  !.version = load[e].version, !.basis = load[e].version,
                                  !.retained = Plain]]
  /\ put' = [put EXCEPT ![e].fresh = FALSE]
  /\ UNCHANGED <<Document, Store, faults>>

LoadFails(e) ==
  /\ load[e].pc # "none"
  /\ Fault
  /\ load' = [load EXCEPT ![e] = NoLoad]
  /\ tab' = [tab EXCEPT ![e].open = "error"]
  /\ UNCHANGED <<Document, Store, put>>

(* destroy: a job is left alone, but a crop whose picture is being uploaded, *)
(* and a save, go on without the tab.                                       *)
Close(e) ==
  /\ tab[e].open \in {"ready", "error"}
  /\ Fault
  /\ \E w \in {tab[e].work, NoPicture} : tab' = [tab EXCEPT ![e].open = "closed", ![e].work = w]
  /\ load' = [load EXCEPT ![e] = NoLoad]
  /\ UNCHANGED <<Document, Store, put>>

-----------------------------------------------------------------------------
(* Saving. *)

(* Faulty variant: against the newest version there is. *)
SentAgainstNewest(e, options) ==
  [pc |-> "sent", version |-> Version, basis |-> tab[e].basis, told |-> tab[e].told,
   options |-> options, read |-> NoPicture, fresh |-> TRUE]

(* save: against the version the tab knows. *)
Sent(e, options) ==
  [pc |-> "sent", version |-> tab[e].version, basis |-> tab[e].basis, told |-> tab[e].told,
   options |-> options, read |-> NoPicture, fresh |-> TRUE]

BeginSave(e, options) ==
  /\ put[e].pc = "none"
  /\ tab' = [tab EXCEPT ![e].save = "saving"]
  /\ put' = [put EXCEPT ![e] = Sent(e, options)]

(* The bound leaves room for the saves under way. *)
Reserved == Cardinality({e \in Tabs : put[e].pc # "none" \/ tab[e].work # NoPicture})
UserMay(e) == tab[e].open = "ready" /\ ~Busy(e) /\ Version + Reserved < MaxVersion

(* The background or the zoom is changed and saved. *)
Edit(e) ==
  /\ UserMay(e)
  /\ BeginSave(e, Plain)
  /\ UNCHANGED <<Document, Store, load, faults>>

SelectRevision(e) ==
  /\ UserMay(e)
  /\ \E p \in {Base} \cup {r.picture : r \in {s \in ToSet(revs) : s.version <= tab[e].version}} :
       BeginSave(e, [picture |-> p, result |-> FALSE])
  /\ UNCHANGED <<Document, Store, load, faults>>

(* Faulty variant: offered after any failure. *)
RetrySaveAlways(e) ==
  /\ UserMay(e) /\ tab[e].save \in {"conflict", "error"}
  /\ BeginSave(e, tab[e].retained)
  /\ UNCHANGED <<Document, Store, load, faults>>

RetrySave(e) ==
  /\ UserMay(e) /\ tab[e].save = "conflict"
  /\ BeginSave(e, tab[e].retained)
  /\ UNCHANGED <<Document, Store, load, faults>>

(* A crop uploads its picture; a job, of a mask or an outpainting, makes one. *)
Start(e, p) ==
  /\ UserMay(e) /\ put[e].pc = "none"
  /\ making[p] = "no"
  /\ making' = [making EXCEPT ![p] = "asked"]
  /\ tab' = [tab EXCEPT ![e].work = p]
  /\ UNCHANGED <<Document, rows, objects, load, put, faults>>

(* finishJob and commitDerivedAsset: the picture is there, it is committed. *)
CommitResult(e) ==
  LET p == tab[e].work
  IN  /\ p # NoPicture /\ put[e].pc = "none"
      /\ making[p] = "kept"
      /\ BeginSave(e, [picture |-> p, result |-> TRUE])
      /\ UNCHANGED <<Document, Store, load, faults>>

(* Faulty variant: the end of a job without a picture is not noticed. *)
WorkFailsUnnoticed(e) ==
  /\ tab[e].work # NoPicture /\ put[e].pc = "none"
  /\ making[tab[e].work] # "failed" /\ Fault
  /\ tab' = [tab EXCEPT ![e].work = NoPicture]
  /\ UNCHANGED <<Document, Store, load, put>>

(* The picture was not made, its answer was lost, or the job was canceled. *)
WorkFails(e) ==
  LET p == tab[e].work
  IN  /\ p # NoPicture /\ put[e].pc = "none"
      /\ IF making[p] = "failed" THEN UNCHANGED faults ELSE Fault
      /\ tab' = [tab EXCEPT ![e].work = NoPicture]
      /\ UNCHANGED <<Document, Store, load, put>>

(* editor.Service.Update reads the current picture without a lock; *)
ReadCurrent(e) ==
  /\ put[e].pc = "sent"
  /\ put' = [put EXCEPT ![e].pc = "read",
               ![e].read = IF put[e].options.picture = NoPicture THEN current
                           ELSE put[e].options.picture]
  /\ UNCHANGED <<Document, Store, tab, load, faults>>

(* Faulty variant: the version is not compared. *)
IsCurrentAlways(version) == TRUE

IsCurrent(version) == version = Version

(* Faulty variant: no revision when an older picture is selected again. *)
AppendedForResults(e) ==
  IF put[e].options.result
  THEN Append(revs, [version |-> Version + 1, picture |-> put[e].read, result |-> TRUE])
  ELSE revs

Appended(e) ==
  IF put[e].options.picture # NoPicture
  THEN Append(revs, [version |-> Version + 1, picture |-> put[e].read,
                     result |-> put[e].options.result])
  ELSE revs

(* then it writes document, picture and revision, if the version is current. *)
Update(e) ==
  /\ put[e].pc = "read"
  /\ IsCurrent(put[e].version)
  /\ log' = Append(log, [by |-> e, basis |-> put[e].basis, told |-> put[e].told])
  /\ current' = put[e].read
  /\ revs' = Appended(e)
  /\ put' = [put EXCEPT ![e].pc = "committed", ![e].version = Version + 1]
  /\ UNCHANGED <<Store, tab, load, faults>>

(* Its answer is the document as it is after that, perhaps in a version of  *)
(* another tab.                                                             *)
ReadBack(e) ==
  /\ put[e].pc = "committed"
  /\ put' = [put EXCEPT ![e].pc = "stored", ![e].version = Version,
               ![e].told = IF Version = put[e].version THEN 0 ELSE Version]
  /\ UNCHANGED <<Document, Store, tab, load, faults>>

UpdateConflicts(e) ==
  /\ put[e].pc = "read"
  /\ ~IsCurrent(put[e].version)
  /\ put' = [put EXCEPT ![e].pc = "conflict"]
  /\ UNCHANGED <<Document, Store, tab, load, faults>>

(* The tab asks for the newest copy before it reports the conflict. *)
FetchLatest(e) ==
  /\ put[e].pc = "conflict"
  /\ put' = [put EXCEPT ![e].pc = "latest", ![e].version = Version]
  /\ UNCHANGED <<Document, Store, tab, load, faults>>

(* The end of a save, whoever asked for it; a closed tab hears nothing. *)
Ends(e, heard) ==
  LET r == IF tab[e].open = "closed" THEN tab[e] ELSE heard
  IN  /\ put' = [put EXCEPT ![e] = NoPut]
      /\ tab' = [tab EXCEPT ![e] = [r EXCEPT !.work = NoPicture,
                                       !.save = IF r.save = "saving" THEN "idle" ELSE r.save]]
      /\ UNCHANGED <<Document, Store, load>>

Saved(e) ==
  /\ put[e].pc = "stored"
  /\ Ends(e, [tab[e] EXCEPT !.version = put[e].version, !.retained = Plain,
                !.save = IF put[e].fresh THEN "saved" ELSE "idle",
                !.basis = IF put[e].fresh THEN put[e].version ELSE @,
                !.told = IF put[e].fresh THEN 0 ELSE IF put[e].told = 0 THEN @ ELSE put[e].told])
  /\ UNCHANGED faults

Conflicts(e) ==
  /\ put[e].pc = "latest"
  /\ Ends(e, [tab[e] EXCEPT !.version = put[e].version, !.told = put[e].version,
                !.retained = put[e].options, !.save = "conflict"])
  /\ UNCHANGED faults

(* The newest copy cannot be read: the tab keeps the version it has. *)
ConflictsUnread(e) ==
  /\ put[e].pc = "conflict"
  /\ Fault
  /\ Ends(e, [tab[e] EXCEPT !.retained = put[e].options, !.save = "conflict"])

(* The call fails, or its answer is lost. *)
SaveFails(e) ==
  /\ put[e].pc \in {"sent", "read", "committed", "stored"}
  /\ Fault
  /\ Ends(e, [tab[e] EXCEPT !.retained = put[e].options, !.save = "error"])

-----------------------------------------------------------------------------
Server(p) == PutObject(p) \/ CommitRow(p) \/ CommitFails(p) \/ DropObject(p) \/ MakingFails(p)

Loading(e) == Loaded(e) \/ LoadedBack(e) \/ LoadFails(e)

Saving(e) ==
  \/ ReadCurrent(e) \/ Update(e) \/ ReadBack(e) \/ UpdateConflicts(e) \/ FetchLatest(e)
  \/ Saved(e) \/ Conflicts(e) \/ ConflictsUnread(e) \/ SaveFails(e)

Working(e) == CommitResult(e) \/ WorkFails(e)

User(e) ==
  \/ Hydrate(e) \/ Reload(e) \/ Close(e)
  \/ Edit(e) \/ SelectRevision(e) \/ RetrySave(e)
  \/ \E p \in Pictures : Start(e, p)

Next ==
  \/ \E p \in Pictures : Server(p)
  \/ \E e \in Tabs : User(e) \/ Loading(e) \/ Saving(e) \/ Working(e)

Spec == Init /\ [][Next]_vars

(* Calls are answered or fail, and jobs settle. *)
FairSpec ==
  /\ Spec
  /\ \A p \in Pictures : WF_vars(Server(p))
  /\ \A e \in Tabs : WF_vars(Loading(e)) /\ WF_vars(Saving(e)) /\ WF_vars(Working(e))

-----------------------------------------------------------------------------
(* The picture a document shows is the one of its last revision, although   *)
(* a save without a picture writes back the one it read before it compared  *)
(* the version.                                                             *)
CurrentIsLastRevision == current = IF revs = <<>> THEN Base ELSE Last(revs).picture

(* No version is written over another tab's that the writer was not sent:   *)
(* every version since the one the draft comes from is the writer's own, or *)
(* was there when a conflict was reported to it, or in the answer to a save *)
(* during which the document was loaded again (the draft is kept, and the   *)
(* other tab's version is sent but not drawn).                              *)
NoSilentOverwrite ==
  \A v \in DOMAIN log : \A k \in log[v].basis + 1 .. v - 1 :
    log[k].by = log[v].by \/ k <= log[v].told

(* However saves fail, conflict and are retried, a crop or a job is in the  *)
(* revisions at most once.                                                  *)
OneRevisionPerResult ==
  \A i, j \in DOMAIN revs :
    revs[i].result /\ revs[j].result /\ revs[i].picture = revs[j].picture => i = j

(* Every picture of the document can be opened, although an asset's row may *)
(* be left without its object when the answer of the commit is lost, and an *)
(* object without its row when the process dies.                            *)
RevisionsAreStored ==
  \A i \in DOMAIN revs : revs[i].picture = Base \/ revs[i].picture \in rows \cap objects

(* The editor does not stay busy: every crop, job and save comes to an end. *)
BusyEnds == \A e \in Tabs : Busy(e) ~> ~Busy(e)
=============================================================================
