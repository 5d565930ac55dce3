---------------------------- MODULE ProjectSync ----------------------------
(***************************************************************************)
(* How one canvas project is saved: the project store of every open tab    *)
(* (frontend/src/adapters/use-canvas-store.ts), the drafts it keeps in the *)
(* browser, and the row of canvas_projects (backend project.go).           *)
(*                                                                         *)
(* A tab saves itself 400 ms after an edit, with the version it believes   *)
(* the server holds.  Everything the store awaits is a point where edits,  *)
(* timers and other tabs may come in between.  An answer is handled in the *)
(* step in which the server acts: the tab sends nothing while it waits, so *)
(* nobody can tell.                                                        *)
(***************************************************************************)
EXTENDS Naturals

CONSTANTS
  Tabs,       \* browser tabs
  Browsers,   \* browser profiles, each with one draft store
  BrowserOf,  \* [Tabs -> Browsers]
  MaxEdits,   \* bound on edits and renames
  MaxFaults   \* bound on closed tabs and failed requests

ASSUME BrowserAssumption == BrowserOf \in [Tabs -> Browsers]
ASSUME BoundsAssumption == MaxEdits \in Nat /\ MaxFaults \in Nat

VARIABLES
  server,   \* the row of canvas_projects; version 0: there is none
  tab,      \* [Tabs -> the store of the tab]
  drafts,   \* [Browsers -> the draft of the project]
  orphans,  \* requests nobody waits for any more, still to be handled
  born,     \* the project's id has been drawn
  clock,    \* number of edits so far
  faults    \* number of faults so far

vars == <<server, tab, drafts, orphans, born, clock, faults>>

(* Edits are numbered.  A document is the set of the edits it includes, a  *)
(* title is the number of the rename it comes from.  "mixed" says that the *)
(* content does not derive from the version it is to replace, and "ever"   *)
(* collects what the server has ever stored (history variables).           *)
Edit == 1..MaxEdits
Row == [version : Nat, title : Edit \cup {0}, doc : SUBSET Edit,
        ever : SUBSET Edit]
Content == [base : Nat, title : Edit \cup {0}, doc : SUBSET Edit,
            mixed : BOOLEAN]
NoDraft == [base |-> 0, title |-> 0, doc |-> {}, mixed |-> TRUE]
Request == [kind : {"create", "update"}, content : Content]

(* ProjectSync and saveStatusByProject of the store.  "save" is            *)
(* persistProject: waiting for the creation, sent, or clearing the draft;  *)
(* "fetch" is the request of reloadServerProject or retryProjectCreation   *)
(* and "copy" the project it returned; "asof" is the sequence captured     *)
(* when "sent" was sent.                                                   *)
Tab == [pc : {"closed", "loading", "open"}, content : Content,
        seq : 0..(MaxEdits + 1), timer : BOOLEAN, blocked : BOOLEAN,
        retry : BOOLEAN,
        status : {"dirty", "saving", "saved", "error", "conflict"},
        creating : {"none", "sent", "clearing", "failed"},
        save : {"idle", "waiting", "sent", "clearing"},
        fetch : {"idle", "reload", "clearing", "recreate"},
        sent : Content, copy : Content, asof : 0..(MaxEdits + 1)]

Draft(t) == drafts[BrowserOf[t]]
WithDraft(t, d) == drafts' = [drafts EXCEPT ![BrowserOf[t]] = d]

Closed ==
  [pc |-> "closed", content |-> NoDraft, seq |-> 0, timer |-> FALSE,
   blocked |-> FALSE, retry |-> FALSE, status |-> "saved",
   creating |-> "none", save |-> "idle", fetch |-> "idle",
   sent |-> NoDraft, copy |-> NoDraft, asof |-> 0]

Loaded(row) == [base |-> row.version, title |-> row.title, doc |-> row.doc,
                mixed |-> FALSE]

Init ==
  /\ born \in BOOLEAN
  /\ server = [version |-> IF born THEN 1 ELSE 0, title |-> 0, doc |-> {},
               ever |-> {}]
  /\ tab = [t \in Tabs |-> Closed]
  /\ drafts = [b \in Browsers |-> NoDraft]
  /\ orphans = {}
  /\ clock = 0
  /\ faults = 0

Open(t) == tab[t].pc = "open"
Becomes(t, r) == tab' = [tab EXCEPT ![t] = r]
Fault == faults < MaxFaults /\ faults' = faults + 1
-----------------------------------------------------------------------------
(* The server: project.Repository.Create and Update.                       *)

Stored(c) ==
  [version |-> server.version + 1, title |-> c.title, doc |-> c.doc,
   ever |-> server.ever \cup c.doc]

Applies(req) ==
  IF req.kind = "create" THEN server.version = 0
                         ELSE server.version > 0 /\ server.version = req.content.base

(* A request whose answer nobody awaits is handled late, or never.         *)
HandleOrphan(req) ==
  /\ req \in orphans
  /\ orphans' = orphans \ {req}
  /\ server' = IF Applies(req) THEN Stored(req.content) ELSE server
  /\ UNCHANGED <<tab, drafts, born, clock, faults>>
-----------------------------------------------------------------------------
(* What the store does, on the record of one tab.                          *)

(* persistProject.                                                         *)
Sending(r) == [r EXCEPT !.save = "sent", !.asof = r.seq, !.sent = r.content]

(* While a save runs, another one is only noted; a creation under way is   *)
(* awaited, and one that failed fails the save.                            *)
Persisted(r) ==
  IF r.blocked THEN r
  ELSE IF r.save # "idle" THEN [r EXCEPT !.retry = TRUE]
  ELSE CASE r.creating = "none" -> Sending([r EXCEPT !.status = "saving"])
         [] r.creating = "failed" -> [r EXCEPT !.status = "error"]
         [] OTHER -> [r EXCEPT !.status = "saving", !.save = "waiting"]

(* Faulty variant: the retry asked for during a save is forgotten.         *)
SaveEndedWithoutRetry(r) == [r EXCEPT !.save = "idle"]

(* The "finally" of persistProject.                                        *)
SaveEnded(r) ==
  LET s == [r EXCEPT !.save = "idle"]
  IN  IF s.retry /\ ~s.blocked THEN Persisted([s EXCEPT !.retry = FALSE]) ELSE s

(* scheduleSave, once the draft is written.                                *)
Scheduled(r) ==
  IF r.blocked THEN r ELSE [r EXCEPT !.status = "dirty", !.timer = TRUE]

(* The creation succeeded: a save that awaited it is sent.                 *)
Created(r) ==
  LET s == [r EXCEPT !.creating = "none"]
  IN  IF s.save = "waiting" THEN Sending(s) ELSE s

(* The creation failed, and with it a save that awaited it.                *)
CreateFailed(r) ==
  [r EXCEPT !.creating = "failed", !.blocked = TRUE, !.status = "error",
            !.save = IF @ = "waiting" THEN "idle" ELSE @]

(* beginProjectCreation.                                                   *)
Creating(r) == [r EXCEPT !.creating = "sent", !.sent = r.content]
-----------------------------------------------------------------------------
(* Opening, creating and closing.                                          *)

(* initializeCanvasProjectStore: listProjects, then the draft.             *)
Load(t) ==
  /\ tab[t].pc = "closed" /\ server.version > 0
  /\ Becomes(t, [Closed EXCEPT !.pc = "loading", !.content = Loaded(server)])
  /\ UNCHANGED <<server, drafts, orphans, born, clock, faults>>

(* The draft's content with the server's version.                          *)
Resumed(r, d) ==
  [r EXCEPT !.pc = "open", !.seq = 1,
            !.content = [d EXCEPT !.base = r.content.base]]

(* Faulty variant: a draft of another version is resumed like any other.   *)
HydratedOverAnyVersion(r, d) ==
  IF d = NoDraft THEN [r EXCEPT !.pc = "open"]
  ELSE Scheduled(Resumed(r, d))

Hydrated(r, d) ==
  IF d = NoDraft THEN [r EXCEPT !.pc = "open"]
  ELSE IF d.base = r.content.base THEN Scheduled(Resumed(r, d))
  ELSE [Resumed(r, d) EXCEPT !.blocked = TRUE, !.status = "conflict",
                             !.content.mixed = TRUE]

Hydrate(t) ==
  /\ tab[t].pc = "loading"
  /\ Becomes(t, Hydrated(tab[t], Draft(t)))
  /\ UNCHANGED <<server, drafts, orphans, born, clock, faults>>

(* createOptimisticProject.                                                *)
CreateProject(t) ==
  /\ ~born /\ tab[t].pc = "closed"
  /\ born' = TRUE
  /\ Becomes(t, Creating([Closed EXCEPT !.pc = "open", !.status = "saving",
                                        !.content.mixed = FALSE]))
  /\ UNCHANGED <<server, drafts, orphans, clock, faults>>

Abandoned(r) ==
  (IF r.save = "sent" THEN {[kind |-> "update", content |-> r.sent]} ELSE {})
  \cup
  (IF r.creating = "sent" THEN {[kind |-> "create", content |-> r.sent]} ELSE {})

(* The tab is closed, or resetCanvasProjectStore ends the session.         *)
Close(t) ==
  /\ Open(t) /\ Fault
  /\ orphans' = orphans \cup Abandoned(tab[t])
  /\ Becomes(t, Closed)
  /\ UNCHANGED <<server, drafts, born, clock>>
-----------------------------------------------------------------------------
(* Edits: updateProject, the recovery of tasks, and renameProject.         *)

Touched(t, content) ==
  /\ Open(t) /\ clock < MaxEdits
  /\ clock' = clock + 1
  /\ WithDraft(t, content)
  /\ Becomes(t, Scheduled([tab[t] EXCEPT !.content = content, !.seq = @ + 1]))
  /\ UNCHANGED <<server, orphans, born, faults>>

UpdateProject(t) ==
  Touched(t, [tab[t].content EXCEPT !.doc = @ \cup {clock + 1}])

RenameProject(t) ==
  Touched(t, [tab[t].content EXCEPT !.title = clock + 1])
-----------------------------------------------------------------------------
(* Saving.                                                                 *)

TimerFires(t) ==
  /\ Open(t) /\ tab[t].timer
  /\ Becomes(t, Persisted([tab[t] EXCEPT !.timer = FALSE]))
  /\ UNCHANGED <<server, drafts, orphans, born, clock, faults>>

(* flushProject; the button works only while the status is "dirty".        *)
SaveNow(t) ==
  LET r == [tab[t] EXCEPT !.timer = FALSE]
  IN  /\ Open(t) /\ tab[t].status = "dirty" /\ ~tab[t].blocked
      /\ Becomes(t, IF r.save # "idle" THEN r ELSE Persisted(r))
      /\ UNCHANGED <<server, drafts, orphans, born, clock, faults>>

(* retryProject of a project that has been created.                        *)
RetrySave(t) ==
  /\ Open(t) /\ tab[t].status = "error" /\ tab[t].content.base > 0
  /\ Becomes(t, Persisted([tab[t] EXCEPT !.blocked = FALSE, !.timer = FALSE]))
  /\ UNCHANGED <<server, drafts, orphans, born, clock, faults>>

Update(t) == [kind |-> "update", content |-> tab[t].sent]

(* Faulty variant: the draft goes although the project was edited since.   *)
SaveSettlesAnything(t) == TRUE

(* sync.sequence === sequence                                              *)
SaveSettles(t) == tab[t].seq = tab[t].asof

(* The save succeeded: the server's version and name are taken over, and   *)
(* the draft is removed unless the project was edited in the meantime.     *)
SaveAnswered(t) ==
  LET r == [tab[t] EXCEPT !.content.base = server.version + 1,
                          !.content.title = tab[t].sent.title]
  IN  /\ Open(t) /\ tab[t].save = "sent" /\ Applies(Update(t))
      /\ server' = Stored(tab[t].sent)
      /\ IF SaveSettles(t)
           THEN /\ WithDraft(t, NoDraft)
                /\ Becomes(t, [r EXCEPT !.save = "clearing"])
           ELSE /\ UNCHANGED drafts
                /\ Becomes(t, SaveEnded([r EXCEPT !.retry = TRUE,
                                                  !.status = "dirty"]))
      /\ UNCHANGED <<orphans, born, clock, faults>>

(* The await of drafts.removeItem is over.                                 *)
DraftCleared(t) ==
  /\ Open(t) /\ tab[t].save = "clearing"
  /\ Becomes(t, SaveEnded([tab[t] EXCEPT !.status = "saved"]))
  /\ UNCHANGED <<server, drafts, orphans, born, clock, faults>>

(* 409 project_version_conflict.                                           *)
SaveRefused(t) ==
  /\ Open(t) /\ tab[t].save = "sent" /\ ~Applies(Update(t))
  /\ Becomes(t, SaveEnded([tab[t] EXCEPT !.blocked = TRUE,
                                          !.status = "conflict"]))
  /\ UNCHANGED <<server, drafts, orphans, born, clock, faults>>

(* The request fails for the tab, but may still reach the server.          *)
SaveFails(t) ==
  /\ Open(t) /\ tab[t].save = "sent" /\ Fault
  /\ orphans' = orphans \cup {Update(t)}
  /\ Becomes(t, SaveEnded([tab[t] EXCEPT !.status = "error"]))
  /\ UNCHANGED <<server, drafts, born, clock>>
-----------------------------------------------------------------------------
(* Creating: beginProjectCreation and retryProjectCreation.                *)

Creation(t) == [kind |-> "create", content |-> tab[t].sent]

CreateAnswered(t) ==
  LET r == [tab[t] EXCEPT !.content.base = 1, !.blocked = FALSE]
  IN  /\ Open(t) /\ tab[t].creating = "sent" /\ Applies(Creation(t))
      /\ server' = Stored(tab[t].sent)
      /\ IF r.seq = 0
           THEN /\ WithDraft(t, NoDraft)
                /\ Becomes(t, [r EXCEPT !.creating = "clearing"])
           ELSE /\ WithDraft(t, r.content)
                /\ Becomes(t, Created(Scheduled(r)))
      /\ UNCHANGED <<orphans, born, clock, faults>>

CreateCleared(t) ==
  /\ Open(t) /\ tab[t].creating = "clearing"
  /\ Becomes(t, Created([tab[t] EXCEPT !.status = "saved"]))
  /\ UNCHANGED <<server, drafts, orphans, born, clock, faults>>

(* The request fails for the tab, or its id is already taken by an earlier *)
(* attempt of the same tab.                                                *)
CreateFails(t) ==
  /\ Open(t) /\ tab[t].creating = "sent"
  /\ \/ /\ Fault
        /\ orphans' = orphans \cup {Creation(t)}
     \/ /\ ~Applies(Creation(t))
        /\ UNCHANGED <<faults, orphans>>
  /\ Becomes(t, CreateFailed(tab[t]))
  /\ UNCHANGED <<server, drafts, born, clock>>

(* retryProject of a project that has not been created.  The code lets the *)
(* user ask again while an earlier retry is under way, when an edit's save *)
(* has failed in the meantime; here one retry ends before the next.        *)
RetryCreation(t) ==
  /\ Open(t) /\ tab[t].status = "error" /\ tab[t].content.base = 0
  /\ tab[t].fetch = "idle" /\ tab[t].creating = "failed"
  /\ Becomes(t, [tab[t] EXCEPT !.blocked = FALSE, !.status = "saving",
                               !.fetch = "recreate"])
  /\ UNCHANGED <<server, drafts, orphans, born, clock, faults>>

(* getProject finds the project of the failed attempt, or creates it.      *)
RecreateAnswered(t) ==
  LET r == [tab[t] EXCEPT !.fetch = "idle"]
  IN  /\ Open(t) /\ tab[t].fetch = "recreate"
      /\ Becomes(t,
           IF server.version = 0 THEN Creating(r)
           ELSE Persisted([r EXCEPT !.content.base = server.version,
                             !.content.mixed = (server.version # 1),
                             !.creating = "none", !.status = "dirty"]))
      /\ UNCHANGED <<server, drafts, orphans, born, clock, faults>>
-----------------------------------------------------------------------------
(* reloadServerProject, offered while the status is "conflict".            *)

Reload(t) ==
  /\ Open(t) /\ tab[t].status = "conflict" /\ tab[t].save = "idle"
  /\ tab[t].fetch = "idle"
  /\ Becomes(t, [tab[t] EXCEPT !.timer = FALSE, !.status = "saving",
                               !.fetch = "reload"])
  /\ UNCHANGED <<server, drafts, orphans, born, clock, faults>>

(* The version is taken over and the draft removed; the content follows    *)
(* after the await, whatever was edited and sent in between.               *)
ReloadAnswered(t) ==
  /\ Open(t) /\ tab[t].fetch = "reload"
  /\ Becomes(t, [tab[t] EXCEPT
       !.content.base = server.version, !.content.mixed = TRUE,
       !.seq = 0, !.blocked = FALSE, !.retry = FALSE, !.creating = "none",
       !.fetch = "clearing", !.copy = Loaded(server)])
  /\ WithDraft(t, NoDraft)
  /\ UNCHANGED <<server, orphans, born, clock, faults>>

ReloadDone(t) ==
  LET r == tab[t]
      clean == r.save = "idle" /\ r.content.base = r.copy.base
  IN  /\ Open(t) /\ r.fetch = "clearing"
      /\ Becomes(t, [r EXCEPT
           !.content.title = r.copy.title, !.content.doc = r.copy.doc,
           !.content.mixed = ~clean,
           !.fetch = "idle", !.status = "saved"])
      /\ UNCHANGED <<server, drafts, orphans, born, clock, faults>>

FetchFails(t) ==
  /\ Open(t) /\ tab[t].fetch \in {"reload", "recreate"} /\ Fault
  /\ Becomes(t, [tab[t] EXCEPT !.fetch = "idle", !.status = "error",
                  !.blocked = @ \/ tab[t].fetch = "recreate"])
  /\ UNCHANGED <<server, drafts, orphans, born, clock>>
-----------------------------------------------------------------------------
(* What the tab does by itself, and what its user does.                    *)
Progress(t) ==
  \/ Hydrate(t) \/ TimerFires(t) \/ DraftCleared(t)
  \/ SaveAnswered(t) \/ SaveRefused(t) \/ SaveFails(t)
  \/ CreateAnswered(t) \/ CreateCleared(t) \/ CreateFails(t)
  \/ RecreateAnswered(t) \/ ReloadAnswered(t) \/ ReloadDone(t)
  \/ FetchFails(t)

UserStep(t) ==
  \/ Load(t) \/ CreateProject(t) \/ Close(t)
  \/ UpdateProject(t) \/ RenameProject(t)
  \/ SaveNow(t) \/ RetrySave(t) \/ RetryCreation(t) \/ Reload(t)

Next ==
  \/ \E t \in Tabs : Progress(t) \/ UserStep(t)
  \/ \E req \in orphans : HandleOrphan(req)

Spec == Init /\ [][Next]_vars

(* Timers fire, local storage answers, and every request of an open tab is *)
(* answered or fails; nobody has to press a button.                        *)
FairSpec == Spec /\ \A t \in Tabs : WF_vars(Progress(t))
-----------------------------------------------------------------------------
(* The fields have their types; an update always names a stored version.   *)
TypeOK ==
  /\ server \in Row
  /\ tab \in [Tabs -> Tab]
  /\ drafts \in [Browsers -> Content]
  /\ orphans \subseteq Request
  /\ born \in BOOLEAN /\ clock \in Nat /\ faults \in 0..MaxFaults
  /\ \A t \in Tabs : tab[t].save = "sent" => tab[t].sent.base > 0

(* A save that the server's version check lets through carries every edit  *)
(* of the version it replaces, unless the content was mixed: taken from a  *)
(* draft of another version, edited while the server's copy was loading,   *)
(* or kept although the project turned out to exist in a later version.    *)
(* Breaks if an edit, a late request, a timer or a second tab can make a   *)
(* version number run ahead of the content it stands for.                  *)
CleanSaveLosesNothing ==
  \A t \in Tabs :
    LET r == tab[t]
    IN  \A c \in {r.content} \cup (IF r.save = "sent" THEN {r.sent} ELSE {}) :
          Open(t) /\ c.base > 0 /\ c.base = server.version /\ ~c.mixed
            => server.doc \subseteq c.doc

(* Once the project exists, what a tab shows is never only in its memory:  *)
(* each edit has been stored by the server or is in the browser's draft,   *)
(* so closing the tab at any moment loses none, while only one tab of a    *)
(* browser has the project open and no server copy is being taken over.    *)
ClosingLosesNothing ==
  \A t \in Tabs :
    (/\ Open(t) /\ tab[t].content.base > 0 /\ tab[t].fetch # "clearing"
     /\ \A u \in Tabs \ {t} : BrowserOf[u] # BrowserOf[t])
      => tab[t].content.doc \subseteq server.ever \cup Draft(t).doc

(* No tab stays "dirty" or "saving" for ever, however edits, retries,      *)
(* creations and failures interleave.                                      *)
Unsettled(t) == Open(t) /\ tab[t].status \in {"dirty", "saving"}
EverySaveSettles == \A t \in Tabs : Unsettled(t) ~> ~Unsettled(t)

(* i18n.tsx:43, "The server version changed. Reload it or save the local   *)
(* draft as a new project.": while a tab shows the conflict, its draft is  *)
(* not one that the next opening resumes over the server's edits.          *)
ConflictSurvivesReopening ==
  \A t \in Tabs :
    (Open(t) /\ tab[t].status = "conflict" /\ Draft(t) # NoDraft)
      => \/ Draft(t).base # server.version
         \/ server.doc \subseteq Draft(t).doc
=============================================================================
