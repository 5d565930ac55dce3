----------------------- MODULE EditorDocumentsProofs -----------------------
(* The safety of EditorDocuments for any tabs, pictures and versions.       *)
(*                                                                          *)
(* Three arguments: a save that is let through read the document in the     *)
(* version it replaces; a picture that a tab still has to commit is in no   *)
(* revision and in no other tab's hands; and of every version after the one *)
(* a draft comes from, its tab is the writer or has been told.              *)
EXTENDS EditorDocuments, SequenceTheorems, TLAPS

-----------------------------------------------------------------------------
(* Types. *)

MakingState == {"no", "asked", "stored", "dropping", "kept", "failed"}

LEMMA Blanks == Closed \in Controller /\ NoLoad \in Load /\ NoPut \in Put /\ Plain \in Options
BY DEF Closed, Controller, NoLoad, Load, NoPut, Put, Plain, Options

LEMMA InitType == Init => TypeOK
<1> SUFFICES ASSUME Init PROVE TypeOK
  OBVIOUS
<1>1. log \in Seq(Entry) /\ revs \in Seq(Revision)
  BY EmptySeq DEF Init
<1>2. /\ tab \in [Tabs -> Controller] /\ load \in [Tabs -> Load] /\ put \in [Tabs -> Put]
  BY Blanks DEF Init
<1>3. faults \in 0..MaxFaults
  BY BoundsAssumption DEF Init
<1>. QED
  BY <1>1, <1>2, <1>3 DEF Init, TypeOK

LEMMA FaultType == TypeOK /\ (Fault \/ UNCHANGED faults) => faults' \in 0..MaxFaults
BY BoundsAssumption DEF Fault, TypeOK

LEMMA ServerType == ASSUME TypeOK, NEW p \in Pictures, Server(p) PROVE TypeOK'
<1>1. UNCHANGED <<log, current, revs, tab, load, put>> /\ faults' \in 0..MaxFaults
  BY FaultType DEF Server, PutObject, CommitRow, CommitFails, DropObject, MakingFails, Make, Document
<1>2. making' \in [Pictures -> MakingState]
  BY DEF Server, PutObject, CommitRow, CommitFails, DropObject, MakingFails, Make, TypeOK, MakingState
<1>3. rows' \subseteq Pictures /\ objects' \subseteq Pictures
  BY DEF Server, PutObject, CommitRow, CommitFails, DropObject, MakingFails, TypeOK
<1>. QED
  BY <1>1, <1>2, <1>3 DEF TypeOK, MakingState

(* Steps of one tab that write neither the document nor the store. *)
LEMMA TabType ==
  ASSUME TypeOK, NEW e \in Tabs, UNCHANGED <<Document, Store>>, faults' \in 0..MaxFaults,
         NEW r \in Controller, tab' = [tab EXCEPT ![e] = r],
         NEW l \in Load, load' = [load EXCEPT ![e] = l],
         NEW q \in Put, put' = [put EXCEPT ![e] = q]
  PROVE  TypeOK'
BY DEF TypeOK, Document, Store

(* The state of one tab, and what it is when it does not change. *)
LEMMA OwnType ==
  ASSUME TypeOK, NEW e \in Tabs
  PROVE  /\ tab[e] \in Controller /\ load[e] \in Load /\ put[e] \in Put
         /\ tab = [tab EXCEPT ![e] = tab[e]]
         /\ load = [load EXCEPT ![e] = load[e]]
         /\ put = [put EXCEPT ![e] = put[e]]
BY DEF TypeOK

LEMMA SentType ==
  ASSUME TypeOK, NEW e \in Tabs, NEW o \in Options
  PROVE  /\ Sent(e, o) \in Put
         /\ Sent(e, o).pc = "sent" /\ Sent(e, o).options = o
         /\ Sent(e, o).version = tab[e].version
         /\ Sent(e, o).basis = tab[e].basis /\ Sent(e, o).told = tab[e].told
BY OwnType DEF Sent, Put, Controller

LEMMA BeginSaveType ==
  ASSUME TypeOK, NEW e \in Tabs, NEW o \in Options, BeginSave(e, o),
         UNCHANGED <<Document, Store, load, faults>>
  PROVE  TypeOK'
<1>1. [tab[e] EXCEPT !.save = "saving"] \in Controller
  BY OwnType DEF Controller
<1>2. tab' = [tab EXCEPT ![e] = [tab[e] EXCEPT !.save = "saving"]]
  BY DEF BeginSave
<1>3. put' = [put EXCEPT ![e] = Sent(e, o)]
  BY DEF BeginSave
<1>4. load' = [load EXCEPT ![e] = load[e]]
  BY OwnType
<1>. QED
  BY <1>1, <1>2, <1>3, <1>4, SentType, OwnType, FaultType, TabType

(* Which options the saves that a tab may begin have: none, a picture the   *)
(* document has had, the ones of the conflict, or the picture of its work.  *)
MaySave(e, o) ==
  \/ UserMay(e) /\ o = Plain
  \/ UserMay(e) /\ ~o.result /\ o.picture = Base
  \/ UserMay(e) /\ ~o.result /\ \E i \in DOMAIN revs : revs[i].picture = o.picture
  \/ UserMay(e) /\ o = tab[e].retained /\ tab[e].save = "conflict"
  \/ /\ o.result /\ o.picture = tab[e].work /\ tab[e].work # NoPicture
     /\ making[o.picture] = "kept"

Begins(e) == Edit(e) \/ SelectRevision(e) \/ RetrySave(e) \/ CommitResult(e)

LEMMA BeginsWith ==
  ASSUME TypeOK, NEW e \in Tabs, Begins(e)
  PROVE  \E o \in Options : /\ BeginSave(e, o) /\ MaySave(e, o)
                            /\ UNCHANGED <<Document, Store, load, faults>>
<1>1. CASE Edit(e)
  <2>1. MaySave(e, Plain)
    BY <1>1 DEF Edit, MaySave
  <2>. QED
    BY <1>1, <2>1, Blanks DEF Edit
<1>2. CASE SelectRevision(e)
  <2>1. PICK p \in {Base} \cup {r.picture : r \in {s \in ToSet(revs) : s.version <= tab[e].version}} :
          BeginSave(e, [picture |-> p, result |-> FALSE])
    BY <1>2 DEF SelectRevision
  <2>2. p = Base \/ \E i \in DOMAIN revs : revs[i].picture = p
    BY DEF ToSet
  <2>3. p \in Pictures \cup {Base}
    <3>1. \A i \in DOMAIN revs : revs[i] \in Revision
      BY ElementOfSeq, LenProperties DEF TypeOK
    <3>. QED
      BY <2>2, <3>1 DEF Revision
  <2>4. [picture |-> p, result |-> FALSE] \in Options
    BY <2>3 DEF Options
  <2>5. MaySave(e, [picture |-> p, result |-> FALSE])
    BY <1>2, <2>2 DEF SelectRevision, MaySave
  <2>. QED
    BY <1>2, <2>1, <2>4, <2>5 DEF SelectRevision
<1>3. CASE RetrySave(e)
  <2>1. tab[e].retained \in Options
    BY OwnType DEF Controller
  <2>2. MaySave(e, tab[e].retained)
    BY <1>3 DEF RetrySave, MaySave
  <2>. QED
    BY <1>3, <2>1, <2>2 DEF RetrySave
<1>4. CASE CommitResult(e)
  <2>1. [picture |-> tab[e].work, result |-> TRUE] \in Options
    <3>1. tab[e].work \in Pictures \cup {NoPicture}
      BY OwnType DEF Controller
    <3>. QED
      BY <3>1 DEF Options
  <2>2. MaySave(e, [picture |-> tab[e].work, result |-> TRUE])
    BY <1>4 DEF CommitResult, MaySave
  <2>. QED
    BY <1>4, <2>1, <2>2 DEF CommitResult
<1>. QED
  BY <1>1, <1>2, <1>3, <1>4 DEF Begins

LEMMA HydrateType == ASSUME TypeOK, NEW e \in Tabs, Hydrate(e) PROVE TypeOK'
<1> DEFINE r == [tab[e] EXCEPT !.open = "hydrating", !.save = "idle"]
           l == [load[e] EXCEPT !.pc = "create"]
<1>1. r \in Controller /\ l \in Load
  BY OwnType DEF Controller, Load
<1>2. tab' = [tab EXCEPT ![e] = r] /\ load' = [load EXCEPT ![e] = l]
  BY DEF Hydrate
<1>3. UNCHANGED <<Document, Store, put>> /\ faults' \in 0..MaxFaults
  BY FaultType DEF Hydrate
<1> HIDE DEF r, l
<1>. QED
  BY <1>1, <1>2, <1>3, OwnType, TabType

LEMMA ReloadType == ASSUME TypeOK, NEW e \in Tabs, Reload(e) PROVE TypeOK'
<1> DEFINE r == [tab[e] EXCEPT !.open = "hydrating"]
           l == [load[e] EXCEPT !.pc = "get"]
<1>1. r \in Controller /\ l \in Load
  BY OwnType DEF Controller, Load
<1>2. tab' = [tab EXCEPT ![e] = r] /\ load' = [load EXCEPT ![e] = l]
  BY DEF Reload
<1>3. UNCHANGED <<Document, Store, put>> /\ faults' \in 0..MaxFaults
  BY FaultType DEF Reload
<1> HIDE DEF r, l
<1>. QED
  BY <1>1, <1>2, <1>3, OwnType, TabType

LEMMA CloseType == ASSUME TypeOK, NEW e \in Tabs, Close(e) PROVE TypeOK'
<1>1. PICK w \in {tab[e].work, NoPicture} :
        tab' = [tab EXCEPT ![e] = [tab[e] EXCEPT !.open = "closed", !.work = w]]
  BY DEF Close
<1>2. [tab[e] EXCEPT !.open = "closed", !.work = w] \in Controller
  BY OwnType DEF Controller
<1>3. load' = [load EXCEPT ![e] = NoLoad] /\ UNCHANGED <<Document, Store, put>> /\ faults' \in 0..MaxFaults
  BY FaultType DEF Close
<1>. QED
  BY <1>1, <1>2, <1>3, OwnType, Blanks, TabType

LEMMA StartType ==
  ASSUME TypeOK, NEW e \in Tabs, NEW p \in Pictures, Start(e, p)
  PROVE  TypeOK'
<1>1. [tab[e] EXCEPT !.work = p] \in Controller
  BY OwnType DEF Controller
<1>2. tab' \in [Tabs -> Controller] /\ making' \in [Pictures -> MakingState]
  BY <1>1 DEF Start, TypeOK, MakingState
<1>. QED
  BY <1>2 DEF Start, TypeOK, Document, MakingState

LEMMA LoadedLog ==
  ASSUME TypeOK, NEW e \in Tabs, Loaded(e)
  PROVE  /\ log' \in Seq(Entry)
         /\ \/ log = <<>> /\ Len(log') = 1 /\ log'[1] = [by |-> e, basis |-> 0, told |-> 0]
            \/ log # <<>> /\ UNCHANGED log
<1>1. [by |-> e, basis |-> 0, told |-> 0] \in Entry
  BY DEF Entry
<1>. QED
  BY <1>1 DEF Loaded, TypeOK

LEMMA LoadingType == ASSUME TypeOK, NEW e \in Tabs, Loading(e) PROVE TypeOK'
<1>1. CASE Loaded(e)
  <2>1. log' \in Seq(Entry)
    BY <1>1, LoadedLog
  <2>2. [pc |-> "back", version |-> Len(log')] \in Load
    BY <2>1, LenProperties DEF Load
  <2>3. load' \in [Tabs -> Load]
    BY <1>1, <2>2 DEF Loaded, TypeOK
  <2>. QED
    BY <1>1, <2>1, <2>3 DEF Loaded, TypeOK, Store
<1>2. CASE LoadedBack(e)
  <2> DEFINE r == [tab[e] EXCEPT !.open = "ready", !.save = "idle", !.told = 0,
                     !.version = load[e].version, !.basis = load[e].version, !.retained = Plain]
             q == [put[e] EXCEPT !.fresh = FALSE]
  <2>1. r \in Controller /\ q \in Put
    BY OwnType, Blanks DEF Controller, Load, Put
  <2>2. tab' = [tab EXCEPT ![e] = r] /\ put' = [put EXCEPT ![e] = q] /\ load' = [load EXCEPT ![e] = NoLoad]
    BY <1>2 DEF LoadedBack
  <2>3. UNCHANGED <<Document, Store>> /\ faults' \in 0..MaxFaults
    BY <1>2, FaultType DEF LoadedBack
  <2> HIDE DEF r, q
  <2>. QED
    BY <2>1, <2>2, <2>3, Blanks, TabType
<1>3. CASE LoadFails(e)
  <2> DEFINE r == [tab[e] EXCEPT !.open = "error"]
  <2>1. r \in Controller
    BY OwnType DEF Controller
  <2>2. tab' = [tab EXCEPT ![e] = r] /\ load' = [load EXCEPT ![e] = NoLoad]
    BY <1>3 DEF LoadFails
  <2>3. UNCHANGED <<Document, Store, put>> /\ faults' \in 0..MaxFaults
    BY <1>3, FaultType DEF LoadFails
  <2> HIDE DEF r
  <2>. QED
    BY <2>1, <2>2, <2>3, Blanks, OwnType, TabType
<1>. QED
  BY <1>1, <1>2, <1>3 DEF Loading

(* The tab after the end of a save. *)
LEMMA EndsType ==
  ASSUME TypeOK, NEW e \in Tabs, NEW heard \in Controller, Ends(e, heard), faults' \in 0..MaxFaults
  PROVE  TypeOK'
<1> DEFINE s == IF tab[e].open = "closed" THEN tab[e] ELSE heard
           r == [s EXCEPT !.work = NoPicture, !.save = IF s.save = "saving" THEN "idle" ELSE s.save]
<1>1. s \in Controller
  BY OwnType
<1> HIDE DEF s
<1>2. r \in Controller
  BY <1>1 DEF Controller
<1>3. tab' = [tab EXCEPT ![e] = r]
  BY DEF Ends, s
<1>4. put' = [put EXCEPT ![e] = NoPut] /\ UNCHANGED <<Document, Store, load>>
  BY DEF Ends
<1> HIDE DEF r
<1>. QED
  BY <1>2, <1>3, <1>4, Blanks, OwnType, TabType

(* What the tab takes over at the end of a save. *)
LEMMA HeardType ==
  ASSUME TypeOK, NEW e \in Tabs
  PROVE  /\ [tab[e] EXCEPT !.version = put[e].version, !.retained = Plain,
                !.save = IF put[e].fresh THEN "saved" ELSE "idle",
                !.basis = IF put[e].fresh THEN put[e].version ELSE @,
                !.told = IF put[e].fresh THEN 0 ELSE IF put[e].told = 0 THEN @ ELSE put[e].told] \in Controller
         /\ [tab[e] EXCEPT !.version = put[e].version, !.told = put[e].version,
                !.retained = put[e].options, !.save = "conflict"] \in Controller
         /\ \A s \in {"conflict", "error"} :
              [tab[e] EXCEPT !.retained = put[e].options, !.save = s] \in Controller
<1>1. /\ tab[e] \in Controller /\ put[e].version \in Nat /\ put[e].told \in Nat
      /\ put[e].options \in Options /\ Plain \in Options
  BY OwnType, Blanks DEF Put
<1>. QED
  BY <1>1 DEF Controller

(* The steps of a save on the server. *)
OnServer(e) == ReadCurrent(e) \/ UpdateConflicts(e) \/ FetchLatest(e) \/ ReadBack(e)

LEMMA OnServerType == ASSUME TypeOK, NEW e \in Tabs, OnServer(e) PROVE TypeOK'
<1>0. current \in Pictures \cup {Base} /\ Version \in Nat /\ put[e] \in Put
  BY OwnType, LenProperties DEF TypeOK, Version
<1>1. \E q \in Put : put' = [put EXCEPT ![e] = q]
  <2>1. CASE ReadCurrent(e)
    <3> DEFINE q == [put[e] EXCEPT !.pc = "read",
                       !.read = IF put[e].options.picture = NoPicture THEN current
                                ELSE put[e].options.picture]
    <3>1. q \in Put
      <4>1. put[e].options.picture \in Pictures \cup {Base, NoPicture}
        BY <1>0 DEF Put, Options
      <4>. QED
        BY <1>0, <4>1 DEF Put
    <3>2. put' = [put EXCEPT ![e] = q]
      BY <2>1 DEF ReadCurrent
    <3>. QED
      BY <3>1, <3>2
  <2>2. CASE UpdateConflicts(e)
    <3>1. [put[e] EXCEPT !.pc = "conflict"] \in Put
      BY <1>0 DEF Put
    <3>. QED
      BY <2>2, <3>1 DEF UpdateConflicts
  <2>3. CASE FetchLatest(e)
    <3>1. [put[e] EXCEPT !.pc = "latest", !.version = Version] \in Put
      BY <1>0 DEF Put
    <3>. QED
      BY <2>3, <3>1 DEF FetchLatest
  <2>4. CASE ReadBack(e)
    <3>1. [put[e] EXCEPT !.pc = "stored", !.version = Version,
             !.told = IF Version = put[e].version THEN 0 ELSE Version] \in Put
      BY <1>0 DEF Put
    <3>. QED
      BY <2>4, <3>1 DEF ReadBack
  <2>. QED
    BY <2>1, <2>2, <2>3, <2>4 DEF OnServer
<1>2. UNCHANGED <<Document, Store, tab, load, faults>>
  BY DEF OnServer, ReadCurrent, UpdateConflicts, FetchLatest, ReadBack
<1>. QED
  BY <1>1, <1>2, OwnType, FaultType, TabType

(* What an update writes. *)
LEMMA Updated ==
  ASSUME TypeOK, NEW e \in Tabs, Update(e), put[e].read # NoPicture
  PROVE  /\ log' \in Seq(Entry) /\ Len(log') = Len(log) + 1
         /\ \A v \in 1..Len(log) : log'[v] = log[v]
         /\ log'[Len(log) + 1] = [by |-> e, basis |-> put[e].basis, told |-> put[e].told]
         /\ revs' \in Seq(Revision)
         /\ \/ put[e].options.picture = NoPicture /\ UNCHANGED revs
            \/ /\ put[e].options.picture # NoPicture
               /\ Len(revs') = Len(revs) + 1
               /\ \A i \in 1..Len(revs) : revs'[i] = revs[i]
               /\ revs'[Len(revs) + 1] = [version |-> Version + 1, picture |-> put[e].read,
                                          result |-> put[e].options.result]
<1>0. put[e] \in Put /\ Version \in Nat /\ Len(log) = Version
  BY OwnType, LenProperties DEF TypeOK, Version
<1>1. [by |-> e, basis |-> put[e].basis, told |-> put[e].told] \in Entry
  BY <1>0 DEF Entry, Put
<1>2. [version |-> Version + 1, picture |-> put[e].read, result |-> put[e].options.result] \in Revision
  BY <1>0 DEF Revision, Put, Options
<1>3. log' = Append(log, [by |-> e, basis |-> put[e].basis, told |-> put[e].told]) /\ revs' = Appended(e)
  BY DEF Update
<1>4. /\ log' \in Seq(Entry) /\ Len(log') = Len(log) + 1
      /\ \A v \in 1..Len(log) : log'[v] = log[v]
      /\ log'[Len(log) + 1] = [by |-> e, basis |-> put[e].basis, told |-> put[e].told]
  BY <1>1, <1>3, AppendProperties DEF TypeOK
<1>5. CASE put[e].options.picture = NoPicture
  BY <1>3, <1>4, <1>5 DEF Appended, TypeOK
<1>6. CASE put[e].options.picture # NoPicture
  <2>1. revs' = Append(revs, [version |-> Version + 1, picture |-> put[e].read,
                              result |-> put[e].options.result])
    BY <1>3, <1>6 DEF Appended
  <2>2. revs \in Seq(Revision)
    BY DEF TypeOK
  <2>3. /\ revs' \in Seq(Revision) /\ Len(revs') = Len(revs) + 1
        /\ \A i \in 1..Len(revs) : revs'[i] = revs[i]
        /\ revs'[Len(revs) + 1] = [version |-> Version + 1, picture |-> put[e].read,
                                   result |-> put[e].options.result]
    BY <1>2, <2>1, <2>2, AppendProperties
  <2>. QED
    BY <1>4, <1>6, <2>3
<1>. QED
  BY <1>5, <1>6

LEMMA UpdatedLog ==
  ASSUME TypeOK, NEW e \in Tabs, Update(e), put[e].read # NoPicture
  PROVE  /\ Len(log) \in Nat /\ Len(log') = Len(log) + 1
         /\ \A v \in 1..Len(log) : log'[v] = log[v]
         /\ log'[Len(log) + 1] = [by |-> e, basis |-> put[e].basis, told |-> put[e].told]
BY Updated, LenProperties DEF TypeOK

LEMMA UpdatedRevisions ==
  ASSUME TypeOK, NEW e \in Tabs, Update(e), put[e].read # NoPicture, put[e].options.picture # NoPicture
  PROVE  /\ Len(revs) \in Nat /\ revs' \in Seq(Revision) /\ Len(revs') = Len(revs) + 1
         /\ \A i \in 1..Len(revs) : revs'[i] = revs[i]
         /\ revs'[Len(revs) + 1].picture = put[e].read
         /\ revs'[Len(revs) + 1].result = put[e].options.result
         /\ DOMAIN revs = 1..Len(revs) /\ DOMAIN revs' = 1..(Len(revs) + 1)
<1>1. revs \in Seq(Revision) /\ revs' \in Seq(Revision)
  BY Updated DEF TypeOK
<1>2. /\ Len(revs') = Len(revs) + 1
      /\ \A i \in 1..Len(revs) : revs'[i] = revs[i]
      /\ revs'[Len(revs) + 1] = [version |-> Version + 1, picture |-> put[e].read,
                                 result |-> put[e].options.result]
  BY Updated
<1>3. DOMAIN revs = 1..Len(revs) /\ DOMAIN revs' = 1..Len(revs') /\ Len(revs) \in Nat
  BY <1>1, LenProperties
<1>. QED
  BY <1>1, <1>2, <1>3

LEMMA PlainUpdate ==
  ASSUME TypeOK, NEW e \in Tabs, Update(e), put[e].options.picture = NoPicture
  PROVE  UNCHANGED revs
BY DEF Update, Appended

(* A picture has been read when the document is written. *)
ReadFirst == \A e \in Tabs : put[e].pc = "read" => put[e].read # NoPicture

LEMMA UpdateType == ASSUME TypeOK, ReadFirst, NEW e \in Tabs, Update(e) PROVE TypeOK'
<1>0. put[e] \in Put /\ Version \in Nat /\ put[e].read \in Pictures \cup {Base}
  BY OwnType, LenProperties DEF TypeOK, Version, Put, ReadFirst, Update
<1>1. log' \in Seq(Entry) /\ revs' \in Seq(Revision)
  BY <1>0, Updated, PicturesAssumption
<1>2. [put[e] EXCEPT !.pc = "committed", !.version = Version + 1] \in Put
  <2>1. Version + 1 \in Nat
    BY <1>0
  <2>. QED
    BY <1>0, <2>1 DEF Put
<1>3. put' \in [Tabs -> Put]
  BY <1>2 DEF Update, TypeOK
<1>. QED
  BY <1>0, <1>1, <1>3 DEF Update, TypeOK, Store

(* The end of a save. *)
Settles(e) == Saved(e) \/ Conflicts(e) \/ ConflictsUnread(e) \/ SaveFails(e)

LEMMA SettlesType == ASSUME TypeOK, NEW e \in Tabs, Settles(e) PROVE TypeOK'
<1>1. faults' \in 0..MaxFaults
  BY FaultType DEF Settles, Saved, Conflicts, ConflictsUnread, SaveFails
<1>2. CASE Saved(e)
  BY <1>1, <1>2, HeardType, EndsType DEF Saved
<1>3. CASE Conflicts(e)
  BY <1>1, <1>3, HeardType, EndsType DEF Conflicts
<1>4. CASE ConflictsUnread(e)
  BY <1>1, <1>4, HeardType, EndsType DEF ConflictsUnread
<1>5. CASE SaveFails(e)
  BY <1>1, <1>5, HeardType, EndsType DEF SaveFails
<1>. QED
  BY <1>2, <1>3, <1>4, <1>5 DEF Settles

LEMMA WorkFailsType == ASSUME TypeOK, NEW e \in Tabs, WorkFails(e) PROVE TypeOK'
<1>1. [tab[e] EXCEPT !.work = NoPicture] \in Controller
  BY OwnType DEF Controller
<1>2. tab' = [tab EXCEPT ![e] = [tab[e] EXCEPT !.work = NoPicture]] /\ UNCHANGED <<Document, Store, load, put>>
  BY DEF WorkFails
<1>3. faults' \in 0..MaxFaults
  BY FaultType DEF WorkFails
<1>. QED
  BY <1>1, <1>2, <1>3, OwnType, TabType

(* The steps of one tab. *)
TabStep(e) == User(e) \/ Loading(e) \/ Saving(e) \/ Working(e)

LEMMA TabSteps ==
  ASSUME NEW e \in Tabs, TabStep(e)
  PROVE  \/ Hydrate(e) \/ Reload(e) \/ Close(e) \/ Begins(e) \/ \E p \in Pictures : Start(e, p)
         \/ Loaded(e) \/ LoadedBack(e) \/ LoadFails(e)
         \/ OnServer(e) \/ Update(e) \/ Settles(e) \/ WorkFails(e)
BY DEF TabStep, User, Loading, Saving, Working, Begins, OnServer, Settles

LEMMA TabStepType == ASSUME TypeOK, ReadFirst, NEW e \in Tabs, TabStep(e) PROVE TypeOK'
<1>1. CASE Begins(e)
  BY <1>1, BeginsWith, BeginSaveType
<1>. QED
  BY <1>1, TabSteps, HydrateType, ReloadType, CloseType, StartType, LoadingType, OnServerType,
     UpdateType, SettlesType, WorkFailsType DEF Loading

LEMMA NextType == TypeOK /\ ReadFirst /\ [Next]_vars => TypeOK'
<1> SUFFICES ASSUME TypeOK, ReadFirst, [Next]_vars PROVE TypeOK'
  OBVIOUS
<1>1. CASE UNCHANGED vars
  BY <1>1 DEF vars, TypeOK
<1>. QED
  BY <1>1, ServerType, TabStepType DEF Next, TabStep
-----------------------------------------------------------------------------
(* What the steps of a tab do to its state. *)

LEMMA Frame ==
  ASSUME TypeOK, NEW e \in Tabs, TabStep(e), NEW f \in Tabs, f # e
  PROVE  tab'[f] = tab[f] /\ load'[f] = load[f] /\ put'[f] = put[f]
<1>1. CASE Begins(e)
  BY <1>1, BeginsWith DEF BeginSave, TypeOK
<1>2. CASE Hydrate(e) \/ Reload(e) \/ Close(e) \/ \E p \in Pictures : Start(e, p)
  BY <1>2 DEF Hydrate, Reload, Close, Start, TypeOK
<1>3. CASE Loaded(e) \/ LoadedBack(e) \/ LoadFails(e)
  BY <1>3 DEF Loaded, LoadedBack, LoadFails, TypeOK
<1>4. CASE OnServer(e) \/ Update(e) \/ WorkFails(e)
  BY <1>4 DEF OnServer, ReadCurrent, UpdateConflicts, FetchLatest, ReadBack, Update, WorkFails, TypeOK
<1>5. CASE Settles(e)
  BY <1>5 DEF Settles, Saved, Conflicts, ConflictsUnread, SaveFails, Ends, TypeOK
<1>. QED
  BY <1>1, <1>2, <1>3, <1>4, <1>5, TabSteps

SameDraft(e) ==
  /\ tab'[e].version = tab[e].version /\ tab'[e].basis = tab[e].basis
  /\ tab'[e].told = tab[e].told /\ tab'[e].retained = tab[e].retained

LEMMA HydrateDoes ==
  ASSUME TypeOK, NEW e \in Tabs, Hydrate(e)
  PROVE  /\ SameDraft(e) /\ tab'[e].work = tab[e].work /\ tab'[e].save = "idle"
         /\ tab'[e].open = "hydrating" /\ load'[e].pc = "create"
         /\ UNCHANGED <<Document, Store, put>>
BY OwnType DEF Hydrate, SameDraft, TypeOK, Controller, Load

LEMMA ReloadDoes ==
  ASSUME TypeOK, NEW e \in Tabs, Reload(e)
  PROVE  /\ SameDraft(e) /\ tab'[e].work = tab[e].work /\ tab'[e].save = tab[e].save
         /\ tab'[e].open = "hydrating" /\ load'[e].pc = "get"
         /\ UNCHANGED <<Document, Store, put>>
BY OwnType DEF Reload, SameDraft, TypeOK, Controller, Load

LEMMA CloseDoes ==
  ASSUME TypeOK, NEW e \in Tabs, Close(e)
  PROVE  /\ SameDraft(e) /\ tab'[e].work \in {tab[e].work, NoPicture} /\ tab'[e].save = tab[e].save
         /\ tab'[e].open = "closed" /\ load'[e] = NoLoad
         /\ UNCHANGED <<Document, Store, put>>
BY OwnType DEF Close, SameDraft, TypeOK, Controller

LEMMA BeginSaveDoes ==
  ASSUME TypeOK, NEW e \in Tabs, NEW o \in Options, BeginSave(e, o)
  PROVE  /\ SameDraft(e) /\ tab'[e].work = tab[e].work /\ tab'[e].save = "saving"
         /\ tab'[e].open = tab[e].open /\ put[e].pc = "none" /\ put'[e] = Sent(e, o)
BY OwnType DEF BeginSave, SameDraft, TypeOK, Controller

LEMMA StartDoes ==
  ASSUME TypeOK, NEW e \in Tabs, NEW p \in Pictures, Start(e, p)
  PROVE  /\ SameDraft(e) /\ tab'[e].work = p /\ tab'[e].save = tab[e].save
         /\ tab'[e].open = tab[e].open /\ tab[e].open = "ready"
         /\ tab[e].work = NoPicture /\ tab[e].save # "saving" /\ put[e].pc = "none"
         /\ making[p] = "no" /\ making' = [making EXCEPT ![p] = "asked"]
         /\ UNCHANGED <<Document, rows, objects, load, put>>
BY OwnType DEF Start, SameDraft, TypeOK, Controller, UserMay, Busy

LEMMA LoadedDoes ==
  ASSUME TypeOK, NEW e \in Tabs, Loaded(e)
  PROVE  /\ load[e].pc \in {"create", "get"} /\ load'[e].pc = "back" /\ load'[e].version = Len(log')
         /\ UNCHANGED <<current, revs, Store, tab, put>>
BY OwnType DEF Loaded, TypeOK

LEMMA LoadedBackDoes ==
  ASSUME TypeOK, NEW e \in Tabs, LoadedBack(e)
  PROVE  /\ load[e].pc = "back" /\ load'[e] = NoLoad
         /\ tab'[e].open = "ready" /\ tab'[e].save = "idle" /\ tab'[e].told = 0
         /\ tab'[e].version = load[e].version /\ tab'[e].basis = load[e].version
         /\ tab'[e].retained = Plain /\ tab'[e].work = tab[e].work
         /\ put'[e].pc = put[e].pc /\ put'[e].version = put[e].version
         /\ put'[e].basis = put[e].basis /\ put'[e].told = put[e].told
         /\ put'[e].options = put[e].options /\ put'[e].read = put[e].read
         /\ UNCHANGED <<Document, Store>>
BY OwnType DEF LoadedBack, TypeOK, Controller, Put

LEMMA LoadFailsDoes ==
  ASSUME TypeOK, NEW e \in Tabs, LoadFails(e)
  PROVE  /\ SameDraft(e) /\ tab'[e].work = tab[e].work /\ tab'[e].save = tab[e].save
         /\ tab'[e].open = "error" /\ load'[e] = NoLoad
         /\ UNCHANGED <<Document, Store, put>>
BY OwnType DEF LoadFails, SameDraft, TypeOK, Controller

LEMMA OnServerDoes ==
  ASSUME TypeOK, NEW e \in Tabs, OnServer(e)
  PROVE  /\ UNCHANGED <<Document, Store, tab, load>>
         /\ put'[e].basis = put[e].basis /\ put'[e].options = put[e].options
         /\ put[e].pc # "committed" => put'[e].told = put[e].told
         /\ \/ /\ put[e].pc = "sent" /\ put'[e].pc = "read" /\ put'[e].version = put[e].version
               /\ put'[e].read = IF put[e].options.picture = NoPicture THEN current
                                 ELSE put[e].options.picture
            \/ /\ put[e].pc = "read" /\ put'[e].pc = "conflict" /\ put'[e].version = put[e].version
               /\ put'[e].read = put[e].read
            \/ /\ put[e].pc = "conflict" /\ put'[e].pc = "latest" /\ put'[e].version = Version
               /\ put'[e].read = put[e].read
            \/ /\ put[e].pc = "committed" /\ put'[e].pc = "stored" /\ put'[e].version = Version
               /\ put'[e].told = IF Version = put[e].version THEN 0 ELSE Version
               /\ put'[e].read = put[e].read
BY OwnType DEF OnServer, ReadCurrent, UpdateConflicts, FetchLatest, ReadBack, TypeOK, Put

LEMMA UpdateDoes ==
  ASSUME TypeOK, NEW e \in Tabs, Update(e)
  PROVE  /\ put[e].pc = "read" /\ put[e].version = Version /\ current' = put[e].read
         /\ put'[e].pc = "committed" /\ put'[e].version = Version + 1
         /\ put'[e].basis = put[e].basis /\ put'[e].told = put[e].told
         /\ put'[e].options = put[e].options /\ put'[e].read = put[e].read
         /\ UNCHANGED <<Store, tab, load>>
BY OwnType DEF Update, IsCurrent, TypeOK, Put

LEMMA EndsDoes ==
  ASSUME TypeOK, NEW e \in Tabs, NEW heard \in Controller, Ends(e, heard), heard.open = tab[e].open
  PROVE  /\ put'[e] = NoPut /\ tab'[e].work = NoPicture /\ tab'[e].open = tab[e].open
         /\ UNCHANGED <<Document, Store, load>>
         /\ \/ SameDraft(e) /\ tab[e].open = "closed" /\ tab'[e].save \in {tab[e].save, "idle"}
            \/ /\ tab'[e].version = heard.version /\ tab'[e].basis = heard.basis
               /\ tab'[e].told = heard.told /\ tab'[e].retained = heard.retained
               /\ tab'[e].save \in {heard.save, "idle"}
<1> DEFINE r == IF tab[e].open = "closed" THEN tab[e] ELSE heard
<1>1. r \in Controller /\ r.open = tab[e].open
  BY OwnType
<1>2. tab'[e] = [r EXCEPT !.work = NoPicture, !.save = IF r.save = "saving" THEN "idle" ELSE r.save]
  BY DEF Ends, TypeOK
<1>3. put'[e] = NoPut /\ UNCHANGED <<Document, Store, load>>
  BY DEF Ends, TypeOK
<1>4. (r = tab[e] /\ tab[e].open = "closed") \/ r = heard
  OBVIOUS
<1> HIDE DEF r
<1>5. /\ tab'[e].work = NoPicture /\ tab'[e].open = r.open
      /\ tab'[e].version = r.version /\ tab'[e].basis = r.basis
      /\ tab'[e].told = r.told /\ tab'[e].retained = r.retained
      /\ tab'[e].save \in {r.save, "idle"}
  BY <1>1, <1>2 DEF Controller
<1>. QED
  BY <1>1, <1>3, <1>4, <1>5 DEF SameDraft

LEMMA SettlesDoes ==
  ASSUME TypeOK, NEW e \in Tabs, Settles(e)
  PROVE  /\ put'[e] = NoPut /\ tab'[e].work = NoPicture /\ tab'[e].open = tab[e].open
         /\ UNCHANGED <<Document, Store, load>> /\ put[e].pc # "none"
         /\ \/ SameDraft(e) /\ tab[e].open = "closed" /\ tab'[e].save \in {tab[e].save, "idle"}
            \/ /\ put[e].pc = "stored" /\ tab'[e].save \in {"saved", "idle"}
               /\ tab'[e].version = put[e].version /\ tab'[e].retained = Plain
               /\ \/ tab'[e].basis = put[e].version
                  \/ /\ tab'[e].basis = tab[e].basis
                     /\ tab'[e].told = IF put[e].told = 0 THEN tab[e].told ELSE put[e].told
            \/ /\ put[e].pc = "latest" /\ tab'[e].save \in {"conflict", "idle"}
               /\ tab'[e].version = put[e].version /\ tab'[e].told = put[e].version
               /\ tab'[e].basis = tab[e].basis /\ tab'[e].retained = put[e].options
            \/ /\ put[e].pc = "conflict" /\ tab'[e].save \in {"conflict", "idle"}
               /\ tab'[e].version = tab[e].version /\ tab'[e].told = tab[e].told
               /\ tab'[e].basis = tab[e].basis /\ tab'[e].retained = put[e].options
            \/ /\ tab'[e].save \in {"error", "idle"}
               /\ tab'[e].version = tab[e].version /\ tab'[e].told = tab[e].told
               /\ tab'[e].basis = tab[e].basis /\ tab'[e].retained = put[e].options
<1>0. tab[e] \in Controller
  BY OwnType
<1>1. CASE Saved(e)
  <2> DEFINE h == [tab[e] EXCEPT !.version = put[e].version, !.retained = Plain,
                     !.save = IF put[e].fresh THEN "saved" ELSE "idle",
                     !.basis = IF put[e].fresh THEN put[e].version ELSE @,
                     !.told = IF put[e].fresh THEN 0 ELSE IF put[e].told = 0 THEN @ ELSE put[e].told]
  <2>1. h \in Controller /\ Ends(e, h) /\ put[e].pc = "stored"
    BY <1>1, HeardType DEF Saved
  <2>2. /\ h.open = tab[e].open /\ h.version = put[e].version /\ h.retained = Plain
        /\ h.save \in {"saved", "idle"}
    BY <1>0 DEF Controller
  <2>3. \/ h.basis = put[e].version
        \/ h.basis = tab[e].basis /\ h.told = IF put[e].told = 0 THEN tab[e].told ELSE put[e].told
    <3>1. CASE put[e].fresh
      BY <1>0, <3>1 DEF Controller
    <3>2. CASE ~put[e].fresh
      BY <1>0, <3>2 DEF Controller
    <3>. QED
      BY <3>1, <3>2
  <2> HIDE DEF h
  <2>. QED
    BY <2>1, <2>2, <2>3, EndsDoes
<1>2. CASE Conflicts(e)
  <2> DEFINE h == [tab[e] EXCEPT !.version = put[e].version, !.told = put[e].version,
                     !.retained = put[e].options, !.save = "conflict"]
  <2>1. h \in Controller /\ Ends(e, h) /\ put[e].pc = "latest"
    BY <1>2, HeardType DEF Conflicts
  <2>2. /\ h.open = tab[e].open /\ h.version = put[e].version /\ h.told = put[e].version
        /\ h.retained = put[e].options /\ h.save = "conflict" /\ h.basis = tab[e].basis
    BY <1>0 DEF Controller
  <2> HIDE DEF h
  <2>. QED
    BY <2>1, <2>2, EndsDoes
<1>3. ASSUME NEW how \in {"conflict", "error"},
             Ends(e, [tab[e] EXCEPT !.retained = put[e].options, !.save = how]),
             put[e].pc # "none", how = "conflict" => put[e].pc = "conflict"
      PROVE  /\ put'[e] = NoPut /\ tab'[e].work = NoPicture /\ tab'[e].open = tab[e].open
             /\ UNCHANGED <<Document, Store, load>>
             /\ \/ SameDraft(e) /\ tab[e].open = "closed" /\ tab'[e].save \in {tab[e].save, "idle"}
                \/ /\ tab'[e].save \in {how, "idle"}
                   /\ tab'[e].version = tab[e].version /\ tab'[e].told = tab[e].told
                   /\ tab'[e].basis = tab[e].basis /\ tab'[e].retained = put[e].options
  <2> DEFINE h == [tab[e] EXCEPT !.retained = put[e].options, !.save = how]
  <2>1. h \in Controller /\ Ends(e, h)
    BY <1>3, HeardType
  <2>2. /\ h.open = tab[e].open /\ h.version = tab[e].version /\ h.told = tab[e].told
        /\ h.retained = put[e].options /\ h.save = how /\ h.basis = tab[e].basis
    BY <1>0 DEF Controller
  <2> HIDE DEF h
  <2>. QED
    BY <2>1, <2>2, EndsDoes
<1>4. CASE ConflictsUnread(e)
  BY <1>3, <1>4 DEF ConflictsUnread
<1>5. CASE SaveFails(e)
  BY <1>3, <1>5 DEF SaveFails
<1>. QED
  BY <1>1, <1>2, <1>4, <1>5 DEF Settles

LEMMA WorkFailsDoes ==
  ASSUME TypeOK, NEW e \in Tabs, WorkFails(e)
  PROVE  /\ SameDraft(e) /\ tab'[e].work = NoPicture /\ tab'[e].save = tab[e].save
         /\ tab'[e].open = tab[e].open /\ put[e].pc = "none"
         /\ UNCHANGED <<Document, Store, load, put>>
BY OwnType DEF WorkFails, SameDraft, TypeOK, Controller
-----------------------------------------------------------------------------
(* Only pictures whose row and object are there get near the document.      *)

Kept(p) == p \in Pictures /\ making[p] = "kept"

KeptAreStored ==
  \A p \in Pictures :
    /\ making[p] = "stored" => p \in objects
    /\ making[p] = "kept" => p \in rows \cap objects

Chosen(p) == p \in {Base, NoPicture} \/ Kept(p)

Picks(e) ==
  /\ Chosen(tab[e].retained.picture) /\ Chosen(put[e].options.picture)
  /\ put[e].pc = "read" => Chosen(put[e].read) /\ put[e].read # NoPicture

Picked ==
  /\ current = Base \/ Kept(current)
  /\ \A i \in DOMAIN revs : revs[i].picture = Base \/ Kept(revs[i].picture)
  /\ \A e \in Tabs : Picks(e)

LEMMA PickedRead == Picked => ReadFirst
BY DEF Picked, Picks, ReadFirst

LEMMA KeptNext ==
  TypeOK /\ KeptAreStored /\ [Next]_vars => KeptAreStored' /\ \A p : Kept(p) => Kept(p)'
<1> SUFFICES ASSUME TypeOK, KeptAreStored, [Next]_vars
             PROVE  KeptAreStored' /\ \A p : Kept(p) => Kept(p)'
  OBVIOUS
<1>1. ASSUME NEW p \in Pictures, Server(p) PROVE KeptAreStored' /\ \A q : Kept(q) => Kept(q)'
  <2>1. CASE PutObject(p)
    BY <2>1 DEF PutObject, Make, TypeOK, KeptAreStored, Kept
  <2>2. CASE CommitRow(p)
    <3>1. p \in objects
      BY <2>2 DEF CommitRow, KeptAreStored
    <3>. QED
      BY <2>2, <3>1 DEF CommitRow, Make, TypeOK, KeptAreStored, Kept
  <2>3. CASE CommitFails(p)
    BY <2>3 DEF CommitFails, Make, TypeOK, KeptAreStored, Kept
  <2>4. CASE DropObject(p)
    BY <2>4 DEF DropObject, Make, TypeOK, KeptAreStored, Kept
  <2>5. CASE MakingFails(p)
    BY <2>5 DEF MakingFails, Make, TypeOK, KeptAreStored, Kept
  <2>. QED
    BY <1>1, <2>1, <2>2, <2>3, <2>4, <2>5 DEF Server
<1>2. ASSUME NEW e \in Tabs, TabStep(e) PROVE KeptAreStored' /\ \A q : Kept(q) => Kept(q)'
  <2>1. CASE \E p \in Pictures : Start(e, p)
    BY <2>1 DEF Start, TypeOK, KeptAreStored, Kept
  <2>2. CASE ~\E p \in Pictures : Start(e, p)
    <3>1. UNCHANGED Store
      <4>1. CASE Begins(e)
        BY <4>1, BeginsWith
      <4>2. CASE Hydrate(e) \/ Reload(e) \/ Close(e)
        BY <4>2 DEF Hydrate, Reload, Close
      <4>3. CASE Loaded(e) \/ LoadedBack(e) \/ LoadFails(e)
        BY <4>3 DEF Loaded, LoadedBack, LoadFails
      <4>4. CASE OnServer(e) \/ Update(e) \/ WorkFails(e)
        BY <4>4, OnServerDoes, UpdateDoes, WorkFailsDoes
      <4>5. CASE Settles(e)
        BY <4>5, SettlesDoes
      <4>. QED
        BY <1>2, <2>2, <4>1, <4>2, <4>3, <4>4, <4>5, TabSteps
    <3>. QED
      BY <3>1 DEF Store, KeptAreStored, Kept
  <2>. QED
    BY <2>1, <2>2
<1>3. CASE UNCHANGED vars
  BY <1>3 DEF vars, KeptAreStored, Kept
<1>. QED
  BY <1>1, <1>2, <1>3 DEF Next, TabStep

(* Steps of a tab after which it has no picture it had not chosen. *)
LEMMA PickedByTab ==
  ASSUME TypeOK, Picked, NEW e \in Tabs, TabStep(e), \A p : Kept(p) => Kept(p)',
         UNCHANGED <<current, revs>>, Picks(e)'
  PROVE  Picked'
<1>1. ASSUME NEW f \in Tabs, f # e PROVE Picks(f)'
  <2>1. tab'[f] = tab[f] /\ put'[f] = put[f] /\ Picks(f)
    BY <1>1, Frame DEF Picked
  <2>. QED
    BY <2>1 DEF Picks, Chosen
<1>. QED
  BY <1>1 DEF Picked

(* A tab that does not change stays as it was. *)
LEMMA PicksKept ==
  ASSUME Picked, NEW e \in Tabs, \A p : Kept(p) => Kept(p)',
         tab'[e].retained.picture = tab[e].retained.picture, put'[e] = put[e]
  PROVE  Picks(e)'
BY DEF Picked, Picks, Chosen

LEMMA BlankPictures ==
  Plain.picture = NoPicture /\ ~Plain.result /\ NoPut.options = Plain /\ NoPut.pc = "none"
BY DEF Plain, NoPut

LEMMA PickedNext == TypeOK /\ KeptAreStored /\ Picked /\ [Next]_vars => Picked'
<1> SUFFICES ASSUME TypeOK, KeptAreStored, Picked, [Next]_vars PROVE Picked'
  OBVIOUS
<1>0. \A p : Kept(p) => Kept(p)'
  BY KeptNext
<1>1. CASE UNCHANGED <<current, revs, tab, put>>
  <2>1. \A e \in Tabs : Picks(e)'
    BY <1>0, <1>1 DEF Picked, Picks, Chosen
  <2>. QED
    BY <1>0, <1>1, <2>1 DEF Picked
<1>2. ASSUME NEW e \in Tabs, TabStep(e) PROVE Picked'
  <2>1. CASE Begins(e)
    <3>1. PICK o \in Options : /\ BeginSave(e, o) /\ MaySave(e, o)
                               /\ UNCHANGED <<Document, Store, load, faults>>
      BY <2>1, BeginsWith
    <3>2. Chosen(o.picture)
      <4>1. CASE o.picture = tab[e].work /\ tab[e].work # NoPicture /\ making[o.picture] = "kept"
        <5>1. tab[e].work \in Pictures \cup {NoPicture}
          BY OwnType DEF Controller
        <5>. QED
          BY <4>1, <5>1 DEF Chosen, Kept
      <4>2. CASE o = tab[e].retained
        BY <4>2 DEF Picked, Picks
      <4>3. CASE \E i \in DOMAIN revs : revs[i].picture = o.picture
        BY <4>3 DEF Picked, Chosen
      <4>4. CASE o = Plain \/ o.picture = Base
        BY <4>4, BlankPictures DEF Chosen
      <4>. QED
        BY <3>1, <4>1, <4>2, <4>3, <4>4 DEF MaySave
    <3>3. /\ tab'[e].retained = tab[e].retained /\ put'[e].options = o /\ put'[e].pc = "sent"
          /\ UNCHANGED <<current, revs>>
      BY <3>1, BeginSaveDoes, SentType DEF SameDraft, Document
    <3>4. Picks(e)'
      BY <1>0, <3>2, <3>3 DEF Picked, Picks, Chosen
    <3>. QED
      BY <1>0, <1>2, <3>3, <3>4, PickedByTab
  <2>2. CASE Hydrate(e) \/ Reload(e) \/ Close(e) \/ LoadFails(e) \/ WorkFails(e)
             \/ \E p \in Pictures : Start(e, p)
    <3>1. SameDraft(e) /\ UNCHANGED <<current, revs, put>>
      BY <2>2, HydrateDoes, ReloadDoes, CloseDoes, LoadFailsDoes, WorkFailsDoes, StartDoes DEF Document
    <3>2. Picks(e)'
      BY <1>0, <3>1, PicksKept DEF SameDraft
    <3>. QED
      BY <1>0, <1>2, <3>1, <3>2, PickedByTab
  <2>3. CASE Loaded(e)
    BY <1>1, <2>3, LoadedDoes
  <2>4. CASE LoadedBack(e)
    <3>1. /\ tab'[e].retained = Plain /\ UNCHANGED <<current, revs>>
          /\ put'[e].pc = put[e].pc /\ put'[e].options = put[e].options /\ put'[e].read = put[e].read
      BY <2>4, LoadedBackDoes DEF Document
    <3>2. Picks(e)'
      BY <1>0, <3>1, BlankPictures DEF Picked, Picks, Chosen
    <3>. QED
      BY <1>0, <1>2, <3>1, <3>2, PickedByTab
  <2>5. CASE OnServer(e)
    <3>1. /\ UNCHANGED <<current, revs, tab>> /\ put'[e].options = put[e].options
          /\ put'[e].pc = "read" =>
               put'[e].read = IF put[e].options.picture = NoPicture THEN current ELSE put[e].options.picture
      BY <2>5, OnServerDoes DEF Document
    <3>2. Chosen(current) /\ current # NoPicture
      BY PicturesAssumption DEF Picked, Chosen, Kept
    <3>3. Picks(e)'
      BY <1>0, <3>1, <3>2 DEF Picked, Picks, Chosen
    <3>. QED
      BY <1>0, <1>2, <3>1, <3>3, PickedByTab
  <2>6. CASE Update(e)
    <3>1. /\ put[e].pc = "read" /\ current' = put[e].read /\ UNCHANGED tab
          /\ put'[e].pc = "committed" /\ put'[e].options = put[e].options
      BY <2>6, UpdateDoes
    <3>2. put[e].read = Base \/ Kept(put[e].read)
      BY <3>1 DEF Picked, Picks, Chosen
    <3>3. put[e].read # NoPicture
      BY <3>1 DEF Picked, Picks
    <3>4. \A i \in DOMAIN revs' : \/ i \in DOMAIN revs /\ revs'[i] = revs[i]
                                  \/ revs'[i].picture = put[e].read
      <4>1. CASE put[e].options.picture = NoPicture
        BY <2>6, <4>1, PlainUpdate
      <4>2. CASE put[e].options.picture # NoPicture
        BY <2>6, <3>3, <4>2, UpdatedRevisions
      <4>. QED
        BY <4>1, <4>2
    <3>5. Picks(e)'
      BY <1>0, <3>1 DEF Picked, Picks, Chosen
    <3>6. ASSUME NEW f \in Tabs PROVE Picks(f)'
      <4>1. CASE f # e
        <5>1. tab'[f] = tab[f] /\ put'[f] = put[f]
          BY <1>2, <4>1, Frame
        <5>. QED
          BY <1>0, <5>1, PicksKept
      <4>. QED
        BY <3>5, <4>1
    <3>. QED
      BY <1>0, <3>1, <3>2, <3>4, <3>6 DEF Picked
  <2>7. CASE Settles(e)
    <3>1. /\ put'[e] = NoPut /\ UNCHANGED <<current, revs>>
          /\ tab'[e].retained \in {tab[e].retained, Plain, put[e].options}
      BY <2>7, SettlesDoes DEF SameDraft, Document
    <3>2. Picks(e)'
      BY <1>0, <3>1, BlankPictures DEF Picked, Picks, Chosen
    <3>. QED
      BY <1>0, <1>2, <3>1, <3>2, PickedByTab
  <2>. QED
    BY <1>2, <2>1, <2>2, <2>3, <2>4, <2>5, <2>6, <2>7, TabSteps
<1>3. ASSUME NEW p \in Pictures, Server(p) PROVE UNCHANGED <<current, revs, tab, put>>
  BY <1>3 DEF Server, PutObject, CommitRow, CommitFails, DropObject, MakingFails, Make, Document
<1>4. CASE UNCHANGED vars
  BY <1>1, <1>4 DEF vars
<1>. QED
  BY <1>1, <1>2, <1>3, <1>4 DEF Next, TabStep

LEMMA PickedAlways == Spec => [](TypeOK /\ KeptAreStored /\ Picked)
<1>1. Init => KeptAreStored /\ Picked
  <2> SUFFICES ASSUME Init PROVE KeptAreStored /\ Picked
    OBVIOUS
  <2>1. KeptAreStored
    BY DEF Init, KeptAreStored
  <2>2. \A e \in Tabs : Picks(e)
    BY DEF Init, Closed, NoPut, Plain, Picks, Chosen
  <2>. QED
    BY <2>1, <2>2 DEF Init, Picked
<1>2. TypeOK /\ KeptAreStored /\ Picked /\ [Next]_vars => TypeOK' /\ KeptAreStored' /\ Picked'
  BY NextType, PickedRead, KeptNext, PickedNext
<1>. QED
  BY <1>1, <1>2, InitType, PTL DEF Spec

(* The state is always of the declared shape, whatever versions there are. *)
THEOREM EditorTypes == Spec => []TypeOK
BY PickedAlways, PTL

(* A document never refers to a picture without its row or its object,      *)
(* although a commit whose answer is lost leaves a row without an object:   *)
(* a picture is committed only once its asset is complete, and is kept.     *)
THEOREM PicturesCanBeOpened == Spec => []RevisionsAreStored
<1>1. KeptAreStored /\ Picked => RevisionsAreStored
  BY DEF KeptAreStored, Picked, RevisionsAreStored, Kept
<1>. QED
  BY <1>1, PickedAlways, PTL
-----------------------------------------------------------------------------
(* A save that is let through has read the document it replaces.            *)

ReadsCurrent(e) ==
  /\ tab[e].version <= Len(log) /\ put[e].version <= Len(log) /\ load[e].version <= Len(log)
  /\ put[e].pc = "read" /\ put[e].options.picture = NoPicture /\ put[e].version = Len(log)
       => put[e].read = current

Current == CurrentIsLastRevision /\ \A e \in Tabs : ReadsCurrent(e)

LEMMA VersionTypes ==
  ASSUME TypeOK
  PROVE  /\ Len(log) \in Nat /\ Version = Len(log)
         /\ \A e \in Tabs : /\ {tab[e].version, tab[e].basis, tab[e].told} \subseteq Nat
                            /\ {put[e].version, put[e].basis, put[e].told} \subseteq Nat
                            /\ load[e].version \in Nat
<1>1. Len(log) \in Nat /\ Version = Len(log)
  BY LenProperties DEF TypeOK, Version
<1>2. ASSUME NEW e \in Tabs PROVE {tab[e].version, tab[e].basis, tab[e].told} \subseteq Nat
  BY OwnType DEF Controller
<1>3. ASSUME NEW e \in Tabs PROVE {put[e].version, put[e].basis, put[e].told} \subseteq Nat
  BY OwnType DEF Put
<1>4. ASSUME NEW e \in Tabs PROVE load[e].version \in Nat
  BY OwnType DEF Load
<1>. QED
  BY <1>1, <1>2, <1>3, <1>4

(* Only loading and an update write the log. *)
LEMMA LogKept ==
  ASSUME TypeOK, [Next]_vars
  PROVE  UNCHANGED log \/ \E e \in Tabs : Loaded(e) \/ Update(e)
<1>3. ASSUME NEW e \in Tabs, TabStep(e), ~Loaded(e), ~Update(e) PROVE UNCHANGED log
  <2>1. CASE Begins(e)
    BY <2>1, BeginsWith DEF Document
  <2>2. CASE Hydrate(e) \/ Reload(e) \/ Close(e) \/ (\E p \in Pictures : Start(e, p)) \/ LoadedBack(e)
    BY <2>2 DEF Hydrate, Reload, Close, Start, LoadedBack, Document
  <2>3. CASE LoadFails(e) \/ OnServer(e) \/ WorkFails(e)
    BY <2>3, OnServerDoes DEF LoadFails, WorkFails, Document
  <2>4. CASE Settles(e)
    BY <2>4, SettlesDoes DEF Document
  <2>. QED
    BY <1>3, <2>1, <2>2, <2>3, <2>4, TabSteps
<1>4. ASSUME NEW p \in Pictures, Server(p) PROVE UNCHANGED log
  BY <1>4 DEF Server, PutObject, CommitRow, CommitFails, DropObject, MakingFails, Make, Document
<1>. QED
  BY <1>3, <1>4 DEF Next, TabStep, vars

LEMMA LogGrows ==
  ASSUME TypeOK, ReadFirst, [Next]_vars
  PROVE  /\ Len(log') \in Nat /\ Len(log) <= Len(log')
         /\ \A k \in 1..Len(log) : log'[k] = log[k]
<1>0. Len(log) \in Nat
  BY VersionTypes
<1>1. ASSUME NEW e \in Tabs, Loaded(e)
      PROVE  Len(log') \in Nat /\ Len(log) <= Len(log') /\ \A k \in 1..Len(log) : log'[k] = log[k]
  <2>1. Len(<<>>) = 0
    BY EmptySeq
  <2>2. CASE log = <<>>
    <3>1. Len(log') = 1
      BY <1>1, <2>2, LoadedLog
    <3>. QED
      BY <1>0, <2>1, <2>2, <3>1
  <2>3. CASE log # <<>>
    <3>1. log' = log
      BY <1>1, <2>3, LoadedLog
    <3>. QED
      BY <1>0, <3>1
  <2>. QED
    BY <2>2, <2>3
<1>2. ASSUME NEW e \in Tabs, Update(e)
      PROVE  Len(log') \in Nat /\ Len(log) <= Len(log') /\ \A k \in 1..Len(log) : log'[k] = log[k]
  <2>1. put[e].read # NoPicture
    BY <1>2, UpdateDoes DEF ReadFirst
  <2>. QED
    <3>1. Len(log') = Len(log) + 1 /\ \A v \in 1..Len(log) : log'[v] = log[v]
      BY <1>2, <2>1, UpdatedLog
    <3>. QED
      BY <1>0, <3>1
<1>. QED
  BY <1>0, <1>1, <1>2, LogKept

(* A tab that does not change need not look when the log grows. *)
LEMMA CurrentKept ==
  ASSUME TypeOK, NEW e \in Tabs, ReadsCurrent(e), Len(log) <= Len(log'), Len(log') \in Nat,
         tab'[e].version = tab[e].version, load'[e].version = load[e].version,
         put'[e] = put[e], Len(log') # Len(log) \/ UNCHANGED current
  PROVE  ReadsCurrent(e)'
BY VersionTypes DEF ReadsCurrent

LEMMA CurrentNext == TypeOK /\ Picked /\ Current /\ [Next]_vars => Current'
<1> SUFFICES ASSUME TypeOK, Picked, Current, [Next]_vars PROVE Current'
  OBVIOUS
<1>0. /\ Len(log) \in Nat /\ Len(log') \in Nat /\ Len(log) <= Len(log')
      /\ \A e \in Tabs : ReadsCurrent(e)
  BY VersionTypes, LogGrows, PickedRead DEF Current
<1>1. CASE UNCHANGED <<log, current, revs, tab, load, put>>
  BY <1>1 DEF Current, CurrentIsLastRevision, ReadsCurrent
<1>2. ASSUME NEW e \in Tabs, TabStep(e) PROVE Current'
  <2>0. ASSUME ReadsCurrent(e)', Len(log') # Len(log) \/ UNCHANGED current
        PROVE  \A f \in Tabs : ReadsCurrent(f)'
    <3>1. ASSUME NEW f \in Tabs, f # e PROVE ReadsCurrent(f)'
      <4>1. tab'[f] = tab[f] /\ load'[f] = load[f] /\ put'[f] = put[f]
        BY <1>2, <3>1, Frame
      <4>. QED
        BY <1>0, <2>0, <4>1, CurrentKept
    <3>. QED
      BY <2>0, <3>1
  <2>1. CASE Begins(e)
    <3>1. PICK o \in Options : BeginSave(e, o) /\ UNCHANGED <<Document, Store, load, faults>>
      BY <2>1, BeginsWith
    <3>2. /\ tab'[e].version = tab[e].version /\ put'[e].pc = "sent" /\ put'[e].version = tab[e].version
          /\ UNCHANGED <<log, current, revs, load>>
      BY <3>1, BeginSaveDoes, SentType DEF SameDraft, Document
    <3>. QED
      BY <1>0, <2>0, <3>2 DEF Current, CurrentIsLastRevision, ReadsCurrent
  <2>2. CASE Hydrate(e) \/ Reload(e) \/ Close(e) \/ LoadFails(e) \/ WorkFails(e)
             \/ \E p \in Pictures : Start(e, p)
    <3>1. tab'[e].version = tab[e].version /\ UNCHANGED <<log, current, revs, put>>
      BY <2>2, HydrateDoes, ReloadDoes, CloseDoes, LoadFailsDoes, WorkFailsDoes, StartDoes
         DEF SameDraft, Document
    <3>2. load'[e].version <= Len(log)
      <4>1. CASE Hydrate(e) \/ Reload(e)
        <5>1. load'[e].version = load[e].version
          BY <4>1, OwnType DEF Hydrate, Reload, TypeOK, Load
        <5>. QED
          BY <1>0, <5>1 DEF ReadsCurrent
      <4>2. CASE Close(e) \/ LoadFails(e)
        BY <1>0, <4>2, CloseDoes, LoadFailsDoes DEF NoLoad
      <4>3. CASE WorkFails(e) \/ \E p \in Pictures : Start(e, p)
        BY <1>0, <4>3 DEF WorkFails, Start, ReadsCurrent
      <4>. QED
        BY <2>2, <4>1, <4>2, <4>3
    <3>. QED
      BY <1>0, <2>0, <3>1, <3>2 DEF Current, CurrentIsLastRevision, ReadsCurrent
  <2>3. CASE Loaded(e)
    <3>1. load'[e].version = Len(log') /\ UNCHANGED <<current, revs, tab, put>>
      BY <2>3, LoadedDoes
    <3>2. Len(log') # Len(log) \/ UNCHANGED log
      BY <2>3, LoadedLog, EmptySeq
    <3>3. ReadsCurrent(e)'
      BY <1>0, <3>1, <3>2, VersionTypes DEF ReadsCurrent
    <3>. QED
      BY <2>0, <3>1, <3>3 DEF Current, CurrentIsLastRevision
  <2>4. CASE LoadedBack(e)
    <3>1. /\ tab'[e].version = load[e].version /\ load'[e] = NoLoad /\ NoLoad.version = 0
          /\ put'[e].pc = put[e].pc /\ put'[e].version = put[e].version
          /\ put'[e].options = put[e].options /\ put'[e].read = put[e].read
          /\ UNCHANGED <<log, current, revs>>
      BY <2>4, LoadedBackDoes DEF Document, NoLoad
    <3>. QED
      BY <1>0, <2>0, <3>1 DEF Current, CurrentIsLastRevision, ReadsCurrent
  <2>5. CASE OnServer(e)
    <3>1. /\ UNCHANGED <<log, current, revs, tab, load>> /\ put'[e].options = put[e].options
          /\ put'[e].version \in {put[e].version, Len(log)}
          /\ put'[e].pc = "read" =>
               put'[e].read = IF put[e].options.picture = NoPicture THEN current ELSE put[e].options.picture
      BY <2>5, OnServerDoes, VersionTypes DEF Document
    <3>. QED
      BY <1>0, <2>0, <3>1 DEF Current, CurrentIsLastRevision, ReadsCurrent
  <2>6. CASE Update(e)
    <3>1. /\ put[e].pc = "read" /\ put[e].version = Len(log) /\ current' = put[e].read
          /\ put'[e].pc = "committed" /\ put'[e].version = Len(log) + 1
          /\ UNCHANGED <<tab, load>>
      BY <2>6, UpdateDoes, VersionTypes
    <3>2. put[e].read # NoPicture
      BY <3>1 DEF Picked, Picks
    <3>3. Len(log') = Len(log) + 1
      BY <2>6, <3>2, UpdatedLog
    <3>4. ReadsCurrent(e)'
      BY <1>0, <3>1, <3>3, VersionTypes DEF ReadsCurrent
    <3>5. CurrentIsLastRevision'
      <4>1. CASE put[e].options.picture = NoPicture
        <5>1. UNCHANGED revs /\ current' = current
          BY <1>0, <2>6, <3>1, <4>1, PlainUpdate DEF ReadsCurrent
        <5>. QED
          BY <5>1 DEF Current, CurrentIsLastRevision
      <4>2. CASE put[e].options.picture # NoPicture
        <5>1. /\ revs' \in Seq(Revision) /\ Len(revs) \in Nat
              /\ Len(revs') = Len(revs) + 1 /\ revs'[Len(revs) + 1].picture = put[e].read
          BY <2>6, <3>2, <4>2, UpdatedRevisions
        <5>2. revs' # <<>> /\ Last(revs') = revs'[Len(revs) + 1]
          BY <5>1, EmptySeq DEF Last
        <5>. QED
          BY <3>1, <5>1, <5>2 DEF CurrentIsLastRevision
      <4>. QED
        BY <4>1, <4>2
    <3>. QED
      BY <1>0, <2>0, <3>3, <3>4, <3>5 DEF Current
  <2>7. CASE Settles(e)
    <3>1. /\ put'[e] = NoPut /\ UNCHANGED <<log, current, revs, load>>
          /\ tab'[e].version \in {tab[e].version, put[e].version}
      BY <2>7, SettlesDoes DEF SameDraft, Document
    <3>2. NoPut.version = 0 /\ NoPut.pc = "none"
      BY DEF NoPut
    <3>. QED
      BY <1>0, <2>0, <3>1, <3>2 DEF Current, CurrentIsLastRevision, ReadsCurrent
  <2>. QED
    BY <1>2, <2>1, <2>2, <2>3, <2>4, <2>5, <2>6, <2>7, TabSteps
<1>3. ASSUME NEW p \in Pictures, Server(p) PROVE UNCHANGED <<log, current, revs, tab, load, put>>
  BY <1>3 DEF Server, PutObject, CommitRow, CommitFails, DropObject, MakingFails, Make, Document
<1>4. CASE UNCHANGED vars
  BY <1>1, <1>4 DEF vars
<1>. QED
  BY <1>1, <1>2, <1>3, <1>4 DEF Next, TabStep

LEMMA CurrentAlways == Spec => []Current
<1>1. Init => Current
  <2> SUFFICES ASSUME Init PROVE Current
    OBVIOUS
  <2>1. \A e \in Tabs : ReadsCurrent(e)
    BY EmptySeq DEF Init, Closed, NoPut, NoLoad, ReadsCurrent
  <2>. QED
    BY <2>1 DEF Init, Current, CurrentIsLastRevision
<1>. QED
  BY <1>1, CurrentNext, PickedAlways, PTL DEF Spec

(* The picture a document shows is the one of its last revision, although a  *)
(* save without a picture writes back the one it read, without a lock,       *)
(* before its version was compared.                                          *)
THEOREM ShowsLastRevision == Spec => []CurrentIsLastRevision
<1>1. Current => CurrentIsLastRevision
  BY DEF Current
<1>. QED
  BY <1>1, CurrentAlways, PTL
-----------------------------------------------------------------------------
(* Every version after the one a draft comes from is the tab's own, or the  *)
(* tab has been told.                                                       *)

Knows(e, lo, hi, told) == \A k \in lo + 1 .. hi : log[k].by = e \/ k <= told

(* A save under way, or answered with the version it wrote itself. *)
OwnVersion(e) ==
  put[e].pc \in {"sent", "read", "committed"} \/ (put[e].pc = "stored" /\ put[e].told = 0)

Account(e) ==
  /\ Knows(e, tab[e].basis, tab[e].version, tab[e].told)
  /\ put[e].pc \in {"sent", "read"} => Knows(e, put[e].basis, put[e].version, put[e].told)
  /\ OwnVersion(e) => Knows(e, tab[e].basis, put[e].version, tab[e].told)
  /\ put[e].pc = "stored" => put[e].told \in {0, put[e].version}
  /\ load[e].pc = "back" /\ OwnVersion(e) =>
       Knows(e, load[e].version, put[e].version, 0)
  /\ load[e].pc = "back" /\ tab[e].work # NoPicture /\ put[e].pc = "none" =>
       Knows(e, load[e].version, tab[e].version, 0)
  /\ load[e].pc # "none" => tab[e].open = "hydrating"

Accounts == NoSilentOverwrite /\ \A e \in Tabs : Account(e)

(* What a tab knows of the versions there are remains so. *)
LEMMA StillKnows ==
  ASSUME TypeOK, ReadFirst, [Next]_vars, NEW e \in Tabs,
         NEW lo \in Nat, NEW hi \in Nat, NEW told \in Nat, hi <= Len(log), Knows(e, lo, hi, told)
  PROVE  \A k \in lo + 1 .. hi : log'[k].by = e \/ k <= told
<1>1. \A k \in lo + 1 .. hi : k \in 1..Len(log)
  BY VersionTypes
<1>2. \A k \in 1..Len(log) : log'[k] = log[k]
  BY LogGrows
<1>. QED
  BY <1>1, <1>2 DEF Knows

LEMMA KnowsKept ==
  ASSUME TypeOK, ReadFirst, [Next]_vars, NEW e \in Tabs, ReadsCurrent(e), Account(e)
  PROVE  /\ \A k \in tab[e].basis + 1 .. tab[e].version : log'[k].by = e \/ k <= tab[e].told
         /\ put[e].pc \in {"sent", "read"} =>
              \A k \in put[e].basis + 1 .. put[e].version : log'[k].by = e \/ k <= put[e].told
         /\ OwnVersion(e) =>
              \A k \in tab[e].basis + 1 .. put[e].version : log'[k].by = e \/ k <= tab[e].told
         /\ load[e].pc = "back" /\ OwnVersion(e) =>
              \A k \in load[e].version + 1 .. put[e].version : log'[k].by = e \/ k <= 0
         /\ load[e].pc = "back" /\ tab[e].work # NoPicture /\ put[e].pc = "none" =>
              \A k \in load[e].version + 1 .. tab[e].version : log'[k].by = e \/ k <= 0
<1>1. /\ {tab[e].version, tab[e].basis, tab[e].told} \subseteq Nat
      /\ {put[e].version, put[e].basis, put[e].told} \subseteq Nat
      /\ load[e].version \in Nat /\ 0 \in Nat
      /\ tab[e].version <= Len(log) /\ put[e].version <= Len(log)
  BY VersionTypes DEF ReadsCurrent
<1>2. \A k \in tab[e].basis + 1 .. tab[e].version : log'[k].by = e \/ k <= tab[e].told
  BY <1>1, StillKnows DEF Account
<1>3. ASSUME put[e].pc \in {"sent", "read"}
      PROVE  \A k \in put[e].basis + 1 .. put[e].version : log'[k].by = e \/ k <= put[e].told
  BY <1>1, <1>3, StillKnows DEF Account
<1>4. ASSUME OwnVersion(e)
      PROVE  \A k \in tab[e].basis + 1 .. put[e].version : log'[k].by = e \/ k <= tab[e].told
  BY <1>1, <1>4, StillKnows DEF Account
<1>5. ASSUME load[e].pc = "back" /\ OwnVersion(e)
      PROVE  \A k \in load[e].version + 1 .. put[e].version : log'[k].by = e \/ k <= 0
  BY <1>1, <1>5, StillKnows DEF Account
<1>6. ASSUME load[e].pc = "back" /\ tab[e].work # NoPicture /\ put[e].pc = "none"
      PROVE  \A k \in load[e].version + 1 .. tab[e].version : log'[k].by = e \/ k <= 0
  BY <1>1, <1>6, StillKnows DEF Account
<1>. QED
  BY <1>2, <1>3, <1>4, <1>5, <1>6

LEMMA AccountNext ==
  TypeOK /\ Picked /\ Current /\ Accounts /\ [Next]_vars => \A e \in Tabs : Account(e)'
<1> SUFFICES ASSUME TypeOK, Picked, Current, Accounts, [Next]_vars, NEW e \in Tabs
             PROVE  Account(e)'
  OBVIOUS
<1>0. ReadsCurrent(e) /\ Account(e) /\ ReadFirst
  BY PickedRead DEF Current, Accounts
<1>1. CASE tab'[e] = tab[e] /\ load'[e] = load[e] /\ put'[e] = put[e]
  BY <1>0, <1>1, KnowsKept DEF Account, Knows, OwnVersion
<1>2. CASE TabStep(e)
  <2>1. CASE Begins(e)
    <3>1. PICK o \in Options : /\ BeginSave(e, o) /\ MaySave(e, o)
                               /\ UNCHANGED <<Document, Store, load, faults>>
      BY <2>1, BeginsWith
    <3>2. /\ SameDraft(e) /\ tab'[e].work = tab[e].work /\ tab'[e].open = tab[e].open
          /\ put[e].pc = "none" /\ put'[e].pc = "sent" /\ put'[e].version = tab[e].version
          /\ put'[e].basis = tab[e].basis /\ put'[e].told = tab[e].told /\ UNCHANGED load
      BY <3>1, BeginSaveDoes, SentType
    <3>3. load[e].pc = "back" => tab[e].work # NoPicture
      BY <1>0, <3>1 DEF MaySave, UserMay, Account
    <3>. QED
      BY <1>0, <3>2, <3>3, KnowsKept DEF Account, Knows, OwnVersion, SameDraft
  <2>2. CASE Hydrate(e) \/ Reload(e)
    <3>1. /\ SameDraft(e) /\ tab'[e].work = tab[e].work /\ tab'[e].open = "hydrating"
          /\ load'[e].pc # "back" /\ UNCHANGED put
      BY <2>2, HydrateDoes, ReloadDoes
    <3>. QED
      BY <1>0, <3>1, KnowsKept DEF Account, Knows, OwnVersion, SameDraft
  <2>3. CASE Close(e) \/ LoadFails(e)
    <3>1. SameDraft(e) /\ load'[e].pc = "none" /\ UNCHANGED put
      BY <2>3, CloseDoes, LoadFailsDoes DEF NoLoad
    <3>. QED
      BY <1>0, <3>1, KnowsKept DEF Account, Knows, OwnVersion, SameDraft
  <2>4. CASE \E p \in Pictures : Start(e, p)
    <3>1. SameDraft(e) /\ tab[e].open = "ready" /\ tab'[e].open = "ready" /\ UNCHANGED <<load, put>>
      BY <2>4, StartDoes
    <3>. QED
      BY <1>0, <3>1, KnowsKept DEF Account, Knows, OwnVersion, SameDraft
  <2>5. CASE Loaded(e)
    <3>1. load[e].pc \in {"create", "get"} /\ load'[e].version = Len(log') /\ UNCHANGED <<tab, put>>
      BY <2>5, LoadedDoes
    <3>2. tab[e].version <= Len(log') /\ put[e].version <= Len(log') /\ Len(log') \in Nat
      BY <1>0, LogGrows, VersionTypes DEF ReadsCurrent
    <3>3. \A k \in Nat : k \notin Len(log') + 1 .. tab[e].version /\ k \notin Len(log') + 1 .. put[e].version
      BY <3>2, VersionTypes
    <3>4. \A k : k \notin Len(log') + 1 .. tab[e].version /\ k \notin Len(log') + 1 .. put[e].version
      BY <3>2, <3>3, VersionTypes
    <3>5. tab[e].open = "hydrating"
      BY <1>0, <3>1 DEF Account
    <3>. QED
      BY <1>0, <3>1, <3>4, <3>5, KnowsKept DEF Account, Knows, OwnVersion
  <2>6. CASE LoadedBack(e)
    <3>1. /\ load[e].pc = "back" /\ load'[e].pc = "none" /\ tab'[e].told = 0
          /\ tab'[e].version = load[e].version /\ tab'[e].basis = load[e].version
          /\ put'[e].pc = put[e].pc /\ put'[e].version = put[e].version
          /\ put'[e].basis = put[e].basis /\ put'[e].told = put[e].told
      BY <2>6, LoadedBackDoes DEF NoLoad
    <3>2. \A k : k \notin load[e].version + 1 .. load[e].version
      BY VersionTypes
    <3>. QED
      BY <1>0, <3>1, <3>2, KnowsKept DEF Account, Knows, OwnVersion
  <2>7. CASE OnServer(e)
    <3>1. /\ UNCHANGED <<tab, load>>
          /\ \/ /\ put[e].pc = "sent" /\ put'[e].pc = "read" /\ put'[e].version = put[e].version
                /\ put'[e].basis = put[e].basis /\ put'[e].told = put[e].told
             \/ put'[e].pc \in {"conflict", "latest"}
             \/ /\ put[e].pc = "committed" /\ put'[e].pc = "stored"
                /\ \/ put'[e].version = put[e].version /\ put'[e].told = 0
                   \/ put'[e].told = put'[e].version /\ put'[e].told # 0
      <4>1. put[e].version \in Nat /\ put[e].version <= Version /\ Version \in Nat
        BY <1>0, VersionTypes DEF ReadsCurrent
      <4>. QED
        BY <2>7, <4>1, OnServerDoes
    <3>. QED
      BY <1>0, <3>1, KnowsKept DEF Account, Knows, OwnVersion
  <2>8. CASE Update(e)
    <3>1. /\ put[e].pc = "read" /\ put[e].version = Len(log)
          /\ put'[e].pc = "committed" /\ put'[e].version = Len(log) + 1
          /\ UNCHANGED <<tab, load>>
      BY <2>8, UpdateDoes, VersionTypes
    <3>2. log'[Len(log) + 1].by = e
      <4>1. put[e].read # NoPicture
        BY <1>0, <3>1 DEF ReadFirst
      <4>2. log'[Len(log) + 1] = [by |-> e, basis |-> put[e].basis, told |-> put[e].told]
        BY <2>8, <4>1, UpdatedLog
      <4>. QED
        BY <4>2
    <3>3. Len(log) \in Nat /\ tab[e].basis \in Nat /\ load[e].version \in Nat
      BY VersionTypes
    <3>. QED
      BY <1>0, <3>1, <3>2, <3>3, KnowsKept DEF Account, Knows, OwnVersion
  <2>9. CASE Settles(e)
    <3>0. NoPut.pc = "none"
      BY DEF NoPut
    <3>1. /\ put'[e].pc = "none" /\ tab'[e].work = NoPicture /\ tab'[e].open = tab[e].open
          /\ UNCHANGED load
      BY <2>9, <3>0, SettlesDoes
    <3>2. \/ tab'[e].version = tab[e].version /\ tab'[e].basis = tab[e].basis /\ tab'[e].told = tab[e].told
          \/ put[e].pc = "stored" /\ tab'[e].version = put[e].version /\ tab'[e].basis = put[e].version
          \/ /\ put[e].pc = "stored" /\ tab'[e].version = put[e].version
             /\ tab'[e].basis = tab[e].basis
             /\ tab'[e].told = IF put[e].told = 0 THEN tab[e].told ELSE put[e].told
          \/ /\ tab'[e].version = put[e].version /\ tab'[e].told = put[e].version
             /\ tab'[e].basis = tab[e].basis
      BY <2>9, SettlesDoes DEF SameDraft
    <3>3. Knows(e, tab[e].basis, tab[e].version, tab[e].told)'
      <4>1. put[e].version \in Nat /\ tab[e].basis \in Nat
        BY VersionTypes
      <4>. QED
        BY <1>0, <3>2, <4>1, KnowsKept DEF Account, Knows, OwnVersion
    <3>. QED
      BY <1>0, <3>1, <3>3 DEF Account, OwnVersion
  <2>10. CASE WorkFails(e)
    <3>1. SameDraft(e) /\ tab'[e].work = NoPicture /\ tab'[e].open = tab[e].open /\ UNCHANGED <<load, put>>
      BY <2>10, WorkFailsDoes
    <3>. QED
      BY <1>0, <3>1, KnowsKept DEF Account, Knows, OwnVersion, SameDraft
  <2>. QED
    BY <1>2, <2>1, <2>2, <2>3, <2>4, <2>5, <2>6, <2>7, <2>8, <2>9, <2>10, TabSteps
<1>3. ASSUME NEW f \in Tabs, f # e, TabStep(f)
      PROVE  tab'[e] = tab[e] /\ load'[e] = load[e] /\ put'[e] = put[e]
  BY <1>3, Frame
<1>4. ASSUME NEW p \in Pictures, Server(p) PROVE UNCHANGED <<tab, load, put>>
  BY <1>4 DEF Server, PutObject, CommitRow, CommitFails, DropObject, MakingFails, Make
<1>5. CASE UNCHANGED vars
  BY <1>1, <1>5 DEF vars
<1>. QED
  BY <1>1, <1>2, <1>3, <1>4, <1>5 DEF Next, TabStep

(* A version is written by a tab that accounts for all before it. *)
LEMMA NoSilentOverwriteNext ==
  TypeOK /\ Picked /\ Current /\ Accounts /\ [Next]_vars => NoSilentOverwrite'
<1> SUFFICES ASSUME TypeOK, Picked, Current, Accounts, [Next]_vars PROVE NoSilentOverwrite'
  OBVIOUS
<1>0. /\ Len(log) \in Nat /\ DOMAIN log = 1..Len(log) /\ ReadFirst
      /\ \A v \in DOMAIN log : log[v].basis \in Nat
  <2>1. \A v \in DOMAIN log : log[v] \in Entry
    BY ElementOfSeq, LenProperties DEF TypeOK
  <2>. QED
    BY <2>1, VersionTypes, PickedRead, LenProperties DEF TypeOK, Entry
<1>1. ASSUME NEW e \in Tabs, Update(e) PROVE NoSilentOverwrite'
  <2>1. put[e].pc = "read" /\ put[e].version = Len(log) /\ put[e].read # NoPicture
    BY <1>0, <1>1, UpdateDoes, VersionTypes DEF ReadFirst
  <2>2. /\ Len(log') = Len(log) + 1 /\ \A v \in 1..Len(log) : log'[v] = log[v]
        /\ log'[Len(log) + 1] = [by |-> e, basis |-> put[e].basis, told |-> put[e].told]
    BY <1>1, <2>1, UpdatedLog
  <2>3. DOMAIN log' = 1..(Len(log) + 1)
    BY <1>1, <2>1, <2>2, Updated, LenProperties
  <2>4. \A k \in put[e].basis + 1 .. Len(log) : log'[k].by = e \/ k <= put[e].told
    BY <1>0, <2>1, KnowsKept DEF Current, Accounts
  <2>5. ASSUME NEW v \in 1..Len(log), NEW k \in log'[v].basis + 1 .. v - 1
        PROVE  log'[k].by = log'[v].by \/ k <= log'[v].told
    BY <1>0, <2>2, <2>5 DEF Accounts, NoSilentOverwrite
  <2>6. put[e].basis \in Nat
    BY VersionTypes
  <2>7. ASSUME NEW k \in log'[Len(log) + 1].basis + 1 .. Len(log) + 1 - 1
        PROVE  log'[k].by = log'[Len(log) + 1].by \/ k <= log'[Len(log) + 1].told
    BY <1>0, <2>2, <2>4, <2>6, <2>7
  <2>. QED
    BY <1>0, <2>3, <2>5, <2>7 DEF NoSilentOverwrite
<1>2. ASSUME NEW e \in Tabs, Loaded(e) PROVE NoSilentOverwrite'
  <2>1. CASE log # <<>>
    <3>1. UNCHANGED log
      BY <1>2, <2>1, LoadedLog
    <3>. QED
      BY <3>1 DEF Accounts, NoSilentOverwrite
  <2>2. CASE log = <<>>
    <3>1. log' \in Seq(Entry) /\ Len(log') = 1 /\ log'[1].basis = 0
      <4>1. log'[1] = [by |-> e, basis |-> 0, told |-> 0]
        BY <1>2, <2>2, LoadedLog
      <4>. QED
        BY <1>2, <2>2, <4>1, LoadedLog
    <3>2. DOMAIN log' = 1..1
      BY <3>1, LenProperties
    <3>. QED
      BY <3>1, <3>2 DEF NoSilentOverwrite
  <2>. QED
    BY <2>1, <2>2
<1>3. CASE UNCHANGED log
  BY <1>3 DEF Accounts, NoSilentOverwrite
<1>. QED
  BY <1>1, <1>2, <1>3, LogKept DEF Next, TabStep

LEMMA AccountsAlways == Spec => []Accounts
<1>1. Init => Accounts
  <2> SUFFICES ASSUME Init PROVE Accounts
    OBVIOUS
  <2>1. \A e \in Tabs : Account(e)
    BY DEF Init, Closed, NoPut, NoLoad, Account, Knows, OwnVersion
  <2>. QED
    BY <2>1, EmptySeq DEF Init, Accounts, NoSilentOverwrite
<1>2. TypeOK /\ Picked /\ Current /\ Accounts /\ [Next]_vars => Accounts'
  BY AccountNext, NoSilentOverwriteNext DEF Accounts
<1>. QED
  BY <1>1, <1>2, PickedAlways, CurrentAlways, PTL DEF Spec

(* No version is written over another tab's that the writer was not sent,   *)
(* however loads and saves of several tabs cross, a commit made while the   *)
(* document is being loaded again included.                                 *)
THEOREM NothingOverwrittenUnseen == Spec => []NoSilentOverwrite
<1>1. Accounts => NoSilentOverwrite
  BY DEF Accounts
<1>. QED
  BY <1>1, AccountsAlways, PTL
-----------------------------------------------------------------------------
(* A picture that a tab still has to commit is in no revision and in no     *)
(* other tab's hands.                                                       *)

InRevision(p) == \E i \in DOMAIN revs : revs[i].result /\ revs[i].picture = p

InHand(e, p) ==
  \/ tab[e].work = p /\ p # NoPicture /\ put[e].pc = "none"
  \/ /\ put[e].pc \in {"sent", "read", "conflict", "latest"}
     /\ put[e].options.result /\ put[e].options.picture = p
  \/ tab[e].save = "conflict" /\ tab[e].retained.result /\ tab[e].retained.picture = p

Owned(e) ==
  /\ \A p : InHand(e, p) => p \in Pictures /\ making[p] # "no" /\ ~InRevision(p)
  /\ tab[e].save = "conflict" => put[e].pc = "none"
  /\ put[e].pc = "read" /\ put[e].options.result => put[e].read = put[e].options.picture

Ownership ==
  /\ OneRevisionPerResult
  /\ \A p \in Pictures : InRevision(p) => making[p] # "no"
  /\ \A e \in Tabs : Owned(e)
  /\ \A e, f \in Tabs, p \in Pictures : InHand(e, p) /\ InHand(f, p) => e = f

LEMMA NeverUnasked == TypeOK /\ [Next]_vars => \A p \in Pictures : making[p] # "no" => making'[p] # "no"
<1> SUFFICES ASSUME TypeOK, [Next]_vars PROVE \A p \in Pictures : making[p] # "no" => making'[p] # "no"
  OBVIOUS
<1>1. ASSUME NEW p \in Pictures, Server(p) PROVE \A q \in Pictures : making[q] # "no" => making'[q] # "no"
  BY <1>1 DEF Server, PutObject, CommitRow, CommitFails, DropObject, MakingFails, Make, TypeOK
<1>2. ASSUME NEW e \in Tabs, TabStep(e) PROVE \A q \in Pictures : making[q] # "no" => making'[q] # "no"
  <2>1. CASE Begins(e)
    BY <2>1, BeginsWith DEF Store
  <2>2. CASE Hydrate(e) \/ Reload(e) \/ Close(e) \/ LoadFails(e) \/ WorkFails(e) \/ LoadedBack(e) \/ Loaded(e)
    BY <2>2 DEF Hydrate, Reload, Close, LoadFails, WorkFails, LoadedBack, Loaded, Store
  <2>3. CASE OnServer(e) \/ Update(e) \/ Settles(e)
    BY <2>3, OnServerDoes, UpdateDoes, SettlesDoes DEF Store
  <2>4. CASE \E p \in Pictures : Start(e, p)
    BY <2>4, StartDoes DEF TypeOK
  <2>. QED
    BY <1>2, <2>1, <2>2, <2>3, <2>4, TabSteps
<1>3. CASE UNCHANGED vars
  BY <1>3 DEF vars
<1>. QED
  BY <1>1, <1>2, <1>3 DEF Next, TabStep

(* Steps that add no revision and put no new picture into a tab's hands. *)
LEMMA OwnershipKept ==
  ASSUME TypeOK, Ownership, [Next]_vars, UNCHANGED revs,
         \A e \in Tabs :
           /\ \A p : InHand(e, p)' => InHand(e, p)
           /\ (tab[e].save = "conflict" => put[e].pc = "none")'
           /\ (put[e].pc = "read" /\ put[e].options.result => put[e].read = put[e].options.picture)'
  PROVE  Ownership'
<1>1. \A p : InRevision(p)' <=> InRevision(p)
  BY DEF InRevision
<1>2. \A p \in Pictures : making[p] # "no" => making'[p] # "no"
  BY NeverUnasked
<1>3. \A e \in Tabs : Owned(e)'
  BY <1>1, <1>2 DEF Ownership, Owned
<1>4. \A e, f \in Tabs, p \in Pictures : InHand(e, p)' /\ InHand(f, p)' => e = f
  BY DEF Ownership
<1>5. \A p \in Pictures : InRevision(p)' => making'[p] # "no"
  BY <1>1, <1>2 DEF Ownership
<1>6. OneRevisionPerResult'
  BY DEF Ownership, OneRevisionPerResult
<1>. QED
  BY <1>3, <1>4, <1>5, <1>6 DEF Ownership

(* The same for a step of one tab. *)
LEMMA OwnershipByTab ==
  ASSUME TypeOK, Ownership, [Next]_vars, UNCHANGED revs, NEW e \in Tabs, TabStep(e),
         \A p : InHand(e, p)' => InHand(e, p),
         (tab[e].save = "conflict" => put[e].pc = "none")',
         (put[e].pc = "read" /\ put[e].options.result => put[e].read = put[e].options.picture)'
  PROVE  Ownership'
<1>1. ASSUME NEW f \in Tabs
      PROVE  /\ \A p : InHand(f, p)' => InHand(f, p)
             /\ (tab[f].save = "conflict" => put[f].pc = "none")'
             /\ (put[f].pc = "read" /\ put[f].options.result => put[f].read = put[f].options.picture)'
  <2>1. CASE f = e
    BY <2>1
  <2>2. CASE f # e
    <3>1. tab'[f] = tab[f] /\ put'[f] = put[f] /\ Owned(f)
      BY <2>2, Frame DEF Ownership
    <3>. QED
      BY <3>1 DEF InHand, Owned
  <2>. QED
    BY <2>1, <2>2
<1>. QED
  BY <1>1, OwnershipKept

LEMMA OwnershipNext == TypeOK /\ Picked /\ Ownership /\ [Next]_vars => Ownership'
<1> SUFFICES ASSUME TypeOK, Picked, Ownership, [Next]_vars PROVE Ownership'
  OBVIOUS
<1>1. CASE UNCHANGED <<revs, tab, put>>
  BY <1>1, OwnershipKept DEF InHand, Ownership, Owned
<1>2. ASSUME NEW e \in Tabs, TabStep(e) PROVE Ownership'
  <2>0. Owned(e)
    BY DEF Ownership
  <2>1. CASE Begins(e)
    <3>1. PICK o \in Options : /\ BeginSave(e, o) /\ MaySave(e, o)
                               /\ UNCHANGED <<Document, Store, load, faults>>
      BY <2>1, BeginsWith
    <3>2. /\ SameDraft(e) /\ tab'[e].work = tab[e].work /\ tab'[e].save = "saving"
          /\ put[e].pc = "none" /\ put'[e].pc = "sent" /\ put'[e].options = o /\ UNCHANGED revs
      BY <3>1, BeginSaveDoes, SentType DEF Document
    <3>3. o.result => InHand(e, o.picture)
      BY <3>1, <3>2, BlankPictures DEF MaySave, InHand
    <3>4. \A p : InHand(e, p)' => InHand(e, p)
      BY <3>2, <3>3 DEF InHand
    <3>. QED
      BY <1>2, <3>2, <3>4, OwnershipByTab
  <2>2. CASE Hydrate(e) \/ Reload(e) \/ Close(e) \/ LoadFails(e) \/ WorkFails(e)
    <3>1. /\ SameDraft(e) /\ tab'[e].work \in {tab[e].work, NoPicture}
          /\ tab'[e].save \in {tab[e].save, "idle"} /\ UNCHANGED <<revs, put>>
      BY <2>2, HydrateDoes, ReloadDoes, CloseDoes, LoadFailsDoes, WorkFailsDoes DEF Document
    <3>2. \A p : InHand(e, p)' => InHand(e, p)
      BY <3>1 DEF InHand, SameDraft
    <3>. QED
      BY <1>2, <2>0, <3>1, <3>2, OwnershipByTab DEF Owned
  <2>3. CASE Loaded(e)
    BY <1>1, <2>3, LoadedDoes
  <2>4. CASE LoadedBack(e)
    <3>1. /\ tab'[e].save = "idle" /\ tab'[e].work = tab[e].work /\ UNCHANGED revs
          /\ put'[e].pc = put[e].pc /\ put'[e].options = put[e].options /\ put'[e].read = put[e].read
      BY <2>4, LoadedBackDoes DEF Document
    <3>2. \A p : InHand(e, p)' => InHand(e, p)
      BY <3>1 DEF InHand
    <3>. QED
      BY <1>2, <2>0, <3>1, <3>2, OwnershipByTab DEF Owned
  <2>5. CASE OnServer(e)
    <3>1. /\ UNCHANGED <<revs, tab>> /\ put'[e].options = put[e].options
          /\ put[e].pc # "none" /\ put'[e].pc \in {"read", "conflict", "latest", "stored"}
          /\ put'[e].pc # "stored" => put[e].pc \in {"sent", "read", "conflict"}
          /\ put'[e].pc = "read" =>
               /\ put[e].pc = "sent"
               /\ put'[e].read = IF put[e].options.picture = NoPicture THEN current ELSE put[e].options.picture
      BY <2>5, OnServerDoes DEF Document
    <3>2. \A p : InHand(e, p)' => InHand(e, p)
      BY <3>1 DEF InHand
    <3>3. put[e].pc = "sent" /\ put[e].options.result => put[e].options.picture \in Pictures
      BY <2>0 DEF Owned, InHand
    <3>4. (put[e].pc = "read" /\ put[e].options.result => put[e].read = put[e].options.picture)'
      BY <3>1, <3>3, PicturesAssumption
    <3>5. tab[e].save # "conflict"
      BY <2>0, <3>1 DEF Owned
    <3>. QED
      BY <1>2, <3>1, <3>2, <3>4, <3>5, OwnershipByTab
  <2>6. CASE Settles(e)
    <3>0. NoPut.pc = "none"
      BY DEF NoPut
    <3>1. /\ put'[e].pc = "none" /\ tab'[e].work = NoPicture /\ UNCHANGED revs
          /\ put[e].pc # "none"
      BY <2>6, <3>0, SettlesDoes DEF Document
    <3>2. \/ SameDraft(e) /\ tab'[e].save \in {tab[e].save, "idle"}
          \/ tab'[e].save \in {"saved", "idle", "error"}
          \/ /\ put[e].pc \in {"latest", "conflict"} /\ tab'[e].save \in {"conflict", "idle"}
             /\ tab'[e].retained = put[e].options
      BY <2>6, SettlesDoes
    <3>3. \A p : InHand(e, p)' => InHand(e, p)
      BY <3>1, <3>2 DEF InHand, SameDraft
    <3>. QED
      BY <1>2, <3>1, <3>3, OwnershipByTab
  <2>7. ASSUME NEW p \in Pictures, Start(e, p) PROVE Ownership'
    <3>1. /\ SameDraft(e) /\ tab'[e].work = p /\ tab'[e].save = tab[e].save
          /\ tab[e].work = NoPicture /\ put[e].pc = "none" /\ making[p] = "no"
          /\ UNCHANGED <<revs, put>> /\ making'[p] = "asked"
      BY <2>7, StartDoes DEF Document, TypeOK
    <3>2. \A q : InHand(e, q)' => InHand(e, q) \/ q = p
      BY <3>1 DEF InHand, SameDraft
    <3>3. ASSUME NEW f \in Tabs, f # e
          PROVE  /\ \A q : InHand(f, q)' => InHand(f, q)
                 /\ (tab[f].save = "conflict" => put[f].pc = "none")'
                 /\ (put[f].pc = "read" /\ put[f].options.result => put[f].read = put[f].options.picture)'
      <4>1. tab'[f] = tab[f] /\ put'[f] = put[f] /\ Owned(f)
        BY <1>2, <3>3, Frame DEF Ownership
      <4>. QED
        BY <4>1 DEF InHand, Owned
    <3>4. \A q : InRevision(q)' <=> InRevision(q)
      BY <3>1 DEF InRevision
    <3>5. \A q \in Pictures : making[q] # "no" => making'[q] # "no"
      BY NeverUnasked
    <3>6. ~InRevision(p) /\ \A f \in Tabs : ~InHand(f, p)
      BY <3>1 DEF Ownership, Owned
    <3>7. ASSUME NEW f \in Tabs PROVE Owned(f)'
      <4>1. CASE f = e
        BY <2>0, <3>1, <3>2, <3>4, <3>5, <3>6, <4>1 DEF Owned
      <4>2. CASE f # e
        BY <3>3, <3>4, <3>5, <4>2 DEF Ownership, Owned
      <4>. QED
        BY <4>1, <4>2
    <3>8. ASSUME NEW f \in Tabs, NEW g \in Tabs, NEW q \in Pictures, InHand(f, q)', InHand(g, q)'
          PROVE  f = g
      BY <3>2, <3>3, <3>6, <3>8 DEF Ownership
    <3>9. OneRevisionPerResult' /\ \A q \in Pictures : InRevision(q)' => making'[q] # "no"
      BY <3>1, <3>4, <3>5 DEF Ownership, OneRevisionPerResult
    <3>. QED
      BY <3>7, <3>8, <3>9 DEF Ownership
  <2>8. CASE Update(e)
    <3>1. /\ put[e].pc = "read" /\ put'[e].pc = "committed" /\ UNCHANGED <<Store, tab, load>>
      BY <2>8, UpdateDoes
    <3>2. tab[e].save # "conflict"
      BY <2>0, <3>1 DEF Owned
    <3>3. \A p : ~InHand(e, p)'
      BY <3>1, <3>2 DEF InHand
    <3>4. CASE UNCHANGED revs
      BY <1>2, <3>1, <3>2, <3>3, <3>4, OwnershipByTab
    <3>5. CASE ~UNCHANGED revs
      <4>1. put[e].read # NoPicture /\ put[e].options.picture # NoPicture
        BY <2>8, <3>1, <3>5, PlainUpdate DEF Picked, Picks
      <4>2. /\ Len(revs) \in Nat /\ Len(revs') = Len(revs) + 1
            /\ \A i \in 1..Len(revs) : revs'[i] = revs[i]
            /\ revs'[Len(revs) + 1].picture = put[e].read
            /\ revs'[Len(revs) + 1].result = put[e].options.result
            /\ DOMAIN revs = 1..Len(revs) /\ DOMAIN revs' = 1..(Len(revs) + 1)
        BY <2>8, <4>1, UpdatedRevisions
      <4>3. CASE ~put[e].options.result
        <5>1. \A p : InRevision(p)' <=> InRevision(p)
          BY <4>2, <4>3 DEF InRevision
        <5>2. OneRevisionPerResult'
          BY <4>2, <4>3 DEF Ownership, OneRevisionPerResult
        <5>3. \A f \in Tabs \ {e} : tab'[f] = tab[f] /\ put'[f] = put[f]
          BY <1>2, Frame
        <5>4. \A f \in Tabs \ {e} : \A p : InHand(f, p)' <=> InHand(f, p)
          BY <5>3 DEF InHand
        <5>5. UNCHANGED making
          BY <3>1 DEF Store
        <5>6. \A f \in Tabs : Owned(f)'
          BY <3>1, <3>2, <3>3, <5>1, <5>3, <5>4, <5>5 DEF Ownership, Owned
        <5>. QED
          BY <3>3, <5>1, <5>2, <5>4, <5>5, <5>6 DEF Ownership
      <4>4. CASE put[e].options.result
        <5> DEFINE p == put[e].options.picture
        <5>1. InHand(e, p) /\ put[e].read = p
          BY <2>0, <3>1, <4>4 DEF InHand, Owned
        <5>2. p \in Pictures /\ making[p] # "no" /\ ~InRevision(p)
          BY <2>0, <5>1 DEF Owned
        <5>3. \A q : InRevision(q)' => InRevision(q) \/ q = p
          BY <4>2, <5>1 DEF InRevision
        <5>4. OneRevisionPerResult'
          BY <4>2, <5>1, <5>2 DEF Ownership, OneRevisionPerResult, InRevision
        <5>5. \A f \in Tabs \ {e} : tab'[f] = tab[f] /\ put'[f] = put[f]
          BY <1>2, Frame
        <5>6. \A f \in Tabs \ {e} : \A q : InHand(f, q)' <=> InHand(f, q)
          BY <5>5 DEF InHand
        <5>7. UNCHANGED making
          BY <3>1 DEF Store
        <5>8. \A f \in Tabs \ {e} : ~InHand(f, p)
          BY <5>1, <5>2 DEF Ownership
        <5> HIDE DEF p
        <5>9. \A f \in Tabs : Owned(f)'
          BY <3>1, <3>2, <3>3, <5>3, <5>5, <5>6, <5>7, <5>8 DEF Ownership, Owned
        <5>. QED
          BY <3>3, <5>2, <5>3, <5>4, <5>6, <5>7, <5>9 DEF Ownership
      <4>. QED
        BY <4>3, <4>4
    <3>. QED
      BY <3>4, <3>5
  <2>. QED
    BY <1>2, <2>1, <2>2, <2>3, <2>4, <2>5, <2>6, <2>7, <2>8, TabSteps
<1>3. ASSUME NEW p \in Pictures, Server(p) PROVE UNCHANGED <<revs, tab, put>>
  BY <1>3 DEF Server, PutObject, CommitRow, CommitFails, DropObject, MakingFails, Make, Document
<1>4. CASE UNCHANGED vars
  BY <1>1, <1>4 DEF vars
<1>. QED
  BY <1>1, <1>2, <1>3, <1>4 DEF Next, TabStep

(* However saves fail, conflict and are retried, in one tab or several, a    *)
(* crop or a job becomes at most one revision.                               *)
THEOREM ResultsAreCommittedOnce == Spec => []OneRevisionPerResult
<1>1. Init => Ownership
  <2> SUFFICES ASSUME Init PROVE Ownership
    OBVIOUS
  <2>1. DOMAIN revs = {}
    BY DEF Init
  <2>2. \A e \in Tabs : \A p : ~InHand(e, p)
    BY DEF Init, Closed, NoPut, InHand
  <2>3. \A e \in Tabs : Owned(e)
    BY <2>2 DEF Init, Closed, NoPut, Owned
  <2>. QED
    BY <2>1, <2>2, <2>3 DEF Ownership, OneRevisionPerResult, InRevision
<1>2. Ownership => OneRevisionPerResult
  BY DEF Ownership
<1>. QED
  BY <1>1, <1>2, OwnershipNext, PickedAlways, PTL DEF Spec
=============================================================================
