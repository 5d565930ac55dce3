-------------------------- MODULE CanvasGeneration --------------------------
(* Pictures on their way into a project: the generation requests of the    *)
(* canvas shown, the jobs they create, and the records by which a project   *)
(* opened again finds its tasks.                                            *)
(*                                                                          *)
(* A slot is a place for one picture in an image node.  A generation lists  *)
(* the pictures it waits for in its node (metadata.images); the node of a   *)
(* mask edit or of a new angle has no list and is one bare slot.  A request *)
(* is one call of runImageJob together with the job it creates.             *)
EXTENDS Naturals, FiniteSets, SequencesExt

CONSTANTS
  Slots,        \* numbered in the order in which the document lists them
  Node,         \* the image node of each slot
  Bare,         \* the slots that are nodes without a list of pictures
  Requests,
  NoSlot,
  MaxReloads,   \* times the tab is closed or reloaded and opened again
  MaxDeletions, \* deletions of nodes by the user
  MaxMishaps    \* these two together with calls that fail over the network

ASSUME SlotsAssumption == Slots \subseteq Nat /\ NoSlot \notin Slots
ASSUME BareAssumption ==
  /\ Bare \subseteq Slots
  /\ \A s \in Bare, t \in Slots : Node[s] = Node[t] => s = t
ASSUME PageBoundsAssumption == {MaxReloads, MaxDeletions, MaxMishaps} \subseteq Nat

VARIABLES
  view,      \* the page's nodes: what every slot shows
  doc,       \* the store's copy of them, kept in the draft and on the server
  record,    \* the slot a task is recorded for, kept with the document
  shown,     \* the page has read its pictures and is open to the user
  request,   \* the calls of runImageJob
  job,       \* the server's jobs
  asked,     \* jobs whose cancellation was asked for
  monitors,  \* recorded tasks polled since the project was opened
  cleanups,  \* tasks whose record is removed when its timer fires
  untouched, \* the user has done nothing since the tab was opened
  reloads, failures, edits

pageVars == <<view, doc, record, shown, request, job, asked, monitors, cleanups,
              untouched, reloads, failures, edits>>

Pictures == Requests                     \* the picture a request's job produced
Shows == {"absent", "loading", "idle", "error"} \cup Pictures
View == [Slots -> Shows]

(* "reading": the job is completed and its picture is being fetched. *)
Active == {"posting", "streaming", "polling", "reading"}
ImageRequest == [pc: Active \cup {"unused", "ended"}, slot: Slots \cup {NoSlot},
                 sourced: BOOLEAN, aborted: BOOLEAN, mine: BOOLEAN]

Settled == {"completed", "failed", "canceled"}

PageTypeOK ==
  /\ view \in View /\ doc \in View
  /\ record \in [Requests -> Slots \cup {NoSlot}]
  /\ shown \in BOOLEAN
  /\ request \in [Requests -> ImageRequest]
  /\ job \in [Requests -> Settled \cup {"none", "open"}]
  /\ asked \subseteq Requests /\ monitors \subseteq Requests /\ cleanups \subseteq Requests
  /\ untouched \in BOOLEAN
  /\ reloads \in 0..MaxReloads /\ edits \in 0..MaxDeletions /\ failures \in 0..MaxMishaps

Blank == [s \in Slots |-> "absent"]

PageInit ==
  /\ view = Blank /\ doc = Blank
  /\ record = [r \in Requests |-> NoSlot]
  /\ shown = TRUE
  /\ request = [r \in Requests |-> [pc |-> "unused", slot |-> NoSlot, sourced |-> FALSE,
                                    aborted |-> FALSE, mine |-> FALSE]]
  /\ job = [r \in Requests |-> "none"]
  /\ asked = {} /\ monitors = {} /\ cleanups = {}
  /\ untouched = TRUE /\ reloads = 0 /\ failures = 0 /\ edits = 0

-----------------------------------------------------------------------------
(* The page.  A change of its nodes reaches the store by an effect of the   *)
(* same rendering.                                                          *)

Draw(v) ==
  /\ view' = v
  /\ doc' = v
  /\ shown' = shown

(* A request draws through the page that made it; a page that has been      *)
(* replaced draws nothing.  A slot that is gone is not drawn either.        *)
DrawSlot(r, show) ==
  LET s == request[r].slot
  IN  IF shown /\ request[r].mine /\ view[s] # "absent"
      THEN Draw([view EXCEPT ![s] = show])
      ELSE UNCHANGED <<view, doc, shown>>

Mishap == reloads + failures + edits < MaxMishaps

UserActs == shown /\ untouched' = FALSE

InNode(n) == {s \in Slots : Node[s] = n}

(* What is sent for a slot, with the source node or without. *)
Requested(r, s, sourced) ==
  [pc |-> "posting", slot |-> s, sourced |-> sourced, aborted |-> FALSE, mine |-> TRUE]

(* A generation makes a new node and asks for one picture per slot. *)
Generate(n) ==
  /\ UserActs
  /\ InNode(n) \cap Bare = {}
  /\ \A r \in Requests : request[r].slot \notin InNode(n)
  /\ \E rs \in [InNode(n) -> Requests] :
       /\ IsInjective(rs)
       /\ \A s \in InNode(n) : request[rs[s]].pc = "unused"
       /\ request' = [r \in Requests |->
            IF \E s \in InNode(n) : rs[s] = r
            THEN Requested(r, CHOOSE s \in InNode(n) : rs[s] = r, TRUE) ELSE request[r]]
  /\ Draw([s \in Slots |-> IF s \in InNode(n) THEN "loading" ELSE view[s]])
  /\ UNCHANGED <<record, job, asked, monitors, cleanups, reloads, failures, edits>>

(* A mask edit or a new angle of a picture makes a node for its one result, *)
(* and sends the picture's node as its source.                              *)
EditPicture(s) ==
  /\ UserActs
  /\ \A r \in Requests : request[r].slot # s
  /\ \E r \in Requests :
       /\ request[r].pc = "unused"
       /\ request' = [request EXCEPT ![r] = Requested(r, s, TRUE)]
  /\ Draw([view EXCEPT ![s] = "loading"])
  /\ UNCHANGED <<record, job, asked, monitors, cleanups, reloads, failures, edits>>

(* The requests the page still knows for a node. *)
Controlled(n) ==
  {r \in Requests : request[r].mine /\ request[r].pc \in Active /\ Node[request[r].slot] = n}

Aborting(n) ==
  [r \in Requests |-> IF r \in Controlled(n) THEN [request[r] EXCEPT !.aborted = TRUE] ELSE request[r]]

(* One picture is asked for again.  Starting a request for a node aborts    *)
(* the node's previous one.  The new one carries no source node.            *)
Retry(r, s) ==
  /\ UserActs
  /\ view[s] = "error" /\ request[r].pc = "unused"
  /\ request' = [Aborting(Node[s]) EXCEPT ![r] = Requested(r, s, FALSE)]
  /\ Draw([view EXCEPT ![s] = "loading"])
  /\ UNCHANGED <<record, job, asked, monitors, cleanups, reloads, failures, edits>>

(* A stopped node is idle, the pictures in its list have failed. *)
Stop(n) ==
  /\ UserActs
  /\ Controlled(n) # {}
  /\ request' = Aborting(n)
  /\ Draw([s \in Slots |-> IF s \notin InNode(n) \/ view[s] # "loading" THEN view[s]
                          ELSE IF s \in Bare THEN "idle" ELSE "error"])
  /\ UNCHANGED <<record, job, asked, monitors, cleanups, reloads, failures, edits>>

UserEdits == UserActs /\ Mishap /\ edits < MaxDeletions /\ edits' = edits + 1

DeleteNode(n) ==
  /\ UserEdits
  /\ \E s \in InNode(n) : view[s] # "absent"
  /\ Draw([s \in Slots |-> IF s \in InNode(n) THEN "absent" ELSE view[s]])
  /\ UNCHANGED <<record, request, job, asked, monitors, cleanups, reloads, failures>>

-----------------------------------------------------------------------------
(* Records of tasks and the page's restoring. *)

(* Faulty variant: no record claims anything. *)
FreeSlotsEvenClaimed == {s \in Slots : doc[s] = "loading"}

(* The slots that wait for a picture and may be recorded for a task; the    *)
(* nodes are all targets of one source node.  Records claim the pictures of *)
(* a list only: a bare slot stays free while it waits, whoever has it.      *)
FreeSlots ==
  {s \in Slots : doc[s] = "loading" /\ (s \in Bare \/ \A r \in Requests : record[r] # s)}

(* A task is recorded for the first free slot, whichever it was asked for.  *)
(* So two edits of one picture may be recorded for the first one's node.    *)
Register(r) ==
  record' = IF request[r].sourced /\ record[r] = NoSlot /\ FreeSlots # {}
            THEN [record EXCEPT ![r] = CHOOSE s \in FreeSlots : \A t \in FreeSlots : s <= t]
            ELSE record

(* Faulty variant: every slot goes on waiting. *)
RestoredAsItWas(d, rec) == d

(* What a page opened on document d shows: a slot waits on only if a task   *)
(* is recorded for it.                                                      *)
Restored(d, rec) ==
  [s \in Slots |-> IF d[s] = "loading" /\ \A r \in Requests : rec[r] # s THEN "error" ELSE d[s]]

(* The page is replaced by a new one, which reads its pictures first.  The  *)
(* requests of the old page go on, but nothing they draw is seen.           *)
Remount(d, rec) ==
  /\ doc' = d
  /\ record' = rec
  /\ view' = Restored(d, rec)
  /\ shown' = FALSE

Show ==
  /\ ~shown
  /\ doc' = view
  /\ shown' = TRUE
  /\ UNCHANGED <<view, record, request, job, asked, monitors, cleanups, untouched,
                 reloads, failures, edits>>

Recovered(d, r) ==
  IF d[record[r]] = "absent" THEN d
  ELSE [d EXCEPT ![record[r]] = IF job[r] = "completed" THEN r ELSE "error"]

(* The monitor of a task polls until the job is settled.  It retries a poll *)
(* that fails, so that is a step that changes nothing.                      *)
FinishRecovery(r) ==
  /\ r \in monitors
  /\ job[r] \in Settled
  /\ monitors' = monitors \ {r}
  /\ Remount(Recovered(doc, r), [record EXCEPT ![r] = NoSlot])
  /\ request' = [q \in Requests |-> [request[q] EXCEPT !.mine = FALSE]]
  /\ UNCHANGED <<job, asked, cleanups, untouched, reloads, failures, edits>>

Cleanup(r) ==
  /\ r \in cleanups
  /\ cleanups' = cleanups \ {r}
  /\ record' = [record EXCEPT ![r] = NoSlot]
  /\ UNCHANGED <<view, doc, shown, request, job, asked, monitors, untouched,
                 reloads, failures, edits>>

(* The tab is closed or reloaded and the project opened again.  Creations   *)
(* that were under way may still reach the server.                          *)
ReloadTab ==
  /\ Mishap /\ reloads < MaxReloads
  /\ reloads' = reloads + 1
  /\ \E late \in SUBSET {r \in Requests : request[r].pc = "posting" /\ job[r] = "none"} :
       job' = [r \in Requests |-> IF r \in late THEN "open" ELSE job[r]]
  /\ request' = [r \in Requests |-> IF request[r].pc \in Active
                   THEN [request[r] EXCEPT !.pc = "ended", !.mine = FALSE] ELSE request[r]]
  /\ LET kept == [r \in Requests |->
                    IF record[r] # NoSlot /\ doc[record[r]] # "absent" THEN record[r] ELSE NoSlot]
     IN  /\ Remount(doc, kept)
         /\ monitors' = {r \in Requests : kept[r] # NoSlot}
  /\ cleanups' = {}
  /\ untouched' = TRUE
  /\ UNCHANGED <<asked, failures, edits>>

-----------------------------------------------------------------------------
(* A request: create the job, follow the stream, fall back to polling,      *)
(* fetch the picture.                                                       *)

To(r, pc) == request' = [request EXCEPT ![r].pc = pc]
CallFails == Mishap /\ failures' = failures + 1
Untouched == UNCHANGED <<monitors, untouched, reloads, edits>>

(* POST /jobs is answered: the task is recorded, even for an aborted call. *)
JobCreated(r) ==
  /\ request[r].pc = "posting"
  /\ job' = [job EXCEPT ![r] = "open"]
  /\ Register(r)
  /\ To(r, "streaming")
  /\ UNCHANGED <<view, doc, shown, asked, cleanups, failures>> /\ Untouched

(* It fails, or its answer is lost; an aborted call fails as quietly. *)
CreationFails(r) ==
  /\ request[r].pc = "posting"
  /\ CallFails
  /\ \E s \in {"none", "open"} : job' = [job EXCEPT ![r] = s]
  /\ To(r, "ended")
  /\ DrawSlot(r, "error")
  /\ UNCHANGED <<record, asked, cleanups>> /\ Untouched

(* Faulty variant: only a call that follows a stream is canceled. *)
LeavesStreaming(r) ==
  /\ request[r].pc \in {"streaming", "polling"} /\ request[r].aborted
  /\ To(r, "ended")
  /\ asked' = IF request[r].pc = "streaming" THEN asked ELSE asked \cup {r}
  /\ UNCHANGED <<view, doc, record, shown, job, cleanups, failures>> /\ Untouched

(* An aborted call leaves and asks for the cancellation of its job. *)
Leaves(r) ==
  /\ request[r].pc \in {"streaming", "polling"} /\ request[r].aborted
  /\ To(r, "ended")
  /\ asked' = asked \cup {r}
  /\ UNCHANGED <<view, doc, record, shown, job, cleanups, failures>> /\ Untouched

LeavesUnheard(r) ==
  /\ request[r].pc \in {"streaming", "polling"} /\ request[r].aborted
  /\ CallFails
  /\ To(r, "ended")
  /\ UNCHANGED <<view, doc, record, shown, job, asked, cleanups>> /\ Untouched

(* The stream may end before the job: it breaks, its server ends it at an   *)
(* error, or it missed the last change because the time of it did not       *)
(* differ from the one before.                                              *)
StreamEnds(r) ==
  /\ request[r].pc = "streaming" /\ ~request[r].aborted
  /\ To(r, "polling")
  /\ UNCHANGED <<view, doc, record, shown, job, asked, cleanups, failures>> /\ Untouched

(* Faulty variant: the page waits for completion, not for any end. *)
SeesCompletion(r) ==
  /\ request[r].pc \in {"streaming", "polling"} /\ ~request[r].aborted
  /\ job[r] = "completed"
  /\ cleanups' = cleanups \cup {r}
  /\ To(r, "reading")
  /\ UNCHANGED <<view, doc, shown, record, job, asked, failures>> /\ Untouched

(* The page sees that the job is settled, by the stream or by polling. *)
SeesOutcome(r) ==
  /\ request[r].pc \in {"streaming", "polling"} /\ ~request[r].aborted
  /\ job[r] \in Settled
  /\ cleanups' = cleanups \cup {r}
  /\ IF job[r] = "completed"
     THEN To(r, "reading") /\ UNCHANGED <<view, doc, shown>>
     ELSE To(r, "ended") /\ DrawSlot(r, "error")
  /\ UNCHANGED <<record, job, asked, failures>> /\ Untouched

(* A poll that fails ends the request, and leaves its record. *)
PollFails(r) ==
  /\ request[r].pc = "polling" /\ ~request[r].aborted
  /\ CallFails
  /\ To(r, "ended")
  /\ DrawSlot(r, "error")
  /\ UNCHANGED <<record, job, asked, cleanups>> /\ Untouched

(* The picture is there: it is drawn although the call may be aborted. *)
PictureRead(r) ==
  /\ request[r].pc = "reading"
  /\ To(r, "ended")
  /\ DrawSlot(r, r)
  /\ UNCHANGED <<record, job, asked, cleanups, failures>> /\ Untouched

PictureUnread(r) ==
  /\ request[r].pc = "reading"
  /\ CallFails
  /\ To(r, "ended")
  /\ DrawSlot(r, "error")
  /\ UNCHANGED <<record, job, asked, cleanups>> /\ Untouched

(* The job service (JobQueue) settles every job in its own time. *)
Settle(r) ==
  /\ job[r] = "open"
  /\ \E s \in Settled : /\ s = "canceled" => r \in asked
                        /\ job' = [job EXCEPT ![r] = s]
  /\ UNCHANGED <<view, doc, record, shown, request, asked, cleanups, failures>> /\ Untouched

-----------------------------------------------------------------------------
Answers(r) ==
  \/ JobCreated(r) \/ CreationFails(r)
  \/ Leaves(r) \/ LeavesUnheard(r)
  \/ StreamEnds(r) \/ SeesOutcome(r) \/ PollFails(r)
  \/ PictureRead(r) \/ PictureUnread(r)

User ==
  \/ \E n \in {Node[s] : s \in Slots} : Generate(n) \/ Stop(n) \/ DeleteNode(n)
  \/ \E s \in Bare : EditPicture(s)
  \/ \E r \in Requests, s \in Slots : Retry(r, s)
  \/ ReloadTab

PageNext ==
  \/ User
  \/ Show
  \/ \E r \in Requests : Answers(r) \/ FinishRecovery(r) \/ Cleanup(r) \/ Settle(r)

PageSpec == PageInit /\ [][PageNext]_pageVars

(* Requests are answered or fail, timers fire, pages mount, and the job     *)
(* service settles its jobs (EveryJobSettles of JobQueue).                  *)
PageFairSpec ==
  /\ PageSpec
  /\ WF_pageVars(Show)
  /\ \A r \in Requests :
       /\ WF_pageVars(Answers(r)) /\ WF_pageVars(FinishRecovery(r))
       /\ WF_pageVars(Cleanup(r)) /\ WF_pageVars(Settle(r))

-----------------------------------------------------------------------------
(* However jobs are answered out of order, retried, stopped and recovered,  *)
(* and whatever edits of pictures are under way beside them, no picture of  *)
(* a node's list is recorded for two tasks (claimedImages): two results     *)
(* would fight for it after every reload.  It does not hold of bare slots,  *)
(* which findRecoveryTarget returns without looking at the claims.          *)
OneTaskPerImage ==
  \A q, r \in Requests : record[q] = record[r] /\ record[q] \in Slots \ Bare => q = r

(* A tab that has just been opened waits only for pictures that will come:  *)
(* resetInterruptedGeneration leaves a slot loading only if a monitor polls *)
(* its task, through all remounts by recoveries that finish.                *)
RestoredWaitsAreWatched ==
  untouched => \A s \in Slots : view[s] = "loading" => \E r \in monitors : record[r] = s

(* No job is left alone while it may still run and charge.  A request that  *)
(* was not stopped gives up only after its job is settled: a stream that    *)
(* ends early, or misses the last change, does not end the wait of          *)
(* canvas-job-controller.  Stopping a request, or replacing it by a retry,  *)
(* asks the server to cancel its job whenever it comes, even while the job  *)
(* is being created.                                                        *)
NoJobIsForgotten ==
  failures = 0 /\ reloads = 0 =>
    \A r \in Requests :
      request[r].pc = "ended" => job[r] \in Settled \/ (request[r].aborted /\ r \in asked)

(* Every wait ends.  A request comes to an end, so no node keeps its stop   *)
(* button for ever; a recorded task that is monitored does, and its record  *)
(* leaves the document, and with it its claim on the slot.                  *)
EveryWaitEnds ==
  \A r \in Requests :
    /\ request[r].pc \in Active ~> request[r].pc = "ended"
    /\ r \in monitors ~> (r \notin monitors /\ record[r] = NoSlot)

(* What the page takes the service to do with its jobs, in every order of   *)
(* answers, retries, closed tabs and late creations, is what TaskView       *)
(* allows and no more: so it is enough that the service keeps to TaskView   *)
(* (ServesTasks of JobQueue).                                               *)
Followed == INSTANCE TaskView WITH Tasks <- Requests, state <- job

FollowsTasks == Followed!Spec
=============================================================================
