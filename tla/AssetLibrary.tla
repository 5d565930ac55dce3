---------------------------- MODULE AssetLibrary ----------------------------
(* The asset library of one user: the rows of library.go, and the tabs of  *)
(* one browser whose use-asset-store.ts shows, adds, edits and removes     *)
(* them optimistically.  A tab also moves the assets that an older version *)
(* left in the browser (the legacy store) to the server when it starts.    *)
EXTENDS Naturals, Sequences

CONSTANTS
  Tabs,
  Items,        \* client ids
  LegacyItems,  \* those the older version left in the browser
  NoTab,        \* of a request whose tab no longer listens
  Hidden,       \* an asset the tab does not show
  MaxChanges,   \* edits and removals
  MaxMishaps    \* failed calls and closed tabs

ASSUME LegacyAssumption == LegacyItems \subseteq Items
ASSUME NamesAssumption == NoTab \notin Tabs
ASSUME BoundsAssumption == MaxChanges \in Nat /\ MaxMishaps \in Nat

VARIABLES
  server,    \* canvas_library_items
  legacy,    \* the browser's legacy store
  requests,  \* calls on their way, and their answers
  tab,       \* the tabs' stores
  fresh,     \* client ids that no tab has used
  changes,     \* edits and removals so far: the number of an edit is what it wrote
  mishaps

vars == <<server, legacy, requests, tab, fresh, changes, mishaps>>

Content == 0..MaxChanges                 \* 0: as it was first made
Row == [version: Nat, content: Content, deleted: BOOLEAN]
NoRow == [version |-> 0, content |-> 0, deleted |-> FALSE]
Exists(row) == row.version > 0
Live(row) == Exists(row) /\ ~row.deleted

(* stamp: the edit that updatedAt is from, 0 once it is the server's. *)
Asset == [content: Content, stamp: Content]
Original == [content |-> 0, stamp |-> 0]
Listed(row) == [content |-> row.content, stamp |-> 0]

(* An entry of mutationQueues, with what it would roll back to. *)
Mutation == [kind: {"update", "delete"}, edit: Content, previous: Asset]
Queue == Seq(Mutation)

ASSUME HiddenAssumption == Hidden \notin Asset

(* by: the code that waits for the answer.  An answer carries the row. *)
Request == [tab: Tabs \cup {NoTab}, item: Items,
            by: {"migrate", "create", "update", "delete"},
            state: {"sent", "ok", "refused"}, version: Nat, content: Content]

Phase == {"closed", "listing", "migrating", "hydrating", "cleaning", "open"}

(* local: the legacy assets read; listed: itemByClientID; failed:          *)
(* migrationFailures; sync: versions in syncByClientID, 0 for none.        *)
(* The rest is what the properties need: last, the tab's last edit of an   *)
(* item; told, items whose failure was reported; hasty, items that may     *)
(* have been changed before the tab finished loading.                      *)
Store == [phase: Phase, local: SUBSET LegacyItems, failed: SUBSET LegacyItems,
          listed: [Items -> Row], view: [Items -> Asset \cup {Hidden}],
          sync: [Items -> Nat], queue: [Items -> Queue],
          last: [Items -> Content], told: SUBSET Items, hasty: SUBSET Items]

Closed == [phase |-> "closed", local |-> {}, failed |-> {},
           listed |-> [i \in Items |-> NoRow], view |-> [i \in Items |-> Hidden],
           sync |-> [i \in Items |-> 0], queue |-> [i \in Items |-> <<>>],
           last |-> [i \in Items |-> 0], told |-> {}, hasty |-> {}]

TypeOK ==
  /\ server \in [Items -> Row]
  /\ legacy \subseteq LegacyItems
  /\ requests \subseteq Request
  /\ tab \in [Tabs -> Store]
  /\ fresh \subseteq Items
  /\ changes \in Content
  /\ mishaps \in 0..MaxMishaps

Init ==
  /\ server = [i \in Items |-> NoRow]
  /\ legacy = LegacyItems
  /\ requests = {}
  /\ tab = [t \in Tabs |-> Closed]
  /\ fresh = Items \ LegacyItems
  /\ changes = 0 /\ mishaps = 0

Mishap == mishaps < MaxMishaps /\ mishaps' = mishaps + 1

Shown(t, i) == tab[t].view[i] # Hidden
Loading(t) == tab[t].phase \in {"listing", "migrating", "hydrating"}

(* pendingCreates, the head of the mutation queue, and the migration loop  *)
(* are each waiting for at most one call.                                  *)
Waits(t, i, by) == \E r \in requests : r.tab = t /\ r.item = i /\ r.by \in by
Creating(t, i) == Waits(t, i, {"create"})

Send(t, i, by, version, content) ==
  requests' = requests \cup
    {[tab |-> t, item |-> i, by |-> by, state |-> "sent",
      version |-> version, content |-> content]}

-----------------------------------------------------------------------------
(* library.go: one transaction each.  A client id keeps its row for ever,  *)
(* deleted or not.                                                         *)

Inserted(r) ==
  IF Exists(server[r.item]) THEN server[r.item]
  ELSE [version |-> 1, content |-> r.content, deleted |-> FALSE]

Updated(r) ==
  [server[r.item] EXCEPT !.version = @ + 1, !.content = r.content]

Deleted(r) == [server[r.item] EXCEPT !.deleted = TRUE]

Accepts(r) ==
  CASE r.by \in {"migrate", "create"} -> ~server[r.item].deleted
    [] r.by = "update" -> Live(server[r.item]) /\ server[r.item].version = r.version
    [] r.by = "delete" -> Live(server[r.item])

Written(r) ==
  CASE r.by \in {"migrate", "create"} -> Inserted(r)
    [] r.by = "update" -> Updated(r)
    [] r.by = "delete" -> Deleted(r)

(* A request nobody waits for leaves no answer. *)
Answered(r, answer) ==
  requests' = (requests \ {r}) \cup (IF r.tab = NoTab THEN {} ELSE {answer})

Handle(r) ==
  /\ r.state = "sent"
  /\ IF Accepts(r)
     THEN LET row == Written(r) IN
          /\ server' = [server EXCEPT ![r.item] = row]
          /\ Answered(r, [r EXCEPT !.state = "ok", !.version = row.version,
                                   !.content = row.content])
     ELSE Answered(r, [r EXCEPT !.state = "refused"]) /\ UNCHANGED server
  /\ UNCHANGED <<legacy, tab, fresh, changes, mishaps>>

-----------------------------------------------------------------------------
(* initializeCanvasAssetStore.                                             *)

Shared == <<server, legacy, fresh, changes>>

Open(t) ==
  /\ tab[t].phase = "closed"
  /\ tab' = [tab EXCEPT ![t].phase = "listing", ![t].local = legacy]
  /\ UNCHANGED <<Shared, requests, mishaps>>

List(t) ==
  /\ tab[t].phase = "listing"
  /\ tab' = [tab EXCEPT ![t].phase = "migrating",
                        ![t].listed = [i \in Items |-> IF Live(server[i]) THEN server[i] ELSE NoRow]]
  /\ UNCHANGED <<Shared, requests, mishaps>>

Unmoved(t) == {i \in tab[t].local \ tab[t].failed : ~Exists(tab[t].listed[i])}

Migrate(t, i) ==
  /\ tab[t].phase = "migrating" /\ i \in Unmoved(t)
  /\ \A k \in Items : ~Waits(t, k, {"migrate"})
  /\ Send(t, i, "migrate", 0, 0)
  /\ UNCHANGED <<Shared, tab, mishaps>>

(* The versions are taken over first; the thumbnails of the pictures are   *)
(* fetched before the assets are shown.                                    *)
TakeVersions(t) ==
  /\ tab[t].phase = "migrating" /\ Unmoved(t) = {}
  /\ tab' = [tab EXCEPT ![t].phase = "hydrating",
                        ![t].sync = [i \in Items |-> tab[t].listed[i].version]]
  /\ UNCHANGED <<Shared, requests, mishaps>>

(* Faulty variant: failures do not keep the legacy store. *)
MigratedRegardless(t) == TRUE

Migrated(t) == tab[t].failed = {}

(* What was added meanwhile is no longer shown. *)
Show(t) ==
  /\ tab[t].phase = "hydrating"
  /\ tab' = [tab EXCEPT
       ![t].phase = IF Migrated(t) THEN "cleaning" ELSE "open",
       ![t].listed = Closed.listed, ![t].failed = {},
       ![t].local = IF Migrated(t) THEN @ ELSE {},
       ![t].view = [i \in Items |->
          IF Exists(tab[t].listed[i]) THEN Listed(tab[t].listed[i])
          ELSE IF i \in tab[t].failed THEN Original ELSE Hidden],
       ![t].told = @ \cup tab[t].failed]
  /\ UNCHANGED <<Shared, requests, mishaps>>

ForgetLegacy(t) ==
  /\ tab[t].phase = "cleaning"
  /\ legacy' = {}
  /\ tab' = [tab EXCEPT ![t].phase = "open", ![t].local = {}]
  /\ UNCHANGED <<server, fresh, changes, requests, mishaps>>

(* Listing, or removing the legacy store, fails: only what was read from   *)
(* the legacy store is shown.                                              *)
LoadFails(t) ==
  /\ tab[t].phase \in {"listing", "cleaning"} /\ Mishap
  /\ tab' = [tab EXCEPT
       ![t].phase = "open", ![t].hasty = Items, ![t].local = {},
       ![t].view = [i \in Items |-> IF i \in tab[t].local THEN Original ELSE Hidden]]
  /\ UNCHANGED <<Shared, requests>>

-----------------------------------------------------------------------------
(* The user.                                                               *)

Add(t, i) ==
  /\ tab[t].phase # "closed" /\ i \in fresh
  /\ fresh' = fresh \ {i}
  /\ tab' = [tab EXCEPT ![t].view[i] = Original,
                        ![t].hasty = IF Loading(t) THEN @ \cup {i} ELSE @]
  /\ Send(t, i, "create", 0, 0)
  /\ UNCHANGED <<server, legacy, changes, mishaps>>

Enqueue(t, i, kind, edit, view) ==
  tab' = [tab EXCEPT
    ![t].view[i] = view,
    ![t].last[i] = IF kind = "update" THEN edit ELSE @,
    ![t].queue[i] = Append(@, [kind |-> kind, edit |-> edit, previous |-> tab[t].view[i]])]

Edit(t, i) ==
  /\ Shown(t, i) /\ changes < MaxChanges
  /\ changes' = changes + 1
  /\ Enqueue(t, i, "update", changes + 1, [content |-> changes + 1, stamp |-> changes + 1])
  /\ UNCHANGED <<server, legacy, fresh, requests, mishaps>>

Remove(t, i) ==
  /\ Shown(t, i) /\ changes < MaxChanges
  /\ changes' = changes + 1
  /\ Enqueue(t, i, "delete", 0, Hidden)
  /\ UNCHANGED <<server, legacy, fresh, requests, mishaps>>

-----------------------------------------------------------------------------
(* The mutation queues.                                                    *)

Front(t, i) == Head(tab[t].queue[i])

MayRun(t, i) ==
  tab[t].queue[i] # <<>> /\ ~Waits(t, i, {"create", "update", "delete"})

(* Nothing to send: the item is not on the server, or no longer shown. *)
Idle(t, i) ==
  \/ tab[t].sync[i] = 0
  \/ Front(t, i).kind = "update" /\ ~Shown(t, i)

RunNothing(t, i) ==
  /\ MayRun(t, i) /\ Idle(t, i)
  /\ tab' = [tab EXCEPT ![t].queue[i] = Tail(@)]
  /\ UNCHANGED <<Shared, requests, mishaps>>

(* An update sends what is shown now, not what was when it was queued. *)
Run(t, i) ==
  /\ MayRun(t, i) /\ ~Idle(t, i)
  /\ Send(t, i, Front(t, i).kind, tab[t].sync[i],
          IF Front(t, i).kind = "update" THEN tab[t].view[i].content ELSE 0)
  /\ UNCHANGED <<Shared, tab, mishaps>>

-----------------------------------------------------------------------------
(* Answers, and calls that fail.                                           *)

Restamped(asset) == IF asset = Hidden THEN Hidden ELSE [asset EXCEPT !.stamp = 0]

Succeeded(s, r) ==
  LET i == r.item IN
  CASE r.by = "migrate" ->
         [s EXCEPT !.listed[i] = [version |-> r.version, content |-> r.content, deleted |-> FALSE]]
    [] r.by = "create" ->
         [s EXCEPT !.sync[i] = r.version, !.view[i] = Restamped(@)]
    [] r.by = "update" ->
         [s EXCEPT !.sync[i] = r.version, !.view[i] = Restamped(@),
                   !.queue[i] = Tail(@), !.told = @ \ {i}]
    [] r.by = "delete" ->
         [s EXCEPT !.sync[i] = 0, !.queue[i] = Tail(@)]

(* Faulty variant: a failed update puts the previous asset back in any case. *)
RolledBackAlways(asset, op) == IF asset # Hidden THEN op.previous ELSE asset

(* An update is rolled back only while its own stamp is still shown. *)
RolledBack(asset, op) ==
  IF asset # Hidden /\ asset.stamp = op.edit THEN op.previous ELSE asset

Failed(s, r) ==
  LET i == r.item
      op == Head(s.queue[i])
      told == s.told \cup {i} IN
  CASE r.by = "migrate" -> [s EXCEPT !.failed = @ \cup {i}]
    [] r.by = "create" -> [s EXCEPT !.view[i] = Hidden, !.told = told]
    [] r.by = "update" ->
         [s EXCEPT !.view[i] = RolledBack(@, op), !.queue[i] = Tail(@), !.told = told]
    [] r.by = "delete" ->
         [s EXCEPT !.view[i] = IF @ = Hidden THEN op.previous ELSE @,
                   !.queue[i] = Tail(@), !.told = told]

Succeeds(r) ==
  /\ r.tab # NoTab /\ r.state = "ok"
  /\ tab' = [tab EXCEPT ![r.tab] = Succeeded(@, r)]
  /\ requests' = requests \ {r}
  /\ UNCHANGED <<Shared, mishaps>>

Refused(r) ==
  /\ r.tab # NoTab /\ r.state = "refused"
  /\ tab' = [tab EXCEPT ![r.tab] = Failed(@, r)]
  /\ requests' = requests \ {r}
  /\ UNCHANGED <<Shared, mishaps>>

Unheard(r) == [r EXCEPT !.tab = NoTab]
Orphans(rs) == {Unheard(r) : r \in {q \in rs : q.state = "sent"}}

(* No answer comes; the request may still reach the server. *)
Lost(r) ==
  /\ r.tab # NoTab /\ Mishap
  /\ tab' = [tab EXCEPT ![r.tab] = Failed(@, r)]
  /\ requests' = (requests \ {r}) \cup Orphans({r})
  /\ UNCHANGED Shared

(* The tab is closed, or reloaded. *)
Close(t) ==
  /\ tab[t].phase # "closed" /\ Mishap
  /\ tab' = [tab EXCEPT ![t] = Closed]
  /\ LET own == {r \in requests : r.tab = t} IN
     requests' = (requests \ own) \cup Orphans(own)
  /\ UNCHANGED Shared

-----------------------------------------------------------------------------
Load(t) ==
  \/ List(t) \/ TakeVersions(t) \/ Show(t) \/ ForgetLegacy(t)
  \/ \E i \in Items : Migrate(t, i)

Mutate(t, i) == RunNothing(t, i) \/ Run(t, i)
Answer(r) == Handle(r) \/ Succeeds(r) \/ Refused(r)

Next ==
  \/ \E t \in Tabs : Open(t) \/ Load(t) \/ LoadFails(t) \/ Close(t)
  \/ \E t \in Tabs, i \in Items : Add(t, i) \/ Edit(t, i) \/ Remove(t, i) \/ Mutate(t, i)
  \/ \E r \in requests : Answer(r) \/ Lost(r)

Spec == Init /\ [][Next]_vars

-----------------------------------------------------------------------------
(* Properties.                                                              *)

(* No asset of the older version is lost on its way: each one is in the     *)
(* browser until it has a row on the server, although migrations fail and   *)
(* two tabs migrate at once and remove the store they share.                *)
LegacyIsKept == \A i \in LegacyItems : i \in legacy \/ Exists(server[i])

Quiet(t, i) ==
  /\ tab[t].phase \in {"cleaning", "open"}
  /\ tab[t].queue[i] = <<>> /\ ~Creating(t, i)
  /\ i \notin tab[t].told \cup tab[t].hasty

(* What a tab knows of the server and what it shows agree: an item is shown *)
(* exactly while it is known, with the content its version has, unless      *)
(* somebody else has written since.                                         *)
KnownIsShown(t, i) ==
  LET row == server[i]  version == tab[t].sync[i] IN
  /\ Shown(t, i) <=> version > 0
  /\ Shown(t, i) /\ version = row.version /\ ~row.deleted =>
       tab[t].view[i].content = row.content

(* The last edit made here is what is shown. *)
EditIsShown(t, i) ==
  Shown(t, i) /\ tab[t].last[i] > 0 => tab[t].view[i].content = tab[t].last[i]

(* Once nothing of an item is queued or under way, and unless the user was  *)
(* told of a failure, what the tab shows is what the server stores and the  *)
(* last of the user's edits: with changes queued behind a creation or each  *)
(* other, failing and rolled back in any order, none is silently dropped.   *)
ViewIsStored ==
  \A t \in Tabs, i \in Items : Quiet(t, i) => KnownIsShown(t, i) /\ EditIsShown(t, i)
=============================================================================
