------------------------- MODULE AssetLibraryProofs -------------------------
(* The safety of AssetLibrary for any tabs, items, changes and mishaps.     *)
(*                                                                          *)
(* Three arguments: a version that a tab, an answer or a list has of an     *)
(* item is at most the server's, and if equal has its content; the legacy   *)
(* store is removed by a tab that found, or made, a row for everything in   *)
(* it; and what is still to be done for an item whose content is not yet    *)
(* stored is at the end of its queue.                                       *)
EXTENDS AssetLibrary, SequenceTheorems, TLAPS

-----------------------------------------------------------------------------
(* The inductive invariant. *)

Changing == {"update", "delete"}

(* What a call says of the tab that waits for it. *)
Expected(r) ==
  LET s == tab[r.tab]  i == r.item IN
  /\ s.phase # "closed"
  /\ r.by = "migrate" => s.phase = "migrating" /\ i \in Unmoved(r.tab)
  /\ r.by \in Changing => s.queue[i] # <<>> /\ Head(s.queue[i]).kind = r.by

Alike(r, q) ==
  \/ r.tab = q.tab /\ r.tab # NoTab /\ r.by = "migrate" /\ q.by = "migrate"
  \/ r.tab = q.tab /\ r.tab # NoTab /\ r.item = q.item
     /\ r.by \in Changing \cup {"create"} /\ q.by \in Changing \cup {"create"}
  \/ r.item = q.item /\ r.by = "create" /\ q.by = "create"

Calls ==
  /\ \A r \in requests : r.tab # NoTab => Expected(r)
  /\ \A r, q \in requests : Alike(r, q) => r = q
  /\ \A r \in requests : /\ r.by = "migrate" => r.item \in LegacyItems
                         /\ r.by = "create" => r.item \notin LegacyItems
                         /\ r.by = "create" /\ r.state = "sent" => ~Exists(server[r.item])

Blank(t, i) ==
  /\ tab[t].view[i] = Hidden /\ tab[t].queue[i] = <<>>
  /\ tab[t].last[i] = 0

Fresh ==
  \A i \in fresh :
    /\ i \notin LegacyItems /\ ~Exists(server[i])
    /\ \A r \in requests : r.item # i
    /\ \A t \in Tabs : Blank(t, i) /\ tab[t].sync[i] = 0 /\ ~Exists(tab[t].listed[i])

(* A version somebody has of an item, with its content. *)
Fits(i, version, content) ==
  /\ version <= server[i].version
  /\ version = server[i].version => content = server[i].content

Versions ==
  /\ \A i \in Items : Exists(server[i]) \/ ~server[i].deleted
  /\ \A r \in requests : r.state = "ok" => r.version > 0 /\ Fits(r.item, r.version, r.content)
  /\ \A t \in Tabs, i \in Items :
       /\ Exists(tab[t].listed[i]) => Fits(i, tab[t].listed[i].version, tab[t].listed[i].content)
       /\ tab[t].sync[i] <= server[i].version

(* The order of loading. *)
Loads ==
  \A t \in Tabs :
    /\ tab[t].phase \in {"listing", "migrating", "hydrating", "cleaning"} => legacy \subseteq tab[t].local
    /\ tab[t].phase = "hydrating" => Unmoved(t) = {}
    /\ tab[t].phase = "cleaning" => \A i \in tab[t].local : Exists(server[i])
    /\ tab[t].phase = "closed" => tab[t] = Closed

Kept == \A i \in LegacyItems : i \in legacy \/ Exists(server[i])

(* An item of a tab that is closed or still loading. *)
NotYet(t, i) ==
  /\ Blank(t, i)
  /\ ~Waits(t, i, Changing \cup {"create"})
  /\ tab[t].sync[i] = IF tab[t].phase = "hydrating" THEN tab[t].listed[i].version ELSE 0

Ordered(q, last) ==
  /\ \A k \in 1..Len(q) : /\ q[k].kind = "delete" => k = Len(q)
                          /\ q[k].kind = "update" => q[k].edit > 0 /\ q[k].edit <= last
  /\ \A k, m \in 1..Len(q) :
       k < m /\ q[k].kind = "update" /\ q[m].kind = "update" => q[k].edit < q[m].edit

Final(q) == q[Len(q)]

(* An item of a tab that has loaded. *)
Settled(t, i) ==
  LET s == tab[t]  v == s.view[i]  q == s.queue[i]  row == server[i] IN
  /\ Ordered(q, changes)
  /\ Creating(t, i) => s.sync[i] = 0
  /\ Waits(t, i, Changing) => s.sync[i] > 0
  /\ Shown(t, i) /\ ~Creating(t, i) /\ s.sync[i] = 0 => i \in s.told
  /\ ~Shown(t, i) /\ (s.sync[i] > 0 \/ Creating(t, i)) =>
       q # <<>> /\ Final(q).kind = "delete"
  /\ Shown(t, i) /\ q # <<>> => Final(q).kind = "update" /\ v.stamp \in {0, Final(q).edit}
  /\ Shown(t, i) /\ s.last[i] > 0 /\ v.content # s.last[i] => i \in s.told /\ q = <<>>
  /\ Shown(t, i) /\ s.sync[i] > 0 /\ s.sync[i] = row.version /\ q = <<>> /\ i \notin s.told =>
       v.content = row.content
  /\ \A r \in requests :
       r.tab = t /\ r.item = i /\ Shown(t, i) /\ v.content # r.content =>
         /\ r.by = "update" => Len(q) > 1
         /\ r.by = "create" => q # <<>>

Sound(t, i) ==
  /\ tab[t].phase = "closed" \/ Loading(t) => NotYet(t, i)
  /\ tab[t].phase \in {"cleaning", "open"} => Settled(t, i)

Views == \A t \in Tabs : \A i \in Items \ tab[t].hasty : Sound(t, i)

IInv == TypeOK /\ Calls /\ Fresh /\ Versions /\ Loads /\ Kept /\ Views

-----------------------------------------------------------------------------
(* Types. *)

LEMMA Zero == 0 \in Content /\ Content \subseteq Nat /\ Original \in Asset /\ NoRow \in Row
BY BoundsAssumption DEF Content, Original, Asset, NoRow, Row

LEMMA ClosedType == Closed \in Store
<1>1. <<>> \in Queue
  BY DEF Queue
<1>. QED
  BY <1>1, Zero DEF Closed, Store, Phase

LEMMA InitType == Init => TypeOK
BY Zero, ClosedType, LegacyAssumption, BoundsAssumption DEF Init, TypeOK, Request

LEMMA MishapType == TypeOK /\ (Mishap \/ UNCHANGED mishaps) => mishaps' \in 0..MaxMishaps
BY BoundsAssumption DEF Mishap, TypeOK

(* What the types say of one tab, one request and one row. *)
LEMMA StoreType ==
  ASSUME TypeOK, NEW t \in Tabs
  PROVE  /\ tab[t] \in Store
         /\ \A i \in Items : /\ tab[t].view[i] \in Asset \cup {Hidden}
                              /\ tab[t].queue[i] \in Queue
                              /\ tab[t].sync[i] \in Nat /\ tab[t].last[i] \in Content
                              /\ tab[t].listed[i] \in Row
BY DEF TypeOK, Store

LEMMA RequestType ==
  ASSUME TypeOK, NEW r \in requests
  PROVE  /\ r \in Request /\ r.item \in Items /\ r.tab \in Tabs \cup {NoTab}
         /\ r.by \in {"migrate", "create", "update", "delete"}
         /\ r.state \in {"sent", "ok", "refused"}
         /\ r.version \in Nat /\ r.content \in Content
BY DEF TypeOK, Request

(* A step that changes one tab. *)
LEMMA TabType ==
  ASSUME TypeOK, NEW t \in Tabs, NEW s \in Store, tab' = [tab EXCEPT ![t] = s],
         server' \in [Items -> Row], legacy' \subseteq LegacyItems, requests' \subseteq Request,
         fresh' \subseteq Items, changes' \in Content, mishaps' \in 0..MaxMishaps
  PROVE  TypeOK'
BY DEF TypeOK

LEMMA SendType ==
  ASSUME TypeOK, NEW t \in Tabs, NEW i \in Items,
         NEW by \in {"migrate", "create", "update", "delete"},
         NEW version \in Nat, NEW content \in Content, Send(t, i, by, version, content)
  PROVE  requests' \subseteq Request
BY DEF TypeOK, Send, Request

LEMMA OrphansType == ASSUME NEW rs, rs \subseteq Request PROVE Orphans(rs) \subseteq Request
BY DEF Orphans, Unheard, Request

LEMMA Shares == TypeOK /\ UNCHANGED Shared =>
                  /\ server' \in [Items -> Row] /\ legacy' \subseteq LegacyItems
                  /\ fresh' \subseteq Items /\ changes' \in Content
BY DEF TypeOK, Shared

LEMMA RowTypes ==
  ASSUME NEW row \in Row, NEW content \in Content
  PROVE  /\ [row EXCEPT !.version = row.version + 1, !.content = content] \in Row
         /\ [row EXCEPT !.deleted = TRUE] \in Row
         /\ [version |-> 1, content |-> content, deleted |-> FALSE] \in Row
<1>1. row.version + 1 \in Nat
  BY DEF Row
<1>2. [row EXCEPT !.version = row.version + 1, !.content = content] \in Row
  BY <1>1 DEF Row
<1>3. [row EXCEPT !.deleted = TRUE] \in Row
  BY DEF Row
<1>4. [version |-> 1, content |-> content, deleted |-> FALSE] \in Row
  BY DEF Row
<1>. QED
  BY <1>2, <1>3, <1>4

LEMMA WrittenType ==
  ASSUME TypeOK, NEW r \in requests
  PROVE  Written(r) \in Row
<1>1. server[r.item] \in Row /\ r.content \in Content
  BY RequestType DEF TypeOK
<1>2. Inserted(r) \in Row /\ Updated(r) \in Row /\ Deleted(r) \in Row
  BY <1>1, RowTypes DEF Inserted, Updated, Deleted
<1>. QED
  BY <1>2, RequestType DEF Written

(* The store of a tab with other values for one item. *)
LEMMA StoreWith ==
  ASSUME NEW s \in Store, NEW view \in [Items -> Asset \cup {Hidden}], NEW queue \in [Items -> Queue],
         NEW sync \in [Items -> Nat], NEW last \in [Items -> Content], NEW told \in SUBSET Items
  PROVE  /\ [s EXCEPT !.view = view, !.last = last, !.queue = queue] \in Store
         /\ [s EXCEPT !.view = view, !.queue = queue, !.told = told] \in Store
         /\ [s EXCEPT !.sync = sync, !.view = view] \in Store
         /\ [s EXCEPT !.sync = sync, !.queue = queue] \in Store
         /\ [s EXCEPT !.sync = sync, !.view = view, !.queue = queue, !.told = told] \in Store
         /\ [s EXCEPT !.view = view, !.told = told] \in Store
         /\ [s EXCEPT !.view = view, !.hasty = told] \in Store
<1>1. [s EXCEPT !.view = view, !.last = last, !.queue = queue] \in Store
  BY DEF Store
<1>2. [s EXCEPT !.view = view, !.queue = queue, !.told = told] \in Store
  BY DEF Store
<1>3. [s EXCEPT !.sync = sync, !.view = view] \in Store
  BY DEF Store
<1>4. [s EXCEPT !.sync = sync, !.queue = queue] \in Store
  BY DEF Store
<1>5. [s EXCEPT !.sync = sync, !.view = view, !.queue = queue, !.told = told] \in Store
  BY DEF Store
<1>6. [s EXCEPT !.view = view, !.told = told] \in Store
  BY DEF Store
<1>7. [s EXCEPT !.view = view, !.hasty = told] \in Store
  BY DEF Store
<1>. QED
  BY <1>1, <1>2, <1>3, <1>4, <1>5, <1>6, <1>7

LEMMA HandleType == ASSUME TypeOK, NEW r \in requests, Handle(r) PROVE TypeOK'
<1>1. UNCHANGED <<legacy, tab, fresh, changes, mishaps>>
  BY DEF Handle
<1>2. CASE Accepts(r)
  <2>1. Written(r) \in Row
    BY <1>2, WrittenType
  <2>2. server' = [server EXCEPT ![r.item] = Written(r)]
    BY <1>2 DEF Handle
  <2>3. [r EXCEPT !.state = "ok", !.version = Written(r).version, !.content = Written(r).content] \in Request
    BY <2>1, RequestType DEF Request, Row
  <2>4. requests' \subseteq Request
    BY <1>2, <2>3 DEF Handle, Answered, TypeOK
  <2>. QED
    BY <1>1, <2>1, <2>2, <2>4 DEF TypeOK
<1>3. CASE ~Accepts(r)
  <2>1. [r EXCEPT !.state = "refused"] \in Request
    BY RequestType DEF Request
  <2>. QED
    BY <1>1, <1>3, <2>1 DEF Handle, Answered, TypeOK
<1>. QED
  BY <1>2, <1>3

LEMMA LoadType ==
  ASSUME TypeOK, NEW t \in Tabs, Open(t) \/ List(t) \/ TakeVersions(t) \/ Show(t) \/ LoadFails(t)
  PROVE  TypeOK'
<1>1. UNCHANGED <<Shared, requests>> /\ mishaps' \in 0..MaxMishaps
  BY MishapType DEF Open, List, TakeVersions, Show, LoadFails
<1>2. \E s \in Store : tab' = [tab EXCEPT ![t] = s]
  <2>0. tab[t] \in Store /\ legacy \subseteq LegacyItems /\ server \in [Items -> Row]
    BY StoreType DEF TypeOK
  <2>1. CASE Open(t)
    <3>1. [tab[t] EXCEPT !.phase = "listing", !.local = legacy] \in Store
      BY <2>0 DEF Store, Phase
    <3>. QED
      BY <2>1, <3>1 DEF Open
  <2>2. CASE List(t)
    <3>1. [i \in Items |-> IF Live(server[i]) THEN server[i] ELSE NoRow] \in [Items -> Row]
      BY <2>0, Zero
    <3>2. [tab[t] EXCEPT !.phase = "migrating",
             !.listed = [i \in Items |-> IF Live(server[i]) THEN server[i] ELSE NoRow]] \in Store
      BY <2>0, <3>1 DEF Store, Phase
    <3>. QED
      BY <2>2, <3>2 DEF List
  <2>3. CASE TakeVersions(t)
    <3>1. [i \in Items |-> tab[t].listed[i].version] \in [Items -> Nat]
      BY StoreType DEF Row
    <3>2. [tab[t] EXCEPT !.phase = "hydrating",
             !.sync = [i \in Items |-> tab[t].listed[i].version]] \in Store
      BY <2>0, <3>1 DEF Store, Phase
    <3>. QED
      BY <2>3, <3>2 DEF TakeVersions
  <2>4. CASE Show(t)
    <3> DEFINE view == [i \in Items |->
                  IF Exists(tab[t].listed[i]) THEN Listed(tab[t].listed[i])
                  ELSE IF i \in tab[t].failed THEN Original ELSE Hidden]
               s == [tab[t] EXCEPT
                      !.phase = IF Migrated(t) THEN "cleaning" ELSE "open",
                      !.listed = Closed.listed, !.failed = {},
                      !.local = IF Migrated(t) THEN @ ELSE {},
                      !.view = view, !.told = @ \cup tab[t].failed]
    <3>1. view \in [Items -> Asset \cup {Hidden}]
      <4>1. \A row \in Row : Listed(row) \in Asset
        BY Zero DEF Listed, Row, Asset
      <4>. QED
        BY <4>1, Zero, StoreType
    <3>2. Closed.listed \in [Items -> Row]
      BY Zero DEF Closed
    <3>3. tab[t].told \cup tab[t].failed \subseteq Items /\ tab[t].local \subseteq LegacyItems
      BY <2>0, LegacyAssumption DEF Store
    <3>4. s \in Store
      <4> HIDE DEF view
      <4>1. (IF Migrated(t) THEN "cleaning" ELSE "open") \in Phase
            /\ (IF Migrated(t) THEN tab[t].local ELSE {}) \subseteq LegacyItems
        BY <3>3 DEF Phase
      <4>. QED
        BY <2>0, <3>1, <3>2, <3>3, <4>1 DEF Store
    <3>. QED
      BY <2>4, <3>4 DEF Show
  <2>5. CASE LoadFails(t)
    <3> DEFINE view == [i \in Items |-> IF i \in tab[t].local THEN Original ELSE Hidden]
    <3>1. view \in [Items -> Asset \cup {Hidden}]
      BY Zero
    <3>2. [tab[t] EXCEPT !.phase = "open", !.hasty = Items, !.local = {}, !.view = view] \in Store
      BY <2>0, <3>1 DEF Store, Phase
    <3>. QED
      BY <2>5, <3>2 DEF LoadFails
  <2>. QED
    BY <2>1, <2>2, <2>3, <2>4, <2>5
<1>3. requests' \subseteq Request
  BY <1>1 DEF TypeOK
<1>. QED
  BY <1>1, <1>2, <1>3, Shares, TabType

LEMMA ForgetType == ASSUME TypeOK, NEW t \in Tabs, ForgetLegacy(t) PROVE TypeOK'
<1>1. [tab[t] EXCEPT !.phase = "open", !.local = {}] \in Store
  BY StoreType DEF Store, Phase
<1>. QED
  BY <1>1 DEF ForgetLegacy, TypeOK

LEMMA CloseType == ASSUME TypeOK, NEW t \in Tabs, Close(t) PROVE TypeOK'
<1> DEFINE own == {r \in requests : r.tab = t}
<1>1. requests' \subseteq Request
  <2>1. requests' = (requests \ own) \cup Orphans(own) /\ own \subseteq Request
    BY DEF Close, TypeOK
  <2>2. requests \subseteq Request
    BY DEF TypeOK
  <2>. QED
    BY <2>1, <2>2, OrphansType
<1>2. tab' = [tab EXCEPT ![t] = Closed] /\ UNCHANGED Shared /\ mishaps' \in 0..MaxMishaps
  BY MishapType DEF Close
<1>. QED
  BY <1>1, <1>2, ClosedType, Shares, TabType

LEMMA AddType == ASSUME TypeOK, NEW t \in Tabs, NEW i \in Items, Add(t, i) PROVE TypeOK'
<1> DEFINE vs == [tab[t].view EXCEPT ![i] = Original]
           hs == IF Loading(t) THEN tab[t].hasty \cup {i} ELSE tab[t].hasty
           s == [tab[t] EXCEPT !.view = vs, !.hasty = hs]
<1>1. s \in Store
  <2>1. vs \in [Items -> Asset \cup {Hidden}] /\ hs \subseteq Items
    BY StoreType, Zero DEF Store
  <2>2. /\ tab[t].queue \in [Items -> Queue] /\ tab[t].last \in [Items -> Content]
        /\ tab[t].sync \in [Items -> Nat]
    BY StoreType DEF Store
  <2> HIDE DEF vs, hs
  <2>. QED
    BY <2>1, <2>2, StoreType, StoreWith
<1>2. tab' = [tab EXCEPT ![t] = s]
  BY DEF Add
<1>3. requests' \subseteq Request
  BY SendType, Zero DEF Add
<1>4. UNCHANGED <<server, legacy, changes, mishaps>> /\ fresh' \subseteq fresh
  BY DEF Add
<1>. QED
  BY <1>1, <1>2, <1>3, <1>4, TabType DEF TypeOK

LEMMA EnqueueType ==
  ASSUME TypeOK, NEW t \in Tabs, NEW i \in Items, Edit(t, i) \/ Remove(t, i)
  PROVE  TypeOK'
<1>1. /\ changes' = changes + 1 /\ changes + 1 \in Content /\ Shown(t, i)
      /\ UNCHANGED <<server, legacy, fresh, requests, mishaps>>
  BY BoundsAssumption DEF Edit, Remove, Content, TypeOK
<1>2. PICK kind \in {"update", "delete"}, edit \in Content, view \in Asset \cup {Hidden} :
        Enqueue(t, i, kind, edit, view)
  <2>1. [content |-> changes + 1, stamp |-> changes + 1] \in Asset
    BY <1>1 DEF Asset
  <2>. QED
    BY <1>1, <2>1, Zero DEF Edit, Remove
<1> DEFINE q == Append(tab[t].queue[i], [kind |-> kind, edit |-> edit, previous |-> tab[t].view[i]])
           qs == [tab[t].queue EXCEPT ![i] = q]
           vs == [tab[t].view EXCEPT ![i] = view]
           ls == [tab[t].last EXCEPT ![i] = IF kind = "update" THEN edit ELSE @]
           s == [tab[t] EXCEPT !.view = vs, !.last = ls, !.queue = qs]
<1>3. q \in Queue
  <2>1. tab[t].view[i] \in Asset
    BY <1>1, StoreType DEF Shown
  <2>2. [kind |-> kind, edit |-> edit, previous |-> tab[t].view[i]] \in Mutation
    BY <2>1 DEF Mutation
  <2>. QED
    BY <2>2, StoreType, AppendProperties DEF Queue
<1>4. tab' = [tab EXCEPT ![t] = s]
  BY <1>2 DEF Enqueue
<1>5. s \in Store
  <2>1. vs \in [Items -> Asset \cup {Hidden}] /\ ls \in [Items -> Content]
    BY StoreType DEF Store
  <2>2. qs \in [Items -> Queue]
    <3> HIDE DEF q
    <3>. QED
      BY <1>3, StoreType DEF Store
  <2>3. tab[t].sync \in [Items -> Nat] /\ tab[t].told \subseteq Items
    BY StoreType DEF Store
  <2> HIDE DEF vs, ls, qs
  <2>. QED
    BY <2>1, <2>2, <2>3, StoreType, StoreWith
<1>. QED
  BY <1>1, <1>4, <1>5, TabType DEF TypeOK

LEMMA RunNothingType ==
  ASSUME TypeOK, NEW t \in Tabs, NEW i \in Items, RunNothing(t, i)
  PROVE  TypeOK'
<1>1. Tail(tab[t].queue[i]) \in Queue
  BY StoreType, HeadTailProperties DEF Queue, RunNothing, MayRun
<1> DEFINE qs == [tab[t].queue EXCEPT ![i] = Tail(@)]
<1>2. [tab[t] EXCEPT !.queue = qs] \in Store
  <2>1. qs \in [Items -> Queue]
    BY <1>1, StoreType DEF Store
  <2> HIDE DEF qs
  <2>. QED
    BY <2>1, StoreType DEF Store
<1>3. tab' = [tab EXCEPT ![t] = [tab[t] EXCEPT !.queue = qs]]
  BY DEF RunNothing
<1>4. UNCHANGED <<Shared, requests, mishaps>>
  BY DEF RunNothing
<1>. QED
  BY <1>2, <1>3, <1>4, Shares, TabType DEF TypeOK

LEMMA RunType == ASSUME TypeOK, NEW t \in Tabs, NEW i \in Items, Run(t, i) PROVE TypeOK'
<1>1. Front(t, i) \in Mutation
  BY StoreType, HeadTailProperties DEF Queue, Run, MayRun, Front
<1>2. Front(t, i).kind \in {"update", "delete"}
  BY <1>1 DEF Mutation
<1>3. (IF Front(t, i).kind = "update" THEN tab[t].view[i].content ELSE 0) \in Content
  <2>1. CASE Front(t, i).kind = "update"
    <3>1. tab[t].view[i] \in Asset
      BY <2>1, StoreType DEF Run, Idle, Shown
    <3>. QED
      BY <2>1, <3>1 DEF Asset
  <2>. QED
    BY <2>1, Zero
<1>4. requests' \subseteq Request
  BY <1>2, <1>3, SendType, StoreType DEF Run
<1>. QED
  BY <1>4 DEF Run, Shared, TypeOK

LEMMA MigrateType == ASSUME TypeOK, NEW t \in Tabs, NEW i \in Items, Migrate(t, i) PROVE TypeOK'
<1>1. requests' \subseteq Request
  BY SendType, Zero DEF Migrate
<1>. QED
  BY <1>1 DEF Migrate, Shared, TypeOK

-----------------------------------------------------------------------------
(* What a step does to each tab and item. *)

SameSlot(t, i) ==
  /\ tab'[t].view[i] = tab[t].view[i] /\ tab'[t].queue[i] = tab[t].queue[i]
  /\ tab'[t].sync[i] = tab[t].sync[i] /\ tab'[t].last[i] = tab[t].last[i]
  /\ tab'[t].listed[i] = tab[t].listed[i]
  /\ (i \in tab'[t].told <=> i \in tab[t].told)
  /\ (i \in tab'[t].hasty <=> i \in tab[t].hasty)
  /\ (i \in tab'[t].failed <=> i \in tab[t].failed)

OnlySlot(t, i) ==
  /\ \A u \in Tabs : u # t => tab'[u] = tab[u]
  /\ \A u \in Tabs : tab'[u].phase = tab[u].phase /\ tab'[u].local = tab[u].local
  /\ \A u \in Tabs, k \in Items : SameSlot(u, k) \/ (u = t /\ k = i)

LEMMA AddDoes ==
  ASSUME TypeOK, NEW t \in Tabs, NEW i \in Items, Add(t, i)
  PROVE  /\ OnlySlot(t, i)
         /\ tab'[t].view[i] = Original /\ (i \in tab'[t].hasty <=> i \in tab[t].hasty \/ Loading(t))
         /\ tab'[t].queue[i] = tab[t].queue[i] /\ tab'[t].sync[i] = tab[t].sync[i]
         /\ tab'[t].last[i] = tab[t].last[i] /\ tab'[t].listed[i] = tab[t].listed[i]
         /\ (i \in tab'[t].failed <=> i \in tab[t].failed)
<1>. QED
  BY StoreType DEF Add, OnlySlot, SameSlot, Store, TypeOK

LEMMA EnqueueDoes ==
  ASSUME TypeOK, NEW t \in Tabs, NEW i \in Items, NEW kind, NEW edit, NEW view,
         Enqueue(t, i, kind, edit, view)
  PROVE  /\ OnlySlot(t, i)
         /\ tab'[t].view[i] = view
         /\ tab'[t].last[i] = IF kind = "update" THEN edit ELSE tab[t].last[i]
         /\ tab'[t].queue[i] = Append(tab[t].queue[i], [kind |-> kind, edit |-> edit, previous |-> tab[t].view[i]])
         /\ tab'[t].sync[i] = tab[t].sync[i] /\ tab'[t].listed[i] = tab[t].listed[i]
         /\ (i \in tab'[t].told <=> i \in tab[t].told) /\ (i \in tab'[t].hasty <=> i \in tab[t].hasty)
         /\ (i \in tab'[t].failed <=> i \in tab[t].failed)
<1>. QED
  BY StoreType DEF Enqueue, OnlySlot, SameSlot, Store, TypeOK

LEMMA RunNothingDoes ==
  ASSUME TypeOK, NEW t \in Tabs, NEW i \in Items, RunNothing(t, i)
  PROVE  /\ OnlySlot(t, i)
         /\ tab'[t].queue[i] = Tail(tab[t].queue[i])
         /\ tab'[t].view[i] = tab[t].view[i] /\ tab'[t].last[i] = tab[t].last[i]
         /\ tab'[t].sync[i] = tab[t].sync[i] /\ tab'[t].listed[i] = tab[t].listed[i]
         /\ (i \in tab'[t].told <=> i \in tab[t].told) /\ (i \in tab'[t].hasty <=> i \in tab[t].hasty)
         /\ (i \in tab'[t].failed <=> i \in tab[t].failed)
<1>. QED
  BY StoreType DEF RunNothing, OnlySlot, SameSlot, Store, TypeOK

(* Answers.  t and i are the tab and the item that the call was for. *)
Migrates(t, i) ==
  /\ OnlySlot(t, i)
  /\ tab'[t].view[i] = tab[t].view[i] /\ tab'[t].queue[i] = tab[t].queue[i]
  /\ tab'[t].sync[i] = tab[t].sync[i] /\ tab'[t].last[i] = tab[t].last[i]
  /\ (i \in tab'[t].told <=> i \in tab[t].told) /\ (i \in tab'[t].hasty <=> i \in tab[t].hasty)

Touches(t, i) ==
  /\ OnlySlot(t, i)
  /\ tab'[t].last[i] = tab[t].last[i] /\ tab'[t].listed[i] = tab[t].listed[i]
  /\ (i \in tab'[t].hasty <=> i \in tab[t].hasty)
  /\ (i \in tab'[t].failed <=> i \in tab[t].failed)

LEMMA RestampedDoes ==
  ASSUME NEW v \in Asset \cup {Hidden}
  PROVE  /\ Restamped(v) \in Asset \cup {Hidden} /\ (Restamped(v) = Hidden <=> v = Hidden)
         /\ v # Hidden => Restamped(v).content = v.content /\ Restamped(v).stamp = 0
<1>1. CASE v = Hidden
  BY <1>1, HiddenAssumption DEF Restamped
<1>2. CASE v # Hidden
  <2>1. [v EXCEPT !.stamp = 0] \in Asset /\ [v EXCEPT !.stamp = 0].content = v.content
        /\ [v EXCEPT !.stamp = 0].stamp = 0
    BY <1>2, Zero DEF Asset
  <2>. QED
    BY <1>2, <2>1, HiddenAssumption DEF Restamped
<1>. QED
  BY <1>1, <1>2

LEMMA MigratedDoes ==
  ASSUME TypeOK, NEW r \in requests, r.tab # NoTab, r.by = "migrate", r.item \in LegacyItems,
         \/ tab' = [tab EXCEPT ![r.tab] = Succeeded(@, r)]
         \/ tab' = [tab EXCEPT ![r.tab] = Failed(@, r)]
  PROVE  /\ Migrates(r.tab, r.item) /\ tab'[r.tab] \in Store
         /\ \/ /\ tab' = [tab EXCEPT ![r.tab] = Succeeded(@, r)]
               /\ tab'[r.tab].listed[r.item] = [version |-> r.version, content |-> r.content, deleted |-> FALSE]
               /\ (r.item \in tab'[r.tab].failed <=> r.item \in tab[r.tab].failed)
            \/ /\ tab' = [tab EXCEPT ![r.tab] = Failed(@, r)]
               /\ tab'[r.tab].listed[r.item] = tab[r.tab].listed[r.item]
               /\ r.item \in tab'[r.tab].failed
<1> DEFINE t == r.tab  i == r.item
           row == [version |-> r.version, content |-> r.content, deleted |-> FALSE]
<1>0. t \in Tabs /\ i \in Items /\ tab[t] \in Store /\ row \in Row
  BY RequestType, StoreType DEF Row
<1>1. CASE tab' = [tab EXCEPT ![t] = Succeeded(@, r)]
  <2>1. tab' = [tab EXCEPT ![t] = [tab[t] EXCEPT !.listed[i] = row]]
    BY <1>1 DEF Succeeded
  <2> HIDE DEF row
  <2>2. tab'[t] \in Store
    <3>1. [tab[t].listed EXCEPT ![i] = row] \in [Items -> Row]
      BY <1>0 DEF Store
    <3>. QED
      BY <1>0, <2>1, <3>1 DEF Store, TypeOK
  <2>3. Migrates(t, i) /\ tab'[t].listed[i] = row /\ (i \in tab'[t].failed <=> i \in tab[t].failed)
    BY <1>0, <2>1 DEF Migrates, OnlySlot, SameSlot, Store, TypeOK
  <2>. QED
    BY <1>1, <2>2, <2>3 DEF row
<1>2. CASE tab' = [tab EXCEPT ![t] = Failed(@, r)]
  <2>1. tab' = [tab EXCEPT ![t] = [tab[t] EXCEPT !.failed = @ \cup {i}]]
    BY <1>2 DEF Failed
  <2>2. tab'[t] \in Store
    <3>1. [tab[t] EXCEPT !.failed = @ \cup {i}] \in Store
      BY <1>0 DEF Store
    <3>. QED
      BY <1>0, <2>1, <3>1 DEF TypeOK
  <2>3. Migrates(t, i) /\ tab'[t].listed[i] = tab[t].listed[i] /\ i \in tab'[t].failed
    BY <1>0, <2>1 DEF Migrates, OnlySlot, SameSlot, Store, TypeOK
  <2>. QED
    BY <1>2, <2>2, <2>3
<1>. QED
  BY <1>1, <1>2

LEMMA CreatedDoes ==
  ASSUME TypeOK, NEW r \in requests, r.tab # NoTab, r.by = "create",
         tab' = [tab EXCEPT ![r.tab] = Succeeded(@, r)]
  PROVE  /\ Touches(r.tab, r.item) /\ tab'[r.tab] \in Store
         /\ tab'[r.tab].queue[r.item] = tab[r.tab].queue[r.item]
         /\ tab'[r.tab].sync[r.item] = r.version
         /\ tab'[r.tab].view[r.item] = Restamped(tab[r.tab].view[r.item])
         /\ (r.item \in tab'[r.tab].told <=> r.item \in tab[r.tab].told)
<1> DEFINE t == r.tab  i == r.item  v == Restamped(tab[t].view[i])
           vs == [tab[t].view EXCEPT ![i] = v]
           ys == [tab[t].sync EXCEPT ![i] = r.version]
<1>0. t \in Tabs /\ i \in Items /\ tab[t] \in Store /\ r.version \in Nat /\ v \in Asset \cup {Hidden}
  BY RequestType, StoreType, RestampedDoes
<1>1. tab' = [tab EXCEPT ![t] = [tab[t] EXCEPT !.sync = ys, !.view = vs]]
  BY DEF Succeeded
<1> HIDE DEF v
<1>2. tab'[t] \in Store
  <2>1. vs \in [Items -> Asset \cup {Hidden}] /\ ys \in [Items -> Nat]
        /\ tab[t].queue \in [Items -> Queue] /\ tab[t].last \in [Items -> Content]
        /\ tab[t].told \subseteq Items
    BY <1>0 DEF Store
  <2>2. [tab[t] EXCEPT !.sync = ys, !.view = vs] \in Store
    <3> HIDE DEF vs, ys
    <3>. QED
      BY <1>0, <2>1, StoreWith
  <2>. QED
    BY <1>0, <1>1, <2>2 DEF TypeOK
<1>3. /\ Touches(t, i) /\ tab'[t].queue[i] = tab[t].queue[i] /\ tab'[t].sync[i] = r.version
      /\ tab'[t].view[i] = v /\ (i \in tab'[t].told <=> i \in tab[t].told)
  <2> DEFINE n == [tab[t] EXCEPT !.sync = ys, !.view = vs]
  <2>0. tab'[t] = n
    BY <1>0, <1>1 DEF TypeOK
  <2>3. \A u \in Tabs : u # t => tab'[u] = tab[u]
    BY <1>0, <1>1 DEF TypeOK
  <2>1. /\ n.sync = ys /\ n.view = vs /\ n.queue = tab[t].queue
        /\ n.last = tab[t].last /\ n.listed = tab[t].listed
        /\ n.told = tab[t].told /\ n.hasty = tab[t].hasty
        /\ n.failed = tab[t].failed
        /\ n.phase = tab[t].phase /\ n.local = tab[t].local
    <3> HIDE DEF vs, ys
    <3>. QED
      BY <1>0 DEF Store
  <2>2. ys[i] = r.version /\ vs[i] = v /\ \A k \in Items : k # i => ys[k] = tab[t].sync[k] /\ vs[k] = tab[t].view[k]
    BY <1>0 DEF Store
  <2> HIDE DEF n, ys, vs
  <2>. QED
    BY <1>0, <2>0, <2>1, <2>2, <2>3 DEF Touches, OnlySlot, SameSlot
<1>. QED
  BY <1>2, <1>3 DEF v

LEMMA UpdatedDoes ==
  ASSUME TypeOK, NEW r \in requests, r.tab # NoTab, r.by = "update", Expected(r),
         tab' = [tab EXCEPT ![r.tab] = Succeeded(@, r)]
  PROVE  /\ Touches(r.tab, r.item) /\ tab'[r.tab] \in Store
         /\ tab'[r.tab].queue[r.item] = Tail(tab[r.tab].queue[r.item])
         /\ tab'[r.tab].sync[r.item] = r.version
         /\ tab'[r.tab].view[r.item] = Restamped(tab[r.tab].view[r.item])
         /\ r.item \notin tab'[r.tab].told
<1> DEFINE t == r.tab  i == r.item  v == Restamped(tab[t].view[i])
           vs == [tab[t].view EXCEPT ![i] = v]
           ys == [tab[t].sync EXCEPT ![i] = r.version]
           q == Tail(tab[t].queue[i])
           qs == [tab[t].queue EXCEPT ![i] = q]
           told == tab[t].told \ {i}
<1>0. t \in Tabs /\ i \in Items /\ tab[t] \in Store /\ r.version \in Nat /\ v \in Asset \cup {Hidden}
  BY RequestType, StoreType, RestampedDoes
<1>1. tab' = [tab EXCEPT ![t] = [tab[t] EXCEPT !.sync = ys, !.view = vs, !.queue = qs, !.told = told]]
  BY DEF Succeeded
<1>2. q \in Queue
  BY <1>0, StoreType, HeadTailProperties DEF Expected, Changing, Queue
<1> HIDE DEF v, q
<1>3. tab'[t] \in Store
  <2>1. vs \in [Items -> Asset \cup {Hidden}] /\ ys \in [Items -> Nat]
        /\ qs \in [Items -> Queue] /\ tab[t].last \in [Items -> Content]
        /\ told \subseteq Items
    BY <1>0, <1>2 DEF Store
  <2>2. [tab[t] EXCEPT !.sync = ys, !.view = vs, !.queue = qs, !.told = told] \in Store
    <3> HIDE DEF vs, ys, qs, told
    <3>. QED
      BY <1>0, <2>1, StoreWith
  <2>. QED
    BY <1>0, <1>1, <2>2 DEF TypeOK
<1>4. /\ Touches(t, i) /\ tab'[t].queue[i] = q /\ tab'[t].sync[i] = r.version
      /\ tab'[t].view[i] = v /\ i \notin tab'[t].told
  <2> DEFINE n == [tab[t] EXCEPT !.sync = ys, !.view = vs, !.queue = qs, !.told = told]
  <2>0. tab'[t] = n
    BY <1>0, <1>1 DEF TypeOK
  <2>3. \A u \in Tabs : u # t => tab'[u] = tab[u]
    BY <1>0, <1>1 DEF TypeOK
  <2>1. /\ n.sync = ys /\ n.view = vs /\ n.queue = qs
        /\ n.last = tab[t].last /\ n.listed = tab[t].listed
        /\ n.told = told /\ n.hasty = tab[t].hasty
        /\ n.failed = tab[t].failed
        /\ n.phase = tab[t].phase /\ n.local = tab[t].local
    <3> HIDE DEF vs, ys, qs, told
    <3>. QED
      BY <1>0 DEF Store
  <2>2. /\ ys[i] = r.version /\ vs[i] = v /\ qs[i] = q /\ i \notin told
        /\ \A k \in Items : k # i => /\ ys[k] = tab[t].sync[k] /\ vs[k] = tab[t].view[k]
                                    /\ qs[k] = tab[t].queue[k] /\ (k \in told <=> k \in tab[t].told)
    BY <1>0 DEF Store
  <2> HIDE DEF n, ys, vs, qs, told
  <2>. QED
    BY <1>0, <2>0, <2>1, <2>2, <2>3 DEF Touches, OnlySlot, SameSlot
<1>. QED
  BY <1>3, <1>4 DEF v, q

LEMMA DeletedDoes ==
  ASSUME TypeOK, NEW r \in requests, r.tab # NoTab, r.by = "delete", Expected(r),
         tab' = [tab EXCEPT ![r.tab] = Succeeded(@, r)]
  PROVE  /\ Touches(r.tab, r.item) /\ tab'[r.tab] \in Store
         /\ tab'[r.tab].queue[r.item] = Tail(tab[r.tab].queue[r.item])
         /\ tab'[r.tab].sync[r.item] = 0
         /\ tab'[r.tab].view[r.item] = tab[r.tab].view[r.item]
         /\ (r.item \in tab'[r.tab].told <=> r.item \in tab[r.tab].told)
<1> DEFINE t == r.tab  i == r.item
           ys == [tab[t].sync EXCEPT ![i] = 0]
           q == Tail(tab[t].queue[i])
           qs == [tab[t].queue EXCEPT ![i] = q]
<1>0. t \in Tabs /\ i \in Items /\ tab[t] \in Store
  BY RequestType, StoreType
<1>1. tab' = [tab EXCEPT ![t] = [tab[t] EXCEPT !.sync = ys, !.queue = qs]]
  BY DEF Succeeded
<1>2. q \in Queue
  BY <1>0, StoreType, HeadTailProperties DEF Expected, Changing, Queue
<1> HIDE DEF q
<1>3. tab'[t] \in Store
  <2>1. tab[t].view \in [Items -> Asset \cup {Hidden}] /\ ys \in [Items -> Nat]
        /\ qs \in [Items -> Queue] /\ tab[t].last \in [Items -> Content]
        /\ tab[t].told \subseteq Items
    BY <1>0, <1>2 DEF Store
  <2>2. [tab[t] EXCEPT !.sync = ys, !.queue = qs] \in Store
    <3> HIDE DEF ys, qs
    <3>. QED
      BY <1>0, <2>1, StoreWith
  <2>. QED
    BY <1>0, <1>1, <2>2 DEF TypeOK
<1>4. /\ Touches(t, i) /\ tab'[t].queue[i] = q /\ tab'[t].sync[i] = 0
      /\ tab'[t].view[i] = tab[t].view[i] /\ (i \in tab'[t].told <=> i \in tab[t].told)
  <2> DEFINE n == [tab[t] EXCEPT !.sync = ys, !.queue = qs]
  <2>0. tab'[t] = n
    BY <1>0, <1>1 DEF TypeOK
  <2>3. \A u \in Tabs : u # t => tab'[u] = tab[u]
    BY <1>0, <1>1 DEF TypeOK
  <2>1. /\ n.sync = ys /\ n.view = tab[t].view /\ n.queue = qs
        /\ n.last = tab[t].last /\ n.listed = tab[t].listed
        /\ n.told = tab[t].told /\ n.hasty = tab[t].hasty
        /\ n.failed = tab[t].failed
        /\ n.phase = tab[t].phase /\ n.local = tab[t].local
    <3> HIDE DEF ys, qs
    <3>. QED
      BY <1>0 DEF Store
  <2>2. /\ ys[i] = 0 /\ qs[i] = q
        /\ \A k \in Items : k # i => ys[k] = tab[t].sync[k] /\ qs[k] = tab[t].queue[k]
    BY <1>0 DEF Store
  <2> HIDE DEF n, ys, qs
  <2>. QED
    BY <1>0, <2>0, <2>1, <2>2, <2>3 DEF Touches, OnlySlot, SameSlot
<1>. QED
  BY <1>3, <1>4 DEF q

(* A call that failed: what is put back, and what is left of the queue. *)
PutBack(r, v, q) ==
  LET t == r.tab  i == r.item  op == Head(tab[t].queue[i]) IN
  \/ r.by = "create" /\ v = Hidden /\ q = tab[t].queue[i]
  \/ r.by = "update" /\ v = RolledBack(tab[t].view[i], op) /\ q = Tail(tab[t].queue[i])
  \/ /\ r.by = "delete" /\ q = Tail(tab[t].queue[i])
     /\ v = IF Shown(t, i) THEN tab[t].view[i] ELSE op.previous

LEMMA FailedDoes ==
  ASSUME TypeOK, NEW r \in requests, r.tab # NoTab, r.by # "migrate", Expected(r),
         tab' = [tab EXCEPT ![r.tab] = Failed(@, r)]
  PROVE  /\ Touches(r.tab, r.item) /\ tab'[r.tab] \in Store
         /\ PutBack(r, tab'[r.tab].view[r.item], tab'[r.tab].queue[r.item])
         /\ tab'[r.tab].sync[r.item] = tab[r.tab].sync[r.item]
         /\ r.item \in tab'[r.tab].told
<1> DEFINE t == r.tab  i == r.item  told == tab[t].told \cup {i}
<1>0. /\ t \in Tabs /\ i \in Items /\ tab[t] \in Store /\ told \subseteq Items
      /\ r.by \in {"create", "update", "delete"}
  BY RequestType, StoreType DEF Store
<1>1. PICK v \in Asset \cup {Hidden}, q \in Queue :
        /\ PutBack(r, v, q)
        /\ tab' = [tab EXCEPT ![t] = [tab[t] EXCEPT !.view = [tab[t].view EXCEPT ![i] = v],
                                        !.queue = [tab[t].queue EXCEPT ![i] = q], !.told = told]]
  <2>0. r.by \in Changing =>
          /\ Head(tab[t].queue[i]).previous \in Asset
          /\ Tail(tab[t].queue[i]) \in Queue
    <3>1. r.by \in Changing => tab[t].queue[i] # <<>> /\ tab[t].queue[i] \in Seq(Mutation)
      BY <1>0, StoreType DEF Expected, Queue
    <3>2. r.by \in Changing => Head(tab[t].queue[i]) \in Mutation /\ Tail(tab[t].queue[i]) \in Seq(Mutation)
      BY <3>1, HeadTailProperties
    <3>. QED
      BY <3>2 DEF Mutation, Queue
  <2>1. CASE r.by = "create"
    <3>1. tab[t].queue = [tab[t].queue EXCEPT ![i] = tab[t].queue[i]]
      BY <1>0 DEF Store
    <3>2. [tab[t] EXCEPT !.view = [tab[t].view EXCEPT ![i] = Hidden], !.told = told] =
            [tab[t] EXCEPT !.view = [tab[t].view EXCEPT ![i] = Hidden],
                           !.queue = tab[t].queue, !.told = told]
      BY <1>0 DEF Store
    <3>3. tab' = [tab EXCEPT ![t] = [tab[t] EXCEPT !.view = [tab[t].view EXCEPT ![i] = Hidden], !.told = told]]
      BY <2>1 DEF Failed
    <3>4. PutBack(r, Hidden, tab[t].queue[i]) /\ tab[t].queue[i] \in Queue
      BY <1>0, <2>1, StoreType DEF PutBack
    <3>5. tab' = [tab EXCEPT ![t] = [tab[t] EXCEPT !.view = [tab[t].view EXCEPT ![i] = Hidden],
                    !.queue = [tab[t].queue EXCEPT ![i] = tab[t].queue[i]], !.told = told]]
      <4> HIDE DEF told
      <4>. QED
        BY <3>1, <3>2, <3>3
    <3>. QED
      BY <3>4, <3>5
  <2>2. CASE r.by = "update"
    <3>1. RolledBack(tab[t].view[i], Head(tab[t].queue[i])) \in Asset \cup {Hidden}
      BY <1>0, <2>0, <2>2, StoreType DEF RolledBack, Changing
    <3>2. PutBack(r, RolledBack(tab[t].view[i], Head(tab[t].queue[i])), Tail(tab[t].queue[i]))
      BY <2>2 DEF PutBack
    <3>3. tab' = [tab EXCEPT ![t] = [tab[t] EXCEPT
                    !.view = [tab[t].view EXCEPT ![i] = RolledBack(tab[t].view[i], Head(tab[t].queue[i]))],
                    !.queue = [tab[t].queue EXCEPT ![i] = Tail(tab[t].queue[i])], !.told = told]]
      BY <2>2 DEF Failed
    <3>. QED
      BY <2>0, <2>2, <3>1, <3>2, <3>3 DEF Changing
  <2>3. CASE r.by = "delete"
    <3> DEFINE v == IF Shown(t, i) THEN tab[t].view[i] ELSE Head(tab[t].queue[i]).previous
    <3>1. v \in Asset \cup {Hidden}
      BY <1>0, <2>0, <2>3, StoreType DEF Changing
    <3>2. PutBack(r, v, Tail(tab[t].queue[i]))
      BY <2>3 DEF PutBack
    <3>3. tab' = [tab EXCEPT ![t] = [tab[t] EXCEPT
                    !.view = [tab[t].view EXCEPT ![i] = v],
                    !.queue = [tab[t].queue EXCEPT ![i] = Tail(tab[t].queue[i])], !.told = told]]
      <4>1. (IF tab[t].view[i] = Hidden THEN Head(tab[t].queue[i]).previous ELSE tab[t].view[i]) = v
        BY DEF Shown
      <4>. QED
        BY <2>3, <4>1 DEF Failed
    <3>. QED
      BY <2>0, <2>3, <3>1, <3>2, <3>3 DEF Changing
  <2>. QED
    BY <1>0, <2>1, <2>2, <2>3
<1> DEFINE vs == [tab[t].view EXCEPT ![i] = v]
           qs == [tab[t].queue EXCEPT ![i] = q]
<1>2. tab'[t] \in Store
  <2>1. vs \in [Items -> Asset \cup {Hidden}] /\ qs \in [Items -> Queue]
        /\ tab[t].sync \in [Items -> Nat] /\ tab[t].last \in [Items -> Content]
    BY <1>0 DEF Store
  <2>2. [tab[t] EXCEPT !.view = vs, !.queue = qs, !.told = told] \in Store
    <3> HIDE DEF vs, qs, told
    <3>. QED
      BY <1>0, <2>1, StoreWith
  <2>. QED
    BY <1>0, <1>1, <2>2 DEF TypeOK
<1>3. /\ Touches(t, i) /\ tab'[t].view[i] = v /\ tab'[t].queue[i] = q
      /\ tab'[t].sync[i] = tab[t].sync[i] /\ i \in tab'[t].told
  <2> DEFINE n == [tab[t] EXCEPT !.view = vs, !.queue = qs, !.told = told]
  <2>0. tab'[t] = n
    BY <1>0, <1>1 DEF TypeOK
  <2>3. \A u \in Tabs : u # t => tab'[u] = tab[u]
    BY <1>0, <1>1 DEF TypeOK
  <2>1. /\ n.sync = tab[t].sync /\ n.view = vs /\ n.queue = qs
        /\ n.last = tab[t].last /\ n.listed = tab[t].listed
        /\ n.told = told /\ n.hasty = tab[t].hasty
        /\ n.failed = tab[t].failed
        /\ n.phase = tab[t].phase /\ n.local = tab[t].local
    <3> HIDE DEF vs, qs, told
    <3>. QED
      BY <1>0 DEF Store
  <2>2. /\ vs[i] = v /\ qs[i] = q /\ i \in told
        /\ \A k \in Items : k # i => /\ vs[k] = tab[t].view[k] /\ qs[k] = tab[t].queue[k]
                                    /\ (k \in told <=> k \in tab[t].told)
    BY <1>0 DEF Store
  <2> HIDE DEF n, vs, qs, told
  <2>. QED
    BY <1>0, <2>0, <2>1, <2>2, <2>3 DEF Touches, OnlySlot, SameSlot
<1>. QED
  BY <1>1, <1>2, <1>3

-----------------------------------------------------------------------------
(* Queues. *)

LEMMA MutationTypes ==
  ASSUME NEW q \in Queue
  PROVE  /\ Len(q) \in Nat /\ (q = <<>> <=> Len(q) = 0)
         /\ \A k \in 1..Len(q) : /\ q[k].kind \in {"update", "delete"}
                                 /\ q[k].edit \in Nat /\ q[k].previous \in Asset
<1>1. q \in Seq(Mutation)
  BY DEF Queue
<1>2. Len(q) \in Nat /\ \A k \in 1..Len(q) : q[k] \in Mutation
  BY <1>1
<1>3. \A op \in Mutation : op.kind \in {"update", "delete"} /\ op.edit \in Nat /\ op.previous \in Asset
  BY Zero DEF Mutation
<1>. QED
  BY <1>1, <1>2, <1>3, EmptySeq

LEMMA TailProperties ==
  ASSUME NEW q \in Queue, q # <<>>, NEW last \in Nat, Ordered(q, last)
  PROVE  /\ Tail(q) \in Queue /\ Ordered(Tail(q), last)
         /\ Head(q) = q[1] /\ Head(q) \in Mutation /\ Len(q) \in Nat /\ Len(q) > 0
         /\ Tail(q) = <<>> <=> Len(q) = 1
         /\ Tail(q) # <<>> => Final(Tail(q)) = Final(q)
         /\ Head(q).kind = "delete" => Len(q) = 1
         /\ Len(q) = 1 => Final(q) = Head(q)
<1>1. q \in Seq(Mutation) /\ Len(q) \in Nat /\ Len(q) > 0 /\ Len(q) # 0
  BY EmptySeq DEF Queue
<1>2. /\ Tail(q) \in Seq(Mutation) /\ Len(Tail(q)) = Len(q) - 1
      /\ \A k \in 1..Len(Tail(q)) : Tail(q)[k] = q[k + 1]
      /\ Head(q) = q[1] /\ Head(q) \in Mutation
  BY <1>1, HeadTailProperties
<1>3. Tail(q) = <<>> <=> Len(q) = 1
  <2>1. Tail(q) \in Queue
    BY <1>2 DEF Queue
  <2>2. Tail(q) = <<>> <=> Len(Tail(q)) = 0
    BY <2>1, MutationTypes
  <2>. QED
    BY <1>1, <1>2, <2>2
<1>4. Ordered(Tail(q), last)
  <2> DEFINE n == Len(q)  p == Tail(q)
  <2> DEFINE l == Len(p)
  <2>0. n \in Nat /\ l = n - 1 /\ \A k \in 1..l : p[k] = q[k + 1]
    BY <1>1, <1>2
  <2>1. \A k \in 1..Len(p) : k + 1 \in 1..n /\ p[k] = q[k + 1] /\ (k + 1 = n => k = Len(p))
    <3>1. \A k \in 1..l : k + 1 \in 1..n /\ (k + 1 = n => k = l)
      <4> HIDE DEF l, n
      <4>. QED
        BY <2>0
    <3>. QED
      BY <2>0, <3>1
  <2>2. \A k \in 1..Len(p) : /\ p[k].kind = "delete" => k = Len(p)
                             /\ p[k].kind = "update" => p[k].edit > 0 /\ p[k].edit <= last
    BY <2>1 DEF Ordered
  <2>3. \A k, m \in 1..Len(p) :
          k < m /\ p[k].kind = "update" /\ p[m].kind = "update" => p[k].edit < p[m].edit
    <3>1. \A k, m \in 1..Len(p) : k < m => k + 1 < m + 1
      BY <1>1, <1>2
    <3>. QED
      BY <2>1, <3>1 DEF Ordered
  <2>. QED
    BY <2>2, <2>3 DEF Ordered
<1>5. Tail(q) # <<>> => Final(Tail(q)) = Final(q)
  BY <1>1, <1>2, <1>3 DEF Final
<1>6. Head(q).kind = "delete" => Len(q) = 1
  <2>1. 1 \in 1..Len(q)
    BY <1>1
  <2>. QED
    BY <1>2, <2>1 DEF Ordered
<1>7. Len(q) = 1 => Final(q) = Head(q)
  BY <1>2 DEF Final
<1>. QED
  BY <1>1, <1>2, <1>3, <1>4, <1>5, <1>6, <1>7 DEF Queue

LEMMA AppendOrdered ==
  ASSUME NEW q \in Queue, NEW last \in Nat, Ordered(q, last),
         q # <<>> => Final(q).kind = "update",
         NEW op \in Mutation, op.kind = "update" => op.edit = last + 1
  PROVE  /\ Ordered(Append(q, op), last + 1)
         /\ Final(Append(q, op)) = op /\ Append(q, op) # <<>>
         /\ q # <<>> => Len(Append(q, op)) > 1
<1> DEFINE a == Append(q, op)
<1>1. q \in Seq(Mutation) /\ Len(q) \in Nat /\ (q # <<>> => Len(q) > 0)
  BY EmptySeq DEF Queue
<1>2. /\ a \in Seq(Mutation) /\ Len(a) = Len(q) + 1 /\ a[Len(a)] = op
      /\ \A k \in 1..Len(q) : a[k] = q[k]
  BY <1>1, AppendProperties
<1>3. a # <<>> /\ (q # <<>> => Len(a) > 1)
  BY <1>1, <1>2, EmptySeq
<1>4. \A k \in 1..Len(q) : q[k].kind = "update" /\ q[k].edit > 0 /\ q[k].edit <= last
  <2>1. \A k \in 1..Len(q) : q[k] \in Mutation
    BY <1>1
  <2>2. \A k \in 1..Len(q) : q[k].kind = "update" \/ q[k].kind = "delete"
    BY <2>1 DEF Mutation
  <2>3. \A k \in 1..Len(q) : q # <<>>
    BY <1>1, EmptySeq
  <2>. QED
    BY <1>1, <2>2, <2>3 DEF Ordered, Final
<1>5. Ordered(a, last + 1)
  <2>0. \A k \in 1..Len(q) : q[k].edit \in Nat
    BY MutationTypes
  <2>1. \A k \in 1..Len(a) : k \in 1..Len(q) \/ (k = Len(a) /\ a[k] = op)
    BY <1>1, <1>2
  <2>2. \A k \in 1..Len(a) : a[k].kind = "delete" => k = Len(a)
    BY <1>2, <1>4, <2>1
  <2>3. \A k \in 1..Len(a) : a[k].kind = "update" => a[k].edit > 0 /\ a[k].edit <= last + 1
    BY <1>2, <1>4, <2>0, <2>1
  <2>4. \A k, m \in 1..Len(a) :
          k < m /\ a[k].kind = "update" /\ a[m].kind = "update" => a[k].edit < a[m].edit
    <3>1. SUFFICES ASSUME NEW k \in 1..Len(a), NEW m \in 1..Len(a), k < m,
                          a[k].kind = "update", a[m].kind = "update"
                   PROVE  a[k].edit < a[m].edit
      OBVIOUS
    <3>2. k \in 1..Len(q)
      BY <1>1, <1>2, <3>1
    <3>3. CASE m \in 1..Len(q)
      BY <1>2, <3>1, <3>2, <3>3 DEF Ordered
    <3>4. CASE m = Len(a) /\ a[m] = op
      BY <1>2, <1>4, <2>0, <3>1, <3>2, <3>4
    <3>. QED
      BY <2>1, <3>3, <3>4
  <2>. QED
    BY <2>2, <2>3, <2>4 DEF Ordered
<1>. QED
  BY <1>2, <1>3, <1>5 DEF Final

LEMMA OrderedStays ==
  ASSUME NEW q \in Queue, NEW m \in Nat, NEW n \in Nat, m <= n, Ordered(q, m)
  PROVE  Ordered(q, n)
<1>1. \A k \in 1..Len(q) : q[k].edit \in Nat
  BY MutationTypes
<1>. QED
  BY <1>1 DEF Ordered

-----------------------------------------------------------------------------
(* What a step does to the rows and the calls. *)

Grows ==
  \A i \in Items :
    /\ server[i].version <= server'[i].version
    /\ server'[i].version = server[i].version => server'[i].content = server[i].content

LEMMA Unchanged == ASSUME TypeOK, UNCHANGED server PROVE Grows
BY DEF TypeOK, Row, Grows

LEMMA FitsStays ==
  ASSUME TypeOK, TypeOK', Grows, NEW i \in Items, NEW version \in Nat, NEW content,
         Fits(i, version, content)
  PROVE  Fits(i, version, content)'
<1>1. server[i] \in Row /\ server'[i] \in Row
  BY DEF TypeOK
<1>. QED
  BY <1>1 DEF Grows, Fits, Row

(* What Handle does to its row. *)
LEMMA Accepted ==
  ASSUME TypeOK, Calls, Versions, NEW r \in requests, Handle(r), Accepts(r)
  PROVE  LET row == Written(r)  old == server[r.item] IN
         /\ row \in Row /\ row.version > 0 /\ old.version <= row.version
         /\ row.version = old.version => row.content = old.content
         /\ r.by = "update" => row.content = r.content
         /\ r.by = "create" => row.content = r.content
<1> DEFINE old == server[r.item]
<1>1. old \in Row /\ r.state = "sent" /\ Written(r) \in Row /\ r.content \in Content
  BY WrittenType, RequestType DEF TypeOK, Handle
<1>2. CASE r.by \in {"migrate", "create"}
  <2>1. Written(r) = IF Exists(old) THEN old ELSE [version |-> 1, content |-> r.content, deleted |-> FALSE]
    BY <1>2 DEF Written, Inserted
  <2>2. r.by = "create" => ~Exists(old)
    BY <1>1 DEF Calls
  <2>. QED
    BY <1>1, <1>2, <2>1, <2>2 DEF Exists, Row
<1>3. CASE r.by = "update"
  <2>1. Written(r) = [old EXCEPT !.version = old.version + 1, !.content = r.content]
    BY <1>3 DEF Written, Updated
  <2>2. Written(r).version = old.version + 1 /\ Written(r).content = r.content
    BY <1>1, <2>1 DEF Row
  <2>3. old.version \in Nat
    BY <1>1 DEF Row
  <2>. QED
    BY <1>1, <1>3, <2>2, <2>3
<1>4. CASE r.by = "delete"
  <2>1. Written(r) = [old EXCEPT !.deleted = TRUE] /\ old.version > 0
    BY <1>4 DEF Written, Deleted, Accepts, Live, Exists
  <2>2. Written(r).version = old.version /\ Written(r).content = old.content
    BY <1>1, <2>1 DEF Row
  <2>3. old.version \in Nat
    BY <1>1 DEF Row
  <2>. QED
    BY <1>1, <1>4, <2>1, <2>2, <2>3
<1>. QED
  BY <1>2, <1>3, <1>4, RequestType

LEMMA HandleGrows ==
  ASSUME TypeOK, Calls, Versions, NEW r \in requests, Handle(r)
  PROVE  Grows
<1>1. CASE Accepts(r)
  <2>1. server' = [server EXCEPT ![r.item] = Written(r)] /\ r.item \in Items
    BY <1>1, RequestType DEF Handle
  <2>2. \A i \in Items : server[i] \in Row
    BY DEF TypeOK
  <2>3. \A i \in Items : i # r.item => server'[i] = server[i]
    BY <2>1 DEF TypeOK
  <2>4. server'[r.item] = Written(r)
    BY <2>1 DEF TypeOK
  <2>. QED
    BY <1>1, <2>1, <2>2, <2>3, <2>4, Accepted DEF Grows, Row
<1>2. CASE ~Accepts(r)
  BY <1>2, Unchanged DEF Handle
<1>. QED
  BY <1>1, <1>2

(* The answer takes the place of the call. *)
LEMMA HandleAnswers ==
  ASSUME TypeOK, Calls, Versions, NEW r \in requests, Handle(r)
  PROVE  \E answer :
           /\ requests' = (requests \ {r}) \cup (IF r.tab = NoTab THEN {} ELSE {answer})
           /\ answer.tab = r.tab /\ answer.item = r.item /\ answer.by = r.by
           /\ answer.state # "sent"
           /\ r.by \in {"update", "create"} => answer.content = r.content
           /\ answer.state = "ok" => /\ answer.version = server'[r.item].version
                                     /\ answer.content = server'[r.item].content
                                     /\ answer.version > 0
<1>0. r \in Request /\ r.item \in Items
  BY RequestType
<1>1. CASE Accepts(r)
  <2> DEFINE row == Written(r)
             answer == [r EXCEPT !.state = "ok", !.version = row.version, !.content = row.content]
  <2>1. requests' = (requests \ {r}) \cup (IF r.tab = NoTab THEN {} ELSE {answer}) /\ server'[r.item] = row
    BY <1>0, <1>1 DEF Handle, Answered, TypeOK
  <2>2. /\ answer.tab = r.tab /\ answer.item = r.item /\ answer.by = r.by /\ answer.state = "ok"
        /\ answer.version = row.version /\ answer.content = row.content
    BY <1>0 DEF Request
  <2>3. row.version > 0 /\ (r.by \in {"update", "create"} => row.content = r.content)
    BY <1>1, Accepted
  <2>. QED
    BY <2>1, <2>2, <2>3
<1>2. CASE ~Accepts(r)
  <2> DEFINE answer == [r EXCEPT !.state = "refused"]
  <2>1. requests' = (requests \ {r}) \cup (IF r.tab = NoTab THEN {} ELSE {answer})
    BY <1>2 DEF Handle, Answered
  <2>2. /\ answer.tab = r.tab /\ answer.item = r.item /\ answer.by = r.by /\ answer.state = "refused"
        /\ answer.content = r.content
    BY <1>0 DEF Request
  <2>. QED
    BY <2>1, <2>2
<1>. QED
  BY <1>1, <1>2

(* A call that is over leaves at most itself, without a tab, behind. *)
Over(r) ==
  \E rest :
    /\ requests' = (requests \ {r}) \cup rest
    /\ \A p, q \in rest : p = q
    /\ \A q \in rest : /\ q.tab = NoTab /\ q.item = r.item /\ q.by = r.by
                       /\ q.state = "sent" /\ r.state = "sent"

LEMMA OrphansAre ==
  ASSUME TypeOK, NEW own \in SUBSET requests
  PROVE  \A q \in Orphans(own) : \E r \in own :
           /\ q.tab = NoTab /\ q.item = r.item /\ q.by = r.by
           /\ q.state = "sent" /\ r.state = "sent"
<1>1. \A r \in own : Unheard(r).tab = NoTab /\ Unheard(r).item = r.item /\ Unheard(r).by = r.by
                     /\ Unheard(r).state = r.state
  <2>1. own \subseteq Request
    BY DEF TypeOK
  <2>. QED
    BY <2>1 DEF Unheard, Request
<1>. QED
  BY <1>1 DEF Orphans

LEMMA AnswerIsOver ==
  ASSUME TypeOK, NEW r \in requests, Succeeds(r) \/ Refused(r) \/ Lost(r)
  PROVE  /\ r.tab \in Tabs /\ Over(r)
         /\ UNCHANGED <<server, legacy, fresh, changes>>
<1>1. r.tab \in Tabs /\ UNCHANGED <<server, legacy, fresh, changes>>
  BY RequestType DEF Succeeds, Refused, Lost, Shared
<1>2. CASE Lost(r)
  <2>1. requests' = (requests \ {r}) \cup Orphans({r})
    BY <1>2 DEF Lost
  <2>2. {r} \in SUBSET requests
    OBVIOUS
  <2>3. \A q \in Orphans({r}) : \E p \in {r} :
          /\ q.tab = NoTab /\ q.item = p.item /\ q.by = p.by
          /\ q.state = "sent" /\ p.state = "sent"
    BY <2>2, OrphansAre
  <2>4. \A p, q \in Orphans({r}) : p = q
    BY DEF Orphans
  <2>. QED
    BY <1>1, <2>1, <2>3, <2>4 DEF Over
<1>3. CASE Succeeds(r) \/ Refused(r)
  <2> DEFINE rest == {}
  <2>1. requests' = (requests \ {r}) \cup rest
    BY <1>3 DEF Succeeds, Refused
  <2>2. /\ \A p, q \in rest : p = q
        /\ \A q \in rest : /\ q.tab = NoTab /\ q.item = r.item /\ q.by = r.by
                           /\ q.state = "sent" /\ r.state = "sent"
    OBVIOUS
  <2> HIDE DEF rest
  <2>. QED
    BY <1>1, <2>1, <2>2 DEF Over
<1>. QED
  BY <1>2, <1>3

-----------------------------------------------------------------------------
(* What loading does to its tab. *)

OnlyTab(t) ==
  /\ \A u \in Tabs : u # t => tab'[u] = tab[u]
  /\ UNCHANGED <<server, fresh, changes>>

SameWork(t) ==
  /\ tab'[t].queue = tab[t].queue /\ tab'[t].last = tab[t].last
  /\ requests' = requests

LEMMA OpenDoes ==
  ASSUME TypeOK, NEW t \in Tabs, Open(t)
  PROVE  LET s == tab[t]  n == tab'[t] IN
         /\ OnlyTab(t) /\ SameWork(t) /\ legacy' = legacy
         /\ s.phase = "closed" /\ n.phase = "listing" /\ n.local = legacy
         /\ n.failed = s.failed /\ n.listed = s.listed /\ n.view = s.view /\ n.sync = s.sync
         /\ n.told = s.told /\ n.hasty = s.hasty
<1> DEFINE n == [tab[t] EXCEPT !.phase = "listing", !.local = legacy]
<1>1. tab' = [tab EXCEPT ![t] = n] /\ tab[t].phase = "closed" /\ UNCHANGED <<Shared, requests>>
  BY DEF Open
<1>2. /\ n.phase = "listing" /\ n.local = legacy /\ n.queue = tab[t].queue /\ n.last = tab[t].last
      /\ n.failed = tab[t].failed /\ n.listed = tab[t].listed /\ n.view = tab[t].view
      /\ n.sync = tab[t].sync /\ n.told = tab[t].told /\ n.hasty = tab[t].hasty
  BY StoreType DEF Store
<1> HIDE DEF n
<1>3. tab'[t] = n /\ \A u \in Tabs : u # t => tab'[u] = tab[u]
  BY <1>1 DEF TypeOK
<1>. QED
  BY <1>1, <1>2, <1>3 DEF OnlyTab, SameWork, Shared

LEMMA ListDoes ==
  ASSUME TypeOK, NEW t \in Tabs, List(t)
  PROVE  LET s == tab[t]  n == tab'[t] IN
         /\ OnlyTab(t) /\ SameWork(t) /\ legacy' = legacy
         /\ s.phase = "listing" /\ n.phase = "migrating" /\ n.local = s.local
         /\ \A i \in Items : n.listed[i] = IF Live(server[i]) THEN server[i] ELSE NoRow
         /\ n.failed = s.failed /\ n.view = s.view /\ n.sync = s.sync
         /\ n.told = s.told /\ n.hasty = s.hasty
<1> DEFINE listed == [i \in Items |-> IF Live(server[i]) THEN server[i] ELSE NoRow]
           n == [tab[t] EXCEPT !.phase = "migrating", !.listed = listed]
<1>1. tab' = [tab EXCEPT ![t] = n] /\ tab[t].phase = "listing" /\ UNCHANGED <<Shared, requests>>
  BY DEF List
<1> HIDE DEF listed
<1>2. /\ n.phase = "migrating" /\ n.local = tab[t].local /\ n.queue = tab[t].queue /\ n.last = tab[t].last
      /\ n.failed = tab[t].failed /\ n.listed = listed /\ n.view = tab[t].view
      /\ n.sync = tab[t].sync /\ n.told = tab[t].told /\ n.hasty = tab[t].hasty
  BY StoreType DEF Store
<1> HIDE DEF n
<1>3. tab'[t] = n /\ \A u \in Tabs : u # t => tab'[u] = tab[u]
  BY <1>1 DEF TypeOK
<1>. QED
  BY <1>1, <1>2, <1>3 DEF OnlyTab, SameWork, Shared, listed

LEMMA TakeDoes ==
  ASSUME TypeOK, NEW t \in Tabs, TakeVersions(t)
  PROVE  LET s == tab[t]  n == tab'[t] IN
         /\ OnlyTab(t) /\ SameWork(t) /\ legacy' = legacy
         /\ s.phase = "migrating" /\ n.phase = "hydrating" /\ n.local = s.local
         /\ Unmoved(t) = {}
         /\ \A i \in Items : n.sync[i] = s.listed[i].version
         /\ n.failed = s.failed /\ n.view = s.view /\ n.listed = s.listed
         /\ n.told = s.told /\ n.hasty = s.hasty
<1> DEFINE sync == [i \in Items |-> tab[t].listed[i].version]
           n == [tab[t] EXCEPT !.phase = "hydrating", !.sync = sync]
<1>1. /\ tab' = [tab EXCEPT ![t] = n] /\ tab[t].phase = "migrating" /\ Unmoved(t) = {}
      /\ UNCHANGED <<Shared, requests>>
  BY DEF TakeVersions
<1> HIDE DEF sync
<1>2. /\ n.phase = "hydrating" /\ n.local = tab[t].local /\ n.queue = tab[t].queue /\ n.last = tab[t].last
      /\ n.failed = tab[t].failed /\ n.listed = tab[t].listed /\ n.view = tab[t].view
      /\ n.sync = sync /\ n.told = tab[t].told /\ n.hasty = tab[t].hasty
  BY StoreType DEF Store
<1> HIDE DEF n
<1>3. tab'[t] = n /\ \A u \in Tabs : u # t => tab'[u] = tab[u]
  BY <1>1 DEF TypeOK
<1>. QED
  BY <1>1, <1>2, <1>3 DEF OnlyTab, SameWork, Shared, sync

LEMMA ShowDoes ==
  ASSUME TypeOK, NEW t \in Tabs, Show(t)
  PROVE  LET s == tab[t]  n == tab'[t] IN
         /\ OnlyTab(t) /\ SameWork(t) /\ legacy' = legacy
         /\ s.phase = "hydrating" /\ n.phase = IF s.failed = {} THEN "cleaning" ELSE "open"
         /\ s.failed = {} => n.local = s.local
         /\ \A i \in Items :
              /\ n.view[i] = IF Exists(s.listed[i]) THEN Listed(s.listed[i])
                             ELSE IF i \in s.failed THEN Original ELSE Hidden
              /\ n.listed[i] = NoRow
         /\ n.failed = {} /\ n.sync = s.sync
         /\ n.told = s.told \cup s.failed /\ n.hasty = s.hasty
<1> DEFINE view == [i \in Items |-> IF Exists(tab[t].listed[i]) THEN Listed(tab[t].listed[i])
                                    ELSE IF i \in tab[t].failed THEN Original ELSE Hidden]
           phase == IF tab[t].failed = {} THEN "cleaning" ELSE "open"
           local == IF tab[t].failed = {} THEN tab[t].local ELSE {}
           told == tab[t].told \cup tab[t].failed
           listed == Closed.listed
           n == [tab[t] EXCEPT !.phase = phase, !.listed = listed, !.failed = {}, !.local = local,
                               !.view = view, !.told = told]
<1>1. tab' = [tab EXCEPT ![t] = n] /\ tab[t].phase = "hydrating" /\ UNCHANGED <<Shared, requests>>
  BY DEF Show, Migrated
<1>0. listed = [i \in Items |-> NoRow]
  BY DEF Closed
<1> HIDE DEF view, phase, local, told, listed
<1>2. /\ n.phase = phase /\ n.local = local /\ n.queue = tab[t].queue /\ n.last = tab[t].last
      /\ n.failed = {} /\ n.listed = listed /\ n.view = view
      /\ n.sync = tab[t].sync /\ n.told = told /\ n.hasty = tab[t].hasty
  BY StoreType DEF Store
<1> HIDE DEF n
<1>3. tab'[t] = n /\ \A u \in Tabs : u # t => tab'[u] = tab[u]
  BY <1>1 DEF TypeOK
<1>4. tab[t].failed = {} => local = tab[t].local
  BY DEF local
<1>5. /\ OnlyTab(t) /\ SameWork(t) /\ legacy' = legacy /\ tab[t].phase = "hydrating"
      /\ tab'[t].phase = phase /\ tab'[t].local = local /\ tab'[t].view = view
      /\ tab'[t].failed = {} /\ tab'[t].sync = tab[t].sync /\ tab'[t].listed = listed
      /\ tab'[t].told = told /\ tab'[t].hasty = tab[t].hasty
  BY <1>1, <1>2, <1>3 DEF OnlyTab, SameWork, Shared
<1>. QED
  BY <1>0, <1>4, <1>5 DEF view, phase, told

LEMMA ForgetDoes ==
  ASSUME TypeOK, NEW t \in Tabs, ForgetLegacy(t)
  PROVE  LET s == tab[t]  n == tab'[t] IN
         /\ OnlyTab(t) /\ SameWork(t) /\ legacy' = {}
         /\ s.phase = "cleaning" /\ n.phase = "open"
         /\ n.failed = s.failed /\ n.listed = s.listed /\ n.view = s.view /\ n.sync = s.sync
         /\ n.told = s.told /\ n.hasty = s.hasty
<1> DEFINE n == [tab[t] EXCEPT !.phase = "open", !.local = {}]
<1>1. /\ tab' = [tab EXCEPT ![t] = n] /\ tab[t].phase = "cleaning" /\ legacy' = {}
      /\ UNCHANGED <<server, fresh, changes, requests>>
  BY DEF ForgetLegacy
<1>2. /\ n.phase = "open" /\ n.queue = tab[t].queue /\ n.last = tab[t].last
      /\ n.failed = tab[t].failed /\ n.listed = tab[t].listed /\ n.view = tab[t].view
      /\ n.sync = tab[t].sync /\ n.told = tab[t].told /\ n.hasty = tab[t].hasty
  BY StoreType DEF Store
<1> HIDE DEF n
<1>3. tab'[t] = n /\ \A u \in Tabs : u # t => tab'[u] = tab[u]
  BY <1>1 DEF TypeOK
<1>. QED
  BY <1>1, <1>2, <1>3 DEF OnlyTab, SameWork

LEMMA FailsDoes ==
  ASSUME TypeOK, NEW t \in Tabs, LoadFails(t)
  PROVE  LET s == tab[t]  n == tab'[t] IN
         /\ OnlyTab(t) /\ SameWork(t) /\ legacy' = legacy
         /\ s.phase \in {"listing", "cleaning"} /\ n.phase = "open"
         /\ \A i \in Items : n.view[i] = IF i \in s.local THEN Original ELSE Hidden
         /\ n.failed = s.failed /\ n.listed = s.listed /\ n.sync = s.sync /\ n.told = s.told
         /\ n.hasty = Items
<1> DEFINE view == [i \in Items |-> IF i \in tab[t].local THEN Original ELSE Hidden]
           n == [tab[t] EXCEPT !.phase = "open", !.hasty = Items, !.local = {}, !.view = view]
<1>1. /\ tab' = [tab EXCEPT ![t] = n] /\ tab[t].phase \in {"listing", "cleaning"}
      /\ UNCHANGED <<Shared, requests>>
  BY DEF LoadFails
<1> HIDE DEF view
<1>2. /\ n.phase = "open" /\ n.queue = tab[t].queue /\ n.last = tab[t].last
      /\ n.failed = tab[t].failed /\ n.listed = tab[t].listed /\ n.view = view
      /\ n.sync = tab[t].sync /\ n.told = tab[t].told /\ n.hasty = Items
  BY StoreType DEF Store
<1> HIDE DEF n
<1>3. tab'[t] = n /\ \A u \in Tabs : u # t => tab'[u] = tab[u]
  BY <1>1 DEF TypeOK
<1>4. /\ OnlyTab(t) /\ SameWork(t) /\ legacy' = legacy
      /\ tab[t].phase \in {"listing", "cleaning"} /\ tab'[t].phase = "open"
      /\ tab'[t].view = view
      /\ tab'[t].failed = tab[t].failed /\ tab'[t].listed = tab[t].listed
      /\ tab'[t].sync = tab[t].sync /\ tab'[t].told = tab[t].told /\ tab'[t].hasty = Items
  BY <1>1, <1>2, <1>3 DEF OnlyTab, SameWork, Shared
<1>. QED
  BY <1>4 DEF view

LEMMA CloseDoes ==
  ASSUME TypeOK, NEW t \in Tabs, Close(t)
  PROVE  LET own == {r \in requests : r.tab = t} IN
         /\ OnlyTab(t) /\ tab'[t] = Closed /\ legacy' = legacy
         /\ requests' = (requests \ own) \cup Orphans(own)
<1>. QED
  BY DEF Close, OnlyTab, Shared, TypeOK

LEMMA ClosedIs ==
  /\ Closed.phase = "closed" /\ Closed.told = {} /\ Closed.hasty = {} /\ Closed.local = {}
  /\ \A i \in Items : /\ Closed.view[i] = Hidden /\ Closed.queue[i] = <<>> /\ Closed.sync[i] = 0
                      /\ Closed.last[i] = 0 /\ Closed.listed[i] = NoRow
  /\ ~Exists(NoRow)
BY DEF Closed, NoRow, Exists

-----------------------------------------------------------------------------
(* Loading keeps the invariant. *)

LoadStep(t) == Open(t) \/ List(t) \/ TakeVersions(t) \/ Show(t) \/ ForgetLegacy(t) \/ LoadFails(t)

LEMMA LoadingDoes ==
  ASSUME TypeOK, NEW t \in Tabs, LoadStep(t)
  PROVE  /\ OnlyTab(t) /\ SameWork(t) /\ tab'[t].phase # "closed"
         /\ tab[t].phase = "migrating" => Unmoved(t) = {}
         /\ tab[t].hasty \subseteq tab'[t].hasty
<1>0. tab[t].hasty \subseteq Items
  BY StoreType DEF Store
<1>1. CASE Open(t)
  BY <1>1, OpenDoes
<1>2. CASE List(t)
  BY <1>2, ListDoes
<1>3. CASE TakeVersions(t)
  BY <1>3, TakeDoes
<1>4. CASE Show(t)
  BY <1>4, ShowDoes
<1>5. CASE ForgetLegacy(t)
  BY <1>5, ForgetDoes
<1>6. CASE LoadFails(t)
  BY <1>0, <1>6, FailsDoes
<1>. QED
  BY <1>1, <1>2, <1>3, <1>4, <1>5, <1>6 DEF LoadStep

LEMMA LoadingCalls == ASSUME TypeOK, Calls, NEW t \in Tabs, LoadStep(t) PROVE Calls'
<1>1. /\ OnlyTab(t) /\ SameWork(t) /\ tab'[t].phase # "closed"
      /\ tab[t].phase = "migrating" => Unmoved(t) = {}
  BY LoadingDoes
<1>2. \A r \in requests : r.tab # NoTab => Expected(r)'
  <2>1. SUFFICES ASSUME NEW r \in requests, r.tab # NoTab
                 PROVE  Expected(r)'
    OBVIOUS
  <2>2. Expected(r)
    BY <2>1 DEF Calls
  <2>3. CASE r.tab = t
    BY <1>1, <2>2, <2>3 DEF Expected, SameWork
  <2>4. CASE r.tab # t
    <3>1. tab'[r.tab] = tab[r.tab]
      BY <1>1, <2>1, <2>4, RequestType DEF OnlyTab
    <3>2. Unmoved(r.tab)' = Unmoved(r.tab)
      BY <3>1 DEF Unmoved
    <3>. QED
      BY <2>2, <3>1, <3>2 DEF Expected
  <2>. QED
    BY <2>3, <2>4
<1>3. requests' = requests /\ server' = server
  BY <1>1 DEF OnlyTab, SameWork
<1>. QED
  BY <1>2, <1>3 DEF Calls, Alike

LEMMA LoadingFresh == ASSUME TypeOK, Fresh, NEW t \in Tabs, LoadStep(t) PROVE Fresh'
<1>1. OnlyTab(t) /\ SameWork(t)
  BY LoadingDoes
<1>2. requests' = requests /\ server' = server /\ fresh' = fresh
  BY <1>1 DEF OnlyTab, SameWork
<1>3. ASSUME NEW i \in fresh, NEW u \in Tabs
      PROVE  (Blank(u, i) /\ tab[u].sync[i] = 0 /\ ~Exists(tab[u].listed[i]))'
  <2>1. /\ Blank(u, i) /\ tab[u].sync[i] = 0 /\ ~Exists(tab[u].listed[i])
        /\ i \in Items /\ i \notin LegacyItems /\ ~Exists(server[i])
    BY <1>3 DEF Fresh, TypeOK
  <2>2. CASE u # t
    BY <1>1, <2>1, <2>2 DEF OnlyTab, Blank
  <2>3. CASE u = t
    <3>0. /\ tab[t].local \subseteq LegacyItems /\ tab[t].failed \subseteq LegacyItems
          /\ tab'[t].queue[i] = <<>> /\ tab'[t].last[i] = 0 /\ ~Exists(NoRow)
      BY <1>1, <2>1, <2>3, StoreType, ClosedIs DEF Store, Blank, SameWork
    <3>1. CASE Open(t)
      BY <2>1, <2>3, <3>0, <3>1, OpenDoes DEF Blank
    <3>2. CASE List(t)
      <4>1. tab'[t].listed[i] = NoRow
        BY <2>1, <3>2, ListDoes DEF Live
      <4>. QED
        BY <2>1, <2>3, <3>0, <3>2, <4>1, ListDoes DEF Blank
    <3>3. CASE TakeVersions(t)
      <4>1. tab'[t].sync[i] = tab[t].listed[i].version
        BY <2>1, <3>3, TakeDoes
      <4>2. tab[t].listed[i].version = 0
        BY <2>1, <2>3, StoreType DEF Exists, Row
      <4>. QED
        BY <2>1, <2>3, <3>0, <3>3, <4>1, <4>2, TakeDoes DEF Blank
    <3>4. CASE Show(t)
      <4>1. tab'[t].view[i] = Hidden
        BY <2>1, <2>3, <3>0, <3>4, ShowDoes
      <4>2. tab'[t].listed[i] = NoRow /\ tab'[t].sync = tab[t].sync
        BY <2>1, <3>4, ShowDoes
      <4>. QED
        BY <2>1, <2>3, <3>0, <4>1, <4>2 DEF Blank
    <3>5. CASE ForgetLegacy(t)
      BY <2>1, <2>3, <3>0, <3>5, ForgetDoes DEF Blank
    <3>6. CASE LoadFails(t)
      <4>1. tab'[t].view[i] = Hidden
        BY <2>1, <3>0, <3>6, FailsDoes
      <4>. QED
        BY <2>1, <2>3, <3>0, <3>6, <4>1, FailsDoes DEF Blank
    <3>. QED
      BY <3>1, <3>2, <3>3, <3>4, <3>5, <3>6 DEF LoadStep
  <2>. QED
    BY <2>2, <2>3
<1>. QED
  BY <1>2, <1>3 DEF Fresh

LEMMA LoadingVersions == ASSUME TypeOK, Versions, NEW t \in Tabs, LoadStep(t) PROVE Versions'
<1>1. OnlyTab(t) /\ SameWork(t)
  BY LoadingDoes
<1>2. requests' = requests /\ server' = server
  BY <1>1 DEF OnlyTab, SameWork
<1>3. \A i, v, c : Fits(i, v, c)' <=> Fits(i, v, c)
  BY <1>2 DEF Fits
<1>4. ASSUME NEW u \in Tabs, NEW i \in Items
      PROVE  /\ Exists(tab'[u].listed[i]) => Fits(i, tab'[u].listed[i].version, tab'[u].listed[i].content)
             /\ tab'[u].sync[i] <= server[i].version
  <2>1. /\ Exists(tab[u].listed[i]) => Fits(i, tab[u].listed[i].version, tab[u].listed[i].content)
        /\ tab[u].sync[i] <= server[i].version
    BY DEF Versions
  <2>2. CASE u # t
    BY <1>1, <2>1, <2>2 DEF OnlyTab
  <2>3. CASE u = t
    <3>0. server[i].version \in Nat /\ tab[t].listed[i].version \in Nat /\ ~Exists(NoRow)
      BY StoreType, ClosedIs DEF TypeOK, Row
    <3>1. CASE List(t)
      <4>1. tab'[t].listed[i] = IF Live(server[i]) THEN server[i] ELSE NoRow
        BY <3>1, ListDoes
      <4>. QED
        BY <2>1, <2>3, <3>0, <3>1, <4>1, ListDoes DEF Fits
    <3>2. CASE TakeVersions(t)
      <4>1. tab'[t].sync[i] = tab[t].listed[i].version /\ tab'[t].listed = tab[t].listed
        BY <3>2, TakeDoes
      <4>. QED
        BY <2>1, <2>3, <3>0, <4>1 DEF Fits, Exists
    <3>3. CASE Show(t)
      <4>1. tab'[t].listed[i] = NoRow /\ tab'[t].sync = tab[t].sync
        BY <3>3, ShowDoes
      <4>. QED
        BY <2>1, <2>3, <3>0, <4>1
    <3>4. CASE Open(t) \/ ForgetLegacy(t) \/ LoadFails(t)
      BY <2>1, <2>3, <3>4, OpenDoes, ForgetDoes, FailsDoes
    <3>. QED
      BY <3>1, <3>2, <3>3, <3>4 DEF LoadStep
  <2>. QED
    BY <2>2, <2>3
<1>. QED
  BY <1>2, <1>3, <1>4 DEF Versions, Fits

LEMMA LoadingLoads ==
  ASSUME TypeOK, Versions, Loads, Kept, NEW t \in Tabs, LoadStep(t)
  PROVE  Loads' /\ Kept'
<1>1. OnlyTab(t) /\ SameWork(t) /\ tab'[t].phase # "closed"
  BY LoadingDoes
<1>2. server' = server /\ legacy' \subseteq legacy
  BY <1>1, OpenDoes, ListDoes, TakeDoes, ShowDoes, ForgetDoes, FailsDoes DEF OnlyTab, LoadStep
<1>3. Kept'
  <2>1. CASE ForgetLegacy(t)
    BY <1>2, <2>1, ForgetDoes DEF Kept, Loads
  <2>2. CASE ~ForgetLegacy(t)
    <3>1. legacy' = legacy
      BY <2>2, OpenDoes, ListDoes, TakeDoes, ShowDoes, FailsDoes DEF LoadStep
    <3>. QED
      BY <1>2, <3>1 DEF Kept
  <2>. QED
    BY <2>1, <2>2
<1>4. ASSUME NEW u \in Tabs
      PROVE  /\ tab'[u].phase \in {"listing", "migrating", "hydrating", "cleaning"} => legacy' \subseteq tab'[u].local
             /\ tab'[u].phase = "hydrating" => Unmoved(u)' = {}
             /\ tab'[u].phase = "cleaning" => \A i \in tab'[u].local : Exists(server[i])
             /\ tab'[u].phase = "closed" => tab'[u] = Closed
  <2>0. /\ tab[u].phase \in {"listing", "migrating", "hydrating", "cleaning"} => legacy \subseteq tab[u].local
        /\ tab[u].phase = "hydrating" => Unmoved(u) = {}
        /\ tab[u].phase = "cleaning" => \A i \in tab[u].local : Exists(server[i])
        /\ tab[u].phase = "closed" => tab[u] = Closed
    BY DEF Loads
  <2>1. CASE u # t
    <3>1. tab'[u] = tab[u] /\ Unmoved(u)' = Unmoved(u)
      BY <1>1, <2>1 DEF OnlyTab, Unmoved
    <3>. QED
      BY <1>2, <2>0, <3>1
  <2>2. CASE u = t
    <3>1. CASE Open(t)
      BY <1>2, <2>2, <3>1, OpenDoes
    <3>2. CASE List(t)
      BY <1>2, <2>0, <2>2, <3>2, ListDoes
    <3>3. CASE TakeVersions(t)
      BY <1>2, <2>0, <2>2, <3>3, TakeDoes DEF Unmoved
    <3>4. CASE Show(t)
      <4>1. CASE tab[t].failed = {}
        <5>1. /\ tab'[t].phase = "cleaning" /\ tab'[t].local = tab[t].local
              /\ tab[t].phase = "hydrating" /\ legacy' = legacy
          BY <3>4, <4>1, ShowDoes
        <5>2. \A i \in tab[t].local : i \in Items /\ Exists(tab[t].listed[i])
          BY <2>0, <2>2, <4>1, <5>1, LegacyAssumption, StoreType DEF Unmoved, Store
        <5>3. \A i \in tab[t].local : tab[t].listed[i].version > 0 /\ tab[t].listed[i].version <= server[i].version
          BY <5>2 DEF Versions, Fits, Exists
        <5>4. \A i \in Items : tab[t].listed[i].version \in Nat /\ server[i].version \in Nat
          BY StoreType DEF TypeOK, Row
        <5>5. \A i \in tab[t].local : Exists(server[i])
          BY <5>2, <5>3, <5>4 DEF Exists
        <5>. QED
          BY <2>0, <2>2, <5>1, <5>5
      <4>2. CASE tab[t].failed # {}
        BY <2>2, <3>4, <4>2, ShowDoes
      <4>. QED
        BY <4>1, <4>2
    <3>5. CASE ForgetLegacy(t)
      BY <2>2, <3>5, ForgetDoes
    <3>6. CASE LoadFails(t)
      BY <2>2, <3>6, FailsDoes
    <3>. QED
      BY <3>1, <3>2, <3>3, <3>4, <3>5, <3>6 DEF LoadStep
  <2>. QED
    BY <2>1, <2>2
<1>5. Loads'
  BY <1>2, <1>4 DEF Loads
<1>. QED
  BY <1>3, <1>5

-----------------------------------------------------------------------------
(* What a tab shows of an item that a step does not concern. *)

SameCalls(t, i) ==
  /\ \A q \in requests' : q.tab = t /\ q.item = i /\ q.by # "migrate" =>
       \E r \in requests : /\ r.tab = t /\ r.item = i /\ r.by = q.by
                           /\ q.by \in {"update", "create"} => r.content = q.content
  /\ \A r \in requests : r.tab = t /\ r.item = i /\ r.by = "create" =>
       \E q \in requests' : q.tab = t /\ q.item = i /\ q.by = "create"

LEMMA SameWaits ==
  ASSUME NEW t, NEW i, SameCalls(t, i)
  PROVE  /\ Creating(t, i)' <=> Creating(t, i)
         /\ Waits(t, i, Changing)' => Waits(t, i, Changing)
         /\ Waits(t, i, Changing \cup {"create"})' => Waits(t, i, Changing \cup {"create"})
<1>1. /\ Waits(t, i, Changing)' => Waits(t, i, Changing)
      /\ Waits(t, i, Changing \cup {"create"})' => Waits(t, i, Changing \cup {"create"})
      /\ Waits(t, i, {"create"})' => Waits(t, i, {"create"})
  BY DEF SameCalls, Waits, Changing
<1>2. Creating(t, i) => Creating(t, i)'
  BY DEF SameCalls, Waits, Creating
<1>. QED
  BY <1>1, <1>2 DEF Creating

LEMMA SettledStays ==
  ASSUME TypeOK, TypeOK', Versions, Grows, changes <= changes', NEW t \in Tabs, NEW i \in Items,
         SameSlot(t, i), SameCalls(t, i), Settled(t, i)
  PROVE  Settled(t, i)'
<1> DEFINE s == tab[t]
<1>0. /\ Creating(t, i)' <=> Creating(t, i)
      /\ Waits(t, i, Changing)' => Waits(t, i, Changing)
  BY SameWaits DEF Changing
<1>1. changes \in Nat /\ changes' \in Nat
  BY Zero DEF TypeOK
<1>2. Ordered(tab'[t].queue[i], changes')
  BY <1>1, StoreType, OrderedStays DEF SameSlot, Settled
<1>3. /\ server[i].version \in Nat /\ server'[i].version \in Nat /\ s.sync[i] \in Nat
      /\ s.sync[i] <= server[i].version
  BY StoreType DEF TypeOK, Row, Versions
<1>4. tab'[t].sync[i] = server'[i].version =>
        s.sync[i] = server[i].version /\ server'[i].content = server[i].content
  BY <1>3 DEF Grows, SameSlot
<1>5. Shown(t, i)' <=> Shown(t, i)
  BY DEF Shown, SameSlot
<1>6. ASSUME NEW q \in requests', q.tab = t, q.item = i, Shown(t, i), s.view[i].content # q.content
      PROVE  /\ q.by = "update" => Len(s.queue[i]) > 1
             /\ q.by = "create" => s.queue[i] # <<>>
  BY <1>6 DEF SameCalls, Settled
<1>7. /\ Creating(t, i) => s.sync[i] = 0
      /\ Waits(t, i, Changing) => s.sync[i] > 0
      /\ Shown(t, i) /\ ~Creating(t, i) /\ s.sync[i] = 0 => i \in s.told
      /\ ~Shown(t, i) /\ (s.sync[i] > 0 \/ Creating(t, i)) =>
           s.queue[i] # <<>> /\ Final(s.queue[i]).kind = "delete"
      /\ Shown(t, i) /\ s.queue[i] # <<>> =>
           Final(s.queue[i]).kind = "update" /\ s.view[i].stamp \in {0, Final(s.queue[i]).edit}
      /\ Shown(t, i) /\ s.last[i] > 0 /\ s.view[i].content # s.last[i] => i \in s.told /\ s.queue[i] = <<>>
      /\ Shown(t, i) /\ s.sync[i] > 0 /\ s.sync[i] = server[i].version /\ s.queue[i] = <<>>
           /\ i \notin s.told => s.view[i].content = server[i].content
  BY DEF Settled
<1>8. /\ (i \in tab'[t].told <=> i \in s.told)
      /\ tab'[t].queue[i] = s.queue[i] /\ tab'[t].view[i] = s.view[i]
      /\ tab'[t].sync[i] = s.sync[i] /\ tab'[t].last[i] = s.last[i]
  BY DEF SameSlot
<1>. QED
  BY <1>0, <1>2, <1>4, <1>5, <1>6, <1>7, <1>8 DEF Settled

LEMMA SlotStays ==
  ASSUME TypeOK, TypeOK', Versions, Grows, changes <= changes', NEW t \in Tabs, NEW i \in Items,
         SameSlot(t, i), tab'[t].phase = tab[t].phase, SameCalls(t, i), Sound(t, i)
  PROVE  Sound(t, i)'
<1>1. Waits(t, i, Changing \cup {"create"})' => Waits(t, i, Changing \cup {"create"})
  BY SameWaits
<1>2. tab[t].phase = "closed" \/ Loading(t) => NotYet(t, i)'
  BY <1>1 DEF Sound, NotYet, Blank, SameSlot
<1>3. Loading(t)' <=> Loading(t)
  BY DEF Loading
<1>4. Settled(t, i) => Settled(t, i)'
  BY SettledStays
<1>. QED
  BY <1>2, <1>3, <1>4 DEF Sound

LEMMA SameTab ==
  ASSUME NEW t, tab'[t] = tab[t]
  PROVE  \A i : SameSlot(t, i)
BY DEF SameSlot

LEMMA SameRequests == requests' = requests => \A t, i : SameCalls(t, i)
BY DEF SameCalls

LEMMA LoadingViews ==
  ASSUME TypeOK, TypeOK', Versions, Views, NEW t \in Tabs, LoadStep(t)
  PROVE  Views'
<1>1. /\ OnlyTab(t) /\ SameWork(t) /\ tab'[t].phase # "closed" /\ Grows
      /\ tab[t].hasty \subseteq tab'[t].hasty
      /\ requests' = requests /\ server' = server /\ changes' = changes /\ changes <= changes'
  BY LoadingDoes, Unchanged, Zero DEF OnlyTab, SameWork, TypeOK
<1>2. SUFFICES ASSUME NEW u \in Tabs, NEW i \in Items, i \notin tab'[u].hasty
               PROVE  Sound(u, i)'
  BY DEF Views
<1>3. Sound(u, i) /\ SameCalls(u, i) /\ i \notin tab[u].hasty
  BY <1>1, <1>2, SameRequests DEF Views, OnlyTab
<1>4. CASE u # t
  <2>1. SameSlot(u, i) /\ tab'[u].phase = tab[u].phase
    BY <1>1, <1>4, SameTab DEF OnlyTab
  <2>. QED
    BY <1>1, <1>3, <2>1, SlotStays
<1>5. CASE u = t
  <2>0. /\ Creating(t, i)' <=> Creating(t, i)
        /\ Waits(t, i, Changing)' => Waits(t, i, Changing)
        /\ Waits(t, i, Changing \cup {"create"})' => Waits(t, i, Changing \cup {"create"})
    BY <1>3, <1>5, SameWaits
  <2>1. CASE tab[t].phase = "hydrating"
    <3>1. Show(t)
      BY <2>1, OpenDoes, ListDoes, TakeDoes, ForgetDoes, FailsDoes DEF LoadStep
    <3>2. NotYet(t, i) /\ tab[t].sync[i] = tab[t].listed[i].version
      BY <1>3, <1>5, <2>1 DEF Sound, Loading, NotYet
    <3>3. /\ tab'[t].phase \in {"cleaning", "open"} /\ tab'[t].queue[i] = <<>> /\ tab'[t].last[i] = 0
          /\ tab'[t].sync[i] = tab[t].listed[i].version
          /\ tab'[t].view[i] = IF Exists(tab[t].listed[i]) THEN Listed(tab[t].listed[i])
                               ELSE IF i \in tab[t].failed THEN Original ELSE Hidden
          /\ i \in tab[t].failed => i \in tab'[t].told
      BY <1>1, <3>1, <3>2, ShowDoes DEF NotYet, Blank, SameWork
    <3>4. ~Waits(t, i, Changing \cup {"create"})
      BY <3>2 DEF NotYet
    <3>5. \A r \in requests' : r.tab = t /\ r.item = i => r.by # "update" /\ r.by # "create"
      BY <1>1, <3>4 DEF Waits, Changing
    <3>6. ~Creating(t, i)' /\ ~Waits(t, i, Changing)'
      BY <2>0, <3>4 DEF Waits, Creating, Changing
    <3>7. Ordered(<<>>, changes')
      BY DEF Ordered
    <3>8. /\ tab[t].listed[i].version \in Nat
          /\ Listed(tab[t].listed[i]) # Hidden
          /\ Listed(tab[t].listed[i]).content = tab[t].listed[i].content
      <4>1. tab[t].listed[i] \in Row
        BY StoreType
      <4>2. Listed(tab[t].listed[i]) \in Asset
        BY <4>1, Zero DEF Listed, Row, Asset
      <4>. QED
        BY <4>1, <4>2, HiddenAssumption DEF Listed, Row
    <3>9. Shown(t, i)' => IF Exists(tab[t].listed[i])
                          THEN tab'[t].view[i].content = tab[t].listed[i].content
                          ELSE i \in tab'[t].told
      BY <3>3, <3>8 DEF Shown
    <3>10. ~Shown(t, i)' => tab'[t].sync[i] = 0
      BY <3>3, <3>8 DEF Shown, Exists
    <3>11. Exists(tab[t].listed[i]) => Fits(i, tab[t].listed[i].version, tab[t].listed[i].content)
      BY DEF Versions
    <3>12. Shown(t, i)' /\ tab'[t].sync[i] > 0 /\ tab'[t].sync[i] = server'[i].version =>
             tab'[t].view[i].content = server'[i].content
      BY <1>1, <3>3, <3>9, <3>11 DEF Exists, Fits
    <3>13. Shown(t, i)' /\ tab'[t].sync[i] = 0 => i \in tab'[t].told
      BY <3>3, <3>9 DEF Exists
    <3>14. Settled(t, i)'
      <4> DEFINE n == tab'[t]
      <4>1. n.queue[i] = <<>> /\ n.last[i] = 0 /\ n.sync[i] \in Nat
        BY <3>3, <3>8
      <4> HIDE DEF n
      <4>. QED
        BY <3>5, <3>6, <3>7, <3>10, <3>12, <3>13, <4>1 DEF Settled, n
    <3>. QED
      BY <1>5, <3>3, <3>14 DEF Sound, Loading
  <2>2. CASE tab[t].phase \in {"closed", "listing", "migrating"}
    <3>1. NotYet(t, i) /\ tab[t].sync[i] = 0
      BY <1>3, <1>5, <2>2 DEF Sound, Loading, NotYet
    <3>2. ~Waits(t, i, Changing \cup {"create"})'
      BY <2>0, <3>1 DEF NotYet
    <3>3. Open(t) \/ List(t) \/ TakeVersions(t)
      BY <1>2, <1>5, <2>2, ShowDoes, ForgetDoes, FailsDoes DEF LoadStep
    <3>4. /\ tab'[t].view = tab[t].view /\ tab'[t].queue = tab[t].queue /\ tab'[t].last = tab[t].last
          /\ tab'[t].phase \in {"listing", "migrating", "hydrating"}
          /\ tab'[t].sync[i] = IF tab'[t].phase = "hydrating" THEN tab'[t].listed[i].version ELSE 0
      <4>1. CASE Open(t)
        BY <1>1, <3>1, <4>1, OpenDoes DEF SameWork
      <4>2. CASE List(t)
        BY <1>1, <3>1, <4>2, ListDoes DEF SameWork
      <4>3. CASE TakeVersions(t)
        BY <1>1, <3>1, <4>3, TakeDoes DEF SameWork
      <4>. QED
        BY <3>3, <4>1, <4>2, <4>3
    <3>5. NotYet(t, i)'
      BY <3>1, <3>2, <3>4 DEF NotYet, Blank
    <3>. QED
      BY <1>5, <3>4, <3>5 DEF Sound
  <2>3. CASE tab[t].phase \in {"cleaning", "open"}
    <3>1. ForgetLegacy(t)
      BY <1>2, <1>5, <2>3, OpenDoes, ListDoes, TakeDoes, ShowDoes, FailsDoes DEF LoadStep
    <3>2. SameSlot(t, i) /\ tab'[t].phase = "open"
      BY <1>1, <3>1, ForgetDoes DEF SameSlot, SameWork
    <3>3. Settled(t, i)
      BY <1>3, <1>5, <2>3 DEF Sound
    <3>4. Settled(t, i)'
      BY <1>1, <1>3, <1>5, <3>2, <3>3, SettledStays
    <3>. QED
      BY <1>5, <3>2, <3>4 DEF Sound, Loading
  <2>. QED
    BY <2>1, <2>2, <2>3, StoreType DEF Store, Phase
<1>. QED
  BY <1>4, <1>5

LEMMA LoadingKeeps == ASSUME IInv, NEW t \in Tabs, LoadStep(t) PROVE IInv'
<1>1. TypeOK'
  BY LoadType, ForgetType DEF IInv, LoadStep
<1>. QED
  BY <1>1, LoadingCalls, LoadingFresh, LoadingVersions, LoadingLoads, LoadingViews DEF IInv

-----------------------------------------------------------------------------
(* Closing a tab. *)

LEMMA CloseRequests ==
  ASSUME TypeOK, NEW t \in Tabs, Close(t)
  PROVE  /\ OnlyTab(t) /\ tab'[t] = Closed /\ legacy' = legacy
         /\ \A r \in requests : r.tab # t => r \in requests'
         /\ \A q \in requests' :
              \/ q \in requests /\ q.tab # t
              \/ /\ q.tab = NoTab
                 /\ \E r \in requests : /\ r.tab = t /\ q.item = r.item /\ q.by = r.by
                                        /\ q.state = "sent" /\ r.state = "sent"
<1> DEFINE own == {r \in requests : r.tab = t}
<1>1. /\ OnlyTab(t) /\ tab'[t] = Closed /\ legacy' = legacy
      /\ requests' = (requests \ own) \cup Orphans(own)
  BY CloseDoes
<1>2. \A q \in Orphans(own) : \E r \in own :
        /\ q.tab = NoTab /\ q.item = r.item /\ q.by = r.by
        /\ q.state = "sent" /\ r.state = "sent"
  <2>1. own \in SUBSET requests
    OBVIOUS
  <2> HIDE DEF own
  <2>. QED
    BY <2>1, OrphansAre
<1>. QED
  BY <1>1, <1>2

LEMMA CloseCalls == ASSUME TypeOK, Calls, NEW t \in Tabs, Close(t) PROVE Calls'
<1>1. /\ OnlyTab(t)
      /\ \A q \in requests' :
           \/ q \in requests /\ q.tab # t
           \/ /\ q.tab = NoTab
              /\ \E r \in requests : /\ r.tab = t /\ q.item = r.item /\ q.by = r.by
                                     /\ q.state = "sent" /\ r.state = "sent"
  BY CloseRequests
<1>2. ASSUME NEW q \in requests', q.tab # NoTab
      PROVE  Expected(q)'
  <2>1. q \in requests /\ q.tab # t /\ q.tab \in Tabs /\ Expected(q)
    BY <1>1, <1>2, RequestType DEF Calls
  <2>2. tab'[q.tab] = tab[q.tab] /\ Unmoved(q.tab)' = Unmoved(q.tab)
    BY <1>1, <2>1 DEF OnlyTab, Unmoved
  <2>. QED
    BY <2>1, <2>2 DEF Expected
<1>3. ASSUME NEW r \in requests', NEW q \in requests', Alike(r, q)
      PROVE  r = q
  <2>1. CASE r.tab # NoTab /\ q.tab # NoTab
    BY <1>1, <1>3, <2>1 DEF Calls
  <2>2. CASE r.tab = NoTab \/ q.tab = NoTab
    <3>1. r.item = q.item /\ r.by = "create" /\ q.by = "create"
      BY <1>3, <2>2 DEF Alike
    <3>2. \A p1, p2 \in requests : p1.item = p2.item /\ p1.by = "create" /\ p2.by = "create" => p1 = p2
      BY DEF Calls, Alike
    <3>3. CASE r \in requests /\ r.tab # t /\ q \in requests /\ q.tab # t
      BY <3>1, <3>2, <3>3
    <3>4. CASE r \in requests /\ r.tab # t /\ ~(q \in requests /\ q.tab # t)
      BY <1>1, <3>1, <3>2, <3>4
    <3>5. CASE ~(r \in requests /\ r.tab # t) /\ q \in requests /\ q.tab # t
      BY <1>1, <3>1, <3>2, <3>5
    <3>6. CASE ~(r \in requests /\ r.tab # t) /\ ~(q \in requests /\ q.tab # t)
      <4> DEFINE own == {p \in requests : p.tab = t}
      <4>1. requests' = (requests \ own) \cup Orphans(own)
        BY CloseDoes
      <4>2. r \in Orphans(own) /\ q \in Orphans(own)
        BY <3>6, <4>1
      <4>3. PICK r1 \in own, q1 \in own : /\ r = Unheard(r1) /\ q = Unheard(q1)
                                          /\ r1.item = r.item /\ q1.item = q.item
                                          /\ r1.by = r.by /\ q1.by = q.by
        <5>1. \A p \in own : Unheard(p).item = p.item /\ Unheard(p).by = p.by
          BY RequestType DEF Unheard, Request
        <5>. QED
          BY <4>2, <5>1 DEF Orphans
      <4>4. r1 = q1
        BY <3>1, <3>2, <4>3
      <4>. QED
        BY <4>3, <4>4
    <3>. QED
      BY <3>3, <3>4, <3>5, <3>6
  <2>. QED
    BY <2>1, <2>2
<1>4. \A q \in requests' : /\ q.by = "migrate" => q.item \in LegacyItems
                           /\ q.by = "create" => q.item \notin LegacyItems
                           /\ q.by = "create" /\ q.state = "sent" => ~Exists(server'[q.item])
  BY <1>1 DEF Calls, OnlyTab
<1>. QED
  BY <1>2, <1>3, <1>4 DEF Calls, Alike

LEMMA CloseKeeps == ASSUME IInv, NEW t \in Tabs, Close(t) PROVE IInv'
<1>1. TypeOK /\ TypeOK' /\ Calls' /\ Calls /\ Fresh /\ Versions /\ Loads /\ Kept /\ Views
  BY CloseType, CloseCalls DEF IInv
<1>2. /\ OnlyTab(t) /\ tab'[t] = Closed /\ legacy' = legacy
      /\ server' = server /\ changes' = changes /\ fresh' = fresh
      /\ \A r \in requests : r.tab # t => r \in requests'
      /\ \A q \in requests' :
           \/ q \in requests /\ q.tab # t
           \/ /\ q.tab = NoTab
              /\ \E r \in requests : /\ r.tab = t /\ q.item = r.item /\ q.by = r.by
                                     /\ q.state = "sent" /\ r.state = "sent"
  BY <1>1, CloseRequests DEF OnlyTab
<1>3. Fresh'
  <2>1. \A i \in fresh : i \in Items
    BY <1>1 DEF TypeOK
  <2>2. \A i \in fresh : (Blank(t, i) /\ tab[t].sync[i] = 0 /\ ~Exists(tab[t].listed[i]))'
    BY <1>2, <2>1, ClosedIs DEF Blank
  <2>3. \A i \in fresh, u \in Tabs : u # t =>
          (Blank(u, i) /\ tab[u].sync[i] = 0 /\ ~Exists(tab[u].listed[i]))'
    BY <1>1, <1>2 DEF Fresh, OnlyTab, Blank
  <2>4. \A i \in fresh : i \notin LegacyItems /\ ~Exists(server'[i]) /\ \A r \in requests' : r.item # i
    BY <1>1, <1>2 DEF Fresh
  <2>. QED
    BY <1>2, <2>2, <2>3, <2>4 DEF Fresh
<1>4. Versions'
  <2>1. \A i, v, c : Fits(i, v, c)' <=> Fits(i, v, c)
    BY <1>2 DEF Fits
  <2>2. \A r \in requests' : r.state = "ok" => r.version > 0 /\ Fits(r.item, r.version, r.content)'
    <3>1. \A r \in requests' : r.state = "ok" => r \in requests
      BY <1>2
    <3>. QED
      BY <1>1, <2>1, <3>1, RequestType DEF Versions
  <2>3. ASSUME NEW u \in Tabs, NEW i \in Items
        PROVE  /\ Exists(tab'[u].listed[i]) => Fits(i, tab'[u].listed[i].version, tab'[u].listed[i].content)
               /\ tab'[u].sync[i] <= server[i].version
    <3>1. CASE u # t
      BY <1>1, <1>2, <3>1 DEF Versions, OnlyTab
    <3>2. CASE u = t
      BY <1>1, <1>2, <3>2, ClosedIs DEF TypeOK, Row
    <3>. QED
      BY <3>1, <3>2
  <2>. QED
    BY <1>1, <1>2, <2>2, <2>3 DEF Versions, Fits
<1>5. Loads' /\ Kept'
  <2>1. \A u \in Tabs : u # t => tab'[u] = tab[u] /\ Unmoved(u)' = Unmoved(u)
    BY <1>2 DEF OnlyTab, Unmoved
  <2>. QED
    BY <1>1, <1>2, <2>1, ClosedIs DEF Loads, Kept
<1>6. Views'
  <2>1. SUFFICES ASSUME NEW u \in Tabs, NEW i \in Items, i \notin tab'[u].hasty
                 PROVE  Sound(u, i)'
    BY DEF Views
  <2>2. CASE u # t
    <3>1. SameSlot(u, i) /\ tab'[u].phase = tab[u].phase /\ Sound(u, i)
      BY <1>1, <1>2, <2>1, <2>2, SameTab DEF OnlyTab, Views
    <3>2. SameCalls(u, i)
      BY <1>2, <2>1, <2>2, NamesAssumption DEF SameCalls
    <3>3. Grows /\ changes <= changes'
      BY <1>1, <1>2, Unchanged, Zero DEF TypeOK
    <3>. QED
      BY <1>1, <3>1, <3>2, <3>3, SlotStays
  <2>3. CASE u = t
    <3>1. \A q \in requests' : q.tab # t
      BY <1>2, NamesAssumption
    <3>2. NotYet(t, i)'
      BY <1>2, <3>1, ClosedIs DEF NotYet, Blank, Waits
    <3>. QED
      BY <1>2, <2>3, <3>2, ClosedIs DEF Sound
  <2>. QED
    BY <2>2, <2>3
<1>. QED
  BY <1>1, <1>3, <1>4, <1>5, <1>6 DEF IInv

-----------------------------------------------------------------------------
(* Sending. *)

LEMMA SendDoes ==
  ASSUME NEW t, NEW i, NEW by, NEW version, NEW content, Send(t, i, by, version, content)
  PROVE  \E new : /\ requests' = requests \cup {new}
                  /\ new.tab = t /\ new.item = i /\ new.by = by
                  /\ new.state = "sent" /\ new.content = content
<1> DEFINE new == [tab |-> t, item |-> i, by |-> by, state |-> "sent",
                   version |-> version, content |-> content]
<1>1. /\ new.tab = t /\ new.item = i /\ new.by = by
      /\ new.state = "sent" /\ new.content = content
  OBVIOUS
<1>2. requests' = requests \cup {new}
  BY DEF Send
<1>. QED
  BY <1>1, <1>2

(* What is the same for every step that only sends. *)
LEMMA SendFrame ==
  ASSUME IInv, TypeOK', NEW new, requests' = requests \cup {new}, new.state = "sent",
         UNCHANGED <<Shared, tab>>
  PROVE  /\ Versions' /\ Loads' /\ Kept' /\ Grows /\ changes <= changes'
         /\ new.item \notin fresh => Fresh'
         /\ \A u \in Tabs, k \in Items :
              /\ SameSlot(u, k) /\ tab'[u].phase = tab[u].phase
              /\ ~(new.tab = u /\ new.item = k /\ new.by # "migrate") => SameCalls(u, k)
         /\ \A r \in requests : r.tab # NoTab => Expected(r)'
         /\ \A r, q \in requests : Alike(r, q) => r = q
<1>1. server' = server /\ legacy' = legacy /\ fresh' = fresh /\ changes' = changes /\ tab' = tab
  BY DEF Shared
<1>2. Versions'
  BY <1>1 DEF IInv, Versions, Fits
<1>3. Loads' /\ Kept'
  BY <1>1 DEF IInv, Loads, Kept, Unmoved
<1>4. Grows /\ changes <= changes'
  BY <1>1, Unchanged, Zero DEF IInv, TypeOK
<1>5. new.item \notin fresh => Fresh'
  BY <1>1 DEF IInv, Fresh, Blank
<1>6. \A u \in Tabs, k \in Items :
        /\ SameSlot(u, k) /\ tab'[u].phase = tab[u].phase
        /\ ~(new.tab = u /\ new.item = k /\ new.by # "migrate") => SameCalls(u, k)
  BY <1>1, SameTab DEF SameCalls
<1>7. \A r \in requests : r.tab # NoTab => Expected(r)'
  BY <1>1 DEF IInv, Calls, Expected, Unmoved
<1>8. \A r, q \in requests : Alike(r, q) => r = q
  BY DEF IInv, Calls
<1>. QED
  BY <1>2, <1>3, <1>4, <1>5, <1>6, <1>7, <1>8

LEMMA MigrateKeeps == ASSUME IInv, NEW t \in Tabs, NEW i \in Items, Migrate(t, i) PROVE IInv'
<1>1. /\ TypeOK' /\ UNCHANGED <<Shared, tab>> /\ i \in Unmoved(t) /\ i \in LegacyItems
      /\ tab[t].phase = "migrating" /\ \A k \in Items : ~Waits(t, k, {"migrate"})
  BY MigrateType, StoreType DEF IInv, Migrate, Unmoved, Store
<1>2. PICK new : /\ requests' = requests \cup {new} /\ new.tab = t /\ new.item = i
                 /\ new.by = "migrate" /\ new.state = "sent"
  BY SendDoes DEF Migrate
<1>3. /\ Versions' /\ Loads' /\ Kept' /\ Grows /\ changes <= changes'
      /\ new.item \notin fresh => Fresh'
      /\ \A u \in Tabs, k \in Items : SameSlot(u, k) /\ tab'[u].phase = tab[u].phase /\ SameCalls(u, k)
      /\ \A r \in requests : r.tab # NoTab => Expected(r)'
      /\ \A r, q \in requests : Alike(r, q) => r = q
  BY <1>1, <1>2, SendFrame
<1>4. Fresh'
  BY <1>1, <1>2, <1>3 DEF IInv, Fresh
<1>5. Views'
  BY <1>1, <1>3, SlotStays DEF IInv, Views, SameSlot
<1>6. Calls'
  <2>1. Expected(new)'
    BY <1>1, <1>2 DEF Expected, Unmoved, Changing, Shared
  <2>2. \A q \in requests : ~Alike(new, q) /\ ~Alike(q, new)
    BY <1>1, <1>2, RequestType DEF IInv, Alike, Changing, Waits
  <2>3. \A r, q \in requests' : Alike(r, q) => r = q
    BY <1>2, <1>3, <2>2
  <2>4. \A r \in requests' : /\ r.by = "migrate" => r.item \in LegacyItems
                             /\ r.by = "create" => r.item \notin LegacyItems
                             /\ r.by = "create" /\ r.state = "sent" => ~Exists(server'[r.item])
    BY <1>1, <1>2 DEF IInv, Calls, Shared
  <2>5. \A r \in requests' : r.tab # NoTab => Expected(r)'
    BY <1>2, <1>3, <2>1
  <2>. QED
    BY <2>3, <2>4, <2>5 DEF Calls, Alike
<1>. QED
  BY <1>1, <1>3, <1>4, <1>5, <1>6 DEF IInv

(* A tab that has work to do for an item is not closed, and the item is not *)
(* one of those nobody has used. *)
LEMMA WorkIsOpen ==
  ASSUME IInv, NEW t \in Tabs, NEW i \in Items, Shown(t, i) \/ tab[t].queue[i] # <<>>
  PROVE  tab[t].phase # "closed" /\ i \notin fresh
BY ClosedIs DEF IInv, Loads, Fresh, Blank, Shown

LEMMA RunKeeps == ASSUME IInv, NEW t \in Tabs, NEW i \in Items, Run(t, i) PROVE IInv'
<1> DEFINE kind == Front(t, i).kind
<1>1. /\ TypeOK /\ TypeOK' /\ UNCHANGED <<Shared, tab>>
      /\ tab[t].queue[i] # <<>> /\ ~Waits(t, i, {"create", "update", "delete"})
      /\ tab[t].sync[i] > 0 /\ (kind = "update" => Shown(t, i))
  BY RunType, StoreType DEF IInv, Run, MayRun, Idle
<1>2. kind \in Changing
  <2>1. Front(t, i) \in Mutation
    BY <1>1, StoreType, HeadTailProperties DEF Queue, Front
  <2>. QED
    BY <2>1 DEF Changing, Mutation
<1>3. PICK new : /\ requests' = requests \cup {new} /\ new.tab = t /\ new.item = i
                 /\ new.by = kind /\ new.state = "sent"
                 /\ kind = "update" => new.content = tab[t].view[i].content
  BY SendDoes DEF Run
<1>4. /\ Versions' /\ Loads' /\ Kept' /\ Grows /\ changes <= changes'
      /\ new.item \notin fresh => Fresh'
      /\ \A u \in Tabs, k \in Items :
           /\ SameSlot(u, k) /\ tab'[u].phase = tab[u].phase
           /\ ~(new.tab = u /\ new.item = k /\ new.by # "migrate") => SameCalls(u, k)
      /\ \A r \in requests : r.tab # NoTab => Expected(r)'
      /\ \A r, q \in requests : Alike(r, q) => r = q
  BY <1>1, <1>3, SendFrame
<1>5. Fresh' /\ tab[t].phase # "closed"
  BY <1>1, <1>3, <1>4, WorkIsOpen
<1>6. Calls'
  <2>1. Expected(new)'
    BY <1>1, <1>2, <1>3, <1>5 DEF Expected, Changing, Shared, Front
  <2>2. \A q \in requests : ~Alike(new, q) /\ ~Alike(q, new)
    BY <1>1, <1>2, <1>3 DEF Alike, Changing, Waits
  <2>3. \A r, q \in requests' : Alike(r, q) => r = q
    BY <1>3, <1>4, <2>2
  <2>4. \A r \in requests' : /\ r.by = "migrate" => r.item \in LegacyItems
                             /\ r.by = "create" => r.item \notin LegacyItems
                             /\ r.by = "create" /\ r.state = "sent" => ~Exists(server'[r.item])
    BY <1>1, <1>2, <1>3 DEF IInv, Calls, Shared, Changing
  <2>5. \A r \in requests' : r.tab # NoTab => Expected(r)'
    BY <1>3, <1>4, <2>1
  <2>. QED
    BY <2>3, <2>4, <2>5 DEF Calls, Alike
<1>7. Views'
  <2>1. SUFFICES ASSUME NEW u \in Tabs, NEW k \in Items, k \notin tab'[u].hasty
                 PROVE  Sound(u, k)'
    BY DEF Views
  <2>2. Sound(u, k)
    BY <1>1, <2>1 DEF IInv, Views, Shared
  <2>3. CASE ~(u = t /\ k = i)
    BY <1>1, <1>3, <1>4, <2>2, <2>3, SlotStays DEF IInv
  <2>4. CASE u = t /\ k = i
    <3>1. Settled(t, i) /\ tab[t].phase \in {"cleaning", "open"}
      BY <1>1, <1>5, <2>2, <2>4, StoreType DEF Sound, NotYet, Blank, Loading, Store, Phase
    <3>2. tab' = tab /\ server' = server /\ changes' = changes
      BY <1>1 DEF Shared
    <3>3. Creating(t, i)' <=> Creating(t, i)
      BY <1>2, <1>3 DEF Creating, Waits, Changing
    <3>4. \A r \in requests' : r.tab = t /\ r.item = i /\ Shown(t, i) /\ tab[t].view[i].content # r.content =>
            /\ r.by = "update" => Len(tab[t].queue[i]) > 1
            /\ r.by = "create" => tab[t].queue[i] # <<>>
      BY <1>1, <1>2, <1>3, <3>1 DEF Settled, Changing
    <3>5. Settled(t, i)'
      BY <1>1, <3>1, <3>2, <3>3, <3>4 DEF Settled, Shown
    <3>. QED
      BY <2>4, <3>1, <3>2, <3>5 DEF Sound, Loading
  <2>. QED
    BY <2>3, <2>4
<1>. QED
  BY <1>1, <1>4, <1>5, <1>6, <1>7 DEF IInv

-----------------------------------------------------------------------------
(* Steps that concern one item of one tab. *)

LEMMA SlotFrame ==
  ASSUME IInv, TypeOK', NEW t \in Tabs, NEW i \in Items, OnlySlot(t, i),
         tab[t].phase # "closed", UNCHANGED <<server, legacy>>, changes <= changes',
         tab'[t].listed[i] = tab[t].listed[i], i \in tab'[t].failed <=> i \in tab[t].failed,
         tab'[t].sync[i] <= server[i].version, fresh' \subseteq fresh, i \notin fresh',
         \A q \in requests' : q.state = "ok" => q \in requests,
         \A q \in requests' : q.item = i \/ \E r \in requests : r.item = q.item,
         \A u \in Tabs, k \in Items : SameCalls(u, k) \/ (u = t /\ k = i),
         i \notin tab'[t].hasty => Sound(t, i)'
  PROVE  /\ Fresh' /\ Versions' /\ Loads' /\ Kept' /\ Views'
         /\ \A r \in requests : r.tab # NoTab /\ ~(r.tab = t /\ r.item = i /\ r.by \in Changing) =>
              Expected(r)'
<1>1. TypeOK /\ Calls /\ Fresh /\ Versions /\ Loads /\ Kept /\ Views
  BY DEF IInv
<1>2. /\ \A u \in Tabs : u # t => tab'[u] = tab[u]
      /\ \A u \in Tabs : tab'[u].phase = tab[u].phase /\ tab'[u].local = tab[u].local
      /\ \A u \in Tabs, k \in Items : SameSlot(u, k) \/ (u = t /\ k = i)
  BY DEF OnlySlot
<1>3. \A u \in Tabs, k \in Items : /\ tab'[u].listed[k] = tab[u].listed[k]
                                   /\ k \in tab'[u].failed <=> k \in tab[u].failed
  BY <1>2 DEF SameSlot
<1>4. \A u \in Tabs : Unmoved(u)' = Unmoved(u)
  <2>1. SUFFICES ASSUME NEW u \in Tabs PROVE Unmoved(u)' = Unmoved(u)
    OBVIOUS
  <2>2. tab[u].local \subseteq Items
    BY <1>1, StoreType, LegacyAssumption DEF Store
  <2>3. tab'[u].local = tab[u].local
    BY <1>2
  <2>4. \A k \in Items : /\ tab'[u].listed[k] = tab[u].listed[k]
                         /\ k \in tab'[u].failed <=> k \in tab[u].failed
    BY <1>3
  <2>. QED
    BY <2>2, <2>3, <2>4 DEF Unmoved
<1>5. Fresh'
  <2>1. \A k \in fresh' : k # i /\ k \in fresh /\ k \in Items
    BY <1>1 DEF TypeOK
  <2>2. \A k \in fresh', u \in Tabs : (Blank(u, k) /\ tab[u].sync[k] = 0 /\ ~Exists(tab[u].listed[k]))'
    BY <1>1, <1>2, <2>1 DEF Fresh, SameSlot, Blank
  <2>3. \A k \in fresh' : k \notin LegacyItems /\ ~Exists(server'[k]) /\ \A r \in requests' : r.item # k
    BY <1>1, <2>1 DEF Fresh
  <2>. QED
    BY <2>2, <2>3 DEF Fresh
<1>6. Versions'
  <2>1. \A u \in Tabs, k \in Items : tab'[u].sync[k] <= server[k].version
    BY <1>1, <1>2 DEF SameSlot, Versions
  <2>2. server' = server
    OBVIOUS
  <2>. QED
    BY <1>1, <1>3, <2>1, <2>2 DEF Versions, Fits
<1>7. Loads' /\ Kept'
  BY <1>1, <1>2, <1>4 DEF Loads, Kept
<1>8. Views'
  <2>1. Grows
    BY <1>1, Unchanged
  <2>2. SUFFICES ASSUME NEW u \in Tabs, NEW k \in Items, k \notin tab'[u].hasty, ~(u = t /\ k = i)
                 PROVE  Sound(u, k)'
    BY DEF Views
  <2>3. SameSlot(u, k) /\ SameCalls(u, k) /\ tab'[u].phase = tab[u].phase
    BY <1>2, <2>2
  <2>4. Sound(u, k)
    BY <1>1, <2>2, <2>3 DEF Views, SameSlot
  <2>. QED
    BY <1>1, <2>1, <2>3, <2>4, SlotStays
<1>9. \A r \in requests : r.tab # NoTab /\ ~(r.tab = t /\ r.item = i /\ r.by \in Changing) =>
        Expected(r)'
  <2>1. SUFFICES ASSUME NEW r \in requests, r.tab # NoTab, ~(r.tab = t /\ r.item = i /\ r.by \in Changing)
                 PROVE  Expected(r)'
    OBVIOUS
  <2>2. Expected(r) /\ r.tab \in Tabs /\ r.item \in Items
    BY <1>1, <2>1, RequestType DEF Calls
  <2>3. r.by \in Changing => tab'[r.tab].queue[r.item] = tab[r.tab].queue[r.item]
    BY <1>2, <2>1, <2>2 DEF SameSlot
  <2>. QED
    BY <1>2, <1>4, <2>2, <2>3 DEF Expected
<1>. QED
  BY <1>5, <1>6, <1>7, <1>8, <1>9

LEMMA AddKeeps == ASSUME IInv, NEW t \in Tabs, NEW i \in Items, Add(t, i) PROVE IInv'
<1>1. /\ TypeOK /\ TypeOK' /\ Calls /\ tab[t].phase # "closed" /\ i \in fresh /\ fresh' = fresh \ {i}
      /\ UNCHANGED <<server, legacy, changes>> /\ changes <= changes'
  <2>1. /\ tab[t].phase # "closed" /\ i \in fresh /\ fresh' = fresh \ {i}
        /\ UNCHANGED <<server, legacy, changes>>
    BY DEF Add
  <2>2. TypeOK /\ TypeOK' /\ Calls
    BY AddType DEF IInv
  <2>3. changes \in Nat
    BY <2>2, Zero DEF TypeOK
  <2>. QED
    BY <2>1, <2>2, <2>3
<1>2. PICK new : /\ requests' = requests \cup {new} /\ new.tab = t /\ new.item = i
                 /\ new.by = "create" /\ new.state = "sent" /\ new.content = 0
  BY SendDoes DEF Add
<1>3. /\ OnlySlot(t, i)
      /\ tab'[t].view[i] = Original /\ (i \in tab'[t].hasty <=> i \in tab[t].hasty \/ Loading(t))
      /\ tab'[t].queue[i] = tab[t].queue[i] /\ tab'[t].sync[i] = tab[t].sync[i]
      /\ tab'[t].last[i] = tab[t].last[i] /\ tab'[t].listed[i] = tab[t].listed[i]
      /\ (i \in tab'[t].failed <=> i \in tab[t].failed)
  BY <1>1, AddDoes
<1>4. /\ i \notin LegacyItems /\ ~Exists(server[i]) /\ \A r \in requests : r.item # i
      /\ Blank(t, i) /\ tab[t].sync[i] = 0
  BY <1>1 DEF IInv, Fresh
<1>5. ASSUME i \notin tab'[t].hasty
      PROVE  Sound(t, i)'
  <2>1. tab'[t].phase \in {"cleaning", "open"}
    BY <1>1, <1>3, <1>5, StoreType DEF Loading, Store, Phase, OnlySlot
  <2>2. /\ tab'[t].queue[i] = <<>> /\ tab'[t].last[i] = 0 /\ tab'[t].sync[i] = 0
        /\ tab'[t].view[i].content = 0 /\ Shown(t, i)'
    BY <1>3, <1>4, Zero, HiddenAssumption DEF Blank, Original, Shown
  <2>3. \A r \in requests' : r.tab = t /\ r.item = i => r = new
    BY <1>2, <1>4
  <2>4. Creating(t, i)' /\ ~Waits(t, i, Changing)'
    BY <1>2, <2>3 DEF Creating, Waits, Changing
  <2>5. Ordered(<<>>, changes')
    BY DEF Ordered
  <2>6. Settled(t, i)'
    BY <1>2, <2>2, <2>3, <2>4, <2>5 DEF Settled
  <2>. QED
    BY <2>1, <2>6 DEF Sound, Loading
<1>6. /\ Fresh' /\ Versions' /\ Loads' /\ Kept' /\ Views'
      /\ \A r \in requests : r.tab # NoTab /\ ~(r.tab = t /\ r.item = i /\ r.by \in Changing) =>
           Expected(r)'
  <2>1. \A q \in requests' : /\ q.state = "ok" => q \in requests
                             /\ q.item = i \/ \E r \in requests : r.item = q.item
    BY <1>2
  <2>2. \A u \in Tabs, k \in Items : SameCalls(u, k) \/ (u = t /\ k = i)
    BY <1>2 DEF SameCalls
  <2>3. tab'[t].sync[i] <= server[i].version
    BY <1>3 DEF IInv, Versions
  <2>. QED
    BY <1>1, <1>3, <1>5, <2>1, <2>2, <2>3, SlotFrame
<1>7. Calls'
  <2>1. Expected(new)'
    BY <1>1, <1>2, <1>3 DEF Expected, Changing, OnlySlot
  <2>2. \A q \in requests : ~Alike(new, q) /\ ~Alike(q, new)
    BY <1>2, <1>4 DEF Alike
  <2>3. \A r, q \in requests' : Alike(r, q) => r = q
    BY <1>1, <1>2, <2>2 DEF Calls
  <2>4. \A r \in requests' : /\ r.by = "migrate" => r.item \in LegacyItems
                             /\ r.by = "create" => r.item \notin LegacyItems
                             /\ r.by = "create" /\ r.state = "sent" => ~Exists(server'[r.item])
    BY <1>1, <1>2, <1>4 DEF Calls
  <2>5. \A r \in requests' : r.tab # NoTab => Expected(r)'
    BY <1>2, <1>4, <1>6, <2>1
  <2>. QED
    BY <2>3, <2>4, <2>5 DEF Calls, Alike
<1>. QED
  BY <1>1, <1>6, <1>7 DEF IInv

LEMMA EnqueueKeeps ==
  ASSUME IInv, NEW t \in Tabs, NEW i \in Items, Edit(t, i) \/ Remove(t, i)
  PROVE  IInv'
<1>1. /\ TypeOK /\ TypeOK' /\ Calls /\ Shown(t, i) /\ changes' = changes + 1 /\ changes \in Nat
      /\ UNCHANGED <<server, legacy, fresh, requests>> /\ changes <= changes'
      /\ tab[t].phase # "closed" /\ i \notin fresh
  BY EnqueueType, Zero, WorkIsOpen DEF IInv, Edit, Remove, TypeOK
<1>2. PICK kind \in Changing, edit \in Content, view \in Asset \cup {Hidden} :
        /\ Enqueue(t, i, kind, edit, view)
        /\ kind = "update" => /\ edit = changes + 1 /\ view # Hidden
                              /\ view.content = edit /\ view.stamp = edit
        /\ kind = "delete" => view = Hidden
  <2>1. [content |-> changes + 1, stamp |-> changes + 1] \in Asset
    BY <1>1 DEF Asset, TypeOK
  <2>2. [content |-> changes + 1, stamp |-> changes + 1] # Hidden
    BY <2>1, HiddenAssumption
  <2>3. changes + 1 \in Content
    BY <1>1 DEF TypeOK
  <2>. QED
    BY <2>1, <2>2, <2>3, Zero DEF Edit, Remove, Changing
<1> DEFINE q == tab[t].queue[i]
           op == [kind |-> kind, edit |-> edit, previous |-> tab[t].view[i]]
           p == Append(q, op)
<1>3. /\ OnlySlot(t, i)
      /\ tab'[t].view[i] = view
      /\ tab'[t].last[i] = IF kind = "update" THEN edit ELSE tab[t].last[i]
      /\ tab'[t].queue[i] = p
      /\ tab'[t].sync[i] = tab[t].sync[i] /\ tab'[t].listed[i] = tab[t].listed[i]
      /\ (i \in tab'[t].told <=> i \in tab[t].told) /\ (i \in tab'[t].hasty <=> i \in tab[t].hasty)
      /\ (i \in tab'[t].failed <=> i \in tab[t].failed)
  BY <1>1, <1>2, EnqueueDoes
<1>4. q \in Queue /\ op \in Mutation /\ op.kind = kind /\ op.edit = edit
  <2>1. tab[t].view[i] \in Asset /\ q \in Queue
    BY <1>1, StoreType DEF Shown
  <2>. QED
    BY <1>2, <2>1 DEF Mutation, Changing
<1>5. q # <<>> => p # <<>> /\ Head(p) = Head(q)
  <2>1. q \in Seq(Mutation) /\ Len(q) \in Nat /\ (q # <<>> => Len(q) > 0)
    BY <1>4, MutationTypes DEF Queue
  <2>2. /\ p \in Seq(Mutation) /\ Len(p) = Len(q) + 1 /\ \A k \in 1..Len(q) : p[k] = q[k]
    BY <1>4, <2>1, AppendProperties
  <2>3. q # <<>> => p[1] = q[1] /\ p # <<>>
    BY <2>1, <2>2, EmptySeq
  <2>. QED
    BY <2>1, <2>2, <2>3, HeadTailProperties
<1> HIDE DEF p, op, q
<1>6. ASSUME i \notin tab'[t].hasty
      PROVE  Sound(t, i)'
  <2>1. tab[t].phase \in {"cleaning", "open"} /\ Settled(t, i)
    BY <1>1, <1>3, <1>6, StoreType DEF IInv, Views, Sound, NotYet, Blank, Loading, Shown, Store, Phase
  <2>2. /\ Ordered(q, changes) /\ (q # <<>> => Final(q).kind = "update")
        /\ \A r \in requests : r.tab = t /\ r.item = i /\ r.by \in Changing => q # <<>>
        /\ ~Creating(t, i) /\ tab[t].sync[i] = 0 => i \in tab[t].told
        /\ Creating(t, i) => tab[t].sync[i] = 0
        /\ Waits(t, i, Changing) => tab[t].sync[i] > 0
    <3>1. \A r \in requests : r.tab = t /\ r.item = i /\ r.by \in Changing => q # <<>>
      BY <1>1, NamesAssumption DEF Calls, Expected, q
    <3>. QED
      BY <1>1, <2>1, <3>1 DEF Settled, q
  <2>3. /\ Ordered(p, changes') /\ Final(p) = op /\ p # <<>>
        /\ q # <<>> => Len(p) > 1
    BY <1>1, <1>2, <1>4, <2>2, AppendOrdered DEF p
  <2>4. /\ Creating(t, i)' <=> Creating(t, i)
        /\ Waits(t, i, Changing)' <=> Waits(t, i, Changing)
    BY <1>1 DEF Creating, Waits
  <2>5. Shown(t, i)' <=> kind = "update"
    BY <1>2, <1>3 DEF Shown, Changing
  <2>6. kind = "update" => edit > 0 /\ tab'[t].last[i] = edit
    BY <1>1, <1>2, <1>3
  <2>7. \A r \in requests' : r.tab = t /\ r.item = i =>
          /\ r.by = "update" => Len(p) > 1
          /\ r.by = "create" => p # <<>>
    BY <1>1, <2>2, <2>3 DEF Changing
  <2>8. Settled(t, i)'
    BY <1>2, <1>3, <1>4, <2>2, <2>3, <2>4, <2>5, <2>6, <2>7 DEF Settled, Changing
  <2>. QED
    BY <1>3, <2>1, <2>8 DEF Sound, Loading, OnlySlot
<1>7. /\ Fresh' /\ Versions' /\ Loads' /\ Kept' /\ Views'
      /\ \A r \in requests : r.tab # NoTab /\ ~(r.tab = t /\ r.item = i /\ r.by \in Changing) =>
           Expected(r)'
  <2>1. \A u \in Tabs, k \in Items : SameCalls(u, k)
    BY <1>1, SameRequests
  <2>2. tab'[t].sync[i] <= server[i].version
    BY <1>3 DEF IInv, Versions
  <2>3. \A c \in requests' : /\ c.state = "ok" => c \in requests
                             /\ c.item = i \/ \E r \in requests : r.item = c.item
    BY <1>1
  <2>. QED
    BY <1>1, <1>3, <1>6, <2>1, <2>2, <2>3, SlotFrame
<1>8. Calls'
  <2>1. \A r \in requests : r.tab = t /\ r.item = i /\ r.by \in Changing => Expected(r)'
    <3>1. SUFFICES ASSUME NEW r \in requests, r.tab = t, r.item = i, r.by \in Changing
                   PROVE  Expected(r)'
      OBVIOUS
    <3>2. Expected(r) /\ r.by # "migrate"
      BY <1>1, <3>1, NamesAssumption DEF Calls, Changing
    <3>. QED
      BY <1>3, <1>5, <3>1, <3>2 DEF Expected, OnlySlot, q
  <2>. QED
    BY <1>1, <1>7, <2>1 DEF Calls, Alike
<1>. QED
  BY <1>1, <1>7, <1>8 DEF IInv

LEMMA RunNothingKeeps == ASSUME IInv, NEW t \in Tabs, NEW i \in Items, RunNothing(t, i) PROVE IInv'
<1> DEFINE q == tab[t].queue[i]
<1>1. /\ TypeOK /\ TypeOK' /\ Calls /\ q # <<>> /\ ~Waits(t, i, {"create", "update", "delete"})
      /\ tab[t].sync[i] = 0 \/ (Head(q).kind = "update" /\ ~Shown(t, i))
      /\ requests' = requests /\ server' = server /\ legacy' = legacy /\ fresh' = fresh
      /\ changes' = changes /\ changes \in Nat /\ changes <= changes'
      /\ tab[t].phase # "closed" /\ i \notin fresh
  <2>1. TypeOK /\ TypeOK' /\ Calls
    BY RunNothingType DEF IInv
  <2>2. /\ q # <<>> /\ ~Waits(t, i, {"create", "update", "delete"})
        /\ tab[t].sync[i] = 0 \/ (Head(q).kind = "update" /\ ~Shown(t, i))
        /\ requests' = requests /\ server' = server /\ legacy' = legacy /\ fresh' = fresh
        /\ changes' = changes
    BY DEF RunNothing, MayRun, Idle, Front, Shared
  <2>3. changes \in Nat
    BY <2>1, Zero DEF TypeOK
  <2>4. tab[t].phase # "closed" /\ i \notin fresh
    BY <2>2, WorkIsOpen
  <2>. QED
    BY <2>1, <2>2, <2>3, <2>4
<1>2. /\ OnlySlot(t, i)
      /\ tab'[t].queue[i] = Tail(q)
      /\ tab'[t].view[i] = tab[t].view[i] /\ tab'[t].last[i] = tab[t].last[i]
      /\ tab'[t].sync[i] = tab[t].sync[i] /\ tab'[t].listed[i] = tab[t].listed[i]
      /\ (i \in tab'[t].told <=> i \in tab[t].told) /\ (i \in tab'[t].hasty <=> i \in tab[t].hasty)
      /\ (i \in tab'[t].failed <=> i \in tab[t].failed)
  BY <1>1, RunNothingDoes
<1>3. \A r \in requests : r.tab = t /\ r.item = i => r.by = "migrate"
  BY <1>1, RequestType DEF Waits
<1>4. q \in Queue
  BY <1>1, StoreType
<1> HIDE DEF q
<1>5. ASSUME i \notin tab'[t].hasty
      PROVE  Sound(t, i)'
  <2>1. tab[t].phase \in {"cleaning", "open"} /\ Settled(t, i)
    BY <1>1, <1>2, <1>5, StoreType DEF IInv, Views, Sound, NotYet, Blank, Loading, Store, Phase, q
  <2>2. Ordered(q, changes)
    BY <2>1 DEF Settled, q
  <2>3. /\ Ordered(Tail(q), changes')
        /\ Tail(q) # <<>> => Final(Tail(q)) = Final(q)
        /\ Head(q).kind = "update" /\ Final(q).kind = "delete" => Tail(q) # <<>>
    BY <1>1, <1>4, <2>2, TailProperties
  <2>4. ~Creating(t, i) /\ ~Waits(t, i, Changing) /\ ~Creating(t, i)' /\ ~Waits(t, i, Changing)'
    BY <1>1, <1>3 DEF Creating, Waits, Changing
  <2>5. Shown(t, i)' <=> Shown(t, i)
    BY <1>2 DEF Shown
  <2>6. /\ Shown(t, i) => tab[t].sync[i] = 0 /\ i \in tab[t].told
        /\ ~Shown(t, i) /\ tab[t].sync[i] > 0 => Head(q).kind = "update" /\ Final(q).kind = "delete"
        /\ Shown(t, i) => Final(q).kind = "update" /\ tab[t].view[i].stamp \in {0, Final(q).edit}
        /\ Shown(t, i) /\ tab[t].last[i] > 0 => tab[t].view[i].content = tab[t].last[i]
    BY <1>1, <2>1, <2>4 DEF Settled, q
  <2>7. Settled(t, i)'
    BY <1>1, <1>2, <1>3, <2>3, <2>4, <2>5, <2>6 DEF Settled
  <2>. QED
    BY <1>2, <2>1, <2>7 DEF Sound, Loading, OnlySlot
<1>6. /\ Fresh' /\ Versions' /\ Loads' /\ Kept' /\ Views'
      /\ \A r \in requests : r.tab # NoTab /\ ~(r.tab = t /\ r.item = i /\ r.by \in Changing) =>
           Expected(r)'
  <2>1. \A u \in Tabs, k \in Items : SameCalls(u, k)
    BY <1>1, SameRequests
  <2>2. tab'[t].sync[i] <= server[i].version
    BY <1>2 DEF IInv, Versions
  <2>3. \A c \in requests' : /\ c.state = "ok" => c \in requests
                             /\ c.item = i \/ \E r \in requests : r.item = c.item
    BY <1>1
  <2>. QED
    BY <1>1, <1>2, <1>5, <2>1, <2>2, <2>3, SlotFrame
<1>7. Calls'
  BY <1>1, <1>3, <1>6 DEF Calls, Alike, Changing
<1>. QED
  BY <1>1, <1>6, <1>7 DEF IInv

-----------------------------------------------------------------------------
(* The server. *)

LEMMA HandleKeeps == ASSUME IInv, NEW r \in requests, Handle(r) PROVE IInv'
<1>1. /\ TypeOK /\ TypeOK' /\ Calls /\ Fresh /\ Versions /\ Loads /\ Kept /\ Views
      /\ r.state = "sent" /\ r.item \in Items /\ r.tab \in Tabs \cup {NoTab}
      /\ tab' = tab /\ legacy' = legacy /\ fresh' = fresh /\ changes' = changes /\ Grows
  BY HandleType, HandleGrows, RequestType DEF IInv, Handle
<1>2. PICK answer :
        /\ requests' = (requests \ {r}) \cup (IF r.tab = NoTab THEN {} ELSE {answer})
        /\ answer.tab = r.tab /\ answer.item = r.item /\ answer.by = r.by
        /\ answer.state # "sent"
        /\ r.by \in {"update", "create"} => answer.content = r.content
        /\ answer.state = "ok" => /\ answer.version = server'[r.item].version
                                  /\ answer.content = server'[r.item].content
                                  /\ answer.version > 0
  BY <1>1, HandleAnswers
<1>3. \A i \in Items : server[i].version \in Nat /\ server'[i].version \in Nat
  BY <1>1 DEF TypeOK, Row
<1>4. /\ \A i \in Items : i # r.item => server'[i] = server[i]
      /\ \A i \in Items : Exists(server[i]) => Exists(server'[i])
      /\ server'[r.item] = server[r.item] \/ (Accepts(r) /\ Exists(server'[r.item]))
  <2>1. \A i \in Items : Exists(server[i]) => Exists(server'[i])
    BY <1>1, <1>3 DEF Grows, Exists
  <2>2. CASE Accepts(r)
    <3>1. server' = [server EXCEPT ![r.item] = Written(r)] /\ Written(r).version > 0
      BY <1>1, <2>2, Accepted DEF Handle
    <3>2. server'[r.item] = Written(r) /\ \A i \in Items : i # r.item => server'[i] = server[i]
      BY <1>1, <3>1 DEF TypeOK
    <3>. QED
      BY <2>1, <2>2, <3>1, <3>2 DEF Exists
  <2>3. CASE ~Accepts(r)
    BY <2>3 DEF Handle
  <2>. QED
    BY <2>1, <2>2, <2>3
<1>5. Calls'
  <2>1. \A q \in requests' : q.tab # NoTab => Expected(q)'
    BY <1>1, <1>2 DEF Calls, Expected, Unmoved
  <2>2. \A p, q \in requests' : Alike(p, q) => p = q
    <3>1. \A q \in requests : (Alike(answer, q) => Alike(r, q)) /\ (Alike(q, answer) => Alike(q, r))
      BY <1>2 DEF Alike
    <3>. QED
      BY <1>1, <1>2, <3>1 DEF Calls
  <2>3. \A q \in requests' : /\ q.by = "migrate" => q.item \in LegacyItems
                             /\ q.by = "create" => q.item \notin LegacyItems
    BY <1>1, <1>2 DEF Calls
  <2>4. ASSUME NEW q \in requests', q.by = "create", q.state = "sent"
        PROVE  ~Exists(server'[q.item])
    <3>1. q \in requests /\ q # r /\ ~Exists(server[q.item]) /\ q.item \in Items /\ q.item \notin LegacyItems
      BY <1>1, <1>2, <2>4, RequestType DEF Calls
    <3>2. CASE q.item # r.item
      BY <1>4, <3>1, <3>2
    <3>3. CASE q.item = r.item
      <4>1. r.by # "migrate" /\ r.by # "create"
        BY <1>1, <2>4, <3>1, <3>3 DEF Calls, Alike
      <4>2. ~Accepts(r)
        <5>1. ~Live(server[r.item])
          BY <3>1, <3>3 DEF Live
        <5>2. CASE r.by = "update"
          BY <5>1, <5>2 DEF Accepts
        <5>3. CASE r.by = "delete"
          BY <5>1, <5>3 DEF Accepts
        <5>. QED
          BY <4>1, <5>2, <5>3, <1>1, RequestType
      <4>. QED
        BY <1>4, <3>1, <3>3, <4>2
    <3>. QED
      BY <3>2, <3>3
  <2>. QED
    BY <2>1, <2>2, <2>3, <2>4 DEF Calls, Alike
<1>6. Fresh'
  <2>1. \A i \in fresh : i # r.item /\ i \in Items
    BY <1>1 DEF Fresh, TypeOK
  <2>2. \A q \in requests' : q = answer \/ q \in requests
    BY <1>2
  <2>. QED
    BY <1>1, <1>2, <1>4, <2>1, <2>2 DEF Fresh, Blank
<1>7. Versions'
  <2>1. \A i \in Items : Exists(server'[i]) \/ ~server'[i].deleted
    BY <1>1, <1>4 DEF Versions
  <2>2. ASSUME NEW q \in requests', q.state = "ok"
        PROVE  q.version > 0 /\ Fits(q.item, q.version, q.content)'
    <3>1. CASE q \in requests
      <4>1. q.version > 0 /\ Fits(q.item, q.version, q.content) /\ q.item \in Items /\ q.version \in Nat
        BY <1>1, <2>2, <3>1, RequestType DEF Versions
      <4>. QED
        BY <1>1, <4>1, FitsStays
    <3>2. CASE q = answer
      BY <1>1, <1>2, <1>3, <2>2, <3>2 DEF Fits
    <3>. QED
      BY <1>2, <3>1, <3>2
  <2>3. ASSUME NEW u \in Tabs, NEW i \in Items
        PROVE  /\ Exists(tab[u].listed[i]) => Fits(i, tab[u].listed[i].version, tab[u].listed[i].content)'
               /\ tab[u].sync[i] <= server'[i].version
    <3>1. tab[u].listed[i].version \in Nat /\ tab[u].sync[i] \in Nat
      BY <1>1, StoreType DEF Row
    <3>2. tab[u].sync[i] <= server'[i].version
      BY <1>1, <1>3, <3>1 DEF Versions, Grows
    <3>3. SUFFICES ASSUME Exists(tab[u].listed[i])
                   PROVE  Fits(i, tab[u].listed[i].version, tab[u].listed[i].content)'
      BY <3>2
    <3>4. Fits(i, tab[u].listed[i].version, tab[u].listed[i].content)
      BY <1>1, <3>3 DEF Versions
    <3>. QED
      BY <1>1, <1>3, <3>1, <3>4 DEF Fits, Grows
  <2>. QED
    BY <1>1, <2>1, <2>2, <2>3 DEF Versions, Fits
<1>8. Loads' /\ Kept'
  <2>1. \A u \in Tabs : tab[u].local \subseteq Items
    BY <1>1, StoreType, LegacyAssumption DEF Store
  <2>. QED
    BY <1>1, <1>4, <2>1, LegacyAssumption DEF Loads, Kept, Unmoved
<1>9. Views'
  <2>1. SUFFICES ASSUME NEW u \in Tabs, NEW i \in Items, i \notin tab'[u].hasty
                 PROVE  Sound(u, i)'
    BY DEF Views
  <2>2. SameSlot(u, i) /\ Sound(u, i) /\ changes <= changes'
    BY <1>1, <2>1, SameTab, Zero DEF Views, TypeOK
  <2>3. SameCalls(u, i)
    <3>1. ASSUME NEW q \in requests', q.tab = u, q.item = i
          PROVE  \E p \in requests : /\ p.tab = u /\ p.item = i /\ p.by = q.by
                                     /\ q.by \in {"update", "create"} => p.content = q.content
      BY <1>2, <3>1
    <3>2. ASSUME NEW p \in requests, p.tab = u, p.item = i, p.by = "create"
          PROVE  \E q \in requests' : q.tab = u /\ q.item = i /\ q.by = "create"
      BY <1>2, <3>2, NamesAssumption
    <3>. QED
      BY <3>1, <3>2 DEF SameCalls
  <2>. QED
    BY <1>1, <2>2, <2>3, SlotStays
<1>. QED
  BY <1>1, <1>5, <1>6, <1>7, <1>8, <1>9 DEF IInv

-----------------------------------------------------------------------------
(* Answers. *)

LEMMA OverDoes ==
  ASSUME NEW r \in requests, r.tab \in Tabs, Over(r)
  PROVE  /\ \A q \in requests : q = r \/ q \in requests'
         /\ \A q \in requests' :
              \/ q \in requests /\ q # r
              \/ /\ q.tab = NoTab /\ q.tab \notin Tabs /\ q.item = r.item /\ q.by = r.by
                 /\ q.state = "sent" /\ r.state = "sent"
         /\ \A q \in requests' : q.state = "ok" => q \in requests
         /\ \A u \in Tabs, k \in Items : SameCalls(u, k) \/ (u = r.tab /\ k = r.item)
<1>1. PICK rest :
        /\ requests' = (requests \ {r}) \cup rest
        /\ \A q \in rest : /\ q.tab = NoTab /\ q.item = r.item /\ q.by = r.by
                           /\ q.state = "sent" /\ r.state = "sent"
  BY DEF Over
<1>2. /\ \A q \in requests : q = r \/ q \in requests'
      /\ \A q \in requests' :
           \/ q \in requests /\ q # r
           \/ /\ q.tab = NoTab /\ q.tab \notin Tabs /\ q.item = r.item /\ q.by = r.by
              /\ q.state = "sent" /\ r.state = "sent"
  BY <1>1, NamesAssumption
<1>3. \A u \in Tabs, k \in Items : SameCalls(u, k) \/ (u = r.tab /\ k = r.item)
  BY <1>2 DEF SameCalls
<1>. QED
  BY <1>2, <1>3

(* The calls that remain, when those that the tab waits for are as expected. *)
LEMMA OverCalls ==
  ASSUME Calls, UNCHANGED server, NEW r \in requests, r.tab \in Tabs, Over(r),
         \A q \in requests : q # r /\ q.tab # NoTab => Expected(q)'
  PROVE  Calls'
<1>1. \A q \in requests' :
        \/ q \in requests /\ q # r
        \/ /\ q.tab = NoTab /\ q.tab \notin Tabs /\ q.item = r.item /\ q.by = r.by
           /\ q.state = "sent" /\ r.state = "sent"
  BY OverDoes
<1>2. \A q \in requests' : q.tab # NoTab => Expected(q)'
  BY <1>1
<1>3. \A q \in requests' : /\ q.by = "migrate" => q.item \in LegacyItems
                           /\ q.by = "create" => q.item \notin LegacyItems
                           /\ q.by = "create" /\ q.state = "sent" => ~Exists(server'[q.item])
  BY <1>1 DEF Calls
<1>4. PICK rest :
        /\ requests' = (requests \ {r}) \cup rest
        /\ \A p, q \in rest : p = q
        /\ \A q \in rest : /\ q.tab = NoTab /\ q.item = r.item /\ q.by = r.by
  BY DEF Over
<1>5. \A p, q \in requests' : Alike(p, q) => p = q
  <2>1. \A p, q \in requests : Alike(p, q) => p = q
    BY DEF Calls
  <2>2. ASSUME NEW p \in rest, NEW q \in requests, q # r
        PROVE  ~Alike(p, q) /\ ~Alike(q, p)
    <3>1. Alike(p, q) \/ Alike(q, p) => Alike(r, q) \/ Alike(q, r)
      BY <1>4, <2>2 DEF Alike
    <3>. QED
      BY <2>1, <2>2, <3>1
  <2>. QED
    BY <1>4, <2>1, <2>2
<1>. QED
  BY <1>2, <1>3, <1>5 DEF Calls, Alike

LEMMA MigratedKeeps ==
  ASSUME IInv, NEW r \in requests, r.by = "migrate",
         Succeeds(r) \/ Refused(r) \/ Lost(r)
  PROVE  IInv'
<1> DEFINE t == r.tab  i == r.item
<1>1. /\ TypeOK /\ Calls /\ Fresh /\ Versions /\ Loads /\ Kept /\ Views
      /\ t \in Tabs /\ i \in Items /\ t # NoTab /\ Over(r) /\ Expected(r) /\ i \in LegacyItems
      /\ server' = server /\ legacy' = legacy /\ fresh' = fresh /\ changes' = changes
  BY AnswerIsOver, RequestType, NamesAssumption DEF IInv, Calls
<1>2. /\ Migrates(t, i) /\ tab'[t] \in Store
      /\ \/ /\ tab' = [tab EXCEPT ![t] = Succeeded(@, r)]
            /\ tab'[t].listed[i] = [version |-> r.version, content |-> r.content, deleted |-> FALSE]
            /\ (i \in tab'[t].failed <=> i \in tab[t].failed)
         \/ /\ tab' = [tab EXCEPT ![t] = Failed(@, r)]
            /\ tab'[t].listed[i] = tab[t].listed[i]
            /\ i \in tab'[t].failed
  BY <1>1, MigratedDoes DEF Succeeds, Refused, Lost
<1>3. /\ \A u \in Tabs : u # t => tab'[u] = tab[u]
      /\ \A u \in Tabs : tab'[u].phase = tab[u].phase /\ tab'[u].local = tab[u].local
      /\ \A u \in Tabs, k \in Items : SameSlot(u, k) \/ (u = t /\ k = i)
      /\ tab[t].phase = "migrating"
  BY <1>1, <1>2 DEF Migrates, OnlySlot, Expected
<1>4. TypeOK'
  <2>1. requests' \subseteq Request
    <3>1. Succeeds(r) \/ Refused(r) => requests' \subseteq requests
      BY DEF Succeeds, Refused
    <3>2. Lost(r) => requests' \subseteq requests \cup Orphans({r})
      BY DEF Lost
    <3>3. Orphans({r}) \subseteq Request /\ requests \subseteq Request
      BY <1>1, OrphansType DEF TypeOK
    <3>. QED
      BY <3>1, <3>2, <3>3
  <2>2. mishaps' \in 0..MaxMishaps
    BY <1>1, MishapType DEF Succeeds, Refused, Lost
  <2>3. tab' \in [Tabs -> Store]
    BY <1>1, <1>2 DEF TypeOK
  <2>. QED
    BY <1>1, <2>1, <2>2, <2>3 DEF TypeOK
<1>5. Calls'
  <2>1. \A q \in requests : q # r /\ q.tab = t => q.by # "migrate"
    BY <1>1 DEF Calls, Alike
  <2>2. ASSUME NEW q \in requests, q # r, q.tab # NoTab
        PROVE  Expected(q)'
    <3>1. Expected(q) /\ q.tab \in Tabs /\ q.item \in Items
      BY <1>1, <2>2, RequestType DEF Calls
    <3>2. CASE q.tab # t
      <4>1. tab'[q.tab] = tab[q.tab] /\ Unmoved(q.tab)' = Unmoved(q.tab)
        BY <1>3, <3>1, <3>2 DEF Unmoved
      <4>. QED
        BY <3>1, <4>1 DEF Expected
    <3>3. CASE q.tab = t
      <4>1. tab'[t].queue[q.item] = tab[t].queue[q.item]
        BY <1>2, <1>3, <3>1, <3>3 DEF SameSlot, Migrates
      <4>. QED
        BY <1>3, <2>1, <2>2, <3>1, <3>3, <4>1 DEF Expected
    <3>. QED
      BY <3>2, <3>3
  <2>. QED
    BY <1>1, <2>2, OverCalls
<1>6. Fresh'
  <2>1. \A k \in fresh : k # i /\ k \in Items
    BY <1>1 DEF Fresh, TypeOK
  <2>2. \A k \in fresh, u \in Tabs : (Blank(u, k) /\ tab[u].sync[k] = 0 /\ ~Exists(tab[u].listed[k]))'
    BY <1>1, <1>3, <2>1 DEF Fresh, SameSlot, Blank
  <2>3. \A k \in fresh, q \in requests' : q.item # k
    BY <1>1, <2>1, OverDoes DEF Fresh
  <2>. QED
    BY <1>1, <2>2, <2>3 DEF Fresh
<1>7. Versions'
  <2>1. \A q \in requests' : q.state = "ok" => q \in requests
    BY <1>1, OverDoes
  <2>2. ASSUME NEW u \in Tabs, NEW k \in Items
        PROVE  /\ Exists(tab'[u].listed[k]) => Fits(k, tab'[u].listed[k].version, tab'[u].listed[k].content)
               /\ tab'[u].sync[k] <= server[k].version
    <3>1. CASE SameSlot(u, k)
      BY <1>1, <3>1 DEF SameSlot, Versions
    <3>2. CASE u = t /\ k = i
      <4>1. tab'[t].sync[i] <= server[i].version
        BY <1>1, <1>2 DEF Migrates, Versions
      <4>2. CASE tab'[t].listed[i] = tab[t].listed[i]
        BY <1>1, <3>2, <4>1, <4>2 DEF Versions
      <4>3. CASE tab'[t].listed[i] # tab[t].listed[i]
        <5>1. /\ tab'[t].listed[i].version = r.version /\ tab'[t].listed[i].content = r.content
              /\ tab' = [tab EXCEPT ![t] = Succeeded(@, r)]
          BY <1>2, <4>3
        <5>2. r.state = "ok"
          <6>1. CASE Succeeds(r)
            BY <6>1 DEF Succeeds
          <6>2. CASE Refused(r) \/ Lost(r)
            <7>1. tab' = [tab EXCEPT ![t] = [tab[t] EXCEPT !.failed = @ \cup {i}]]
              BY <6>2 DEF Refused, Lost, Failed
            <7>2. tab'[t].listed = tab[t].listed
              BY <1>1, <7>1, StoreType DEF Store, TypeOK
            <7>. QED
              BY <4>3, <7>2
          <6>. QED
            BY <6>1, <6>2
        <5>. QED
          BY <1>1, <3>2, <4>1, <5>1, <5>2 DEF Versions
      <4>. QED
        BY <4>2, <4>3
    <3>. QED
      BY <1>3, <3>1, <3>2
  <2>. QED
    BY <1>1, <2>1, <2>2 DEF Versions, Fits
<1>8. Loads' /\ Kept'
  <2>1. \A u \in Tabs : u # t => Unmoved(u)' = Unmoved(u)
    BY <1>3 DEF Unmoved
  <2>. QED
    BY <1>1, <1>3, <2>1 DEF Loads, Kept
<1>9. Views'
  <2>1. SUFFICES ASSUME NEW u \in Tabs, NEW k \in Items, k \notin tab'[u].hasty
                 PROVE  Sound(u, k)'
    BY DEF Views
  <2>2. Sound(u, k)
    BY <1>1, <1>2, <1>3, <2>1 DEF Views, SameSlot, Migrates
  <2>3. CASE ~(u = t /\ k = i)
    <3>1. SameSlot(u, k) /\ SameCalls(u, k)
      BY <1>1, <1>3, <2>3, OverDoes
    <3>2. Grows /\ changes <= changes'
      BY <1>1, Unchanged, Zero DEF TypeOK
    <3>. QED
      BY <1>1, <1>3, <1>4, <2>2, <3>1, <3>2, SlotStays
  <2>4. CASE u = t /\ k = i
    <3>1. NotYet(t, i)
      BY <1>3, <2>2, <2>4 DEF Sound, Loading
    <3>2. ~Waits(t, i, Changing \cup {"create"})'
      BY <1>1, <3>1, OverDoes DEF NotYet, Waits
    <3>3. /\ tab'[t].view[i] = Hidden /\ tab'[t].queue[i] = <<>> /\ tab'[t].last[i] = 0
          /\ tab'[t].sync[i] = 0 /\ tab'[t].phase = "migrating"
      <4>1. /\ tab'[t].view[i] = tab[t].view[i] /\ tab'[t].queue[i] = tab[t].queue[i]
            /\ tab'[t].sync[i] = tab[t].sync[i] /\ tab'[t].last[i] = tab[t].last[i]
        BY <1>2 DEF Migrates
      <4>2. tab'[t].phase = "migrating" /\ tab[t].phase = "migrating"
        BY <1>1, <1>3
      <4>3. /\ tab[t].view[i] = Hidden /\ tab[t].queue[i] = <<>> /\ tab[t].last[i] = 0
            /\ tab[t].sync[i] = 0
        BY <3>1, <4>2 DEF NotYet, Blank
      <4>. QED
        BY <4>1, <4>2, <4>3
    <3>4. NotYet(t, i)'
      BY <3>2, <3>3 DEF NotYet, Blank
    <3>. QED
      BY <2>4, <3>3, <3>4 DEF Sound
  <2>. QED
    BY <2>3, <2>4
<1>. QED
  BY <1>1, <1>4, <1>5, <1>6, <1>7, <1>8, <1>9 DEF IInv

(* What is known of an item when the answer to a creation, an update or a   *)
(* deletion comes. *)
LEMMA AnswerFacts ==
  ASSUME IInv, NEW r \in requests, r.tab \in Tabs, r.by # "migrate", Over(r)
  PROVE  /\ \A q \in requests' : ~(q.tab = r.tab /\ q.item = r.item /\ q.by # "migrate")
         /\ ~Creating(r.tab, r.item)' /\ ~Waits(r.tab, r.item, Changing)'
         /\ Expected(r) /\ tab[r.tab].phase # "closed" /\ r.item \notin fresh
         /\ r.by = "create" => Creating(r.tab, r.item)
         /\ r.by \in Changing => Waits(r.tab, r.item, Changing) /\ ~Creating(r.tab, r.item)
         /\ r.item \notin tab[r.tab].hasty =>
              tab[r.tab].phase \in {"cleaning", "open"} /\ Settled(r.tab, r.item)
<1> DEFINE t == r.tab  i == r.item
<1>1. TypeOK /\ Calls /\ r.tab # NoTab /\ i \in Items /\ r.by \in Changing \cup {"create"}
  BY RequestType, NamesAssumption DEF IInv, Changing
<1>2. \A q \in requests : q.tab = t /\ q.item = i /\ q.by # "migrate" => q = r
  <2>1. \A q \in requests : q.by # "migrate" => q.by \in Changing \cup {"create"}
    BY <1>1, RequestType DEF Changing
  <2>. QED
    BY <1>1, <2>1 DEF Calls, Alike
<1>3. \A q \in requests' : ~(q.tab = t /\ q.item = i /\ q.by # "migrate")
  BY <1>2, OverDoes
<1>4. ~Creating(t, i)' /\ ~Waits(t, i, Changing)'
  BY <1>3 DEF Creating, Waits, Changing
<1>5. Expected(r) /\ tab[t].phase # "closed" /\ i \notin fresh
  BY <1>1 DEF IInv, Calls, Expected, Fresh
<1>6. /\ r.by = "create" => Creating(t, i)
      /\ r.by \in Changing => Waits(t, i, Changing) /\ ~Creating(t, i)
  BY <1>2 DEF Creating, Waits, Changing
<1>7. i \notin tab[t].hasty => tab[t].phase \in {"cleaning", "open"} /\ Settled(t, i)
  <2>1. SUFFICES ASSUME i \notin tab[t].hasty
                 PROVE  tab[t].phase \in {"cleaning", "open"} /\ Settled(t, i)
    OBVIOUS
  <2>2. Sound(t, i)
    BY <1>1, <2>1 DEF IInv, Views
  <2>3. ~NotYet(t, i)
    BY <1>1 DEF NotYet, Waits
  <2>4. tab[t].phase \in {"cleaning", "open"}
    BY <1>1, <2>2, <2>3, StoreType DEF Sound, Loading, Store, Phase
  <2>. QED
    BY <2>2, <2>4 DEF Sound
<1>. QED
  BY <1>3, <1>4, <1>5, <1>6, <1>7

(* The rest of the invariant. *)
LEMMA AnswerFrame ==
  ASSUME IInv, NEW r \in requests, r.by # "migrate", Succeeds(r) \/ Refused(r) \/ Lost(r),
         Touches(r.tab, r.item), tab'[r.tab] \in Store,
         tab'[r.tab].sync[r.item] <= server[r.item].version,
         r.item \notin tab[r.tab].hasty => Settled(r.tab, r.item)'
  PROVE  IInv'
<1> DEFINE t == r.tab  i == r.item
<1>1. /\ TypeOK /\ Calls /\ t \in Tabs /\ i \in Items /\ Over(r) /\ r.by \in Changing \cup {"create"}
      /\ server' = server /\ legacy' = legacy /\ fresh' = fresh /\ changes' = changes
  BY AnswerIsOver, RequestType DEF IInv, Changing
<1>2. /\ \A q \in requests' : ~(q.tab = t /\ q.item = i /\ q.by # "migrate")
      /\ tab[t].phase # "closed" /\ i \notin fresh
      /\ i \notin tab[t].hasty => tab[t].phase \in {"cleaning", "open"}
  BY <1>1, AnswerFacts
<1>3. TypeOK'
  <2>1. requests' \subseteq Request
    <3>1. Succeeds(r) \/ Refused(r) => requests' \subseteq requests
      BY DEF Succeeds, Refused
    <3>2. Lost(r) => requests' \subseteq requests \cup Orphans({r})
      BY DEF Lost
    <3>3. Orphans({r}) \subseteq Request /\ requests \subseteq Request
      BY <1>1, OrphansType DEF TypeOK
    <3>. QED
      BY <3>1, <3>2, <3>3
  <2>2. mishaps' \in 0..MaxMishaps
    BY <1>1, MishapType DEF Succeeds, Refused, Lost
  <2>3. \E s : tab' = [tab EXCEPT ![t] = s]
    BY DEF Succeeds, Refused, Lost
  <2>4. tab' \in [Tabs -> Store]
    BY <1>1, <2>3 DEF TypeOK
  <2>. QED
    BY <1>1, <2>1, <2>2, <2>4 DEF TypeOK
<1>4. /\ OnlySlot(t, i) /\ tab'[t].listed[i] = tab[t].listed[i]
      /\ (i \in tab'[t].hasty <=> i \in tab[t].hasty)
      /\ (i \in tab'[t].failed <=> i \in tab[t].failed)
  BY DEF Touches
<1>5. i \notin tab'[t].hasty => Sound(t, i)'
  BY <1>1, <1>2, <1>4 DEF Sound, Loading, OnlySlot
<1>6. /\ Fresh' /\ Versions' /\ Loads' /\ Kept' /\ Views'
      /\ \A q \in requests : q.tab # NoTab /\ ~(q.tab = t /\ q.item = i /\ q.by \in Changing) =>
           Expected(q)'
  <2>1. changes <= changes'
    BY <1>1, Zero DEF TypeOK
  <2>2. /\ \A q \in requests' : q.state = "ok" => q \in requests
        /\ \A q \in requests' : q.item = i \/ \E p \in requests : p.item = q.item
        /\ \A u \in Tabs, k \in Items : SameCalls(u, k) \/ (u = t /\ k = i)
    BY <1>1, OverDoes
  <2>. QED
    BY <1>1, <1>2, <1>3, <1>4, <1>5, <2>1, <2>2, SlotFrame
<1>7. \A q \in requests : q # r /\ q.tab # NoTab => Expected(q)'
  BY <1>1, <1>2, <1>6, OverDoes DEF Changing
<1>8. Calls'
  BY <1>1, <1>7, OverCalls
<1>. QED
  BY <1>3, <1>6, <1>8 DEF IInv

(* An item that no call is under way for, from what is shown and queued.    *)
LEMMA SettledAfter ==
  ASSUME NEW t, NEW i, NEW v, NEW q, NEW n, NEW l,
         tab'[t].view[i] = v, tab'[t].queue[i] = q, tab'[t].sync[i] = n, tab'[t].last[i] = l,
         \A c \in requests' : ~(c.tab = t /\ c.item = i /\ c.by # "migrate"),
         Ordered(q, changes'),
         v # Hidden /\ n = 0 => i \in tab'[t].told,
         v = Hidden /\ n > 0 => q # <<>> /\ Final(q).kind = "delete",
         v # Hidden /\ q # <<>> => Final(q).kind = "update" /\ v.stamp \in {0, Final(q).edit},
         v # Hidden /\ l > 0 /\ v.content # l => i \in tab'[t].told /\ q = <<>>,
         v # Hidden /\ n > 0 /\ n = server'[i].version /\ q = <<>> /\ i \notin tab'[t].told =>
           v.content = server'[i].content
  PROVE  Settled(t, i)'
<1>1. ~Creating(t, i)' /\ ~Waits(t, i, Changing)'
  BY DEF Creating, Waits, Changing
<1>2. Shown(t, i)' <=> v # Hidden
  BY DEF Shown
<1>. QED
  BY <1>1, <1>2 DEF Settled

LEMMA CreatedKeeps ==
  ASSUME IInv, NEW r \in requests, r.by = "create", Succeeds(r)
  PROVE  IInv'
<1> DEFINE t == r.tab  i == r.item
<1>1. /\ TypeOK /\ t \in Tabs /\ t # NoTab /\ i \in Items /\ Over(r) /\ r.state = "ok"
      /\ server' = server /\ changes' = changes
      /\ tab' = [tab EXCEPT ![t] = Succeeded(@, r)]
  BY AnswerIsOver, RequestType DEF IInv, Succeeds
<1>2. /\ Touches(t, i) /\ tab'[t] \in Store
      /\ tab'[t].queue[i] = tab[t].queue[i] /\ tab'[t].sync[i] = r.version
      /\ tab'[t].view[i] = Restamped(tab[t].view[i])
      /\ (i \in tab'[t].told <=> i \in tab[t].told)
  BY <1>1, CreatedDoes
<1>3. /\ tab[t].view[i] \in Asset \cup {Hidden} /\ r.version \in Nat /\ r.version > 0
      /\ Fits(i, r.version, r.content) /\ server[i].version \in Nat
  BY <1>1, StoreType, RequestType DEF IInv, Versions, TypeOK, Row
<1>4. /\ tab'[t].view[i] = Hidden <=> tab[t].view[i] = Hidden
      /\ tab[t].view[i] # Hidden => /\ tab'[t].view[i].content = tab[t].view[i].content
                                    /\ tab'[t].view[i].stamp = 0
  BY <1>2, <1>3, RestampedDoes
<1>5. ASSUME i \notin tab[t].hasty
      PROVE  Settled(t, i)'
  <2>1. /\ \A q \in requests' : ~(q.tab = t /\ q.item = i /\ q.by # "migrate")
        /\ ~Creating(t, i)' /\ ~Waits(t, i, Changing)' /\ Creating(t, i) /\ Settled(t, i)
    BY <1>1, <1>5, AnswerFacts
  <2>2. Shown(t, i)' <=> Shown(t, i)
    BY <1>4 DEF Shown
  <2>3. Shown(t, i) /\ tab[t].view[i].content # r.content => tab[t].queue[i] # <<>>
    BY <2>1 DEF Settled
  <2>4. Shown(t, i) /\ r.version = server[i].version /\ tab[t].queue[i] = <<>> =>
          tab[t].view[i].content = server[i].content
    BY <1>3, <2>3 DEF Fits
  <2>5. tab'[t].last[i] = tab[t].last[i]
    BY <1>2 DEF Touches
  <2>6. /\ Ordered(tab[t].queue[i], changes)
        /\ ~Shown(t, i) => tab[t].queue[i] # <<>> /\ Final(tab[t].queue[i]).kind = "delete"
        /\ Shown(t, i) /\ tab[t].queue[i] # <<>> => Final(tab[t].queue[i]).kind = "update"
        /\ Shown(t, i) /\ tab[t].last[i] > 0 /\ tab[t].view[i].content # tab[t].last[i] =>
             i \in tab[t].told /\ tab[t].queue[i] = <<>>
    BY <2>1 DEF Settled
  <2> DEFINE v == tab'[t].view[i]  q == tab[t].queue[i]
             l == tab[t].last[i]  n == r.version
  <2>7. /\ v # Hidden => n # 0
        /\ v = Hidden /\ n > 0 => q # <<>> /\ Final(q).kind = "delete"
        /\ v # Hidden /\ q # <<>> => Final(q).kind = "update" /\ v.stamp \in {0, Final(q).edit}
        /\ v # Hidden /\ l > 0 /\ v.content # l => i \in tab'[t].told /\ q = <<>>
        /\ v # Hidden /\ n > 0 /\ n = server'[i].version /\ q = <<>> =>
             v.content = server'[i].content
    BY <1>1, <1>2, <1>3, <1>4, <2>4, <2>6 DEF Shown
  <2>8. /\ tab'[t].view[i] = v /\ tab'[t].queue[i] = q /\ tab'[t].sync[i] = n /\ tab'[t].last[i] = l
        /\ Ordered(q, changes')
    BY <1>1, <1>2, <2>5, <2>6
  <2> HIDE DEF v, q, l, n
  <2>. QED
    BY <2>1, <2>7, <2>8, SettledAfter
<1>6. tab'[t].sync[i] <= server[i].version
  BY <1>2, <1>3 DEF Fits
<1>. QED
  BY <1>2, <1>5, <1>6, AnswerFrame

LEMMA UpdatedKeeps ==
  ASSUME IInv, NEW r \in requests, r.by = "update", Succeeds(r)
  PROVE  IInv'
<1> DEFINE t == r.tab  i == r.item  q == tab[t].queue[i]
<1>1. /\ TypeOK /\ t \in Tabs /\ t # NoTab /\ i \in Items /\ Over(r) /\ r.state = "ok"
      /\ server' = server /\ changes' = changes
      /\ tab' = [tab EXCEPT ![t] = Succeeded(@, r)] /\ Expected(r)
  BY AnswerIsOver, RequestType DEF IInv, Succeeds, Calls
<1>2. /\ Touches(t, i) /\ tab'[t] \in Store
      /\ tab'[t].queue[i] = Tail(q) /\ tab'[t].sync[i] = r.version
      /\ tab'[t].view[i] = Restamped(tab[t].view[i])
      /\ i \notin tab'[t].told
  BY <1>1, UpdatedDoes
<1>3. /\ tab[t].view[i] \in Asset \cup {Hidden} /\ r.version \in Nat /\ r.version > 0
      /\ Fits(i, r.version, r.content) /\ server[i].version \in Nat
      /\ q \in Queue /\ q # <<>> /\ Head(q).kind = "update" /\ changes \in Nat
  BY <1>1, StoreType, RequestType, Zero DEF IInv, Versions, TypeOK, Row, Expected, Changing
<1> HIDE DEF q
<1>4. /\ tab'[t].view[i] = Hidden <=> tab[t].view[i] = Hidden
      /\ tab[t].view[i] # Hidden => /\ tab'[t].view[i].content = tab[t].view[i].content
                                    /\ tab'[t].view[i].stamp = 0
  BY <1>2, <1>3, RestampedDoes
<1>5. ASSUME i \notin tab[t].hasty
      PROVE  Settled(t, i)'
  <2>1. /\ \A c \in requests' : ~(c.tab = t /\ c.item = i /\ c.by # "migrate")
        /\ ~Creating(t, i)' /\ ~Waits(t, i, Changing)' /\ Waits(t, i, Changing) /\ Settled(t, i)
    BY <1>1, <1>5, AnswerFacts DEF Changing
  <2>2. Ordered(q, changes)
    BY <2>1 DEF Settled, q
  <2>3. /\ Ordered(Tail(q), changes) /\ (Tail(q) = <<>> <=> Len(q) = 1)
        /\ Tail(q) # <<>> => Final(Tail(q)) = Final(q)
        /\ Len(q) = 1 => Final(q).kind = "update"
    BY <1>3, <2>2, TailProperties
  <2>4. Shown(t, i)' <=> Shown(t, i)
    BY <1>4 DEF Shown
  <2>5. Shown(t, i) /\ tab[t].view[i].content # r.content => Len(q) > 1
    BY <2>1 DEF Settled, q
  <2>6. Shown(t, i) /\ r.version = server[i].version /\ Tail(q) = <<>> =>
          tab[t].view[i].content = server[i].content
    <3>1. Len(q) \in Nat
      BY <1>3, MutationTypes
    <3>2. Tail(q) = <<>> => ~(Len(q) > 1)
      <4>1. Tail(q) = <<>> => Len(q) = 1
        BY <2>3
      <4>2. \A k : k = 1 => ~(k > 1)
        OBVIOUS
      <4>. QED
        BY <4>1, <4>2, Zenon
    <3>3. r.version = server[i].version => r.content = server[i].content
      BY <1>3 DEF Fits
    <3>. QED
      BY <2>5, <3>2, <3>3
  <2>7. /\ ~Shown(t, i) => Tail(q) # <<>> /\ Final(Tail(q)).kind = "delete"
        /\ Shown(t, i) /\ Tail(q) # <<>> => Final(Tail(q)).kind = "update"
        /\ Shown(t, i) /\ tab[t].last[i] > 0 => tab[t].view[i].content = tab[t].last[i]
    BY <1>3, <2>1, <2>3 DEF Settled, q
  <2>8. tab'[t].last[i] = tab[t].last[i]
    BY <1>2 DEF Touches
  <2> DEFINE v == tab'[t].view[i]  p == Tail(q)  l == tab[t].last[i]  n == r.version
  <2>9. /\ v # Hidden => n # 0
        /\ v = Hidden /\ n > 0 => p # <<>> /\ Final(p).kind = "delete"
        /\ v # Hidden /\ p # <<>> => Final(p).kind = "update" /\ v.stamp \in {0, Final(p).edit}
        /\ v # Hidden /\ l > 0 => v.content = l
        /\ v # Hidden /\ n > 0 /\ n = server'[i].version /\ p = <<>> =>
             v.content = server'[i].content
    BY <1>1, <1>3, <1>4, <2>6, <2>7 DEF Shown
  <2>10. /\ tab'[t].view[i] = v /\ tab'[t].queue[i] = p /\ tab'[t].sync[i] = n /\ tab'[t].last[i] = l
         /\ i \notin tab'[t].told /\ Ordered(p, changes')
    BY <1>1, <1>2, <2>3, <2>8
  <2> HIDE DEF v, p, l, n
  <2>. QED
    BY <2>1, <2>9, <2>10, SettledAfter
<1>6. tab'[t].sync[i] <= server[i].version
  BY <1>2, <1>3 DEF Fits
<1>. QED
  BY <1>2, <1>5, <1>6, AnswerFrame

LEMMA DeletedKeeps ==
  ASSUME IInv, NEW r \in requests, r.by = "delete", Succeeds(r)
  PROVE  IInv'
<1> DEFINE t == r.tab  i == r.item  q == tab[t].queue[i]
<1>1. /\ TypeOK /\ t \in Tabs /\ t # NoTab /\ i \in Items /\ Over(r)
      /\ server' = server /\ changes' = changes
      /\ tab' = [tab EXCEPT ![t] = Succeeded(@, r)] /\ Expected(r)
  BY AnswerIsOver, RequestType DEF IInv, Succeeds, Calls
<1>2. /\ Touches(t, i) /\ tab'[t] \in Store
      /\ tab'[t].queue[i] = Tail(q) /\ tab'[t].sync[i] = 0
      /\ tab'[t].view[i] = tab[t].view[i]
      /\ (i \in tab'[t].told <=> i \in tab[t].told)
  BY <1>1, DeletedDoes
<1>3. /\ server[i].version \in Nat
      /\ q \in Queue /\ q # <<>> /\ Head(q).kind = "delete" /\ changes \in Nat
  BY <1>1, StoreType, Zero DEF TypeOK, Row, Expected, Changing
<1> HIDE DEF q
<1>4. ASSUME i \notin tab[t].hasty
      PROVE  Settled(t, i)'
  <2>1. /\ \A c \in requests' : ~(c.tab = t /\ c.item = i /\ c.by # "migrate")
        /\ Settled(t, i)
    BY <1>1, <1>4, AnswerFacts
  <2>2. Ordered(q, changes)
    BY <2>1 DEF Settled, q
  <2>3. Tail(q) = <<>> /\ Final(q).kind = "delete" /\ Ordered(Tail(q), changes)
    BY <1>3, <2>2, TailProperties
  <2>4. ~Shown(t, i)
    BY <1>3, <2>1, <2>3 DEF Settled, q
  <2> DEFINE v == tab[t].view[i]  p == Tail(q)  l == tab[t].last[i]
  <2>5. v = Hidden
    BY <2>4 DEF Shown
  <2>6. /\ tab'[t].view[i] = v /\ tab'[t].queue[i] = p /\ tab'[t].sync[i] = 0 /\ tab'[t].last[i] = l
        /\ Ordered(p, changes')
    BY <1>1, <1>2, <2>3 DEF Touches
  <2> HIDE DEF v, p, l
  <2>. QED
    BY <2>1, <2>5, <2>6, SettledAfter
<1>5. tab'[t].sync[i] <= server[i].version
  BY <1>2, <1>3
<1>. QED
  BY <1>2, <1>4, <1>5, AnswerFrame

LEMMA FailedKeeps ==
  ASSUME IInv, NEW r \in requests, r.by # "migrate", Refused(r) \/ Lost(r)
  PROVE  IInv'
<1> DEFINE t == r.tab  i == r.item  q == tab[t].queue[i]  op == Head(q)
           v == tab[t].view[i]  w == tab'[t].view[i]  p == tab'[t].queue[i]
           n == tab[t].sync[i]  l == tab[t].last[i]
<1>1. /\ TypeOK /\ t \in Tabs /\ t # NoTab /\ i \in Items /\ Over(r)
      /\ server' = server /\ changes' = changes
      /\ tab' = [tab EXCEPT ![t] = Failed(@, r)] /\ Expected(r)
      /\ r.by \in {"create", "update", "delete"}
  BY AnswerIsOver, RequestType DEF IInv, Refused, Lost, Calls
<1>2. /\ Touches(t, i) /\ tab'[t] \in Store /\ PutBack(r, w, p)
      /\ tab'[t].sync[i] = n /\ i \in tab'[t].told /\ tab'[t].last[i] = l
  BY <1>1, FailedDoes DEF Touches
<1>3. /\ server[i].version \in Nat /\ n \in Nat /\ n <= server[i].version
      /\ q \in Queue /\ changes \in Nat /\ v \in Asset \cup {Hidden}
      /\ r.by \in Changing => q # <<>> /\ op.kind = r.by
  BY <1>1, StoreType, Zero DEF IInv, Versions, TypeOK, Row, Expected
<1>4. ASSUME i \notin tab[t].hasty
      PROVE  Settled(t, i)'
  <2>1. /\ \A c \in requests' : ~(c.tab = t /\ c.item = i /\ c.by # "migrate")
        /\ Settled(t, i)
        /\ r.by = "create" => Creating(t, i)
        /\ r.by \in Changing => Waits(t, i, Changing) /\ ~Creating(t, i)
    BY <1>1, <1>4, AnswerFacts
  <2>2. /\ Ordered(q, changes)
        /\ r.by = "create" => n = 0
        /\ r.by \in Changing => n > 0
        /\ v = Hidden /\ n > 0 => q # <<>> /\ Final(q).kind = "delete"
        /\ v # Hidden /\ q # <<>> => Final(q).kind = "update" /\ v.stamp \in {0, Final(q).edit}
        /\ v # Hidden /\ l > 0 /\ v.content # l => q = <<>>
    BY <2>1 DEF Settled, Shown
  <2> HIDE DEF q, v, w, p, n, l
  <2>3. q # <<>> =>
          /\ Ordered(Tail(q), changes) /\ op = q[1] /\ op \in Mutation
          /\ Len(q) \in Nat /\ Len(q) > 0 /\ (Tail(q) = <<>> <=> Len(q) = 1)
          /\ Tail(q) # <<>> => Final(Tail(q)) = Final(q)
          /\ op.kind = "delete" => Len(q) = 1
          /\ Len(q) = 1 => Final(q) = op
    BY <1>3, <2>2, TailProperties
  <2>4. q # <<>> => /\ op.previous \in Asset /\ op.previous # Hidden
                    /\ op.edit \in Nat
    BY <2>3, Zero, HiddenAssumption DEF Mutation
  <2>5. /\ Ordered(p, changes)
        /\ w = Hidden /\ n > 0 => p # <<>> /\ Final(p).kind = "delete"
        /\ w # Hidden /\ p # <<>> => Final(p).kind = "update" /\ w.stamp \in {0, Final(p).edit}
        /\ w # Hidden /\ l > 0 /\ w.content # l => p = <<>>
    <3>1. CASE r.by = "create"
      <4>1. w = Hidden /\ p = q /\ n = 0
        BY <1>2, <2>2, <3>1 DEF PutBack, q
      <4>. QED
        BY <2>2, <4>1
    <3>2. CASE r.by = "update"
      <4>1. /\ q # <<>> /\ op.kind = "update" /\ n > 0 /\ p = Tail(q)
            /\ w = RolledBack(v, op)
        BY <1>2, <1>3, <2>2, <3>2 DEF PutBack, Changing, q, v
      <4>2. CASE Tail(q) = <<>>
        <5>1. v # Hidden
          BY <2>2, <2>3, <4>1, <4>2
        <5>2. w # Hidden
          BY <2>4, <4>1, <5>1 DEF RolledBack
        <5>. QED
          BY <2>3, <4>1, <4>2, <5>2
      <4>3. CASE Tail(q) # <<>>
        <5>1. Len(q) > 1 /\ Len(q) \in Nat /\ Final(Tail(q)) = Final(q)
          BY <2>3, <4>1, <4>3
        <5>2. v # Hidden => op.edit > 0 /\ op.edit < Final(q).edit
          <6>1. 1 \in 1..Len(q) /\ Len(q) \in 1..Len(q) /\ 1 < Len(q) /\ op = q[1]
            BY <2>3, <4>1, <5>1
          <6>. QED
            BY <2>2, <4>1, <6>1 DEF Ordered, Final
        <5>3. Final(q).edit \in Nat
          <6>1. Len(q) \in 1..Len(q)
            BY <5>1
          <6>. QED
            BY <1>3, <6>1, MutationTypes DEF Final
        <5>4. v # Hidden => v.stamp # op.edit
          BY <2>2, <2>4, <4>1, <5>2, <5>3
        <5>5. w = v
          BY <4>1, <5>4 DEF RolledBack
        <5>. QED
          BY <2>2, <2>3, <4>1, <5>1, <5>5
      <4>. QED
        BY <4>2, <4>3
    <3>3. CASE r.by = "delete"
      <4>1. /\ q # <<>> /\ op.kind = "delete" /\ p = Tail(q)
            /\ w = IF v # Hidden THEN v ELSE op.previous
        BY <1>2, <1>3, <3>3 DEF PutBack, Changing, Shown, q, v
      <4>2. p = <<>> /\ Ordered(p, changes)
        BY <2>3, <4>1
      <4>3. w # Hidden
        BY <2>4, <4>1
      <4>. QED
        BY <4>2, <4>3
    <3>. QED
      BY <1>1, <3>1, <3>2, <3>3
  <2>6. /\ tab'[t].view[i] = w /\ tab'[t].queue[i] = p /\ tab'[t].sync[i] = n /\ tab'[t].last[i] = l
        /\ i \in tab'[t].told /\ changes' = changes
    BY <1>1, <1>2 DEF w, p, n, l
  <2>7. Ordered(p, changes')
    BY <2>5, <2>6
  <2>. QED
    BY <2>1, <2>5, <2>6, <2>7, SettledAfter
<1>5. tab'[t].sync[i] <= server[i].version
  BY <1>2, <1>3
<1>. QED
  BY <1>2, <1>4, <1>5, AnswerFrame

-----------------------------------------------------------------------------
(* The theorems. *)

LEMMA InitInv == Init => IInv
<1>1. SUFFICES ASSUME Init PROVE IInv
  OBVIOUS
<1>2. TypeOK /\ requests = {} /\ legacy = LegacyItems /\ fresh = Items \ LegacyItems
      /\ server = [i \in Items |-> NoRow] /\ tab = [t \in Tabs |-> Closed]
  BY <1>1, InitType DEF Init
<1>3. /\ \A i \in Items : server[i].version = 0 /\ ~server[i].deleted /\ ~Exists(server[i])
      /\ \A t \in Tabs : tab[t] = Closed
  BY <1>2 DEF NoRow, Exists
<1>4. Closed.phase = "closed"
  BY DEF Closed
<1>5. /\ \A i \in Items : /\ Closed.view[i] = Hidden /\ Closed.queue[i] = <<>>
                          /\ Closed.sync[i] = 0 /\ Closed.last[i] = 0
                          /\ ~Exists(Closed.listed[i])
  BY DEF Closed, NoRow, Exists
<1>6. \A t \in Tabs, i \in Items : NotYet(t, i) /\ ~Exists(tab[t].listed[i])
  BY <1>2, <1>3, <1>4, <1>5 DEF NotYet, Blank, Waits
<1>7. Calls /\ Kept
  BY <1>2 DEF Calls, Kept
<1>8. Fresh
  BY <1>2, <1>3, <1>4, <1>6 DEF Fresh, NotYet
<1>9. Versions
  BY <1>2, <1>3, <1>4, <1>6 DEF Versions, NotYet
<1>10. Loads
  BY <1>3, <1>4 DEF Loads
<1>11. Views
  BY <1>3, <1>4, <1>6 DEF Views, Sound
<1>. QED
  BY <1>2, <1>7, <1>8, <1>9, <1>10, <1>11 DEF IInv

LEMMA StutterKeeps == IInv /\ UNCHANGED vars => IInv'
<1>1. SUFFICES ASSUME IInv, UNCHANGED vars PROVE IInv'
  OBVIOUS
<1>2. /\ server' = server /\ legacy' = legacy /\ requests' = requests /\ tab' = tab
      /\ fresh' = fresh /\ changes' = changes /\ mishaps' = mishaps
  BY <1>1 DEF vars
<1>3. TypeOK /\ Calls /\ Fresh /\ Versions /\ Loads /\ Kept /\ Views
  BY <1>1 DEF IInv
<1>4. TypeOK'
  BY <1>2, <1>3 DEF TypeOK
<1>5. \A t : Unmoved(t)' = Unmoved(t)
  BY <1>2 DEF Unmoved
<1>6. Calls'
  BY <1>2, <1>3, <1>5 DEF Calls, Expected, Alike
<1>7. Fresh' /\ Versions' /\ Kept'
  BY <1>2, <1>3 DEF Fresh, Blank, Versions, Fits, Kept
<1>8. Loads'
  BY <1>2, <1>3, <1>5 DEF Loads
<1>9. Views'
  <2>1. SUFFICES ASSUME NEW t \in Tabs, NEW i \in Items, i \notin tab'[t].hasty
                 PROVE  Sound(t, i)'
    BY DEF Views
  <2>2. SameSlot(t, i) /\ SameCalls(t, i) /\ tab'[t].phase = tab[t].phase
    BY <1>2, SameTab, SameRequests
  <2>3. Grows /\ changes <= changes'
    BY <1>2, <1>3, Unchanged, Zero DEF TypeOK
  <2>4. Sound(t, i)
    BY <1>2, <1>3, <2>1 DEF Views
  <2>. QED
    BY <1>3, <1>4, <2>2, <2>3, <2>4, SlotStays
<1>. QED
  BY <1>4, <1>6, <1>7, <1>8, <1>9 DEF IInv

LEMMA NextKeeps == IInv /\ [Next]_vars => IInv'
<1>1. SUFFICES ASSUME IInv, [Next]_vars PROVE IInv'
  OBVIOUS
<1>2. CASE UNCHANGED vars
  BY <1>1, <1>2, StutterKeeps
<1>3. ASSUME NEW t \in Tabs, Open(t) \/ Load(t) \/ LoadFails(t) \/ Close(t)
      PROVE  IInv'
  <2>1. CASE LoadStep(t)
    BY <1>1, <2>1, LoadingKeeps
  <2>2. CASE Close(t)
    BY <1>1, <2>2, CloseKeeps
  <2>3. CASE \E i \in Items : Migrate(t, i)
    BY <1>1, <2>3, MigrateKeeps
  <2>. QED
    BY <1>3, <2>1, <2>2, <2>3 DEF Load, LoadStep
<1>4. ASSUME NEW t \in Tabs, NEW i \in Items,
             Add(t, i) \/ Edit(t, i) \/ Remove(t, i) \/ Mutate(t, i)
      PROVE  IInv'
  <2>1. CASE Add(t, i)
    BY <1>1, <2>1, AddKeeps
  <2>2. CASE Edit(t, i) \/ Remove(t, i)
    BY <1>1, <2>2, EnqueueKeeps
  <2>3. CASE RunNothing(t, i)
    BY <1>1, <2>3, RunNothingKeeps
  <2>4. CASE Run(t, i)
    BY <1>1, <2>4, RunKeeps
  <2>. QED
    BY <1>4, <2>1, <2>2, <2>3, <2>4 DEF Mutate
<1>5. ASSUME NEW r \in requests, Answer(r) \/ Lost(r)
      PROVE  IInv'
  <2>1. r.by \in {"migrate", "create", "update", "delete"}
    BY <1>1, RequestType DEF IInv
  <2>2. CASE Handle(r)
    BY <1>1, <2>2, HandleKeeps
  <2>3. CASE Succeeds(r)
    BY <1>1, <2>1, <2>3, MigratedKeeps, CreatedKeeps, UpdatedKeeps, DeletedKeeps
  <2>4. CASE Refused(r) \/ Lost(r)
    BY <1>1, <2>4, MigratedKeeps, FailedKeeps
  <2>. QED
    BY <1>5, <2>2, <2>3, <2>4 DEF Answer
<1>. QED
  BY <1>1, <1>2, <1>3, <1>4, <1>5 DEF Next

LEMMA Inductive == Spec => []IInv
<1>. QED
  BY InitInv, NextKeeps, PTL DEF Spec

(* The state always has its type, whatever fails and however many tabs      *)
(* load, change and close: use-asset-store.ts and library.go.               *)
THEOREM LibraryTypes == Spec => []TypeOK
<1>1. IInv => TypeOK
  BY DEF IInv
<1>. QED
  BY <1>1, Inductive, PTL

(* An asset that an older version left in the browser is there until the    *)
(* server has a row for it: migrateLegacyAsset and removeItem in            *)
(* initializeCanvasAssetStore, in any number of tabs.                       *)
THEOREM LegacyIsNeverLost == Spec => []LegacyIsKept
<1>1. IInv => LegacyIsKept
  BY DEF IInv, Kept, LegacyIsKept
<1>. QED
  BY <1>1, Inductive, PTL

(* Once nothing of an item is queued or under way and no failure was told,  *)
(* what a tab shows is what it knows the server stores, and its last edit:  *)
(* enqueueMutation and the optimistic changes of use-asset-store.ts.        *)
THEOREM LastEditsAreStored == Spec => []ViewIsStored
<1>1. ASSUME IInv, NEW t \in Tabs, NEW i \in Items, Quiet(t, i)
      PROVE  KnownIsShown(t, i) /\ EditIsShown(t, i)
  <2>1. /\ tab[t].phase \in {"cleaning", "open"} /\ tab[t].queue[i] = <<>> /\ ~Creating(t, i)
        /\ i \notin tab[t].told /\ i \notin tab[t].hasty
    BY <1>1 DEF Quiet
  <2>2. Settled(t, i)
    BY <1>1, <2>1 DEF IInv, Views, Sound
  <2>3. tab[t].sync[i] \in Nat
    BY <1>1, StoreType DEF IInv
  <2>4. /\ Shown(t, i) => tab[t].sync[i] # 0
        /\ ~Shown(t, i) => ~(tab[t].sync[i] > 0)
        /\ Shown(t, i) /\ tab[t].last[i] > 0 => tab[t].view[i].content = tab[t].last[i]
        /\ Shown(t, i) /\ tab[t].sync[i] > 0 /\ tab[t].sync[i] = server[i].version =>
             tab[t].view[i].content = server[i].content
    BY <2>1, <2>2 DEF Settled
  <2>. QED
    BY <2>3, <2>4 DEF KnownIsShown, EditIsShown
<1>2. IInv => ViewIsStored
  BY <1>1 DEF ViewIsStored
<1>. QED
  BY <1>2, Inductive, PTL

=============================================================================
