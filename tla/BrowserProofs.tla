---------------------------- MODULE BrowserProofs ----------------------------
(* What runs in the browser keeps its promises, for any number of tabs,     *)
(* calls, pictures and faults: the project store (ProjectSync), the session *)
(* of the official service (OfficialSession) and the pictures on their way  *)
(* into a project (CanvasGeneration).                                       *)
(*                                                                          *)
(* The project store.  A tab, a draft or a request is at most as new as the *)
(* server, and if it is as new and not mixed it includes what the server    *)
(* has (Fits): a version is taken over only together with content that      *)
(* includes it.  When the server moves on, everything else has become older *)
(* (ServerGrows).  What a tab shows is in the draft, in the save under way, *)
(* or has been stored (Sound, Kept).  Only the tab that drew the project's  *)
(* id creates it (Creation).                                                *)
(*                                                                          *)
(* The session.  A tab that has sent a refresh token either still waits for *)
(* the answer or is not what localStorage holds any more (Spent).           *)
(*                                                                          *)
(* The pictures.  A tab nobody has touched runs no request and no timer, so *)
(* a record is removed only together with its monitor (OnlyMonitors); a     *)
(* picture is read only of a completed job (ReadIsCompleted).               *)
EXTENDS ProjectSync, OfficialSession, CanvasGeneration,
        SequenceTheorems, WellFoundedInduction, TLAPS

-----------------------------------------------------------------------------
(* The project store (ProjectSync).                                         *)

Fits(c, s) ==
  /\ c.base <= s.version
  /\ c.base > 0 /\ c.base = s.version /\ ~c.mixed => s.doc \subseteq c.doc

(* How the parts of a tab's record fit together. *)
Shape(r) ==
  /\ r.creating # "none" =>
       /\ r.pc = "open" /\ r.save \in {"idle", "waiting"}
       /\ r.fetch \in {"idle", "recreate"} /\ r.status # "conflict"
  /\ r.save # "idle" \/ r.fetch # "idle" => r.pc = "open"
  /\ r.save = "waiting" => r.creating \in {"sent", "clearing"}
  /\ r.pc # "closed" => (r.content.base = 0 <=> r.creating \in {"sent", "failed"})
  /\ r.fetch = "recreate" => r.creating = "failed"
  /\ r.fetch = "reload" => r.blocked /\ r.save = "idle" /\ r.status = "saving"
  /\ r.fetch = "clearing" => ~r.copy.mixed
  /\ r.status = "conflict" => r.blocked

(* How a tab's contents relate to the server's row s after c edits. *)
Sound(r, s, c) ==
  /\ Fits(r.content, s) /\ Fits(r.sent, s) /\ Fits(r.copy, s)
  /\ r.seq <= c + 1 /\ r.asof <= c + 1
  /\ r.copy.doc \subseteq s.ever
  /\ r.pc = "loading" => r.content.doc \subseteq s.ever
  /\ r.save = "sent" =>
       /\ r.sent.base > 0
       /\ r.content.mixed \/ r.sent.doc \subseteq r.content.doc
       /\ r.asof <= r.seq
       /\ r.seq = r.asof => r.content.doc \subseteq r.sent.doc \cup s.ever
  /\ r.creating = "sent" =>
       /\ r.sent.doc \subseteq r.content.doc
       /\ r.seq = 0 => r.content.doc \subseteq r.sent.doc

Good(r, s, c) == r \in Tab /\ Shape(r) /\ Sound(r, s, c)

Types ==
  /\ server \in Row /\ server.doc \subseteq server.ever
  /\ drafts \in [Browsers -> Content]
  /\ orphans \subseteq Request
  /\ born \in BOOLEAN /\ clock \in 0..MaxEdits /\ faults \in 0..MaxFaults
  /\ tab \in [Tabs -> Tab]

TabsGood == \A t \in Tabs : Good(tab[t], server, clock)

DraftsFit == \A b \in Browsers : Fits(drafts[b], server)

(* The tab that drew the project's id and has not seen its creation. *)
Creator(t) == tab[t].creating \in {"sent", "failed"}

Creation1 ==
  /\ ~born => /\ server.version = 0 /\ orphans = {}
              /\ \A t \in Tabs : tab[t].pc = "closed"
  /\ \A t, u \in Tabs : Creator(t) /\ Creator(u) => t = u

Creation2 ==
  \A t \in Tabs : Creator(t) =>
    /\ \A o \in orphans : o.kind = "create" => o.content.doc \subseteq tab[t].content.doc
    /\ server.version = 1 => server.doc \subseteq tab[t].content.doc

Alone(t) == \A u \in Tabs \ {t} : BrowserOf[u] # BrowserOf[t]

Kept ==
  \A t \in Tabs :
    Alone(t) /\ Open(t) /\ tab[t].fetch # "clearing"
      => tab[t].content.doc \subseteq server.ever \cup Draft(t).doc

IInv == Types /\ TabsGood /\ DraftsFit /\ Creation1 /\ Creation2 /\ Kept
-----------------------------------------------------------------------------
(* What the store's functions do to the record of a tab. *)

LEMMA SendingIsGood ==
  ASSUME NEW r, NEW s \in Row, NEW c \in 0..MaxEdits, Good(r, s, c),
         r.pc = "open", r.save = "idle", r.creating = "none", r.fetch # "reload"
  PROVE  Good(Sending(r), s, c) /\ Sending(r).content = r.content
<1> DEFINE q == [r EXCEPT !.save = "sent", !.asof = r.seq, !.sent = r.content]
<1>1. Sending(r) = q
  BY DEF Sending
<1>2. q \in Tab
  BY DEF Good, Tab
<1>3. /\ q.pc = r.pc /\ q.content = r.content /\ q.seq = r.seq /\ q.blocked = r.blocked
      /\ q.status = r.status /\ q.creating = r.creating /\ q.save = "sent"
      /\ q.fetch = r.fetch /\ q.sent = r.content /\ q.copy = r.copy /\ q.asof = r.seq
  BY DEF Good, Tab
<1> HIDE DEF q
<1>4. Shape(q)
  BY <1>3 DEF Good, Shape
<1>5. r.content.base \in Nat /\ r.content.base # 0 /\ r.seq \in Nat
  BY BoundsAssumption DEF Good, Shape, Tab, Content
<1>6. Sound(q, s, c)
  BY <1>3, <1>5 DEF Good, Sound
<1> QED BY <1>1, <1>2, <1>3, <1>4, <1>6 DEF Good

(* Whether it is sent, only noted or refused, a save keeps a good record.   *)
LEMMA PersistedIsGood ==
  ASSUME NEW r, NEW s \in Row, NEW c \in 0..MaxEdits, Good(r, s, c), r.pc = "open"
  PROVE  /\ Good(Persisted(r), s, c) /\ Persisted(r).content = r.content
         /\ Persisted(r).creating = r.creating /\ Persisted(r).fetch = r.fetch
         /\ Persisted(r).pc = r.pc
<1>1. CASE r.blocked
  BY <1>1 DEF Persisted
<1>2. CASE ~r.blocked /\ r.save # "idle"
  <2>1. Persisted(r) = [r EXCEPT !.retry = TRUE]
    BY <1>2 DEF Persisted
  <2> QED BY <2>1 DEF Good, Shape, Sound, Tab
<1>3. CASE ~r.blocked /\ r.save = "idle" /\ r.creating = "none"
  <2> DEFINE q == [r EXCEPT !.status = "saving"]
  <2>1. Good(q, s, c) /\ q.pc = "open" /\ q.save = "idle" /\ q.creating = "none"
        /\ q.fetch # "reload" /\ q.fetch = r.fetch /\ q.content = r.content
    BY <1>3 DEF Good, Shape, Sound, Tab
  <2>2. Persisted(r) = Sending(q)
    BY <1>3 DEF Persisted
  <2> HIDE DEF q
  <2>3. Sending(q).creating = q.creating /\ Sending(q).fetch = q.fetch /\ Sending(q).pc = q.pc
    BY <2>1 DEF Sending, Good, Tab
  <2> QED BY <2>1, <2>2, <2>3, <1>3, SendingIsGood
<1>4. CASE ~r.blocked /\ r.save = "idle" /\ r.creating = "failed"
  <2>1. Persisted(r) = [r EXCEPT !.status = "error"]
    BY <1>4 DEF Persisted
  <2> QED BY <2>1, <1>4 DEF Good, Shape, Sound, Tab
<1>5. CASE ~r.blocked /\ r.save = "idle" /\ r.creating \in {"sent", "clearing"}
  <2>1. Persisted(r) = [r EXCEPT !.status = "saving", !.save = "waiting"]
    BY <1>5 DEF Persisted
  <2> QED BY <2>1, <1>5 DEF Good, Shape, Sound, Tab
<1>6. r.creating \in {"none", "sent", "clearing", "failed"}
  BY DEF Good, Tab
<1> QED BY <1>1, <1>2, <1>3, <1>4, <1>5, <1>6

LEMMA SaveEndedIsGood ==
  ASSUME NEW r, NEW s \in Row, NEW c \in 0..MaxEdits, Good(r, s, c), r.pc = "open"
  PROVE  /\ Good(SaveEnded(r), s, c) /\ SaveEnded(r).content = r.content
         /\ SaveEnded(r).creating = r.creating /\ SaveEnded(r).fetch = r.fetch
         /\ SaveEnded(r).pc = r.pc
<1> DEFINE q == [r EXCEPT !.save = "idle"]
           p == [q EXCEPT !.retry = FALSE]
<1>1. /\ Good(q, s, c) /\ q.pc = "open" /\ q.content = r.content
      /\ q.creating = r.creating /\ q.fetch = r.fetch
  BY DEF Good, Shape, Sound, Tab
<1>2. SaveEnded(r) = IF q.retry /\ ~q.blocked THEN Persisted(p) ELSE q
  BY DEF SaveEnded
<1> HIDE DEF q
<1>3. /\ Good(p, s, c) /\ p.pc = "open" /\ p.content = r.content
      /\ p.creating = r.creating /\ p.fetch = r.fetch
  <2>1. /\ p \in Tab
        /\ p.pc = q.pc /\ p.content = q.content /\ p.creating = q.creating /\ p.fetch = q.fetch
        /\ p.save = q.save /\ p.status = q.status /\ p.blocked = q.blocked /\ p.seq = q.seq
        /\ p.sent = q.sent /\ p.copy = q.copy /\ p.asof = q.asof
    BY <1>1 DEF Good, Tab
  <2> HIDE DEF p
  <2>2. Shape(p) /\ Sound(p, s, c)
    BY <1>1, <2>1 DEF Good, Shape, Sound
  <2> QED
    BY <1>1, <2>1, <2>2 DEF Good
<1> HIDE DEF p
<1> QED BY <1>1, <1>2, <1>3, PersistedIsGood

LEMMA ScheduledIsGood ==
  ASSUME NEW r, NEW s \in Row, NEW c \in 0..MaxEdits, Good(r, s, c)
  PROVE  /\ Good(Scheduled(r), s, c) /\ Scheduled(r).content = r.content
         /\ Scheduled(r).creating = r.creating /\ Scheduled(r).fetch = r.fetch
         /\ Scheduled(r).pc = r.pc
<1>1. CASE r.blocked
  BY <1>1 DEF Scheduled
<1>2. CASE ~r.blocked
  <2>1. Scheduled(r) = [r EXCEPT !.status = "dirty", !.timer = TRUE]
    BY <1>2 DEF Scheduled
  <2> QED BY <2>1, <1>2 DEF Good, Shape, Sound, Tab
<1> QED BY <1>1, <1>2

LEMMA CreatedIsGood ==
  ASSUME NEW r, NEW s \in Row, NEW c \in 0..MaxEdits, Good(r, s, c), r.creating = "clearing"
  PROVE  /\ Good(Created(r), s, c) /\ Created(r).content = r.content
         /\ Created(r).creating = "none" /\ Created(r).fetch = r.fetch
         /\ Created(r).pc = r.pc
<1> DEFINE q == [r EXCEPT !.creating = "none", !.save = "idle"]
<1>1. Good(q, s, c) /\ q.pc = "open" /\ q.creating = "none" /\ q.save = "idle" /\ q.fetch = "idle"
      /\ r.fetch = "idle" /\ q.content = r.content /\ r.pc = "open"
  BY DEF Good, Shape, Sound, Tab
<1>2. CASE r.save = "waiting"
  <2>1. Created(r) = Sending(q)
    BY <1>2 DEF Created, Sending, Good, Tab
  <2> HIDE DEF q
  <2>2. Sending(q).creating = q.creating /\ Sending(q).fetch = q.fetch /\ Sending(q).pc = q.pc
    BY <1>1 DEF Sending, Good, Tab
  <2> QED BY <1>1, <2>1, <2>2, SendingIsGood
<1>3. CASE r.save = "idle"
  <2>1. Created(r) = q
    BY <1>3 DEF Created, Good, Tab
  <2> QED BY <2>1, <1>1
<1> QED BY <1>2, <1>3 DEF Good, Shape
-----------------------------------------------------------------------------
(* What a step does to everything else. *)

(* When the server moves on, what it had before is older than what it has.  *)
LEMMA ServerGrows ==
  ASSUME NEW s \in Row, NEW s2 \in Row, s2.version = s.version + 1, s.ever \subseteq s2.ever
  PROVE  /\ \A c \in Content : Fits(c, s) => Fits(c, s2)
         /\ \A r, c : Good(r, s, c) => Good(r, s2, c)
<1>1. \A c \in Content : Fits(c, s) => Fits(c, s2)
  BY DEF Fits, Content, Row
<1>2. ASSUME NEW r, NEW c, Good(r, s, c)
      PROVE  Good(r, s2, c)
  <2>1. r.content \in Content /\ r.sent \in Content /\ r.copy \in Content
    BY <1>2 DEF Good, Tab
  <2>2. Fits(r.content, s2) /\ Fits(r.sent, s2) /\ Fits(r.copy, s2)
    BY <1>1, <1>2, <2>1 DEF Good, Sound
  <2> QED BY <1>2, <2>2 DEF Good, Sound
<1> QED BY <1>1, <1>2

LEMMA ClockGrows ==
  ASSUME NEW r, NEW s, NEW c \in Nat, Good(r, s, c)
  PROVE  Good(r, s, c + 1)
<1>1. r.seq \in Nat /\ r.asof \in Nat
  BY BoundsAssumption DEF Good, Tab
<1> QED BY <1>1 DEF Good, Sound

Grows == /\ server' \in Row /\ server'.doc \subseteq server'.ever
         /\ \/ server' = server
            \/ server'.version = server.version + 1 /\ server.ever \subseteq server'.ever

LEMMA EverGrows ==
  ASSUME Grows
  PROVE  server.ever \subseteq server'.ever
BY DEF Grows

(* A step of tab t that leaves it in the good state r, keeps what it shows, *)
(* and writes nothing but its own draft.                                    *)
LEMMA TabSteps ==
  ASSUME IInv, NEW t \in Tabs, NEW r, Good(r, server', clock'),
         tab' = [tab EXCEPT ![t] = r],
         Grows, clock' \in {clock, clock + 1}, clock' \in 0..MaxEdits,
         faults' \in 0..MaxFaults, born' = TRUE, orphans' \subseteq Request,
         NEW d \in Content, Fits(d, server'),
         drafts' = drafts \/ drafts' = [drafts EXCEPT ![BrowserOf[t]] = d],
         r.creating \in {"sent", "failed"} => \A u \in Tabs \ {t} : ~Creator(u),
         Creation2',
         Alone(t) /\ r.pc = "open" /\ r.fetch # "clearing"
           => r.content.doc \subseteq server'.ever \cup drafts'[BrowserOf[t]].doc
  PROVE  IInv'
<1> USE DEF IInv
<1>1. BrowserOf[t] \in Browsers
  BY BrowserAssumption
<1>2. r \in Tab
  BY DEF Good
<1>3. tab'[t] = r /\ \A u \in Tabs \ {t} : tab'[u] = tab[u]
  BY DEF Types
<1>4. Types'
  <2>1. drafts' \in [Browsers -> Content]
    BY DEF Types
  <2>2. tab' \in [Tabs -> Tab]
    BY <1>2 DEF Types
  <2> QED BY <2>1, <2>2 DEF Types, Grows
<1>5. TabsGood'
  <2>1. ASSUME NEW u \in Tabs \ {t}
        PROVE  Good(tab[u], server', clock')
    <3>1. Good(tab[u], server, clock)
      BY DEF TabsGood
    <3>2. Good(tab[u], server', clock)
      BY <3>1, ServerGrows DEF Grows, Types
    <3>3. clock \in Nat
      BY BoundsAssumption DEF Types
    <3> QED BY <3>2, <3>3, ClockGrows
  <2> QED BY <1>3, <2>1 DEF TabsGood
<1>6. DraftsFit'
  <2>1. ASSUME NEW b \in Browsers
        PROVE  Fits(drafts[b], server')
    <3>1. Fits(drafts[b], server) /\ drafts[b] \in Content
      BY DEF DraftsFit, Types
    <3> QED BY <3>1, ServerGrows DEF Grows, Types
  <2> QED BY <2>1 DEF DraftsFit, Types
<1>7. Creation1'
  <2>1. ASSUME NEW u \in Tabs, NEW v \in Tabs, Creator(u)', Creator(v)'
        PROVE  u = v
    BY <1>3, <2>1 DEF Creator, Creation1
  <2> QED BY <2>1 DEF Creation1
<1>8. Kept'
  <2>1. ASSUME NEW u \in Tabs \ {t}, Alone(u), Open(u), tab[u].fetch # "clearing"
        PROVE  tab[u].content.doc \subseteq server'.ever \cup drafts'[BrowserOf[u]].doc
    <3>1. drafts'[BrowserOf[u]] = drafts[BrowserOf[u]]
      BY <2>1, BrowserAssumption DEF Alone, Types
    <3> QED BY <2>1, <3>1, EverGrows DEF Kept, Draft
  <2>2. ASSUME NEW u \in Tabs, Alone(u), Open(u)', tab'[u].fetch # "clearing"
        PROVE  tab'[u].content.doc \subseteq server'.ever \cup drafts'[BrowserOf[u]].doc
    <3>1. CASE u = t
      BY <1>3, <2>2, <3>1 DEF Open
    <3>2. CASE u # t
      BY <1>3, <2>1, <2>2, <3>2 DEF Open
    <3> QED BY <3>1, <3>2
  <2> QED BY <2>2 DEF Kept, Alone, Draft
<1> QED BY <1>4, <1>5, <1>6, <1>7, <1>8

(* A step that changes its tab and, at most, leaves a request behind.       *)
LEMMA Quiet ==
  ASSUME IInv, NEW t \in Tabs, NEW r, Good(r, server, clock),
         tab' = [tab EXCEPT ![t] = r],
         UNCHANGED <<server, drafts, clock>>, faults' \in 0..MaxFaults,
         born, born' = born, orphans' \subseteq Request,
         \A o \in orphans' \ orphans : o.kind = "create" =>
           Creator(t) /\ o.content.doc \subseteq tab[t].content.doc,
         r.creating \in {"sent", "failed"} =>
           Creator(t) /\ tab[t].content.doc \subseteq r.content.doc,
         r.pc = "open" /\ r.fetch # "clearing" =>
           \/ r.content.doc \subseteq server.ever \cup Draft(t).doc
           \/ Open(t) /\ tab[t].fetch # "clearing" /\ r.content.doc \subseteq tab[t].content.doc
  PROVE  IInv'
<1> USE DEF IInv
<1>1. tab'[t] = r /\ \A u \in Tabs \ {t} : tab'[u] = tab[u]
  BY DEF Types
<1>2. Grows
  BY DEF Grows, Types
<1>3. Creation2'
  <2>1. ASSUME NEW u \in Tabs, Creator(u)'
        PROVE  Creator(u) /\ tab[u].content.doc \subseteq tab'[u].content.doc
    BY <1>1, <2>1 DEF Creator
  <2>2. ASSUME NEW u \in Tabs, Creator(u)', NEW o \in orphans', o.kind = "create"
        PROVE  o.content.doc \subseteq tab'[u].content.doc
    <3>1. CASE o \in orphans
      BY <2>1, <2>2, <3>1 DEF Creation2
    <3>2. CASE o \notin orphans
      BY <2>1, <2>2, <3>2 DEF Creation1
    <3> QED BY <3>1, <3>2
  <2> QED BY <2>1, <2>2 DEF Creation2
<1>4. r.creating \in {"sent", "failed"} => \A u \in Tabs \ {t} : ~Creator(u)
  BY DEF Creation1
<1>5. BrowserOf[t] \in Browsers
  BY BrowserAssumption
<1>6. drafts[BrowserOf[t]] \in Content /\ Fits(drafts[BrowserOf[t]], server')
  BY <1>5 DEF Types, DraftsFit
<1>7. Alone(t) /\ r.pc = "open" /\ r.fetch # "clearing"
        => r.content.doc \subseteq server'.ever \cup drafts'[BrowserOf[t]].doc
  BY DEF Kept, Draft
<1>8. Good(r, server', clock') /\ clock' \in {clock, clock + 1} /\ clock' \in 0..MaxEdits
  BY DEF Types
<1> QED BY <1>2, <1>3, <1>4, <1>6, <1>7, <1>8, TabSteps
-----------------------------------------------------------------------------
(* The actions, one by one. *)

LEMMA Facts ==
  ASSUME IInv, NEW t \in Tabs
  PROVE  /\ Good(tab[t], server, clock) /\ tab[t] \in Tab
         /\ server \in Row /\ clock \in 0..MaxEdits
         /\ tab[t].pc # "closed" => born
         /\ BrowserOf[t] \in Browsers /\ Draft(t) \in Content /\ Fits(Draft(t), server)
BY BrowserAssumption DEF IInv, TabsGood, Types, Creation1, Good, Draft, DraftsFit

LEMMA NothingIsFit ==
  ASSUME NEW s \in Row
  PROVE  NoDraft \in Content /\ Fits(NoDraft, s)
BY DEF NoDraft, Content, Fits, Row, Edit

LEMMA ClosedIsGood ==
  ASSUME NEW s \in Row, NEW c \in 0..MaxEdits
  PROVE  Good(Closed, s, c)
<1>1. Closed \in Tab
  BY NothingIsFit, BoundsAssumption DEF Closed, Tab
<1>2. Fits(NoDraft, s) /\ NoDraft.doc = {}
  BY NothingIsFit DEF NoDraft
<1>3. Shape(Closed)
  BY DEF Shape, Closed
<1>4. Sound(Closed, s, c)
  BY <1>2 DEF Sound, Closed
<1> QED BY <1>1, <1>3, <1>4 DEF Good

(* Whatever a tab shows goes on being kept when a step changes neither its  *)
(* content nor where it is kept.                                            *)
LEMMA SameContent ==
  ASSUME IInv, NEW t \in Tabs, Open(t), NEW r, Good(r, server, clock),
         tab' = [tab EXCEPT ![t] = r],
         r.content.doc = tab[t].content.doc,
         r.creating \in {"sent", "failed"} => Creator(t),
         r.fetch # "clearing" => tab[t].fetch # "clearing",
         UNCHANGED <<server, drafts, born, clock>>, faults' \in 0..MaxFaults,
         orphans' \subseteq Request,
         \A o \in orphans' \ orphans : o.kind = "create" =>
           Creator(t) /\ o.content.doc \subseteq tab[t].content.doc
  PROVE  IInv'
BY Quiet, Facts DEF Open

LEMMA FaultType ==
  ASSUME IInv, Fault \/ faults' = faults
  PROVE  faults' \in 0..MaxFaults
BY BoundsAssumption DEF IInv, Types, Fault

LEMMA LoadKeeps ==
  ASSUME IInv, NEW t \in Tabs, Load(t)
  PROVE  IInv'
<1> DEFINE r == [Closed EXCEPT !.pc = "loading", !.content = Loaded(server)]
<1>1. server \in Row /\ clock \in 0..MaxEdits /\ server.version > 0
      /\ server.doc \subseteq server.ever
  BY Facts DEF Load, IInv, Types
<1>2. Loaded(server) \in Content /\ Loaded(server).base = server.version
      /\ Loaded(server).doc = server.doc
  BY <1>1 DEF Loaded, Content, Row
<1>3. /\ Closed \in Tab /\ Good(Closed, server, clock)
  BY <1>1, ClosedIsGood DEF Good
<1>4. r \in Tab
  BY <1>2, <1>3 DEF Tab
<1>5. /\ r.pc = "loading" /\ r.content = Loaded(server) /\ r.creating = "none"
      /\ r.save = "idle" /\ r.fetch = "idle" /\ r.status = "saved"
      /\ r.sent = Closed.sent /\ r.copy = Closed.copy /\ r.seq = Closed.seq /\ r.asof = Closed.asof
  BY DEF Closed
<1>6. tab' = [tab EXCEPT ![t] = r] /\ UNCHANGED <<server, drafts, orphans, born, clock, faults>>
  BY DEF Load, Becomes
<1>7. born
  BY <1>1 DEF IInv, Types, Creation1
<1> HIDE DEF r
<1>8. Shape(r)
  BY <1>1, <1>2, <1>5 DEF Shape, Row
<1>9. Fits(Loaded(server), server)
  BY <1>1, <1>2 DEF Fits, Row
<1>10. Sound(r, server, clock)
  BY <1>1, <1>2, <1>3, <1>5, <1>9 DEF Sound, Good
<1> QED BY <1>4, <1>5, <1>6, <1>7, <1>8, <1>10, Quiet, FaultType DEF Good, IInv, Types

LEMMA HydrateKeeps ==
  ASSUME IInv, NEW t \in Tabs, Hydrate(t)
  PROVE  IInv'
<1> DEFINE o == tab[t]
           d == Draft(t)
           r == Hydrated(o, d)
           q == [o EXCEPT !.pc = "open", !.seq = 1, !.content = [d EXCEPT !.base = o.content.base]]
<1>1. /\ Good(o, server, clock) /\ o \in Tab /\ o.pc = "loading" /\ born
      /\ server \in Row /\ clock \in 0..MaxEdits /\ clock \in Nat
      /\ d \in Content /\ Fits(d, server)
  BY Facts, BoundsAssumption DEF Hydrate
<1>2. /\ o.creating = "none" /\ o.save = "idle" /\ o.fetch = "idle"
      /\ o.content \in Content /\ o.content.base > 0 /\ o.content.base \in Nat
      /\ o.content.doc \subseteq server.ever
  <2>1. o.creating = "none" /\ o.save = "idle" /\ o.fetch = "idle"
    BY <1>1 DEF Good, Shape
  <2>2. o.content \in Content /\ o.content.base \in Nat
    BY <1>1 DEF Tab, Content
  <2> QED BY <1>1, <2>1, <2>2 DEF Good, Shape, Sound
<1>3. UNCHANGED <<server, drafts, orphans, born, clock, faults>> /\ tab' = [tab EXCEPT ![t] = r]
  BY DEF Hydrate, Becomes
<1>4. CASE d = NoDraft
  <2>1. r = [o EXCEPT !.pc = "open"]
    BY <1>4 DEF Hydrated
  <2>2. Good(r, server, clock) /\ r.content = o.content /\ r.creating = "none"
    BY <2>1, <1>1, <1>2 DEF Good, Shape, Sound, Tab
  <2> QED BY <2>2, <1>1, <1>2, <1>3, Quiet, FaultType DEF IInv, Types
<1>5. /\ q \in Tab /\ q.pc = "open" /\ q.creating = "none" /\ q.save = "idle" /\ q.fetch = "idle"
      /\ q.seq = 1 /\ q.content = [d EXCEPT !.base = o.content.base]
      /\ q.sent = o.sent /\ q.copy = o.copy /\ q.asof = o.asof
      /\ q.status = o.status /\ q.blocked = o.blocked
  <2>1. [d EXCEPT !.base = o.content.base] \in Content
    BY <1>1, <1>2 DEF Content
  <2>2. 1 \in 0..(MaxEdits + 1)
    BY BoundsAssumption
  <2>3. q \in Tab
    BY <1>1, <2>1, <2>2 DEF Tab
  <2> QED BY <1>1, <1>2, <2>3 DEF Tab
<1>6. q.content.doc = d.doc /\ q.content.base = o.content.base /\ q.content.mixed = d.mixed
  BY <1>5, <1>1 DEF Content
<1>7. CASE d # NoDraft /\ d.base = o.content.base
  <2>1. r = Scheduled(q)
    BY <1>7 DEF Hydrated, Resumed
  <2> HIDE DEF q
  <2>2. Fits(q.content, server)
    BY <1>1, <1>6, <1>7 DEF Fits
  <2>3. Shape(q)
    BY <1>1, <1>2, <1>5, <1>6 DEF Good, Shape
  <2>4. Sound(q, server, clock)
    BY <1>1, <1>5, <2>2 DEF Good, Sound
  <2>5. Good(q, server, clock)
    BY <1>5, <2>3, <2>4 DEF Good
  <2>6. Good(r, server, clock) /\ r.content = q.content /\ r.creating = "none"
    BY <1>1, <1>5, <2>1, <2>5, ScheduledIsGood
  <2> HIDE DEF r
  <2> QED BY <1>1, <1>3, <1>6, <2>6, Quiet, FaultType DEF IInv, Types
<1>8. CASE d # NoDraft /\ d.base # o.content.base
  <2>1. r = [q EXCEPT !.blocked = TRUE, !.status = "conflict", !.content.mixed = TRUE]
    BY <1>8 DEF Hydrated, Resumed
  <2> HIDE DEF q
  <2>2. /\ r.pc = "open" /\ r.creating = "none" /\ r.save = "idle" /\ r.fetch = "idle"
        /\ r.blocked /\ r.seq = 1 /\ r.sent = o.sent /\ r.copy = o.copy /\ r.asof = o.asof
        /\ r.content = [q.content EXCEPT !.mixed = TRUE]
    BY <2>1, <1>5 DEF Tab
  <2>3. q.content \in Content
    BY <1>5 DEF Tab
  <2>4. r.content.doc = d.doc /\ r.content.base = o.content.base /\ r.content.mixed
        /\ r.content \in Content
    BY <2>2, <2>3, <1>6 DEF Content
  <2>5. r \in Tab
    <3> DEFINE c == r.content
    <3>1. r = [q EXCEPT !.blocked = TRUE, !.status = "conflict", !.content = c]
      BY <2>1, <2>2, <1>5 DEF Tab
    <3> HIDE DEF c, r
    <3>2. c \in Content
      BY <2>4 DEF c
    <3> QED BY <3>1, <3>2, <1>5 DEF Tab
  <2> HIDE DEF r
  <2>6. Fits(r.content, server)
    BY <1>1, <2>4 DEF Fits, Good, Sound
  <2>7. Shape(r)
    BY <1>2, <2>2, <2>4 DEF Shape
  <2>8. Sound(r, server, clock)
    <3>1. Sound(o, server, clock) /\ r.seq <= clock + 1
      BY <1>1, <2>2 DEF Good
    <3> QED BY <2>2, <2>6, <3>1 DEF Sound
  <2> QED BY <1>1, <1>3, <2>2, <2>4, <2>5, <2>7, <2>8, Quiet, FaultType DEF Good, IInv, Types
<1> QED BY <1>4, <1>7, <1>8

LEMMA CreateProjectKeeps ==
  ASSUME IInv, NEW t \in Tabs, CreateProject(t)
  PROVE  IInv'
<1> DEFINE c == [NoDraft EXCEPT !.mixed = FALSE]
           p == [Closed EXCEPT !.pc = "open", !.status = "saving", !.content = c]
           r == [p EXCEPT !.creating = "sent", !.sent = c]
<1>1. /\ server \in Row /\ clock \in 0..MaxEdits /\ ~born /\ born'
      /\ UNCHANGED <<server, drafts, orphans, clock, faults>>
      /\ server.version = 0 /\ orphans = {} /\ \A u \in Tabs : tab[u].pc = "closed"
  BY Facts DEF CreateProject, IInv, Creation1
<1>2. c \in Content /\ c.base = 0 /\ c.doc = {} /\ Fits(c, server)
  <2>1. NoDraft \in Content /\ NoDraft.base = 0 /\ NoDraft.doc = {}
    BY <1>1, NothingIsFit DEF NoDraft
  <2>2. c \in Content /\ c.base = 0 /\ c.doc = {}
    BY <2>1 DEF Content
  <2>3. Fits(c, server)
    BY <1>1, <2>2 DEF Fits, Row
  <2> QED BY <2>1, <2>2, <2>3
<1>3. Closed \in Tab /\ Good(Closed, server, clock)
  BY <1>1, ClosedIsGood DEF Good
<1>4. p \in Tab /\ p.content = c
  BY <1>2, <1>3 DEF Tab
<1>5. tab' = [tab EXCEPT ![t] = r]
  <2>1. [Closed EXCEPT !.pc = "open", !.status = "saving", !.content.mixed = FALSE] = p
    BY DEF Closed
  <2> HIDE DEF p, c
  <2>2. Creating(p) = r
    BY <1>4 DEF Creating
  <2> QED BY <2>1, <2>2 DEF CreateProject, Becomes
<1>6. /\ r \in Tab /\ r.pc = "open" /\ r.content = c /\ r.creating = "sent" /\ r.sent = c
      /\ r.save = "idle" /\ r.fetch = "idle" /\ r.status = "saving"
      /\ r.copy = Closed.copy /\ r.seq = Closed.seq /\ r.asof = Closed.asof
  <2>1. r \in Tab
    BY <1>2, <1>4 DEF Tab
  <2>2. p.pc = "open" /\ p.save = "idle" /\ p.fetch = "idle" /\ p.status = "saving"
        /\ p.copy = Closed.copy /\ p.seq = Closed.seq /\ p.asof = Closed.asof
    BY <1>3 DEF Tab, Closed
  <2> HIDE DEF p, c
  <2> QED BY <1>4, <2>1, <2>2 DEF Tab
<1> HIDE DEF c, p, r
<1>7. Shape(r)
  BY <1>2, <1>6 DEF Shape
<1>8. Sound(r, server, clock)
  BY <1>2, <1>3, <1>6 DEF Sound, Good
<1>9. \A u \in Tabs : ~Creator(u)
  <2>1. ASSUME NEW u \in Tabs
        PROVE  tab[u].creating = "none"
    <3>1. Good(tab[u], server, clock)
      BY DEF IInv, TabsGood
    <3> QED BY <1>1, <3>1 DEF Good, Shape, Tab
  <2> QED BY <2>1 DEF Creator
<1>10. tab'[t] = r /\ \A u \in Tabs \ {t} : tab'[u] = tab[u]
  BY <1>5 DEF IInv, Types
<1>11. Creation2'
  BY <1>1, <1>9, <1>10 DEF Creation2, Creator
<1>12. Grows
  BY <1>1 DEF Grows, IInv, Types
<1>13. Good(r, server', clock') /\ clock' \in {clock, clock + 1} /\ clock' \in 0..MaxEdits
       /\ faults' \in 0..MaxFaults /\ orphans' \subseteq Request /\ Fits(c, server')
  BY <1>1, <1>2, <1>6, <1>7, <1>8 DEF Good, IInv, Types
<1>14. r.content.doc \subseteq server'.ever \cup drafts'[BrowserOf[t]].doc
  BY <1>2, <1>6
<1> QED BY <1>1, <1>2, <1>5, <1>9, <1>11, <1>12, <1>13, <1>14, TabSteps

LEMMA CloseKeeps ==
  ASSUME IInv, NEW t \in Tabs, Close(t)
  PROVE  IInv'
<1> DEFINE o == tab[t]
<1>1. /\ Good(o, server, clock) /\ o \in Tab /\ born /\ o.pc = "open"
      /\ server \in Row /\ clock \in 0..MaxEdits
      /\ UNCHANGED <<server, drafts, born, clock>> /\ tab' = [tab EXCEPT ![t] = Closed]
      /\ orphans' = orphans \cup Abandoned(o)
  BY Facts DEF Close, Open, Becomes
<1>2. Abandoned(o) \subseteq Request
  BY <1>1 DEF Abandoned, Request, Tab
<1>3. \A a \in Abandoned(o) : a.kind = "create" =>
        Creator(t) /\ a.content.doc \subseteq tab[t].content.doc
  BY <1>1 DEF Abandoned, Creator, Good, Sound
<1>4. Closed.pc = "closed" /\ Closed.creating = "none"
  BY DEF Closed
<1>5. orphans' \subseteq Request
  BY <1>1, <1>2 DEF IInv, Types
<1>6. faults' \in 0..MaxFaults
  BY FaultType DEF Close
<1> HIDE DEF o
<1>7. Good(Closed, server, clock)
  BY <1>1, ClosedIsGood
<1> QED BY <1>1, <1>3, <1>4, <1>5, <1>6, <1>7, Quiet

(* An edit only adds to what the tab shows, and is in the draft at once.    *)
LEMMA TouchedKeeps ==
  ASSUME IInv, NEW t \in Tabs, NEW c, Touched(t, c),
         c \in Content, tab[t].content.doc \subseteq c.doc,
         c.base = tab[t].content.base, c.mixed = tab[t].content.mixed
  PROVE  IInv'
<1> DEFINE o == tab[t]
           q == [o EXCEPT !.content = c, !.seq = o.seq + 1]
           r == Scheduled(q)
<1>1. /\ Good(o, server, clock) /\ o \in Tab /\ born /\ o.pc = "open"
      /\ server \in Row /\ clock \in 0..MaxEdits /\ clock \in Nat /\ clock < MaxEdits
      /\ UNCHANGED <<server, orphans, born, faults>> /\ tab' = [tab EXCEPT ![t] = r]
      /\ clock' = clock + 1 /\ drafts' = [drafts EXCEPT ![BrowserOf[t]] = c]
      /\ BrowserOf[t] \in Browsers
  BY Facts, BoundsAssumption DEF Touched, Open, Becomes, WithDraft
<1>2. Good(o, server, clock + 1) /\ clock + 1 \in 0..MaxEdits /\ o.seq + 1 <= clock + 2
      /\ o.seq \in Nat /\ o.asof \in Nat /\ o.seq + 1 \in 0..(MaxEdits + 1)
  BY <1>1, ClockGrows, BoundsAssumption DEF Good, Sound, Tab
<1>3. /\ q \in Tab /\ q.pc = "open" /\ q.content = c /\ q.seq = o.seq + 1
      /\ q.creating = o.creating /\ q.save = o.save /\ q.fetch = o.fetch /\ q.status = o.status
      /\ q.blocked = o.blocked /\ q.sent = o.sent /\ q.copy = o.copy /\ q.asof = o.asof
  BY <1>1, <1>2 DEF Tab
<1> HIDE DEF q, o
<1>4. Fits(c, server)
  <2>1. Fits(o.content, server)
    BY <1>1 DEF Good, Sound
  <2> QED BY <2>1 DEF Fits, o
<1>5. Shape(q)
  BY <1>1, <1>3 DEF Good, Shape, o
<1>6. Sound(q, server, clock + 1)
  <2>1. Sound(o, server, clock + 1)
    BY <1>2 DEF Good
  <2>2. q.save = "sent" => q.seq # q.asof /\ q.asof <= q.seq
    BY <1>2, <1>3, <2>1 DEF Sound
  <2>3. q.seq # 0 /\ q.seq <= clock + 1 + 1
    BY <1>1, <1>2, <1>3
  <2> QED BY <1>3, <1>4, <2>1, <2>2, <2>3 DEF Sound, o
<1>7. Good(q, server, clock + 1)
  BY <1>3, <1>5, <1>6 DEF Good
<1>8. Good(r, server, clock + 1) /\ r.content = c /\ r.creating = o.creating
      /\ r.fetch = o.fetch /\ r.pc = "open"
  BY <1>1, <1>2, <1>3, <1>7, ScheduledIsGood
<1> HIDE DEF r
<1>9. tab'[t] = r /\ \A u \in Tabs \ {t} : tab'[u] = tab[u]
  BY <1>1 DEF IInv, Types
<1>10. Creation2'
  <2>1. ASSUME NEW u \in Tabs, Creator(u)'
        PROVE  Creator(u) /\ tab[u].content.doc \subseteq tab'[u].content.doc
    BY <1>8, <1>9, <2>1 DEF Creator, o
  <2> QED BY <1>1, <2>1 DEF IInv, Creation2
<1>11. r.creating \in {"sent", "failed"} => \A u \in Tabs \ {t} : ~Creator(u)
  BY <1>8 DEF IInv, Creation1, Creator, o
<1>12. Grows
  BY <1>1 DEF Grows, IInv, Types
<1>13. Good(r, server', clock') /\ clock' \in {clock, clock + 1} /\ clock' \in 0..MaxEdits
       /\ faults' \in 0..MaxFaults /\ orphans' \subseteq Request /\ Fits(c, server') /\ born' = TRUE
  BY <1>1, <1>2, <1>4, <1>8 DEF IInv, Types
<1>14. r.content.doc \subseteq server'.ever \cup drafts'[BrowserOf[t]].doc
  BY <1>1, <1>8 DEF IInv, Types
<1> QED BY <1>1, <1>10, <1>11, <1>12, <1>13, <1>14, TabSteps

LEMMA EditsKeep ==
  ASSUME IInv, NEW t \in Tabs, UpdateProject(t) \/ RenameProject(t)
  PROVE  IInv'
<1>1. tab[t].content \in Content /\ clock + 1 \in Edit
  <2>1. clock \in 0..MaxEdits /\ clock < MaxEdits /\ tab[t] \in Tab
    BY Facts DEF UpdateProject, RenameProject, Touched
  <2> QED BY <2>1, BoundsAssumption DEF Tab, Edit
<1>2. CASE UpdateProject(t)
  BY <1>1, <1>2, TouchedKeeps DEF UpdateProject, Content
<1>3. CASE RenameProject(t)
  BY <1>1, <1>3, TouchedKeeps DEF RenameProject, Content
<1> QED BY <1>2, <1>3

LEMMA UntimedIsGood ==
  ASSUME NEW r, NEW s, NEW c, Good(r, s, c), NEW b \in {r.blocked, FALSE},
         b = r.blocked \/ r.status = "error"
  PROVE  LET q == [r EXCEPT !.blocked = b, !.timer = FALSE]
         IN  /\ Good(q, s, c) /\ q.pc = r.pc /\ q.content = r.content
             /\ q.creating = r.creating /\ q.fetch = r.fetch /\ q.save = r.save
<1> DEFINE q == [r EXCEPT !.blocked = b, !.timer = FALSE]
<1>1. /\ q \in Tab /\ q.pc = r.pc /\ q.content = r.content /\ q.seq = r.seq
      /\ q.creating = r.creating /\ q.save = r.save /\ q.fetch = r.fetch
      /\ q.status = r.status /\ q.sent = r.sent /\ q.copy = r.copy /\ q.asof = r.asof
      /\ q.blocked = b
  BY DEF Good, Tab
<1> HIDE DEF q
<1>2. Shape(q)
  BY <1>1 DEF Good, Shape
<1>3. Sound(q, s, c)
  BY <1>1 DEF Good, Sound
<1>4. Good(q, s, c)
  BY <1>1, <1>2, <1>3 DEF Good
<1> USE DEF q
<1> QED BY <1>1, <1>4

LEMMA TimerFiresKeeps ==
  ASSUME IInv, NEW t \in Tabs, TimerFires(t)
  PROVE  IInv'
<1> DEFINE q == [tab[t] EXCEPT !.timer = FALSE]
           r == Persisted(q)
<1>1. /\ Good(tab[t], server, clock) /\ tab[t] \in Tab /\ Open(t) /\ tab[t].pc = "open"
      /\ server \in Row /\ clock \in 0..MaxEdits
      /\ UNCHANGED <<server, drafts, orphans, born, clock, faults>>
  BY Facts DEF TimerFires, Open
<1>2. tab' = [tab EXCEPT ![t] = r]
  BY DEF TimerFires, Becomes
<1>3. q = [tab[t] EXCEPT !.blocked = tab[t].blocked, !.timer = FALSE]
  BY <1>1 DEF Tab
<1> HIDE DEF q
<1>4. Good(q, server, clock) /\ q.pc = "open" /\ q.content = tab[t].content
      /\ q.creating = tab[t].creating /\ q.fetch = tab[t].fetch
  BY <1>1, <1>3, UntimedIsGood
<1>5. Good(r, server, clock) /\ r.content = q.content /\ r.creating = q.creating /\ r.fetch = q.fetch
  BY <1>1, <1>4, PersistedIsGood
<1> QED BY <1>1, <1>2, <1>4, <1>5, SameContent, FaultType DEF Creator, IInv, Types

LEMMA SaveNowKeeps ==
  ASSUME IInv, NEW t \in Tabs, SaveNow(t)
  PROVE  IInv'
<1> DEFINE q == [tab[t] EXCEPT !.timer = FALSE]
           r == IF q.save # "idle" THEN q ELSE Persisted(q)
<1>1. /\ Good(tab[t], server, clock) /\ tab[t] \in Tab /\ Open(t) /\ tab[t].pc = "open"
      /\ server \in Row /\ clock \in 0..MaxEdits
      /\ UNCHANGED <<server, drafts, orphans, born, clock, faults>>
  BY Facts DEF SaveNow, Open
<1>2. tab' = [tab EXCEPT ![t] = r]
  BY DEF SaveNow, Becomes
<1>3. q = [tab[t] EXCEPT !.blocked = tab[t].blocked, !.timer = FALSE]
  BY <1>1 DEF Tab
<1> HIDE DEF q
<1>4. Good(q, server, clock) /\ q.pc = "open" /\ q.content = tab[t].content
      /\ q.creating = tab[t].creating /\ q.fetch = tab[t].fetch
  BY <1>1, <1>3, UntimedIsGood
<1>5. Good(r, server, clock) /\ r.content = q.content /\ r.creating = q.creating /\ r.fetch = q.fetch
  BY <1>1, <1>4, PersistedIsGood
<1> QED BY <1>1, <1>2, <1>4, <1>5, SameContent, FaultType DEF Creator, IInv, Types

LEMMA RetrySaveKeeps ==
  ASSUME IInv, NEW t \in Tabs, RetrySave(t)
  PROVE  IInv'
<1> DEFINE q == [tab[t] EXCEPT !.blocked = FALSE, !.timer = FALSE]
           r == Persisted(q)
<1>1. /\ Good(tab[t], server, clock) /\ tab[t] \in Tab /\ Open(t) /\ tab[t].pc = "open"
      /\ server \in Row /\ clock \in 0..MaxEdits /\ tab[t].status = "error"
      /\ UNCHANGED <<server, drafts, orphans, born, clock, faults>>
  BY Facts DEF RetrySave, Open
<1>2. tab' = [tab EXCEPT ![t] = r]
  BY DEF RetrySave, Becomes
<1>3. q = [tab[t] EXCEPT !.blocked = FALSE, !.timer = FALSE]
  BY <1>1 DEF Tab
<1> HIDE DEF q
<1>4. Good(q, server, clock) /\ q.pc = "open" /\ q.content = tab[t].content
      /\ q.creating = tab[t].creating /\ q.fetch = tab[t].fetch
  BY <1>1, <1>3, UntimedIsGood
<1>5. Good(r, server, clock) /\ r.content = q.content /\ r.creating = q.creating /\ r.fetch = q.fetch
  BY <1>1, <1>4, PersistedIsGood
<1> QED BY <1>1, <1>2, <1>4, <1>5, SameContent, FaultType DEF Creator, IInv, Types


LEMMA DraftClearedKeeps ==
  ASSUME IInv, NEW t \in Tabs, DraftCleared(t)
  PROVE  IInv'
<1> DEFINE o == tab[t]
           q == [o EXCEPT !.status = "saved"]
           r == SaveEnded(q)
<1>1. /\ Good(o, server, clock) /\ o \in Tab /\ Open(t) /\ o.pc = "open" /\ born
      /\ server \in Row /\ clock \in 0..MaxEdits /\ o.save \in {"sent", "clearing"}
      /\ UNCHANGED <<server, drafts, born, clock>>
  BY Facts DEF DraftCleared, Open
<1>2. tab' = [tab EXCEPT ![t] = r]
  BY DEF DraftCleared, Becomes
<1>3. o.creating = "none" /\ o.fetch # "reload"
  BY <1>1 DEF Good, Shape
<1>4. /\ q \in Tab /\ q.status = "saved" /\ q.blocked = o.blocked
      /\ q.pc = o.pc /\ q.content = o.content /\ q.seq = o.seq /\ q.creating = o.creating
      /\ q.save = o.save /\ q.fetch = o.fetch /\ q.sent = o.sent /\ q.copy = o.copy
      /\ q.asof = o.asof
  BY <1>1 DEF Tab
<1> HIDE DEF q
<1>5. Shape(q)
  BY <1>1, <1>3, <1>4 DEF Good, Shape
<1>6. Sound(q, server, clock)
  BY <1>1, <1>4 DEF Good, Sound
<1>7. Good(r, server, clock) /\ r.content = q.content /\ r.creating = q.creating /\ r.fetch = q.fetch
  BY <1>1, <1>4, <1>5, <1>6, SaveEndedIsGood DEF Good
<1>8. /\ orphans' \subseteq Request /\ faults' \in 0..MaxFaults
      /\ \A a \in orphans' \ orphans : a.kind # "create"
  BY <1>1, FaultType DEF DraftCleared, IInv, Types
<1> HIDE DEF r
<1> QED BY <1>1, <1>2, <1>3, <1>4, <1>7, <1>8, SameContent

LEMMA SaveRefusedKeeps ==
  ASSUME IInv, NEW t \in Tabs, SaveRefused(t)
  PROVE  IInv'
<1> DEFINE o == tab[t]
           q == [o EXCEPT !.blocked = TRUE, !.status = "conflict"]
           r == SaveEnded(q)
<1>1. /\ Good(o, server, clock) /\ o \in Tab /\ Open(t) /\ o.pc = "open" /\ born
      /\ server \in Row /\ clock \in 0..MaxEdits /\ o.save \in {"sent", "clearing"}
      /\ UNCHANGED <<server, drafts, born, clock>>
  BY Facts DEF SaveRefused, Open
<1>2. tab' = [tab EXCEPT ![t] = r]
  BY DEF SaveRefused, Becomes
<1>3. o.creating = "none" /\ o.fetch # "reload"
  BY <1>1 DEF Good, Shape
<1>4. /\ q \in Tab /\ q.status = "conflict" /\ q.blocked
      /\ q.pc = o.pc /\ q.content = o.content /\ q.seq = o.seq /\ q.creating = o.creating
      /\ q.save = o.save /\ q.fetch = o.fetch /\ q.sent = o.sent /\ q.copy = o.copy
      /\ q.asof = o.asof
  BY <1>1 DEF Tab
<1> HIDE DEF q
<1>5. Shape(q)
  BY <1>1, <1>3, <1>4 DEF Good, Shape
<1>6. Sound(q, server, clock)
  BY <1>1, <1>4 DEF Good, Sound
<1>7. Good(r, server, clock) /\ r.content = q.content /\ r.creating = q.creating /\ r.fetch = q.fetch
  BY <1>1, <1>4, <1>5, <1>6, SaveEndedIsGood DEF Good
<1>8. /\ orphans' \subseteq Request /\ faults' \in 0..MaxFaults
      /\ \A a \in orphans' \ orphans : a.kind # "create"
  BY <1>1, FaultType DEF SaveRefused, IInv, Types
<1> HIDE DEF r
<1> QED BY <1>1, <1>2, <1>3, <1>4, <1>7, <1>8, SameContent

LEMMA SaveFailsKeeps ==
  ASSUME IInv, NEW t \in Tabs, SaveFails(t)
  PROVE  IInv'
<1> DEFINE o == tab[t]
           q == [o EXCEPT !.status = "error"]
           r == SaveEnded(q)
<1>1. /\ Good(o, server, clock) /\ o \in Tab /\ Open(t) /\ o.pc = "open" /\ born
      /\ server \in Row /\ clock \in 0..MaxEdits /\ o.save \in {"sent", "clearing"}
      /\ UNCHANGED <<server, drafts, born, clock>>
  BY Facts DEF SaveFails, Open
<1>2. tab' = [tab EXCEPT ![t] = r]
  BY DEF SaveFails, Becomes
<1>3. o.creating = "none" /\ o.fetch # "reload"
  BY <1>1 DEF Good, Shape
<1>4. /\ q \in Tab /\ q.status = "error" /\ q.blocked = o.blocked
      /\ q.pc = o.pc /\ q.content = o.content /\ q.seq = o.seq /\ q.creating = o.creating
      /\ q.save = o.save /\ q.fetch = o.fetch /\ q.sent = o.sent /\ q.copy = o.copy
      /\ q.asof = o.asof
  BY <1>1 DEF Tab
<1> HIDE DEF q
<1>5. Shape(q)
  BY <1>1, <1>3, <1>4 DEF Good, Shape
<1>6. Sound(q, server, clock)
  BY <1>1, <1>4 DEF Good, Sound
<1>7. Good(r, server, clock) /\ r.content = q.content /\ r.creating = q.creating /\ r.fetch = q.fetch
  BY <1>1, <1>4, <1>5, <1>6, SaveEndedIsGood DEF Good
<1>8. /\ orphans' \subseteq Request /\ faults' \in 0..MaxFaults
      /\ \A a \in orphans' \ orphans : a.kind # "create"
  BY <1>1, FaultType DEF SaveFails, IInv, Types, Update, Request, Tab
<1> HIDE DEF r
<1> QED BY <1>1, <1>2, <1>3, <1>4, <1>7, <1>8, SameContent

(* The answer brings a new version: the tab takes it over with content that *)
(* includes what was stored, or that was mixed before.                      *)
LEMMA SaveAnsweredKeeps ==
  ASSUME IInv, NEW t \in Tabs, SaveAnswered(t)
  PROVE  IInv'
<1> DEFINE o == tab[t]
           c == [o.content EXCEPT !.base = server.version + 1, !.title = o.sent.title]
           p == [o EXCEPT !.content = c]
           e == [p EXCEPT !.retry = TRUE, !.status = "dirty"]
           r == IF SaveSettles(t) THEN [p EXCEPT !.save = "clearing"] ELSE SaveEnded(e)
           d == NoDraft
<1>1. /\ Good(o, server, clock) /\ o \in Tab /\ Open(t) /\ o.pc = "open" /\ born
      /\ server \in Row /\ clock \in 0..MaxEdits /\ o.save = "sent"
      /\ server' = Stored(o.sent) /\ UNCHANGED <<orphans, born, clock, faults>>
      /\ server.version > 0
  BY Facts DEF SaveAnswered, Open, Applies, Update
<1>2. /\ o.creating = "none" /\ o.fetch # "reload" /\ o.content \in Content /\ o.sent \in Content
      /\ o.copy \in Content /\ o.content.base > 0 /\ o.content.base \in Nat
  BY <1>1 DEF Good, Shape, Tab, Content
<1>3. /\ server' \in Row /\ server'.version = server.version + 1 /\ server'.doc = o.sent.doc
      /\ server'.ever = server.ever \cup o.sent.doc
  BY <1>1, <1>2 DEF Stored, Row, Content
<1>4. Grows
  BY <1>3 DEF Grows
<1>5. c \in Content /\ c.base = server.version + 1 /\ c.doc = o.content.doc /\ c.mixed = o.content.mixed
  <2>1. server.version + 1 \in Nat /\ o.sent.title \in Edit \cup {0}
    BY <1>1, <1>2 DEF Row, Content
  <2> DEFINE x == o.content
             v == server.version + 1
             n == o.sent.title
  <2>2. x \in Content /\ v \in Nat /\ n \in Edit \cup {0} /\ c = [x EXCEPT !.base = v, !.title = n]
    BY <1>2, <2>1
  <2> HIDE DEF x, v, n, c
  <2>3. c \in Content /\ c.base = v /\ c.doc = x.doc /\ c.mixed = x.mixed
    BY <2>2 DEF Content
  <2> QED BY <2>3 DEF x, v
<1>6. tab' = [tab EXCEPT ![t] = r]
  <2>1. [o EXCEPT !.content.base = server.version + 1, !.content.title = o.sent.title] = p
    BY <1>1, <1>2 DEF Tab, Content
  <2> HIDE DEF p
  <2> QED BY <2>1 DEF SaveAnswered, Becomes
<1>7. Good(o, server', clock)
  BY <1>1, <1>3, ServerGrows
<1>8. o.sent.doc \subseteq o.content.doc \/ o.content.mixed
  BY <1>1 DEF Good, Sound
<1>9. Fits(c, server')
  <2> HIDE DEF c, o
  <2>1. server'.version \in Nat
    BY <1>3 DEF Row
  <2> QED BY <1>3, <1>5, <1>8, <2>1 DEF Fits
<1>10. CASE SaveSettles(t)
  <2>1. /\ r \in Tab /\ r.content = c /\ r.save = "clearing"
        /\ r.pc = o.pc /\ r.seq = o.seq /\ r.creating = o.creating /\ r.fetch = o.fetch
        /\ r.sent = o.sent /\ r.copy = o.copy /\ r.asof = o.asof
        /\ r.status = o.status /\ r.blocked = o.blocked
    BY <1>1, <1>5, <1>10 DEF Tab
  <2> HIDE DEF r
  <2>2. Shape(r)
    BY <1>1, <1>2, <1>5, <2>1 DEF Good, Shape, Row
  <2>3. Sound(r, server', clock)
    BY <1>1, <1>2, <1>7, <1>9, <2>1 DEF Good, Sound
  <2>4. o.content.doc \subseteq server'.ever
    <3>1. o.seq = o.asof
      BY <1>10 DEF SaveSettles
    <3> QED BY <1>1, <1>3, <3>1 DEF Good, Sound
  <2> HIDE DEF c, o
  <2>5. Creation2'
    <3>1. ASSUME NEW u \in Tabs, Creator(u)'
          PROVE  Creator(u) /\ tab'[u] = tab[u]
      BY <1>2, <1>6, <2>1, <3>1 DEF Creator, IInv, Types
    <3>2. server'.version # 1
      BY <1>1, <1>3 DEF Row
    <3> QED BY <1>1, <3>1, <3>2 DEF IInv, Creation2
  <2>6. /\ drafts' = [drafts EXCEPT ![BrowserOf[t]] = d] /\ d \in Content /\ Fits(d, server')
        /\ clock' = clock /\ clock' \in 0..MaxEdits /\ faults' \in 0..MaxFaults /\ born' = TRUE
        /\ orphans' \subseteq Request
    BY <1>1, <1>3, <1>10, NothingIsFit DEF SaveAnswered, WithDraft, IInv, Types
  <2>7. r.content.doc \subseteq server'.ever
    BY <1>5, <2>1, <2>4
  <2> HIDE DEF d
  <2> QED BY <1>1, <1>2, <1>4, <1>6, <2>1, <2>2, <2>3, <2>5, <2>6, <2>7, TabSteps DEF Good
<1>11. CASE ~SaveSettles(t)
  <2>1. /\ e \in Tab /\ e.content = c /\ e.status = "dirty"
        /\ e.pc = o.pc /\ e.seq = o.seq /\ e.creating = o.creating /\ e.fetch = o.fetch
        /\ e.sent = o.sent /\ e.copy = o.copy /\ e.asof = o.asof
        /\ e.save = o.save /\ e.blocked = o.blocked
    BY <1>1, <1>5 DEF Tab
  <2> HIDE DEF e
  <2>2. Shape(e)
    BY <1>1, <1>2, <1>5, <2>1 DEF Good, Shape, Row
  <2>3. Sound(e, server', clock)
    BY <1>1, <1>2, <1>5, <1>7, <1>9, <2>1 DEF Good, Sound
  <2>4. Good(r, server', clock) /\ r.content = c /\ r.creating = "none" /\ r.fetch = o.fetch
    BY <1>1, <1>2, <1>3, <1>11, <2>1, <2>2, <2>3, SaveEndedIsGood DEF Good
  <2> HIDE DEF c, o, r
  <2>5. Creation2'
    <3>1. ASSUME NEW u \in Tabs, Creator(u)'
          PROVE  Creator(u) /\ tab'[u] = tab[u]
      BY <1>2, <1>6, <2>4, <3>1 DEF Creator, IInv, Types
    <3>2. server'.version # 1
      BY <1>1, <1>3 DEF Row
    <3> QED BY <1>1, <3>1, <3>2 DEF IInv, Creation2
  <2>6. /\ drafts' = drafts /\ d \in Content /\ Fits(d, server')
        /\ clock' = clock /\ clock' \in 0..MaxEdits /\ faults' \in 0..MaxFaults /\ born' = TRUE
        /\ orphans' \subseteq Request
    BY <1>1, <1>3, <1>11, NothingIsFit DEF SaveAnswered, IInv, Types
  <2>7. Alone(t) /\ r.fetch # "clearing" => r.content.doc \subseteq server'.ever \cup drafts'[BrowserOf[t]].doc
    BY <1>1, <1>4, <1>5, <2>4, <2>6, EverGrows DEF IInv, Kept, Draft, o
  <2> HIDE DEF d
  <2> QED BY <1>1, <1>2, <1>4, <1>6, <2>4, <2>5, <2>6, <2>7, TabSteps
<1> QED BY <1>10, <1>11

(* The creation is answered: what the tab shows includes what was stored.   *)
LEMMA CreateAnsweredKeeps ==
  ASSUME IInv, NEW t \in Tabs, CreateAnswered(t)
  PROVE  IInv'
<1> DEFINE o == tab[t]
           c == [o.content EXCEPT !.base = 1]
           p == [o EXCEPT !.content = c, !.blocked = FALSE]
           q == [p EXCEPT !.status = IF o.seq = 0 THEN o.status ELSE "dirty",
                          !.timer = IF o.seq = 0 THEN o.timer ELSE TRUE,
                          !.creating = "clearing"]
           r == IF o.seq = 0 THEN [p EXCEPT !.creating = "clearing"]
                             ELSE Created(Scheduled(p))
           d == IF o.seq = 0 THEN NoDraft ELSE c
<1>1. /\ Good(o, server, clock) /\ o \in Tab /\ Open(t) /\ o.pc = "open" /\ born
      /\ server \in Row /\ clock \in 0..MaxEdits /\ o.creating = "sent"
      /\ server' = Stored(o.sent) /\ UNCHANGED <<orphans, born, clock, faults>>
      /\ server.version = 0
  BY Facts DEF CreateAnswered, Open, Applies, Creation
<1>2. /\ o.save \in {"idle", "waiting"} /\ o.fetch = "idle" /\ o.status # "conflict"
      /\ o.content \in Content /\ o.sent \in Content
      /\ o.sent.doc \subseteq o.content.doc
      /\ o.seq = 0 => o.content.doc \subseteq o.sent.doc
  BY <1>1 DEF Good, Shape, Sound, Tab
<1>3. /\ server' \in Row /\ server'.version = server.version + 1 /\ server'.version = 1
      /\ server'.doc = o.sent.doc /\ server'.ever = server.ever \cup o.sent.doc
  BY <1>1, <1>2 DEF Stored, Row, Content
<1>4. Grows
  BY <1>3 DEF Grows
<1>5. c \in Content /\ c.base = 1 /\ c.doc = o.content.doc
  BY <1>2 DEF Content
<1>6. Fits(c, server')
  BY <1>2, <1>3, <1>5 DEF Fits
<1>7. p = [o EXCEPT !.content.base = 1, !.blocked = FALSE] /\ p.seq = o.seq /\ p.content = c
      /\ ~p.blocked /\ p \in Tab
  BY <1>1, <1>5 DEF Tab
<1>8. tab' = [tab EXCEPT ![t] = r] /\ drafts' = [drafts EXCEPT ![BrowserOf[t]] = d]
  <2> HIDE DEF p, c
  <2> QED BY <1>7 DEF CreateAnswered, Becomes, WithDraft
<1>9. q \in Tab /\ q.pc = "open" /\ q.content = c /\ q.creating = "clearing"
      /\ q.save = o.save /\ q.fetch = o.fetch /\ q.status # "conflict" /\ q.seq = o.seq
      /\ q.sent = o.sent /\ q.copy = o.copy /\ q.asof = o.asof
  <2> DEFINE x == IF o.seq = 0 THEN o.status ELSE "dirty"
             y == IF o.seq = 0 THEN o.timer ELSE TRUE
  <2>1. x \in {"dirty", "saving", "saved", "error"} /\ y \in BOOLEAN
    BY <1>1, <1>2 DEF Tab
  <2>2. q = [p EXCEPT !.status = x, !.timer = y, !.creating = "clearing"]
    OBVIOUS
  <2>3. /\ p.pc = o.pc /\ p.seq = o.seq /\ p.save = o.save /\ p.fetch = o.fetch
        /\ p.sent = o.sent /\ p.copy = o.copy /\ p.asof = o.asof
    BY <1>1 DEF Tab
  <2>4. p \in Tab /\ p.content = c
    BY <1>7
  <2> HIDE DEF x, y, p, o, c, r, d
  <2>5. q \in Tab
    <3> HIDE DEF q
    <3> QED BY <2>1, <2>2, <2>4 DEF Tab
  <2>6. /\ q.pc = p.pc /\ q.content = p.content /\ q.creating = "clearing"
        /\ q.save = p.save /\ q.fetch = p.fetch /\ q.status = x /\ q.seq = p.seq
        /\ q.sent = p.sent /\ q.copy = p.copy /\ q.asof = p.asof
    <3> HIDE DEF q
    <3> QED BY <2>1, <2>2, <2>4 DEF Tab
  <2> HIDE DEF q
  <2>7. o.pc = "open"
    BY <1>1
  <2> QED BY <2>1, <2>3, <2>4, <2>5, <2>6, <2>7
<1>10. r = IF o.seq = 0 THEN q ELSE Created(q)
  <2>1. CASE o.seq = 0
    BY <1>1, <1>7, <2>1 DEF Tab
  <2>2. CASE o.seq # 0
    <3>1. Scheduled(p) = [p EXCEPT !.status = "dirty", !.timer = TRUE]
      BY <1>7 DEF Scheduled
    <3>2. [Scheduled(p) EXCEPT !.creating = "none"] = [q EXCEPT !.creating = "none"]
      BY <1>7, <2>2, <3>1 DEF Tab
    <3> QED BY <2>2, <3>2 DEF Created
  <2> QED BY <2>1, <2>2
<1> HIDE DEF p, q, c
<1>11. Good(q, server', clock)
  <2>1. Good(o, server', clock)
    BY <1>1, <1>3, ServerGrows
  <2>2. Shape(q)
    BY <1>1, <1>2, <1>5, <1>9 DEF Good, Shape
  <2>3. Sound(q, server', clock)
    BY <1>2, <1>6, <1>9, <2>1 DEF Good, Sound
  <2> QED BY <1>9, <2>2, <2>3 DEF Good
<1>12. Good(r, server', clock) /\ r.content = c /\ r.creating \in {"clearing", "none"}
  BY <1>1, <1>3, <1>9, <1>10, <1>11, CreatedIsGood
<1> HIDE DEF r, d, o
<1>13. Creation2'
  <2>1. \A u \in Tabs : Creator(u) => u = t
    BY <1>1 DEF IInv, Creation1, Creator, o
  <2>2. \A u \in Tabs : ~Creator(u)'
    BY <1>8, <1>12, <2>1 DEF Creator, IInv, Types
  <2> QED BY <2>2 DEF Creation2
<1>14. d \in Content /\ Fits(d, server')
  BY <1>3, <1>5, <1>6, NothingIsFit DEF d
<1>15. r.content.doc \subseteq server'.ever \cup drafts'[BrowserOf[t]].doc
  <2>1. CASE o.seq = 0
    BY <1>2, <1>3, <1>5, <1>12, <2>1
  <2>2. CASE o.seq # 0
    <3>1. drafts'[BrowserOf[t]] = c
      BY <1>8, <2>2, BrowserAssumption DEF IInv, Types, d
    <3> QED BY <1>12, <3>1
  <2> QED BY <2>1, <2>2
<1>16. clock' = clock /\ faults' \in 0..MaxFaults /\ born' = TRUE /\ orphans' \subseteq Request
  BY <1>1 DEF IInv, Types
<1> QED BY <1>1, <1>4, <1>8, <1>12, <1>13, <1>14, <1>15, <1>16, TabSteps

LEMMA CreateClearedKeeps ==
  ASSUME IInv, NEW t \in Tabs, CreateCleared(t)
  PROVE  IInv'
<1> DEFINE o == tab[t]
           q == [o EXCEPT !.status = "saved"]
           r == Created(q)
<1>1. /\ Good(o, server, clock) /\ o \in Tab /\ Open(t) /\ o.pc = "open"
      /\ server \in Row /\ clock \in 0..MaxEdits /\ o.creating = "clearing"
      /\ UNCHANGED <<server, drafts, orphans, born, clock, faults>>
      /\ tab' = [tab EXCEPT ![t] = r]
  BY Facts DEF CreateCleared, Open, Becomes
<1>2. /\ q \in Tab /\ q.status = "saved" /\ q.blocked = o.blocked
      /\ q.pc = o.pc /\ q.content = o.content /\ q.seq = o.seq /\ q.creating = o.creating
      /\ q.save = o.save /\ q.fetch = o.fetch /\ q.sent = o.sent /\ q.copy = o.copy
      /\ q.asof = o.asof
  BY <1>1 DEF Tab
<1> HIDE DEF q
<1>3. Shape(q)
  BY <1>1, <1>2 DEF Good, Shape
<1>4. Sound(q, server, clock)
  BY <1>1, <1>2 DEF Good, Sound
<1>5. Good(r, server, clock) /\ r.content = q.content /\ r.creating = "none" /\ r.fetch = q.fetch
  BY <1>1, <1>2, <1>3, <1>4, CreatedIsGood DEF Good
<1> HIDE DEF r
<1> QED BY <1>1, <1>2, <1>5, SameContent, FaultType DEF IInv, Types

LEMMA CreateFailsKeeps ==
  ASSUME IInv, NEW t \in Tabs, CreateFails(t)
  PROVE  IInv'
<1> DEFINE o == tab[t]
           r == CreateFailed(o)
<1>1. /\ Good(o, server, clock) /\ o \in Tab /\ Open(t) /\ o.pc = "open"
      /\ server \in Row /\ clock \in 0..MaxEdits /\ o.creating = "sent"
      /\ UNCHANGED <<server, drafts, born, clock>> /\ tab' = [tab EXCEPT ![t] = r]
      /\ orphans' \subseteq orphans \cup {Creation(t)}
  BY Facts DEF CreateFails, Open, Becomes
<1>2. /\ o.save \in {"idle", "waiting"} /\ o.fetch = "idle"
      /\ o.sent \in Content /\ o.sent.doc \subseteq o.content.doc
  BY <1>1 DEF Good, Shape, Sound, Tab
<1>3. /\ r \in Tab /\ r.pc = o.pc /\ r.content = o.content /\ r.seq = o.seq
      /\ r.creating = "failed" /\ r.save = "idle" /\ r.fetch = o.fetch /\ r.status = "error"
      /\ r.sent = o.sent /\ r.copy = o.copy /\ r.asof = o.asof /\ r.blocked
  BY <1>1, <1>2 DEF CreateFailed, Tab
<1> HIDE DEF r
<1>4. Shape(r)
  BY <1>1, <1>2, <1>3 DEF Good, Shape
<1>5. Sound(r, server, clock)
  BY <1>1, <1>3 DEF Good, Sound
<1>6. /\ Creation(t) \in Request /\ Creation(t).content = o.sent
      /\ orphans' \subseteq Request /\ faults' \in 0..MaxFaults
  BY <1>1, <1>2, FaultType DEF CreateFails, Creation, Request, IInv, Types
<1>7. Creator(t)
  BY <1>1 DEF Creator
<1> QED BY <1>1, <1>2, <1>3, <1>4, <1>5, <1>6, <1>7, SameContent DEF Good

LEMMA RetryCreationKeeps ==
  ASSUME IInv, NEW t \in Tabs, RetryCreation(t)
  PROVE  IInv'
<1> DEFINE o == tab[t]
           r == [o EXCEPT !.blocked = FALSE, !.status = "saving", !.fetch = "recreate"]
<1>1. /\ Good(o, server, clock) /\ o \in Tab /\ Open(t) /\ o.pc = "open"
      /\ o.creating = "failed" /\ o.fetch = "idle"
      /\ UNCHANGED <<server, drafts, orphans, born, clock, faults>>
      /\ tab' = [tab EXCEPT ![t] = r]
  BY Facts DEF RetryCreation, Open, Becomes
<1>2. /\ r \in Tab /\ r.pc = o.pc /\ r.content = o.content /\ r.seq = o.seq
      /\ r.creating = "failed" /\ r.save = o.save /\ r.fetch = "recreate" /\ r.status = "saving"
      /\ r.sent = o.sent /\ r.copy = o.copy /\ r.asof = o.asof /\ ~r.blocked
  BY <1>1 DEF Tab
<1> HIDE DEF r
<1>3. Shape(r)
  BY <1>1, <1>2 DEF Good, Shape
<1>4. Sound(r, server, clock)
  BY <1>1, <1>2 DEF Good, Sound
<1> QED BY <1>1, <1>2, <1>3, <1>4, SameContent, FaultType DEF Creator, Good, IInv, Types

(* The failed creation turns out to have happened, or is tried once more.   *)
LEMMA RecreateAnsweredKeeps ==
  ASSUME IInv, NEW t \in Tabs, RecreateAnswered(t)
  PROVE  IInv'
<1> DEFINE o == tab[t]
           f == [o EXCEPT !.fetch = "idle"]
           c == [o.content EXCEPT !.base = server.version, !.mixed = (server.version # 1)]
           p == [f EXCEPT !.content = c, !.creating = "none", !.status = "dirty"]
           r == IF server.version = 0 THEN Creating(f) ELSE Persisted(p)
<1>1. /\ Good(o, server, clock) /\ o \in Tab /\ Open(t) /\ o.pc = "open"
      /\ server \in Row /\ clock \in 0..MaxEdits /\ o.fetch = "recreate"
      /\ UNCHANGED <<server, drafts, orphans, born, clock, faults>>
  BY Facts DEF RecreateAnswered, Open
<1>2. /\ o.creating = "failed" /\ o.save = "idle" /\ o.content \in Content /\ o.content.base = 0
  BY <1>1 DEF Good, Shape, Tab
<1>3. /\ f \in Tab /\ f.pc = o.pc /\ f.content = o.content /\ f.seq = o.seq
      /\ f.creating = o.creating /\ f.save = o.save /\ f.fetch = "idle" /\ f.status = o.status
      /\ f.sent = o.sent /\ f.copy = o.copy /\ f.asof = o.asof /\ f.blocked = o.blocked
  BY <1>1 DEF Tab
<1>4. c \in Content /\ c.base = server.version /\ c.doc = o.content.doc
      /\ c.mixed = (server.version # 1)
  <2> DEFINE x == o.content
             v == server.version
             m == (server.version # 1)
  <2>1. x \in Content /\ v \in Nat /\ m \in BOOLEAN /\ c = [x EXCEPT !.base = v, !.mixed = m]
    BY <1>1, <1>2 DEF Row
  <2> HIDE DEF x, v, m, c
  <2>2. c \in Content /\ c.base = v /\ c.doc = x.doc /\ c.mixed = m
    BY <2>1 DEF Content
  <2> QED BY <2>2 DEF x, v, m
<1>5. tab' = [tab EXCEPT ![t] = r]
  <2>1. p = [f EXCEPT !.content.base = server.version, !.content.mixed = (server.version # 1),
                      !.creating = "none", !.status = "dirty"]
    BY <1>2, <1>3 DEF Tab, Content
  <2> HIDE DEF p
  <2> QED BY <2>1 DEF RecreateAnswered, Becomes
<1>6. Creator(t)
  BY <1>2 DEF Creator
<1>7. CASE server.version = 0
  <2> HIDE DEF f
  <2>1. r = [f EXCEPT !.creating = "sent", !.sent = f.content]
    BY <1>7 DEF Creating
  <2> HIDE DEF r
  <2>2. /\ r \in Tab /\ r.pc = o.pc /\ r.content = o.content /\ r.seq = o.seq
        /\ r.creating = "sent" /\ r.save = "idle" /\ r.fetch = "idle" /\ r.status = o.status
        /\ r.sent = o.content /\ r.copy = o.copy /\ r.asof = o.asof /\ r.blocked = o.blocked
    BY <1>2, <1>3, <2>1 DEF Tab
  <2>3. Shape(r)
    BY <1>1, <1>2, <2>2 DEF Good, Shape
  <2>4. Sound(r, server, clock)
    BY <1>1, <2>2 DEF Good, Sound
  <2> QED BY <1>1, <1>5, <1>6, <2>2, <2>3, <2>4, SameContent, FaultType DEF Good, IInv, Types
<1>8. CASE server.version # 0
  <2>1. /\ p \in Tab /\ p.pc = o.pc /\ p.content = c /\ p.seq = o.seq
        /\ p.creating = "none" /\ p.save = "idle" /\ p.fetch = "idle" /\ p.status = "dirty"
        /\ p.sent = o.sent /\ p.copy = o.copy /\ p.asof = o.asof /\ p.blocked = o.blocked
    <3> HIDE DEF f, c
    <3> QED BY <1>2, <1>3, <1>4 DEF Tab
  <2>2. Fits(c, server)
    <3>1. server.version = 1 => server.doc \subseteq o.content.doc
      BY <1>6 DEF IInv, Creation2
    <3>2. CASE server.version = 1
      <4> HIDE DEF c, o
      <4> QED BY <1>1, <1>4, <3>1, <3>2 DEF Fits, Row
    <3>3. CASE server.version # 1
      <4> HIDE DEF c
      <4>1. c.mixed
        BY <1>4, <3>3
      <4> QED BY <1>1, <1>4, <4>1 DEF Fits, Row
    <3> QED BY <3>2, <3>3
  <2> HIDE DEF p, c
  <2>3. Shape(p)
    BY <1>1, <1>4, <1>8, <2>1 DEF Good, Shape
  <2>4. Sound(p, server, clock)
    BY <1>1, <2>1, <2>2 DEF Good, Sound
  <2>5. Good(r, server, clock) /\ r.content = c /\ r.creating = "none" /\ r.fetch = "idle"
    BY <1>1, <1>8, <2>1, <2>3, <2>4, PersistedIsGood DEF Good
  <2> HIDE DEF r
  <2> QED BY <1>1, <1>4, <1>5, <2>5, SameContent, FaultType DEF IInv, Types
<1> QED BY <1>7, <1>8

LEMMA ReloadKeeps ==
  ASSUME IInv, NEW t \in Tabs, Reload(t)
  PROVE  IInv'
<1> DEFINE o == tab[t]
           r == [o EXCEPT !.timer = FALSE, !.status = "saving", !.fetch = "reload"]
<1>1. /\ Good(o, server, clock) /\ o \in Tab /\ Open(t) /\ o.pc = "open"
      /\ o.status = "conflict" /\ o.save = "idle" /\ o.fetch = "idle"
      /\ UNCHANGED <<server, drafts, orphans, born, clock, faults>>
      /\ tab' = [tab EXCEPT ![t] = r]
  BY Facts DEF Reload, Open, Becomes
<1>2. /\ r \in Tab /\ r.pc = o.pc /\ r.content = o.content /\ r.seq = o.seq
      /\ r.creating = o.creating /\ r.save = "idle" /\ r.fetch = "reload" /\ r.status = "saving"
      /\ r.sent = o.sent /\ r.copy = o.copy /\ r.asof = o.asof /\ r.blocked = o.blocked
  BY <1>1 DEF Tab
<1> HIDE DEF r
<1>3. Shape(r)
  BY <1>1, <1>2 DEF Good, Shape
<1>4. Sound(r, server, clock)
  BY <1>1, <1>2 DEF Good, Sound
<1> QED BY <1>1, <1>2, <1>3, <1>4, SameContent, FaultType DEF Creator, Good, IInv, Types

LEMMA FetchFailsKeeps ==
  ASSUME IInv, NEW t \in Tabs, FetchFails(t)
  PROVE  IInv'
<1> DEFINE o == tab[t]
           b == o.blocked \/ o.fetch = "recreate"
           r == [o EXCEPT !.fetch = "idle", !.status = "error", !.blocked = b]
<1>1. /\ Good(o, server, clock) /\ o \in Tab /\ Open(t) /\ o.pc = "open"
      /\ o.fetch \in {"reload", "recreate"}
      /\ UNCHANGED <<server, drafts, orphans, born, clock>>
      /\ tab' = [tab EXCEPT ![t] = r]
  BY Facts DEF FetchFails, Open, Becomes
<1>2. b \in BOOLEAN
  OBVIOUS
<1>3. /\ r \in Tab /\ r.pc = o.pc /\ r.content = o.content /\ r.seq = o.seq
      /\ r.creating = o.creating /\ r.save = o.save /\ r.fetch = "idle" /\ r.status = "error"
      /\ r.sent = o.sent /\ r.copy = o.copy /\ r.asof = o.asof
  <2> HIDE DEF b
  <2> QED BY <1>1, <1>2 DEF Tab
<1> HIDE DEF r
<1>4. Shape(r)
  BY <1>1, <1>3 DEF Good, Shape
<1>5. Sound(r, server, clock)
  BY <1>1, <1>3 DEF Good, Sound
<1>6. faults' \in 0..MaxFaults /\ orphans' \subseteq Request
  BY <1>1, FaultType DEF FetchFails, IInv, Types
<1> QED BY <1>1, <1>3, <1>4, <1>5, <1>6, SameContent DEF Creator, Good

(* The version is taken over without its content: the tab's is mixed now.   *)
LEMMA ReloadAnsweredKeeps ==
  ASSUME IInv, NEW t \in Tabs, ReloadAnswered(t)
  PROVE  IInv'
<1> DEFINE o == tab[t]
           c == [o.content EXCEPT !.base = server.version, !.mixed = TRUE]
           w == Loaded(server)
           r == [o EXCEPT !.content = c, !.seq = 0, !.blocked = FALSE, !.retry = FALSE,
                          !.creating = "none", !.fetch = "clearing", !.copy = w]
           d == NoDraft
<1>1. /\ Good(o, server, clock) /\ o \in Tab /\ o.pc = "open" /\ o.fetch = "reload" /\ born
      /\ server \in Row /\ server.doc \subseteq server.ever
      /\ clock \in 0..MaxEdits /\ clock \in Nat
      /\ UNCHANGED <<server, orphans, born, clock, faults>>
  BY Facts, BoundsAssumption DEF ReloadAnswered, Open, IInv, Types
<1>2. /\ o.save = "idle" /\ o.status = "saving" /\ o.creating = "none"
      /\ o.content \in Content /\ server.version > 0 /\ server.version \in Nat
  <2>1. o.save = "idle" /\ o.status = "saving" /\ o.creating = "none"
    BY <1>1 DEF Good, Shape
  <2>2. o.content \in Content /\ o.content.base # 0 /\ o.content.base \in Nat
    BY <1>1, <2>1 DEF Good, Shape, Tab, Content
  <2>3. o.content.base <= server.version
    BY <1>1 DEF Good, Sound, Fits
  <2> QED BY <1>1, <2>1, <2>2, <2>3 DEF Row
<1>3. c \in Content /\ c.base = server.version /\ c.mixed /\ c.doc = o.content.doc
  BY <1>2 DEF Content
<1>4. w \in Content /\ w.base = server.version /\ ~w.mixed /\ w.doc = server.doc
  BY <1>1 DEF Loaded, Content, Row
<1>5. /\ tab' = [tab EXCEPT ![t] = r] /\ drafts' = [drafts EXCEPT ![BrowserOf[t]] = d]
  <2>1. r = [o EXCEPT !.content.base = server.version, !.content.mixed = TRUE,
                      !.seq = 0, !.blocked = FALSE, !.retry = FALSE, !.creating = "none",
                      !.fetch = "clearing", !.copy = w]
    BY <1>1, <1>2 DEF Tab, Content
  <2> HIDE DEF r
  <2> QED BY <2>1 DEF ReloadAnswered, Becomes, WithDraft
<1>6. /\ r \in Tab /\ r.pc = "open" /\ r.content = c /\ r.seq = 0
      /\ r.creating = "none" /\ r.save = "idle" /\ r.fetch = "clearing" /\ r.status = "saving"
      /\ r.sent = o.sent /\ r.copy = w /\ r.asof = o.asof
  <2>1. 0 \in 0..(MaxEdits + 1)
    BY BoundsAssumption
  <2> HIDE DEF c, w
  <2> QED BY <1>1, <1>2, <1>3, <1>4, <2>1 DEF Tab
<1> HIDE DEF r, c, w, d
<1>7. Shape(r)
  BY <1>2, <1>3, <1>4, <1>6 DEF Shape
<1>8. Sound(r, server, clock)
  <2>1. Fits(c, server) /\ Fits(w, server)
    BY <1>2, <1>3, <1>4 DEF Fits
  <2> QED BY <1>1, <1>4, <1>6, <2>1 DEF Good, Sound
<1>9. Creation2'
  <2>1. ASSUME NEW u \in Tabs, Creator(u)'
        PROVE  Creator(u) /\ tab'[u] = tab[u]
    BY <1>5, <1>6, <2>1 DEF Creator, IInv, Types
  <2> QED BY <1>1, <2>1 DEF IInv, Creation2
<1>10. d \in Content /\ Fits(d, server')
  BY <1>1, NothingIsFit DEF d
<1>11. Grows
  BY <1>1 DEF Grows
<1>12. Good(r, server', clock')
  BY <1>1, <1>6, <1>7, <1>8 DEF Good
<1>13. clock' = clock /\ faults' \in 0..MaxFaults /\ born' = TRUE /\ orphans' \subseteq Request
  BY <1>1 DEF IInv, Types
<1> QED BY <1>1, <1>5, <1>6, <1>9, <1>10, <1>11, <1>12, <1>13, TabSteps

(* The content follows: clean if nothing was sent or taken over meanwhile.  *)
LEMMA ReloadDoneKeeps ==
  ASSUME IInv, NEW t \in Tabs, ReloadDone(t)
  PROVE  IInv'
<1> DEFINE o == tab[t]
           clean == o.save = "idle" /\ o.content.base = o.copy.base
           c == [o.content EXCEPT !.title = o.copy.title, !.doc = o.copy.doc, !.mixed = ~clean]
           r == [o EXCEPT !.content = c, !.fetch = "idle", !.status = "saved"]
<1>1. /\ Good(o, server, clock) /\ o \in Tab /\ o.pc = "open" /\ o.fetch = "clearing" /\ born
      /\ server \in Row
      /\ UNCHANGED <<server, drafts, orphans, born, clock, faults>>
  BY Facts DEF ReloadDone, Open
<1>2. /\ o.creating = "none" /\ ~o.copy.mixed
      /\ o.content \in Content /\ o.copy \in Content
  BY <1>1 DEF Good, Shape, Tab
<1>3. /\ c \in Content /\ c.base = o.content.base /\ c.doc = o.copy.doc
      /\ c.mixed = ~clean
  <2> DEFINE x == o.content
             n == o.copy.title
             e == o.copy.doc
             m == ~clean
  <2>1. x \in Content /\ n \in Edit \cup {0} /\ e \in SUBSET Edit /\ m \in BOOLEAN
        /\ c = [x EXCEPT !.title = n, !.doc = e, !.mixed = m]
    BY <1>2 DEF Content
  <2> HIDE DEF x, n, e, m, c
  <2>2. c \in Content /\ c.base = x.base /\ c.doc = e /\ c.mixed = m
    BY <2>1 DEF Content
  <2> QED BY <2>2 DEF x, n, e, m
<1>4. tab' = [tab EXCEPT ![t] = r]
  <2>1. r = [o EXCEPT !.content.title = o.copy.title, !.content.doc = o.copy.doc,
                      !.content.mixed = ~clean, !.fetch = "idle", !.status = "saved"]
    BY <1>1, <1>2 DEF Tab, Content
  <2> HIDE DEF r
  <2> QED BY <2>1 DEF ReloadDone, Becomes
<1>5. /\ r \in Tab /\ r.pc = "open" /\ r.content = c /\ r.seq = o.seq
      /\ r.creating = "none" /\ r.save = o.save /\ r.fetch = "idle" /\ r.status = "saved"
      /\ r.sent = o.sent /\ r.copy = o.copy /\ r.asof = o.asof /\ r.blocked = o.blocked
  <2> HIDE DEF c
  <2> QED BY <1>1, <1>2, <1>3 DEF Tab
<1>6. c.mixed \/ (o.save = "idle" /\ o.content.base = o.copy.base)
  <2>1. CASE clean
    BY <2>1
  <2>2. CASE ~clean
    <3>1. c.mixed = ~clean
      BY <1>3
    <3> HIDE DEF c, clean
    <3>2. c.mixed
      BY <2>2, <3>1
    <3> QED BY <3>2
  <2> QED BY <2>1, <2>2
<1> HIDE DEF r, c, clean
<1>7. Shape(r)
  BY <1>1, <1>3, <1>5 DEF Good, Shape
<1>8. Sound(r, server, clock)
  <2>1. Sound(o, server, clock)
    BY <1>1 DEF Good
  <2>2. Fits(c, server)
    BY <1>2, <1>3, <1>6, <2>1 DEF Sound, Fits
  <2> QED BY <1>3, <1>5, <1>6, <2>1, <2>2 DEF Sound
<1>9. r.content.doc \subseteq server.ever
  BY <1>1, <1>3, <1>5 DEF Good, Sound
<1> QED BY <1>1, <1>4, <1>5, <1>7, <1>8, <1>9, Quiet, FaultType DEF Good, IInv, Types

(* A late request that applies makes everything else older.                 *)
LEMMA HandleOrphanKeeps ==
  ASSUME IInv, NEW req \in orphans, HandleOrphan(req)
  PROVE  IInv'
<1> USE DEF IInv
<1>1. /\ req \in Request /\ req.content \in Content /\ orphans' \subseteq orphans
      /\ UNCHANGED <<tab, drafts, born, clock, faults>> /\ server \in Row
  BY DEF HandleOrphan, Types, Request
<1>2. Grows
  <2>1. CASE ~Applies(req)
    BY <2>1 DEF Grows, HandleOrphan, Types
  <2>2. CASE Applies(req)
    BY <1>1, <2>2 DEF Grows, HandleOrphan, Stored, Row, Content
  <2> QED BY <2>1, <2>2
<1>3. Types'
  BY <1>1, <1>2 DEF Types, Grows
<1>4. TabsGood'
  <2>1. ASSUME NEW u \in Tabs
        PROVE  Good(tab[u], server', clock)
    <3>1. Good(tab[u], server, clock)
      BY DEF TabsGood
    <3> QED BY <1>1, <1>2, <3>1, ServerGrows DEF Grows
  <2> QED BY <1>1, <2>1 DEF TabsGood
<1>5. DraftsFit'
  <2>1. ASSUME NEW b \in Browsers
        PROVE  Fits(drafts[b], server')
    <3>1. Fits(drafts[b], server) /\ drafts[b] \in Content
      BY DEF DraftsFit, Types
    <3> QED BY <1>1, <1>2, <3>1, ServerGrows DEF Grows
  <2> QED BY <1>1, <2>1 DEF DraftsFit
<1>6. Creation1'
  <2>1. born
    BY DEF Creation1
  <2> QED BY <1>1, <2>1 DEF Creation1, Creator
<1>7. Creation2'
  <2>1. ASSUME NEW u \in Tabs, Creator(u), server'.version = 1
        PROVE  server'.doc \subseteq tab[u].content.doc
    <3>1. CASE ~Applies(req)
      BY <2>1, <3>1 DEF HandleOrphan, Creation2
    <3>2. CASE Applies(req)
      <4>1. server'.version = server.version + 1 /\ server'.doc = req.content.doc
        BY <3>2 DEF HandleOrphan, Stored
      <4>2. req.kind = "create"
        BY <1>1, <2>1, <3>2, <4>1 DEF Applies, Request, Row
      <4> QED BY <2>1, <4>1, <4>2 DEF Creation2
    <3> QED BY <3>1, <3>2
  <2> QED BY <1>1, <2>1 DEF Creation2, Creator
<1>8. Kept'
  BY <1>1, <1>2, EverGrows DEF Kept, Alone, Open, Draft
<1> QED BY <1>3, <1>4, <1>5, <1>6, <1>7, <1>8
-----------------------------------------------------------------------------
LEMMA InitIInv ==
  ASSUME Init
  PROVE  IInv
<1>1. server \in Row /\ server.doc = {} /\ server.version \in Nat /\ born \in BOOLEAN
  BY DEF Init, Row, Edit
<1>2. clock \in 0..MaxEdits /\ faults \in 0..MaxFaults /\ clock = 0
  BY BoundsAssumption DEF Init
<1>3. Good(Closed, server, clock) /\ NoDraft \in Content /\ Fits(NoDraft, server)
  BY <1>1, <1>2, ClosedIsGood, NothingIsFit
<1>4. Closed \in Tab /\ Closed.pc = "closed" /\ Closed.creating = "none"
  BY <1>3 DEF Good, Closed
<1>5. Types
  BY <1>1, <1>2, <1>3, <1>4 DEF Init, Types
<1>6. \A t \in Tabs : tab[t] = Closed
  BY DEF Init
<1>7. TabsGood /\ DraftsFit
  BY <1>3, <1>6, BrowserAssumption DEF Init, TabsGood, DraftsFit
<1>8. \A t \in Tabs : ~Creator(t) /\ ~Open(t)
  BY <1>4, <1>6 DEF Creator, Open
<1>9. Creation1
  BY <1>4, <1>6, <1>8 DEF Init, Creation1
<1> QED BY <1>5, <1>7, <1>8, <1>9 DEF IInv, Creation2, Kept

LEMMA NextKeeps ==
  ASSUME IInv, [Next]_vars
  PROVE  IInv'
<1>1. CASE UNCHANGED vars
  BY <1>1 DEF vars, IInv, Types, TabsGood, DraftsFit, Creation1, Creation2, Creator, Kept, Alone, Open, Draft
<1>2. ASSUME NEW t \in Tabs, Progress(t)
      PROVE  IInv'
  BY <1>2, HydrateKeeps, TimerFiresKeeps, DraftClearedKeeps, SaveAnsweredKeeps, SaveRefusedKeeps,
     SaveFailsKeeps, CreateAnsweredKeeps, CreateClearedKeeps, CreateFailsKeeps,
     RecreateAnsweredKeeps, ReloadAnsweredKeeps, ReloadDoneKeeps, FetchFailsKeeps
  DEF Progress
<1>3. ASSUME NEW t \in Tabs, UserStep(t)
      PROVE  IInv'
  BY <1>3, LoadKeeps, CreateProjectKeeps, CloseKeeps, EditsKeep, SaveNowKeeps, RetrySaveKeeps,
     RetryCreationKeeps, ReloadKeeps
  DEF UserStep
<1>4. ASSUME NEW req \in orphans, HandleOrphan(req)
      PROVE  IInv'
  BY <1>4, HandleOrphanKeeps
<1> QED BY <1>1, <1>2, <1>3, <1>4 DEF Next

LEMMA Invariant == Spec => []IInv
<1>1. Init => IInv
  BY InitIInv
<1>2. IInv /\ [Next]_vars => IInv'
  BY NextKeeps
<1> QED BY <1>1, <1>2, PTL DEF Spec

(* Every field keeps its type, and an update always names a stored version: *)
(* a save that awaits the creation is never sent without it.                *)
THEOREM SyncTypes == Spec => []TypeOK
<1>1. IInv => TypeOK
  <2> SUFFICES ASSUME IInv PROVE TypeOK
    OBVIOUS
  <2>1. \A t \in Tabs : tab[t].save = "sent" => tab[t].sent.base > 0
    BY DEF IInv, TabsGood, Good, Sound
  <2>2. clock \in Nat
    BY BoundsAssumption DEF IInv, Types
  <2> QED BY <2>1, <2>2 DEF IInv, Types, TypeOK
<1> QED BY <1>1, Invariant, PTL

(* A save that the server's version check lets through carries every edit   *)
(* of the version it replaces, however timers, late requests, reloads and   *)
(* other tabs come in between.                                              *)
THEOREM SaveLosesNothing == Spec => []CleanSaveLosesNothing
<1>1. IInv => CleanSaveLosesNothing
  BY DEF IInv, TabsGood, Good, Sound, Fits, CleanSaveLosesNothing
<1> QED BY <1>1, Invariant, PTL

(* A tab may be closed at any moment: all it shows of a created project has *)
(* been stored or is in the draft.                                          *)
THEOREM CloseLosesNothing == Spec => []ClosingLosesNothing
<1>1. IInv => ClosingLosesNothing
  BY DEF IInv, Kept, Alone, ClosingLosesNothing
<1> QED BY <1>1, Invariant, PTL

-----------------------------------------------------------------------------
(* The session of the official service (OfficialSession).                   *)

(* Whose refresh token a tab has sent is not what is stored any more, or    *)
(* the answer is still to come.                                             *)
Spent ==
  \A t \in Adapters, n \in 1..MaxPairs :
    uses[t][n] > 0 =>
      /\ uses[t][n] = 1 /\ n <= Len(pairs)
      /\ n = stored => inFlight[t] = n

SessionInv == LeftSessionStaysLeft /\ Spent

LEMMA SessionStarts ==
  ASSUME SessionInit
  PROVE  SessionTypeOK /\ SessionInv
<1>1. pairs \in Seq({1}) /\ Len(pairs) = 1 /\ pairs[1] = 1
  BY DEF SessionInit
<1>2. pairs \in Seq(1..logins)
  BY DEF SessionInit
<1> QED
  BY <1>1, <1>2, SessionBoundsAssumption
     DEF SessionInit, SessionTypeOK, SessionInv, Spent, LeftSessionStaysLeft

(* A new pair is a number nobody has used.                                  *)
LEMMA IssueTypes ==
  ASSUME SessionTypeOK, NEW login \in Nat, NEW m \in Nat, login \in 1..m, logins <= m,
         Issue(login)
  PROVE  /\ pairs' \in Seq(1..m) /\ Len(pairs') = Len(pairs) + 1
         /\ Len(pairs') <= MaxPairs
         /\ stored' = Len(pairs') /\ pairs'[stored'] = login
         /\ \A n \in 1..Len(pairs) : pairs'[n] = pairs[n]
<1>1. pairs \in Seq(1..m) /\ login \in 1..m
  BY DEF SessionTypeOK
<1>2. /\ Append(pairs, login) \in Seq(1..m)
      /\ Len(Append(pairs, login)) = Len(pairs) + 1
      /\ \A n \in 1..Len(pairs) : Append(pairs, login)[n] = pairs[n]
      /\ Append(pairs, login)[Len(pairs) + 1] = login
  BY <1>1, AppendProperties
<1>3. Len(pairs) \in Nat
  BY <1>1, LenProperties
<1>4. MaxPairs \in Nat /\ Len(pairs) < MaxPairs
  BY SessionBoundsAssumption DEF Issue
<1> QED
  BY <1>2, <1>3, <1>4 DEF Issue

(* The ways in which a refresh ends.                                        *)
LEMMA RefreshEndsTypes ==
  ASSUME SessionTypeOK, NEW t \in Adapters, NEW pc \in {"none", "resent"},
         NEW n \in Nat, Len(pairs) <= n, RefreshEnds(t, pc)
  PROVE  /\ inFlight' \in [Adapters -> 0..n]
         /\ call' \in [Calls -> {"none", "sent", "refreshing", "resent"}]
         /\ \A c \in Calls : call'[c] = "refreshing" => inFlight'[AdapterOf[c]] # 0
BY DEF SessionTypeOK, RefreshEnds, Refreshing

(* The steps that neither issue a pair nor send a refresh token.            *)
SessionQuiet ==
  /\ UNCHANGED <<pairs, session, logins, uses>>
  /\ stored' \in {0, stored}

LEMMA NoIssueKeeps ==
  ASSUME SessionTypeOK, SessionInv, SessionQuiet,
         stored' = 0 \/ UNCHANGED inFlight
  PROVE  SessionInv'
BY DEF SessionTypeOK, SessionInv, Spent, SessionQuiet, LeftSessionStaysLeft

LEMMA IssueKeeps ==
  ASSUME SessionTypeOK, SessionInv, NEW login \in Nat,
         NEW m \in Nat, login \in 1..m, logins <= m, Issue(login),
         session' = login, UNCHANGED uses
  PROVE  SessionInv'
<1>1. /\ Len(pairs') = Len(pairs) + 1 /\ stored' = Len(pairs') /\ pairs'[stored'] = login
      /\ Len(pairs) \in Nat
  BY IssueTypes, LenProperties DEF SessionTypeOK
<1> QED
  BY <1>1 DEF SessionInv, Spent, LeftSessionStaysLeft

LEMMA SessionSteps ==
  ASSUME SessionTypeOK, SessionInv, [SessionNext]_sessionVars
  PROVE  SessionTypeOK' /\ SessionInv'
<1>0. Len(pairs) \in Nat /\ logins \in Nat /\ session \in Nat
  BY LenProperties DEF SessionTypeOK
<1>1. CASE LogIn
  <2>1. /\ pairs' \in Seq(1..logins') /\ Len(pairs') = Len(pairs) + 1
        /\ Len(pairs') <= MaxPairs /\ stored' = Len(pairs')
    BY <1>0, <1>1, IssueTypes DEF LogIn, SessionTypeOK
  <2>2. SessionInv'
    BY <1>0, <1>1, IssueKeeps DEF LogIn, Unmoved
  <2>3. logins' \in 1..MaxLogins /\ session' \in 0..logins'
    BY <1>0, <1>1, SessionBoundsAssumption DEF LogIn
  <2>4. inFlight' \in [Adapters -> 0..Len(pairs')]
    BY <1>0, <1>1, <2>1 DEF LogIn, Unmoved, SessionTypeOK
  <2> QED
    BY <1>0, <1>1, <2>1, <2>2, <2>3, <2>4 DEF LogIn, Unmoved, SessionTypeOK
<1>2. CASE LogOut
  BY <1>0, <1>2 DEF LogOut, Unmoved, SessionTypeOK, SessionInv, Spent,
     LeftSessionStaysLeft
<1>3. CASE RefreshedElsewhere
  <2>1. pairs[stored] \in 1..logins /\ pairs[stored] = session
    BY <1>3, ElementOfSeq DEF RefreshedElsewhere, SessionTypeOK, SessionInv,
       LeftSessionStaysLeft
  <2>2. /\ pairs' \in Seq(1..logins) /\ Len(pairs') = Len(pairs) + 1
        /\ Len(pairs') <= MaxPairs /\ stored' = Len(pairs')
    BY <1>0, <1>3, <2>1, IssueTypes DEF RefreshedElsewhere
  <2>3. SessionInv'
    BY <1>0, <1>3, <2>1, IssueKeeps DEF RefreshedElsewhere, Unmoved
  <2> QED
    BY <1>0, <1>3, <2>2, <2>3 DEF RefreshedElsewhere, Unmoved, SessionTypeOK
<1>4. ASSUME NEW c \in Calls, Call(c) \/ Answered(c)
             \/ JoinsRefresh(c) \/ CannotRefresh(c)
             \/ AnsweredAgain(c) \/ ResendFails(c)
      PROVE  SessionTypeOK' /\ SessionInv'
  <2>1. /\ SessionQuiet /\ UNCHANGED inFlight
        /\ \E pc \in {"none", "sent", "refreshing"} :
             /\ call' = [call EXCEPT ![c] = pc]
             /\ pc = "refreshing" => inFlight[AdapterOf[c]] # 0
    BY <1>4 DEF SessionQuiet, Call, Answered, JoinsRefresh,
       CannotRefresh, AnsweredAgain, ResendFails,
       Goto, Login
  <2>2. SessionTypeOK'
    BY <1>0, <2>1 DEF SessionQuiet, SessionTypeOK
  <2> QED
    BY <2>1, <2>2, NoIssueKeeps
<1>5. ASSUME NEW c \in Calls, BeginRefresh(c)
      PROVE  SessionTypeOK' /\ SessionInv'
  <2> DEFINE t == AdapterOf[c]
  <2>0. t \in Adapters /\ AdapterOf \in [Calls -> Adapters] /\ MaxPairs \in Nat
    BY CallsAssumption, SessionBoundsAssumption
  <2>1. /\ t \in Adapters /\ inFlight[t] = 0 /\ stored # 0 /\ stored \in 1..MaxPairs
        /\ UNCHANGED <<pairs, stored, session, logins>>
        /\ inFlight' = [inFlight EXCEPT ![t] = stored]
        /\ uses' = [uses EXCEPT ![t][stored] = @ + 1]
        /\ call' = [call EXCEPT ![c] = "refreshing"]
    BY <1>0, <1>5, <2>0 DEF BeginRefresh, MayRefresh, Goto, Login, SessionTypeOK
  <2>2. uses[t][stored] = 0
    <3>1. uses[t][stored] \in Nat
      BY <2>1 DEF SessionTypeOK
    <3>2. ~(uses[t][stored] > 0)
      BY <2>1 DEF SessionInv, Spent
    <3> QED
      BY <3>1, <3>2
  <2>3. \A u \in Adapters, n \in 1..MaxPairs :
          uses'[u][n] = IF u = t /\ n = stored THEN 1 ELSE uses[u][n]
    <3>1. uses \in [Adapters -> [1..MaxPairs -> Nat]]
      BY DEF SessionTypeOK
    <3>2. uses'[t] = [uses[t] EXCEPT ![stored] = @ + 1] /\ uses[t] \in [1..MaxPairs -> Nat]
      BY <2>1, <3>1
    <3>3. ASSUME NEW n \in 1..MaxPairs
          PROVE  uses'[t][n] = IF n = stored THEN 1 ELSE uses[t][n]
      <4>1. uses'[t] = [uses[t] EXCEPT ![stored] = @ + 1]
        BY <3>2
      <4>2. CASE n = stored
        <5>1. stored \in 1..MaxPairs
          BY <2>1
        <5>2. [uses[t] EXCEPT ![stored] = @ + 1][stored] = uses[t][stored] + 1
          BY <3>2, <5>1
        <5>3. uses[t][stored] + 1 = 1
          BY <2>2
        <5> QED
          BY <4>1, <4>2, <5>2, <5>3
      <4>3. CASE n # stored
        BY <3>2, <4>1, <4>3
      <4> QED
        BY <4>2, <4>3
    <3>4. ASSUME NEW u \in Adapters, u # t
          PROVE  uses'[u] = uses[u]
      BY <2>1, <3>1, <3>4
    <3> QED
      BY <3>3, <3>4
  <2>4. SessionTypeOK'
    <3>1. inFlight' \in [Adapters -> 0..Len(pairs')]
      BY <1>0, <2>1 DEF SessionTypeOK
    <3>2. uses' \in [Adapters -> [1..MaxPairs -> Nat]]
      <4> DEFINE row == [uses[t] EXCEPT ![stored] = 1]
      <4>1. uses \in [Adapters -> [1..MaxPairs -> Nat]] /\ uses[t] \in [1..MaxPairs -> Nat]
        BY <2>1 DEF SessionTypeOK
      <4>2. row \in [1..MaxPairs -> Nat]
        BY <2>1, <4>1
      <4>3. uses' = [uses EXCEPT ![t] = row]
        <5>1. uses[t][stored] + 1 = 1
          BY <2>2
        <5> QED
          BY <2>1, <5>1
      <4> HIDE DEF row
      <4> QED
        BY <4>1, <4>2, <4>3
    <3>3. \A d \in Calls : call'[d] = "refreshing" => inFlight'[AdapterOf[d]] # 0
      <4> TAKE d \in Calls
      <4>1. AdapterOf[d] \in Adapters
        BY <2>0
      <4>2. call[d] = "refreshing" => inFlight[AdapterOf[d]] # 0
        BY DEF SessionTypeOK
      <4>3. d # c => call'[d] = call[d]
        BY <2>1 DEF SessionTypeOK
      <4>4. inFlight'[AdapterOf[d]] = IF AdapterOf[d] = t THEN stored ELSE inFlight[AdapterOf[d]]
        BY <2>1, <4>1 DEF SessionTypeOK
      <4> QED
        BY <2>1, <4>2, <4>3, <4>4
    <3> QED
      BY <2>1, <3>1, <3>2, <3>3 DEF SessionTypeOK
  <2>5. SessionInv'
    BY <1>0, <2>1, <2>3 DEF SessionTypeOK, SessionInv, Spent, LeftSessionStaysLeft
  <2> QED
    BY <2>4, <2>5
<1>6. ASSUME NEW t \in Adapters, Refreshed(t)
      PROVE  SessionTypeOK' /\ SessionInv'
  <2>1. /\ stored # 0 /\ inFlight[t] = stored /\ UNCHANGED <<session, logins, uses>>
        /\ pairs[stored] \in 1..logins /\ pairs[stored] = session
    BY <1>6, ElementOfSeq DEF Refreshed, StillCurrent, RefreshEnds,
       Login, SessionTypeOK, SessionInv, LeftSessionStaysLeft
  <2>2. /\ pairs' \in Seq(1..logins) /\ Len(pairs') = Len(pairs) + 1
        /\ Len(pairs') <= MaxPairs /\ stored' = Len(pairs')
    BY <1>0, <1>6, <2>1, IssueTypes DEF Refreshed
  <2>3. SessionInv'
    BY <1>0, <1>6, <2>1, IssueKeeps DEF Refreshed
  <2>4. SessionTypeOK'
    BY <1>0, <1>6, <2>1, <2>2, RefreshEndsTypes DEF Refreshed, SessionTypeOK
  <2> QED
    BY <2>3, <2>4
<1>7. ASSUME NEW t \in Adapters, RefreshFails(t)
      PROVE  SessionTypeOK' /\ SessionInv'
  <2>1. SessionQuiet /\ stored' = 0
    BY <1>7 DEF RefreshFails, RefreshEnds, Login, SessionQuiet
  <2>2. SessionTypeOK'
    BY <1>0, <1>7, <2>1, RefreshEndsTypes DEF RefreshFails, SessionTypeOK, SessionQuiet
  <2> QED
    BY <2>1, <2>2, NoIssueKeeps
<1>8. CASE UNCHANGED sessionVars
  BY <1>0, <1>8 DEF sessionVars, SessionTypeOK, SessionInv, Spent, LeftSessionStaysLeft
<1> QED
  BY <1>1, <1>2, <1>3, <1>4, <1>5, <1>6, <1>7, <1>8 DEF SessionNext, Elsewhere,
     Ends, RefreshAnswer

LEMMA SessionInvariance == SessionSpec => [](SessionTypeOK /\ SessionInv)
<1>1. SessionInit => SessionTypeOK /\ SessionInv
  BY SessionStarts
<1>2. (SessionTypeOK /\ SessionInv) /\ [SessionNext]_sessionVars
        => (SessionTypeOK /\ SessionInv)'
  BY SessionSteps
<1> QED
  BY <1>1, <1>2, PTL DEF SessionSpec

(* Every variable keeps its type, however many calls, tabs and logins there *)
(* are; and a call waits for a refresh only while its tab makes one, so it  *)
(* does not wait for ever (refreshInFlight, authorizedFetch).               *)
THEOREM SessionTypes == SessionSpec => []SessionTypeOK
BY SessionInvariance, PTL

(* A session the user has left does not come back: what localStorage holds  *)
(* belongs to the login the user is in, however late the answer to a        *)
(* refresh comes (the comparison in refresh).                               *)
THEOREM NoWayBack == SessionSpec => []LeftSessionStaysLeft
<1>1. SessionInv => LeftSessionStaysLeft
  BY DEF SessionInv
<1> QED
  BY <1>1, SessionInvariance, PTL

(* A tab sends each refresh token at most once, however many of its calls   *)
(* are answered 401 and in whatever order: one refresh at a time, and a     *)
(* token that was refused is removed (refreshInFlight, authorizedFetch).    *)
THEOREM TokensAreSentOnce == SessionSpec => []RefreshTokenSentOnce
<1>1. SessionTypeOK /\ SessionInv => RefreshTokenSentOnce
  <2> SUFFICES ASSUME SessionTypeOK, SessionInv, NEW t \in Adapters, NEW n \in 1..MaxPairs
               PROVE  uses[t][n] <= 1
    BY DEF RefreshTokenSentOnce
  <2>1. uses[t] \in [1..MaxPairs -> Nat]
    BY DEF SessionTypeOK
  <2>2. uses[t][n] \in Nat
    BY <2>1
  <2>3. uses[t][n] > 0 => uses[t][n] = 1
    BY DEF SessionInv, Spent
  <2> QED
    BY <2>2, <2>3
<1> QED
  BY <1>1, SessionInvariance, PTL

-----------------------------------------------------------------------------
(* Pictures on their way into a project (CanvasGeneration).                 *)

LEMMA PageBounds ==
  MaxReloads \in Nat /\ MaxDeletions \in Nat /\ MaxMishaps \in Nat
BY PageBoundsAssumption

(* Until the user acts, nothing is asked for: whatever is recorded is       *)
(* polled, and no timer is to remove a record.                              *)
OnlyMonitors ==
  untouched =>
    /\ cleanups = {}
    /\ \A r \in Requests : request[r].pc \notin Active /\ (record[r] # NoSlot => r \in monitors)

(* Only the picture of a completed job is read. *)
ReadIsCompleted == \A r \in Requests : request[r].pc = "reading" => job[r] = "completed"

Undisturbed == OnlyMonitors /\ RestoredWaitsAreWatched

PageInv == OneTaskPerImage /\ Undisturbed /\ ReadIsCompleted /\ NoJobIsForgotten

LEMMA PageStarts ==
  ASSUME PageInit
  PROVE  PageTypeOK /\ PageInv
<1>1. PageTypeOK
  BY SlotsAssumption, PageBoundsAssumption
     DEF PageInit, PageTypeOK, View, Shows, Blank, ImageRequest, Active, Settled
<1>2. PageInv
  BY SlotsAssumption DEF PageInit, Blank, PageInv, OneTaskPerImage, Undisturbed, OnlyMonitors, Active,
     RestoredWaitsAreWatched, ReadIsCompleted, NoJobIsForgotten
<1> QED
  BY <1>1, <1>2

(* A set of numbers that is not empty has a first one. *)
LEMMA FirstOf ==
  ASSUME NEW S, S \subseteq Nat, S # {}
  PROVE  \E s \in S : \A t \in S : s <= t
<1>1. IsWellFoundedOn(OpToRel(<, Nat), Nat)
  BY NatLessThanWellFounded
<1>2. PICK s \in S : \A t \in S : <<t, s>> \notin OpToRel(<, Nat)
  BY <1>1, WFMin
<1>3. ASSUME NEW t \in S PROVE s <= t
  <2>1. ~(t < s)
    BY <1>2 DEF OpToRel
  <2> QED
    BY <2>1
<1> QED
  BY <1>3

(* A task is recorded for a picture of a list only if no other task is. *)
LEMMA RegisterKeeps ==
  ASSUME PageTypeOK, OneTaskPerImage, NEW r \in Requests, Register(r)
  PROVE  record' \in [Requests -> Slots \cup {NoSlot}] /\ OneTaskPerImage'
<1> DEFINE Free == FreeSlots
           first == CHOOSE s \in Free : \A t \in Free : s <= t
<1>1. CASE request[r].sourced /\ record[r] = NoSlot /\ Free # {}
  <2>1. Free \subseteq Nat
    BY SlotsAssumption DEF FreeSlots
  <2>2. first \in Free
    <3>1. \E s \in Free : \A t \in Free : s <= t
      BY <1>1, <2>1, FirstOf
    <3> QED
      BY <3>1
  <2>3. record' = [record EXCEPT ![r] = first]
    BY <1>1 DEF Register
  <2>4. first \in Slots /\ (first \in Bare \/ \A q \in Requests : record[q] # first)
    BY <2>2 DEF FreeSlots
  <2> QED
    BY <2>3, <2>4 DEF PageTypeOK, OneTaskPerImage
<1>2. CASE ~(request[r].sourced /\ record[r] = NoSlot /\ Free # {})
  BY <1>2 DEF Register, PageTypeOK, OneTaskPerImage
<1> QED
  BY <1>1, <1>2

LEMMA DrawSlotTypes ==
  ASSUME PageTypeOK, NEW r \in Requests, NEW show \in Shows, DrawSlot(r, show)
  PROVE  view' \in View /\ doc' \in View /\ shown' \in BOOLEAN
BY DEF PageTypeOK, View, DrawSlot, Draw

LEMMA RestoredTypes ==
  ASSUME NEW d \in View, NEW rec \in [Requests -> Slots \cup {NoSlot}]
  PROVE  Restored(d, rec) \in View
BY DEF View, Shows, Restored

(* The steps of a request, and of the job it made. *)
LEMMA ToTypes ==
  ASSUME PageTypeOK, NEW r \in Requests, NEW pc \in Active \cup {"unused", "ended"}, To(r, pc)
  PROVE  /\ request' \in [Requests -> ImageRequest]
         /\ \A q \in Requests : /\ request'[q].pc = IF q = r THEN pc ELSE request[q].pc
                                /\ request'[q].aborted = request[q].aborted
BY DEF PageTypeOK, To, ImageRequest

(* Whoever is under way or recorded shows that the user has acted. *)
LEMMA Busy ==
  ASSUME PageTypeOK, OnlyMonitors, NEW r \in Requests,
         request[r].pc \in Active, untouched' = untouched
  PROVE  Undisturbed'
BY DEF PageTypeOK, Undisturbed, OnlyMonitors, RestoredWaitsAreWatched

LEMMA FaultTypes ==
  ASSUME PageTypeOK, CallFails
  PROVE  failures' \in 0..MaxMishaps /\ failures' > 0
BY PageBoundsAssumption DEF PageTypeOK, CallFails, Mishap

LEMMA CreatedKeeps ==
  ASSUME PageTypeOK, PageInv, NEW r \in Requests, JobCreated(r)
  PROVE  PageTypeOK' /\ PageInv'
<1>1. /\ record' \in [Requests -> Slots \cup {NoSlot}] /\ OneTaskPerImage'
  BY RegisterKeeps DEF JobCreated, PageInv
<1>2. /\ request' \in [Requests -> ImageRequest]
      /\ \A q \in Requests : /\ request'[q].pc = IF q = r THEN "streaming" ELSE request[q].pc
                             /\ request'[q].aborted = request[q].aborted
  BY ToTypes DEF JobCreated, Active
<1>3. /\ job' = [job EXCEPT ![r] = "open"] /\ job' \in [Requests -> Settled \cup {"none", "open"}]
      /\ UNCHANGED <<view, doc, shown, asked, cleanups, failures, monitors, untouched, reloads, edits>>
      /\ request[r].pc = "posting"
  BY DEF JobCreated, Untouched, PageTypeOK
<1>4. PageTypeOK'
  BY <1>1, <1>2, <1>3 DEF PageTypeOK
<1>5. Undisturbed'
  BY <1>3, Busy DEF Active, PageInv, Undisturbed
<1>6. ReadIsCompleted' /\ NoJobIsForgotten'
  BY <1>2, <1>3 DEF PageTypeOK, PageInv, ReadIsCompleted, NoJobIsForgotten
<1> QED
  BY <1>1, <1>4, <1>5, <1>6 DEF PageInv

(* A request that gives up, by a mishap or because it is aborted.           *)
GivesUp(r) ==
  \/ CreationFails(r) \/ LeavesUnheard(r) \/ PollFails(r) \/ PictureUnread(r)

LEMMA GivesUpKeeps ==
  ASSUME PageTypeOK, PageInv, NEW r \in Requests, GivesUp(r)
  PROVE  PageTypeOK' /\ PageInv'
<1>1. /\ To(r, "ended") /\ CallFails
      /\ UNCHANGED <<record, asked, cleanups, monitors, untouched, reloads, edits>>
      /\ request[r].pc \in Active
      /\ UNCHANGED <<view, doc, shown>> \/ DrawSlot(r, "error")
      /\ job' \in [Requests -> Settled \cup {"none", "open"}]
      /\ \A q \in Requests : q # r => job'[q] = job[q]
  BY DEF GivesUp, CreationFails, LeavesUnheard, PollFails, PictureUnread,
     Untouched, Active, PageTypeOK
<1>2. /\ request' \in [Requests -> ImageRequest]
      /\ \A q \in Requests : request'[q].pc = IF q = r THEN "ended" ELSE request[q].pc
  BY <1>1, ToTypes
<1>3. failures' \in 0..MaxMishaps /\ failures' > 0
  BY <1>1, FaultTypes
<1>4. view' \in View /\ doc' \in View /\ shown' \in BOOLEAN
  BY <1>1, DrawSlotTypes DEF PageTypeOK, Shows
<1>5. PageTypeOK'
  BY <1>1, <1>2, <1>3, <1>4 DEF PageTypeOK
<1>6. Undisturbed'
  BY <1>1, Busy DEF PageInv, Undisturbed
<1>7. OneTaskPerImage' /\ ReadIsCompleted' /\ NoJobIsForgotten'
  BY <1>1, <1>2, <1>3 DEF PageInv, OneTaskPerImage, ReadIsCompleted, NoJobIsForgotten
<1> QED
  BY <1>5, <1>6, <1>7 DEF PageInv

(* A request that goes on as it should.                                     *)
GoesOn(r) ==
  \/ Leaves(r) \/ StreamEnds(r) \/ SeesOutcome(r) \/ PictureRead(r)

LEMMA GoesOnKeeps ==
  ASSUME PageTypeOK, PageInv, NEW r \in Requests, GoesOn(r)
  PROVE  PageTypeOK' /\ PageInv'
<1>1. PICK pc \in {"ended", "polling", "reading"} :
        /\ To(r, pc)
        /\ pc = "reading" => job[r] = "completed"
        /\ pc = "ended" => job[r] \in Settled \/ (request[r].aborted /\ r \in asked')
  BY DEF GoesOn, Leaves, StreamEnds, SeesOutcome, PictureRead,
     PageInv, ReadIsCompleted, Settled, PageTypeOK
<1>2. /\ UNCHANGED <<record, job, failures, monitors, untouched, reloads, edits>>
      /\ asked' \in {asked, asked \cup {r}} /\ cleanups' \in {cleanups, cleanups \cup {r}}
      /\ request[r].pc \in Active
      /\ UNCHANGED <<view, doc, shown>> \/ DrawSlot(r, "error") \/ DrawSlot(r, r)
  BY DEF GoesOn, Leaves, StreamEnds, SeesOutcome, PictureRead,
     Untouched, Active
<1>3. /\ request' \in [Requests -> ImageRequest]
      /\ \A q \in Requests : /\ request'[q].pc = IF q = r THEN pc ELSE request[q].pc
                             /\ request'[q].aborted = request[q].aborted
  BY <1>1, ToTypes DEF Active
<1>4. view' \in View /\ doc' \in View /\ shown' \in BOOLEAN
  BY <1>2, DrawSlotTypes DEF PageTypeOK, Shows, Pictures
<1>5. PageTypeOK'
  BY <1>2, <1>3, <1>4 DEF PageTypeOK
<1>6. Undisturbed'
  BY <1>2, Busy DEF PageInv, Undisturbed
<1>7. OneTaskPerImage' /\ ReadIsCompleted' /\ NoJobIsForgotten'
  BY <1>1, <1>2, <1>3 DEF PageInv, OneTaskPerImage, ReadIsCompleted, NoJobIsForgotten
<1> QED
  BY <1>5, <1>6, <1>7 DEF PageInv

LEMMA SettleKeeps ==
  ASSUME PageTypeOK, PageInv, NEW r \in Requests, Settle(r)
  PROVE  PageTypeOK' /\ PageInv'
<1>1. PICK s \in Settled : job[r] = "open" /\ job' = [job EXCEPT ![r] = s]
  BY DEF Settle
<1>2. UNCHANGED <<view, doc, record, shown, request, asked, cleanups, failures, monitors, untouched,
                  reloads, edits>>
  BY DEF Settle, Untouched
<1>3. PageTypeOK'
  BY <1>1, <1>2 DEF PageTypeOK, Settled
<1>4. OneTaskPerImage' /\ Undisturbed'
  BY <1>2 DEF PageInv, OneTaskPerImage, Undisturbed, OnlyMonitors, RestoredWaitsAreWatched
<1>5. ReadIsCompleted' /\ NoJobIsForgotten'
  BY <1>1, <1>2 DEF PageTypeOK, Settled, PageInv, ReadIsCompleted, NoJobIsForgotten
<1> QED
  BY <1>3, <1>4, <1>5 DEF PageInv

-----------------------------------------------------------------------------
(* The user's steps: requests begin or are aborted, and the nodes are drawn. *)

(* A request that begins was not used; one that is aborted goes on.         *)
Steered(new) ==
  /\ request' \in [Requests -> ImageRequest]
  /\ \A r \in Requests :
       IF r \in new THEN request'[r].pc = "posting"
       ELSE request'[r].pc = request[r].pc /\ (request[r].aborted => request'[r].aborted)

LEMMA UserKeeps ==
  ASSUME PageTypeOK, PageInv, NEW new \in SUBSET Requests, Steered(new), ~untouched',
         UNCHANGED <<record, job, asked, monitors, cleanups, reloads, failures>>,
         view' \in View, doc' \in View, shown' \in BOOLEAN, edits' \in 0..MaxDeletions,
         untouched' \in BOOLEAN
  PROVE  PageTypeOK' /\ PageInv'
<1>1. PageTypeOK'
  BY DEF PageTypeOK, Steered
<1>2. OneTaskPerImage' /\ Undisturbed'
  BY DEF PageInv, OneTaskPerImage, Undisturbed, OnlyMonitors, RestoredWaitsAreWatched
<1>3. ReadIsCompleted' /\ NoJobIsForgotten'
  BY DEF Steered, PageInv, ReadIsCompleted, NoJobIsForgotten
<1> QED
  BY <1>1, <1>2, <1>3 DEF PageInv

LEMMA AbortingTypes ==
  ASSUME PageTypeOK, NEW n
  PROVE  /\ Aborting(n) \in [Requests -> ImageRequest]
         /\ \A r \in Requests : /\ Aborting(n)[r].pc = request[r].pc
                                /\ request[r].aborted => Aborting(n)[r].aborted
BY DEF PageTypeOK, Aborting, ImageRequest

LEMMA RequestedTypes ==
  ASSUME NEW r, NEW s \in Slots, NEW sourced \in BOOLEAN
  PROVE  Requested(r, s, sourced) \in ImageRequest /\ Requested(r, s, sourced).pc = "posting"
BY DEF Requested, ImageRequest, Active

LEMMA GenerateKeeps ==
  ASSUME PageTypeOK, PageInv, NEW n, Generate(n)
  PROVE  PageTypeOK' /\ PageInv'
<1>1. PICK rs \in [InNode(n) -> Requests] :
        request' = [r \in Requests |->
          IF \E s \in InNode(n) : rs[s] = r
          THEN Requested(r, CHOOSE s \in InNode(n) : rs[s] = r, TRUE) ELSE request[r]]
  BY DEF Generate
<1> DEFINE new == {r \in Requests : \E s \in InNode(n) : rs[s] = r}
<1>2. ASSUME NEW r \in new
      PROVE  request'[r] \in ImageRequest /\ request'[r].pc = "posting"
  <2> DEFINE slot == CHOOSE s \in InNode(n) : rs[s] = r
  <2>1. slot \in Slots
    BY <1>2 DEF InNode
  <2>2. request'[r] = Requested(r, slot, TRUE)
    BY <1>1, <1>2
  <2> HIDE DEF slot
  <2> QED
    BY <2>1, <2>2, RequestedTypes
<1>3. \A r \in Requests \ new : request'[r] = request[r]
  BY <1>1
<1>4. request' = [r \in Requests |-> request'[r]]
  BY <1>1
<1>5. Steered(new)
  <2> HIDE DEF new
  <2>1. \A r \in Requests : request'[r] \in ImageRequest
    BY <1>2, <1>3 DEF PageTypeOK
  <2> QED
    BY <1>2, <1>3, <1>4, <2>1 DEF Steered
<1>6. view' \in View /\ doc' \in View /\ shown' \in BOOLEAN
  BY DEF Generate, Draw, PageTypeOK, View, Shows
<1>7. /\ ~untouched' /\ untouched' \in BOOLEAN /\ edits' \in 0..MaxDeletions
      /\ UNCHANGED <<record, job, asked, monitors, cleanups, reloads, failures>>
  BY DEF Generate, UserActs, PageTypeOK
<1> QED
  BY <1>5, <1>6, <1>7, UserKeeps

LEMMA EditPictureKeeps ==
  ASSUME PageTypeOK, PageInv, NEW s \in Bare, EditPicture(s)
  PROVE  PageTypeOK' /\ PageInv'
<1>1. PICK r \in Requests : request' = [request EXCEPT ![r] = Requested(r, s, TRUE)]
  BY DEF EditPicture
<1>2. Requested(r, s, TRUE) \in ImageRequest /\ Requested(r, s, TRUE).pc = "posting"
  BY BareAssumption, RequestedTypes
<1>3. Steered({r})
  BY <1>1, <1>2 DEF Steered, PageTypeOK
<1>4. view' \in View /\ doc' \in View /\ shown' \in BOOLEAN
  BY DEF EditPicture, Draw, PageTypeOK, View, Shows
<1>5. /\ ~untouched' /\ untouched' \in BOOLEAN /\ edits' \in 0..MaxDeletions
      /\ UNCHANGED <<record, job, asked, monitors, cleanups, reloads, failures>>
  BY DEF EditPicture, UserActs, PageTypeOK
<1> QED
  BY <1>3, <1>4, <1>5, UserKeeps

LEMMA RetryKeeps ==
  ASSUME PageTypeOK, PageInv, NEW r \in Requests, NEW s \in Slots, Retry(r, s)
  PROVE  PageTypeOK' /\ PageInv'
<1>1. Steered({r})
  <2>1. request' = [Aborting(Node[s]) EXCEPT ![r] = Requested(r, s, FALSE)]
    BY DEF Retry
  <2> QED
    BY <2>1, AbortingTypes, RequestedTypes DEF Steered
<1>2. view' \in View /\ doc' \in View /\ shown' \in BOOLEAN
  BY DEF Retry, Draw, PageTypeOK, View, Shows
<1>3. /\ ~untouched' /\ untouched' \in BOOLEAN /\ edits' \in 0..MaxDeletions
      /\ UNCHANGED <<record, job, asked, monitors, cleanups, reloads, failures>>
  BY DEF Retry, UserActs, PageTypeOK
<1> QED
  BY <1>1, <1>2, <1>3, UserKeeps

LEMMA StopKeeps ==
  ASSUME PageTypeOK, PageInv, NEW n, Stop(n) \/ DeleteNode(n)
  PROVE  PageTypeOK' /\ PageInv'
<1>1. Steered({})
  BY AbortingTypes DEF Steered, Stop, DeleteNode, PageTypeOK
<1>2. view' \in View /\ doc' \in View /\ shown' \in BOOLEAN
  BY DEF Stop, DeleteNode, Draw, PageTypeOK, View, Shows
<1>3. /\ ~untouched' /\ untouched' \in BOOLEAN
      /\ UNCHANGED <<record, job, asked, monitors, cleanups, reloads, failures>>
  BY DEF Stop, DeleteNode, UserEdits, UserActs
<1>4. edits' \in 0..MaxDeletions
  BY PageBounds DEF Stop, DeleteNode, UserEdits, PageTypeOK
<1> QED
  BY <1>1, <1>2, <1>3, <1>4, UserKeeps

-----------------------------------------------------------------------------
(* The page is replaced, shown, and its records are removed.                *)

LEMMA RestoredWaits ==
  ASSUME NEW d \in View, NEW rec \in [Requests -> Slots \cup {NoSlot}], NEW s \in Slots,
         Restored(d, rec)[s] = "loading"
  PROVE  \E q \in Requests : rec[q] = s
BY DEF View, Restored

LEMMA FinishRecoveryKeeps ==
  ASSUME PageTypeOK, PageInv, NEW r \in Requests, FinishRecovery(r)
  PROVE  PageTypeOK' /\ PageInv'
<1> DEFINE d == Recovered(doc, r)
           rec == [record EXCEPT ![r] = NoSlot]
<1>1. d \in View
  BY DEF PageTypeOK, Recovered, View, Shows, Pictures
<1>2. rec \in [Requests -> Slots \cup {NoSlot}]
  BY DEF PageTypeOK
<1>3. /\ doc' = d /\ record' = rec /\ view' = Restored(d, rec) /\ shown' = FALSE
      /\ monitors' = monitors \ {r}
      /\ request' = [q \in Requests |-> [request[q] EXCEPT !.mine = FALSE]]
      /\ UNCHANGED <<job, asked, cleanups, untouched, reloads, failures, edits>>
  BY DEF FinishRecovery, Remount
<1> HIDE DEF d
<1>4. /\ request' \in [Requests -> ImageRequest]
      /\ \A q \in Requests : request'[q].pc = request[q].pc /\ request'[q].aborted = request[q].aborted
  BY <1>3 DEF PageTypeOK, ImageRequest
<1>5. PageTypeOK'
  BY <1>1, <1>2, <1>3, <1>4, RestoredTypes DEF PageTypeOK
<1>6. OneTaskPerImage'
  BY <1>3, SlotsAssumption DEF PageTypeOK, PageInv, OneTaskPerImage
<1>7. OnlyMonitors'
  BY <1>3, <1>4 DEF PageTypeOK, PageInv, Undisturbed, OnlyMonitors
<1>8. RestoredWaitsAreWatched'
  <2> SUFFICES ASSUME untouched', NEW s \in Slots, view'[s] = "loading"
               PROVE  \E q \in monitors' : record'[q] = s
    BY DEF RestoredWaitsAreWatched
  <2>1. PICK q \in Requests : rec[q] = s
    <3>1. Restored(d, rec)[s] = "loading"
      BY <1>3
    <3> HIDE DEF rec
    <3> QED
      BY <1>1, <1>2, <3>1, RestoredWaits
  <2>2. s # NoSlot
    BY SlotsAssumption
  <2> QED
    BY <1>3, <1>7, <2>1, <2>2 DEF OnlyMonitors
<1>9. ReadIsCompleted' /\ NoJobIsForgotten'
  BY <1>3, <1>4 DEF PageInv, ReadIsCompleted, NoJobIsForgotten
<1> QED
  BY <1>5, <1>6, <1>7, <1>8, <1>9 DEF PageInv, Undisturbed

LEMMA CleanupKeeps ==
  ASSUME PageTypeOK, PageInv, NEW r \in Requests, Cleanup(r)
  PROVE  PageTypeOK' /\ PageInv'
<1>1. ~untouched /\ untouched' = untouched
  BY DEF Cleanup, PageInv, Undisturbed, OnlyMonitors
<1>2. PageTypeOK' /\ OneTaskPerImage'
  BY SlotsAssumption DEF Cleanup, PageTypeOK, PageInv, OneTaskPerImage
<1>3. Undisturbed'
  BY <1>1 DEF Undisturbed, OnlyMonitors, RestoredWaitsAreWatched
<1>4. ReadIsCompleted' /\ NoJobIsForgotten'
  BY DEF Cleanup, PageInv, ReadIsCompleted, NoJobIsForgotten
<1> QED
  BY <1>2, <1>3, <1>4 DEF PageInv

LEMMA PageReloadKeeps ==
  ASSUME PageTypeOK, PageInv, ReloadTab
  PROVE  PageTypeOK' /\ PageInv'
<1> DEFINE kept == [r \in Requests |->
                      IF record[r] # NoSlot /\ doc[record[r]] # "absent" THEN record[r] ELSE NoSlot]
<1>1. /\ doc' = doc /\ record' = kept /\ view' = Restored(doc, kept) /\ shown' = FALSE
      /\ monitors' = {r \in Requests : kept[r] # NoSlot} /\ cleanups' = {} /\ untouched' = TRUE
      /\ UNCHANGED <<asked, failures, edits>>
  BY DEF ReloadTab, Remount
<1>2. /\ request' \in [Requests -> ImageRequest]
      /\ \A r \in Requests : request'[r].pc \notin Active
  BY DEF ReloadTab, PageTypeOK, ImageRequest, Active
<1>3. kept \in [Requests -> Slots \cup {NoSlot}]
  BY DEF PageTypeOK
<1>4. reloads' \in 0..MaxReloads /\ reloads' > 0
  <2>1. reloads \in 0..MaxReloads /\ reloads < MaxReloads /\ reloads' = reloads + 1
    BY DEF ReloadTab, PageTypeOK
  <2> QED
    BY <2>1, PageBounds
<1>5. job' \in [Requests -> Settled \cup {"none", "open"}]
  BY DEF ReloadTab, PageTypeOK
<1>6. doc \in View
  BY DEF PageTypeOK
<1>7. OneTaskPerImage'
  BY <1>1, SlotsAssumption DEF PageInv, OneTaskPerImage
<1> HIDE DEF kept
<1>8. PageTypeOK'
  BY <1>1, <1>2, <1>3, <1>4, <1>5, <1>6, RestoredTypes DEF PageTypeOK
<1>9. OnlyMonitors'
  BY <1>1, <1>2 DEF OnlyMonitors
<1>10. RestoredWaitsAreWatched'
  <2> SUFFICES ASSUME NEW s \in Slots, view'[s] = "loading"
               PROVE  \E q \in monitors' : record'[q] = s
    BY DEF RestoredWaitsAreWatched
  <2>1. PICK q \in Requests : kept[q] = s
    BY <1>1, <1>3, <1>6, RestoredWaits
  <2>2. s # NoSlot
    BY SlotsAssumption
  <2> QED
    BY <1>1, <2>1, <2>2
<1>11. ReadIsCompleted'
  BY <1>2 DEF ReadIsCompleted, Active
<1>12. NoJobIsForgotten'
  BY <1>4 DEF NoJobIsForgotten
<1> QED
  BY <1>7, <1>8, <1>9, <1>10, <1>11, <1>12 DEF PageInv, Undisturbed

LEMMA ShowKeeps ==
  ASSUME PageTypeOK, PageInv, Show \/ UNCHANGED pageVars
  PROVE  PageTypeOK' /\ PageInv'
<1>1. /\ UNCHANGED <<view, record, request, job, asked, monitors, cleanups, untouched, reloads, failures, edits>>
      /\ doc' \in {doc, view} /\ shown' \in {shown, TRUE}
  BY DEF Show, pageVars
<1> QED
  BY <1>1 DEF PageTypeOK, PageInv, OneTaskPerImage, Undisturbed, OnlyMonitors,
     RestoredWaitsAreWatched, ReadIsCompleted, NoJobIsForgotten

LEMMA PageSteps ==
  ASSUME PageTypeOK, PageInv, [PageNext]_pageVars
  PROVE  PageTypeOK' /\ PageInv'
<1>1. ASSUME NEW r \in Requests, Answers(r)
      PROVE  PageTypeOK' /\ PageInv'
  BY <1>1, CreatedKeeps, GivesUpKeeps, GoesOnKeeps DEF Answers, GivesUp, GoesOn
<1>2. CASE User
  BY <1>2, GenerateKeeps, EditPictureKeeps, StopKeeps, RetryKeeps, PageReloadKeeps DEF User
<1>3. CASE Show \/ UNCHANGED pageVars
  BY <1>3, ShowKeeps
<1> QED
  BY <1>1, <1>2, <1>3, FinishRecoveryKeeps, CleanupKeeps, SettleKeeps DEF PageNext

LEMMA PageInvariance == PageSpec => [](PageTypeOK /\ PageInv)
<1>1. PageInit => PageTypeOK /\ PageInv
  BY PageStarts
<1>2. (PageTypeOK /\ PageInv) /\ [PageNext]_pageVars => (PageTypeOK /\ PageInv)'
  BY PageSteps
<1> QED
  BY <1>1, <1>2, PTL DEF PageSpec

(* Every variable keeps its type: a slot never shows anything but one of    *)
(* the states the nodes know, whatever state the server reports for a job,  *)
(* and a task is recorded for a slot of the document or for none            *)
(* (canvas-job-controller, registerCanvasTaskRecovery).                     *)
THEOREM PageTypes == PageSpec => []PageTypeOK
BY PageInvariance, PTL

(* No picture of a node's list is recorded for two tasks, for any number of *)
(* requests, nodes, edits of pictures and reloads: two results would fight  *)
(* for it after every reload (claimedImages of buildCanvasRecoveryBindings).*)
THEOREM ImagesAreNotShared == PageSpec => []OneTaskPerImage
<1>1. PageInv => OneTaskPerImage
  BY DEF PageInv
<1> QED
  BY <1>1, PageInvariance, PTL

(* A tab that was just opened, and that nobody has touched, shows a slot    *)
(* that waits only if a monitor polls the task it is recorded for, through  *)
(* all the remounts by recoveries that finish (resetInterruptedGeneration). *)
THEOREM WaitsAreWatched == PageSpec => []RestoredWaitsAreWatched
<1>1. PageInv => RestoredWaitsAreWatched
  BY DEF PageInv, Undisturbed
<1> QED
  BY <1>1, PageInvariance, PTL

(* A request that gives up without a mishap has seen its job settled, or    *)
(* was aborted and has asked the server to cancel its job: no job goes on   *)
(* unknown to everybody (canvas-job-controller).                            *)
THEOREM JobsAreFollowed == PageSpec => []NoJobIsForgotten
<1>1. PageInv => NoJobIsForgotten
  BY DEF PageInv
<1> QED
  BY <1>1, PageInvariance, PTL

(* A request that has had no answer has no job yet, or is over.             *)
NothingPosted ==
  \A r \in Requests : request[r].pc \in {"unused", "posting"} => job[r] = "none"

(* One step, seen by the job of one request.                                *)
Follows(r) == Followed!Open(r) \/ Followed!End(r) \/ Followed!Rest(r)

LEMMA AnswersFollow ==
  ASSUME PageTypeOK, NothingPosted, NEW r \in Requests,
         Answers(r) \/ FinishRecovery(r) \/ Cleanup(r) \/ Settle(r)
  PROVE  NothingPosted' /\ asked \subseteq asked' /\ \A q \in Requests : Follows(q)
<1>1. ASSUME UNCHANGED job, asked \subseteq asked',
             \A q \in Requests : \/ request'[q].pc = request[q].pc
                                \/ request'[q].pc \notin {"unused", "posting"}
      PROVE  NothingPosted' /\ asked \subseteq asked' /\ \A q \in Requests : Follows(q)
  BY <1>1 DEF NothingPosted, Follows, Followed!Rest
<1>2. CASE JobCreated(r) \/ CreationFails(r)
  <2>1. PICK s \in {"none", "open"}, pc \in {"streaming", "ended"} :
          /\ request[r].pc = "posting" /\ To(r, pc)
          /\ job' = [job EXCEPT ![r] = s] /\ asked' = asked
    BY <1>2 DEF JobCreated, CreationFails
  <2>2. \A q \in Requests : request'[q].pc = IF q = r THEN pc ELSE request[q].pc
    BY <2>1, ToTypes DEF Active
  <2>3. job[r] = "none"
    BY <2>1 DEF NothingPosted
  <2> QED
    BY <2>1, <2>2, <2>3 DEF PageTypeOK, NothingPosted, Follows, Followed!Open, Followed!Rest
<1>3. CASE Leaves(r) \/ LeavesUnheard(r) \/ StreamEnds(r) \/ SeesOutcome(r) \/ PollFails(r)
           \/ PictureRead(r) \/ PictureUnread(r)
  <2>1. PICK pc \in {"polling", "reading", "ended"} : To(r, pc)
    BY <1>3 DEF Leaves, LeavesUnheard, StreamEnds, SeesOutcome, PollFails, PictureRead,
       PictureUnread
  <2>2. \A q \in Requests : request'[q].pc = IF q = r THEN pc ELSE request[q].pc
    BY <2>1, ToTypes DEF Active
  <2>3. UNCHANGED job /\ asked \subseteq asked'
    BY <1>3 DEF Leaves, LeavesUnheard, StreamEnds, SeesOutcome, PollFails, PictureRead,
       PictureUnread
  <2> QED
    BY <1>1, <2>2, <2>3
<1>4. CASE FinishRecovery(r) \/ Cleanup(r)
  <2>1. \A q \in Requests : [request[q] EXCEPT !.mine = FALSE].pc = request[q].pc
    BY DEF PageTypeOK, ImageRequest
  <2>2. \A q \in Requests : request'[q].pc = request[q].pc
    BY <1>4, <2>1 DEF FinishRecovery, Cleanup
  <2> QED
    BY <1>1, <1>4, <2>2 DEF FinishRecovery, Cleanup
<1>5. CASE Settle(r)
  <2>1. PICK s \in {"completed", "failed", "canceled"} :
          /\ job[r] = "open" /\ job' = [job EXCEPT ![r] = s]
          /\ s = "canceled" => r \in asked
    BY <1>5 DEF Settle, Settled
  <2>2. request' = request /\ asked' = asked
    BY <1>5 DEF Settle
  <2>3. \A q \in Requests : job'[q] = IF q = r THEN s ELSE job[q]
    BY <2>1 DEF PageTypeOK
  <2>4. \A q \in Requests : Follows(q)
    BY <2>1, <2>2, <2>3 DEF Follows, Followed!End, Followed!Ends, Followed!Rest
  <2>5. NothingPosted'
    BY <2>1, <2>2, <2>3 DEF NothingPosted
  <2> QED
    BY <2>2, <2>4, <2>5
<1> QED
  BY <1>2, <1>3, <1>4, <1>5 DEF Answers

LEMMA ReloadFollows ==
  ASSUME PageTypeOK, NothingPosted, ReloadTab
  PROVE  NothingPosted' /\ asked \subseteq asked' /\ \A q \in Requests : Follows(q)
<1>1. /\ UNCHANGED <<asked, failures, edits>>
      /\ request' = [r \in Requests |-> IF request[r].pc \in Active
                       THEN [request[r] EXCEPT !.pc = "ended", !.mine = FALSE] ELSE request[r]]
      /\ \E late \in SUBSET {r \in Requests : request[r].pc = "posting" /\ job[r] = "none"} :
           job' = [r \in Requests |-> IF r \in late THEN "open" ELSE job[r]]
  BY DEF ReloadTab
<1>2. asked' = asked
  BY <1>1
<1>3. \A q \in Requests : \/ job'[q] = job[q]
                          \/ /\ job[q] = "none" /\ job'[q] = "open"
                             /\ request[q].pc = "posting"
  BY <1>1
<1>4. \A q \in Requests : request'[q].pc \in {request[q].pc, "ended"} \ Active
  BY <1>1 DEF PageTypeOK, ImageRequest, Active
<1> QED
  BY <1>2, <1>3, <1>4 DEF NothingPosted, Active, Follows, Followed!Open, Followed!Rest

LEMMA UserFollows ==
  ASSUME PageTypeOK, NothingPosted, User
  PROVE  NothingPosted' /\ asked \subseteq asked' /\ \A q \in Requests : Follows(q)
<1>1. ASSUME NEW s \in Bare, EditPicture(s)
      PROVE  /\ UNCHANGED <<job, asked>>
             /\ \A q \in Requests : request'[q].pc = request[q].pc \/ request[q].pc = "unused"
  BY <1>1 DEF EditPicture, PageTypeOK
<1>2. ASSUME NEW n, Generate(n) \/ Stop(n) \/ DeleteNode(n)
      PROVE  /\ UNCHANGED <<job, asked>>
             /\ \A q \in Requests : request'[q].pc = request[q].pc \/ request[q].pc = "unused"
  <2>1. CASE Generate(n)
    BY <2>1 DEF Generate
  <2>2. CASE Stop(n) \/ DeleteNode(n)
    BY <2>2, AbortingTypes DEF Stop, DeleteNode
  <2> QED
    BY <1>2, <2>1, <2>2
<1>3. ASSUME NEW r \in Requests, NEW s \in Slots, Retry(r, s)
      PROVE  /\ UNCHANGED <<job, asked>>
             /\ \A q \in Requests : request'[q].pc = request[q].pc \/ request[q].pc = "unused"
  BY <1>3, AbortingTypes DEF Retry
<1>4. CASE /\ UNCHANGED <<job, asked>>
           /\ \A q \in Requests : request'[q].pc = request[q].pc \/ request[q].pc = "unused"
  BY <1>4 DEF NothingPosted, Follows, Followed!Rest
<1> QED
  BY <1>1, <1>2, <1>3, <1>4, ReloadFollows DEF User

(* The page asks of the job service what TaskView says, and no more: in no  *)
(* order of answers, retries and closed tabs does it take a job to open     *)
(* twice, to change its end, or to be canceled unasked.                     *)
THEOREM TasksAreFollowed == PageSpec => FollowsTasks
<1>1. PageInit => Followed!Init /\ NothingPosted
  BY DEF PageInit, Followed!Init, NothingPosted
<1>2. PageTypeOK /\ NothingPosted /\ [PageNext]_pageVars
        => NothingPosted' /\ [Followed!Next]_(Followed!taskVars)
  <2>1. CASE Show \/ UNCHANGED pageVars
    BY <2>1 DEF Show, pageVars, NothingPosted, Followed!taskVars
  <2> QED
    BY <2>1, AnswersFollow, UserFollows DEF PageNext, Follows, Followed!Next
<1> QED
  BY <1>1, <1>2, PageTypes, PTL DEF PageSpec, FollowsTasks, Followed!Spec
=============================================================================
