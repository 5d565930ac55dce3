-------------------------- MODULE OfficialSession --------------------------
(* The official session in the browser: the tabs' session adapters share   *)
(* one pair of tokens in localStorage, replace it when a call is answered  *)
(* 401, and repeat the call.                                               *)
(*                                                                         *)
(* A pair (access and refresh token) is known by its number.  The official *)
(* service and its own pages are not part of this code: the service may    *)
(* refuse any call and any refresh token, its pages log in, log out and    *)
(* refresh the stored pair.                                                *)
EXTENDS Naturals, Sequences

CONSTANTS
  Adapters,   \* of the tabs: a page loaded again has another one
  Calls,      \* calls of authorizedFetch at a time
  AdapterOf,  \* the adapter of each
  MaxPairs,   \* pairs issued
  MaxLogins

ASSUME CallsAssumption == AdapterOf \in [Calls -> Adapters]
ASSUME SessionBoundsAssumption == MaxPairs \in Nat \ {0} /\ MaxLogins \in Nat \ {0}

VARIABLES
  pairs,     \* the login each pair belongs to
  stored,    \* the pair in localStorage, 0 if there is none
  session,   \* the login the user is in, 0 after a logout
  logins,
  inFlight,  \* refreshInFlight: the pair whose refresh token a tab has sent, or 0
  call,      \* where every call is
  uses       \* how often a tab has sent the refresh token of a pair (history)

sessionVars == <<pairs, stored, session, logins, inFlight, call, uses>>

(* The types; and a call waits for a refresh only while its tab makes one. *)
SessionTypeOK ==
  /\ pairs \in Seq(1..logins) /\ Len(pairs) <= MaxPairs
  /\ stored \in 0..Len(pairs)
  /\ logins \in 1..MaxLogins /\ session \in 0..logins
  /\ inFlight \in [Adapters -> 0..Len(pairs)]
  /\ call \in [Calls -> {"none", "sent", "refreshing", "resent"}]
  /\ \A c \in Calls : call[c] = "refreshing" => inFlight[AdapterOf[c]] # 0
  /\ uses \in [Adapters -> [1..MaxPairs -> Nat]]

SessionInit ==
  /\ pairs = <<1>> /\ stored = 1 /\ session = 1 /\ logins = 1
  /\ inFlight = [t \in Adapters |-> 0]
  /\ call = [c \in Calls |-> "none"]
  /\ uses = [t \in Adapters |-> [n \in 1..MaxPairs |-> 0]]

-----------------------------------------------------------------------------
(* The official service and its pages *)

(* A new pair for a login takes the place of the stored one. *)
Issue(login) ==
  /\ Len(pairs) < MaxPairs
  /\ pairs' = Append(pairs, login)
  /\ stored' = Len(pairs')

Unmoved == UNCHANGED <<inFlight, call, uses>>

LogIn ==
  /\ logins < MaxLogins /\ logins' = logins + 1
  /\ session' = logins' /\ Issue(logins')
  /\ Unmoved

LogOut ==
  /\ session # 0 /\ session' = 0 /\ stored' = 0
  /\ UNCHANGED <<pairs, logins>> /\ Unmoved

(* Another page of the official service refreshes the pair. *)
RefreshedElsewhere ==
  /\ stored # 0 /\ Issue(pairs[stored])
  /\ UNCHANGED <<session, logins>> /\ Unmoved

-----------------------------------------------------------------------------
(* authorizedFetch *)

Login == <<session, logins>>
Goto(c, pc) == call' = [call EXCEPT ![c] = pc]
Refreshing(t) == {c \in Calls : AdapterOf[c] = t /\ call[c] = "refreshing"}

(* Everybody who waits for a tab's refresh goes on together. *)
RefreshEnds(t, pc) ==
  /\ inFlight' = [inFlight EXCEPT ![t] = 0]
  /\ call' = [c \in Calls |-> IF c \in Refreshing(t) THEN pc ELSE call[c]]
  /\ UNCHANGED <<Login, uses>>

Call(c) ==
  /\ call[c] = "none" /\ stored # 0
  /\ Goto(c, "sent")
  /\ UNCHANGED <<pairs, stored, Login, inFlight, uses>>

(* The first answer is anything but 401, or the call itself fails. *)
Answered(c) ==
  /\ call[c] = "sent" /\ Goto(c, "none")
  /\ UNCHANGED <<pairs, stored, Login, inFlight, uses>>

JoinsRefresh(c) ==
  /\ call[c] = "sent" /\ inFlight[AdapterOf[c]] # 0
  /\ Goto(c, "refreshing")
  /\ UNCHANGED <<pairs, stored, Login, inFlight, uses>>

MayRefresh(t) == inFlight[t] = 0 /\ stored # 0

BeginRefresh(c) ==
  LET t == AdapterOf[c] IN
  /\ call[c] = "sent" /\ MayRefresh(t)
  /\ inFlight' = [inFlight EXCEPT ![t] = stored]
  /\ uses' = [uses EXCEPT ![t][stored] = @ + 1]
  /\ Goto(c, "refreshing")
  /\ UNCHANGED <<pairs, stored, Login>>

(* Faulty variant: with no refresh token, the call waits for a new one. *)
CannotRefreshWaits(c) ==
  /\ call[c] = "sent" /\ inFlight[AdapterOf[c]] = 0 /\ stored = 0
  /\ Goto(c, "refreshing")
  /\ UNCHANGED <<pairs, stored, Login, inFlight, uses>>

(* "No refresh token available": there is nothing left to remove. *)
CannotRefresh(c) ==
  /\ call[c] = "sent" /\ inFlight[AdapterOf[c]] = 0 /\ stored = 0
  /\ Goto(c, "none")
  /\ UNCHANGED <<pairs, stored, Login, inFlight, uses>>

(* Faulty variant: whatever pair has come since, the answer is stored. *)
StillCurrentAlways(t) == TRUE

(* The pair in localStorage is the one whose refresh token was sent. *)
StillCurrent(t) == stored = inFlight[t]

Refreshed(t) ==
  /\ inFlight[t] # 0 /\ StillCurrent(t)
  /\ Issue(pairs[inFlight[t]])
  /\ RefreshEnds(t, "resent")

(* Faulty variant: a failed refresh leaves the tokens where they are. *)
RefreshFailsQuietly(t) ==
  /\ inFlight[t] # 0
  /\ UNCHANGED <<pairs, stored>>
  /\ RefreshEnds(t, "none")

(* The service refuses, the network fails, or the pair has changed: the    *)
(* catch of authorizedFetch removes the tokens, whosever they are.         *)
RefreshFails(t) ==
  /\ inFlight[t] # 0
  /\ stored' = 0 /\ UNCHANGED pairs
  /\ RefreshEnds(t, "none")

(* The repeated call is answered; after another 401 the login page follows. *)
AnsweredAgain(c) ==
  /\ call[c] = "resent" /\ Goto(c, "none")
  /\ UNCHANGED <<pairs, stored, Login, inFlight, uses>>

(* It fails or is aborted inside the try: the tokens are removed as well. *)
ResendFails(c) ==
  /\ call[c] = "resent" /\ Goto(c, "none") /\ stored' = 0
  /\ UNCHANGED <<pairs, Login, inFlight, uses>>

-----------------------------------------------------------------------------
Elsewhere == LogIn \/ LogOut \/ RefreshedElsewhere

Ends(c) ==
  Answered(c) \/ JoinsRefresh(c) \/ BeginRefresh(c) \/ CannotRefresh(c)
  \/ AnsweredAgain(c) \/ ResendFails(c)

RefreshAnswer(t) == Refreshed(t) \/ RefreshFails(t)

SessionNext ==
  \/ Elsewhere
  \/ \E c \in Calls : Call(c) \/ Ends(c)
  \/ \E t \in Adapters : RefreshAnswer(t)

SessionSpec == SessionInit /\ [][SessionNext]_sessionVars

-----------------------------------------------------------------------------
(* A session the user has left does not come back: what is stored belongs  *)
(* to the login the user is in, however late a refresh is answered         *)
(* (refresh).                                                              *)
LeftSessionStaysLeft == stored # 0 => pairs[stored] = session

(* However many calls are answered 401, a tab sends a refresh token once:  *)
(* a token that rotates must not be seen twice (refreshInFlight, and the   *)
(* removal of what could not be refreshed).                                *)
RefreshTokenSentOnce == \A t \in Adapters, n \in 1..MaxPairs : uses[t][n] <= 1
=============================================================================
