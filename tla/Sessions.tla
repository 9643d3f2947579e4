------------------------------- MODULE Sessions -------------------------------
(* "Use My Session" for one source: the state machine of sessions/manager.py,    *)
(* the stored session of sessions/store.py, the browser logins of                *)
(* sessions/login.py, the validation of api/sources.py and the requests of       *)
(* sources/service.py that carry the session.  A session is named after the      *)
(* login that captured it; Anonymous is what a response sets for a request that  *)
(* carried none.                                                                 *)
EXTENDS Naturals, FiniteSets

CONSTANTS
  Logins,             \* login sessions, each opened once
  Checks, Uses,       \* requests that validate the session, or use it, at one time
  MaxActive,          \* MAX_ACTIVE of login.py
  MaxSessionCrashes,  \* bound: restarts
  None, Anonymous, Unreadable

ASSUME SessionsAssumption ==
  /\ Anonymous \notin Logins /\ None \notin Logins \cup {Anonymous} /\ Unreadable \notin Logins \cup {Anonymous, None}
  /\ MaxActive \in Nat /\ MaxSessionCrashes \in Nat

VARIABLES
  sessionState,       \* source_session_refs.state
  stored,             \* the row of secrets.db: None, Unreadable (another key), or a session
  logins,             \* [phase, active (in _active), expired]
  checks,             \* the session each validation under way looks at, or None
  uses,               \* the session each request under way was sent with, or "idle"
  sessionCrashes,
  interrupted         \* a restart or an unexpected error ended a validation

sessionVars == <<sessionState, stored, logins, checks, uses, sessionCrashes, interrupted>>

Readable == Logins \cup {Anonymous}
NoLogin == [phase |-> "none", active |-> FALSE, expired |-> FALSE]

SessionsInit ==
  /\ sessionState = "not_connected" /\ stored = None
  /\ logins = [l \in Logins |-> NoLogin]
  /\ checks = [c \in Checks |-> None] /\ uses = [u \in Uses |-> "idle"]
  /\ sessionCrashes = 0 /\ interrupted = FALSE

Active == {l \in Logins : logins[l].active}

SessionTypeOK ==
  /\ sessionState \in {"not_connected", "checking", "connected", "needs_reconnect"}
  /\ stored \in {None, Unreadable} \cup Readable
  /\ logins \in [Logins -> [phase : {"none", "starting", "open", "validating", "ended"},
                            active : BOOLEAN, expired : BOOLEAN]]
  /\ Cardinality(Active) <= MaxActive
  /\ checks \in [Checks -> {None} \cup Readable] /\ uses \in [Uses -> {"idle", None} \cup Readable]
  /\ sessionCrashes \in 0..MaxSessionCrashes /\ interrupted \in BOOLEAN

(* _load(): what can be read; a session that cannot be asks for a reconnect.     *)
Loaded == IF stored = Unreadable THEN None ELSE stored
AfterLoad == IF stored = Unreadable THEN "needs_reconnect" ELSE sessionState

(* cookie_header(): only a connected source gets its session.                    *)
Sent == IF sessionState = "connected" THEN Loaded ELSE None

-----------------------------------------------------------------------------
(* Logins.                                                                       *)

(* cancel() and _close(): a login that is opening, or being validated, goes on   *)
(* in its own task without being listed.                                         *)
Cancelled(x) == [x EXCEPT !.active = FALSE, !.phase = IF @ = "open" THEN "ended" ELSE @]

(* Logins past their time are cancelled before a new one is admitted.            *)
Pruned == [l \in Logins |-> IF logins[l].active /\ logins[l].expired THEN Cancelled(logins[l]) ELSE logins[l]]

OverLimit(ls) == Cardinality({l \in Logins : ls[l].active}) > MaxActive    \* mutant: one too many
AtLimit(ls) == Cardinality({l \in Logins : ls[l].active}) >= MaxActive

(* start(): the limit, then the browser context, with the stored session.        *)
StartLogin(l) ==
  /\ logins[l].phase = "none"
  /\ IF AtLimit(Pruned)
       THEN logins' = Pruned /\ UNCHANGED sessionState
       ELSE logins' = [Pruned EXCEPT ![l].phase = "starting", ![l].active = TRUE] /\ sessionState' = AfterLoad
  /\ UNCHANGED <<stored, checks, uses, sessionCrashes, interrupted>>

(* _open() ends: the page is there, or nothing is.                               *)
LoginOpens(l) ==
  /\ logins[l].phase = "starting"
  /\ \/ logins' = [logins EXCEPT ![l].phase = "open"]
     \/ logins' = [logins EXCEPT ![l].phase = "ended", ![l].active = FALSE]
  /\ UNCHANGED <<sessionState, stored, checks, uses, sessionCrashes, interrupted>>

LoginExpires(l) ==
  /\ logins[l].active /\ ~logins[l].expired
  /\ logins' = [logins EXCEPT ![l].expired = TRUE]
  /\ UNCHANGED <<sessionState, stored, checks, uses, sessionCrashes, interrupted>>

CancelLogin(l) ==
  /\ logins[l].active /\ logins[l].phase \in {"open", "validating"}
  /\ logins' = [logins EXCEPT ![l] = Cancelled(@)]
  /\ UNCHANGED <<sessionState, stored, checks, uses, sessionCrashes, interrupted>>

(* complete(): what the browser holds is captured and validated ...              *)
CompleteLogin(l) ==
  /\ logins[l].active /\ logins[l].phase = "open" /\ ~logins[l].expired
  /\ logins' = [logins EXCEPT ![l].phase = "validating"]
  /\ UNCHANGED <<sessionState, stored, checks, uses, sessionCrashes, interrupted>>

(* ... connect(): and it replaces the stored session.                            *)
LoginAccepted(l) ==
  /\ logins[l].phase = "validating"
  /\ stored' = l /\ sessionState' = "connected"
  /\ logins' = [logins EXCEPT ![l].phase = "ended", ![l].active = FALSE]
  /\ UNCHANGED <<checks, uses, sessionCrashes, interrupted>>

(* The source does not know the session: the login can be completed again.       *)
LoginRefused(l) ==
  /\ logins[l].phase = "validating"
  /\ logins' = [logins EXCEPT ![l].phase = IF logins[l].active THEN "open" ELSE "ended"]
  /\ UNCHANGED <<sessionState, stored, checks, uses, sessionCrashes, interrupted>>

-----------------------------------------------------------------------------
(* Validation, disconnection and use.                                            *)

StartCheck(c) ==
  /\ checks[c] = None
  /\ IF Loaded = None THEN sessionState' = AfterLoad /\ UNCHANGED checks
       ELSE sessionState' = "checking" /\ checks' = [checks EXCEPT ![c] = Loaded]
  /\ UNCHANGED <<stored, logins, uses, sessionCrashes, interrupted>>

(* The verdict is about the session that was stored when the check began; when   *)
(* the source cannot be asked, the session counts as good.                       *)
VerdictKept(good) == IF good THEN "connected" ELSE sessionState    \* mutant: a refusal is not stored
VerdictOf(good) == IF good THEN "connected" ELSE "needs_reconnect"

EndCheck(c, good) ==
  /\ checks[c] # None
  /\ sessionState' = VerdictOf(good)
  /\ checks' = [checks EXCEPT ![c] = None]
  /\ UNCHANGED <<stored, logins, uses, sessionCrashes, interrupted>>

(* An error validate_candidate() does not expect (a browser that cannot start).  *)
CheckBreaks(c) ==
  /\ checks[c] # None /\ ~interrupted
  /\ checks' = [checks EXCEPT ![c] = None] /\ interrupted' = TRUE
  /\ UNCHANGED <<sessionState, stored, logins, uses, sessionCrashes>>

Disconnect ==
  /\ stored' = None /\ sessionState' = "not_connected"
  /\ UNCHANGED <<logins, checks, uses, sessionCrashes, interrupted>>

(* A request to the source is sent, with the session it has then.                *)
StartUse(u) ==
  /\ uses[u] = "idle"
  /\ uses' = [uses EXCEPT ![u] = Sent]
  /\ sessionState' = IF sessionState = "connected" THEN AfterLoad ELSE sessionState
  /\ UNCHANGED <<stored, logins, checks, sessionCrashes, interrupted>>

(* _auth_failed(): the source wants a login.                                     *)
UseRefused(u) ==
  /\ uses[u] # "idle"
  /\ uses' = [uses EXCEPT ![u] = "idle"]
  /\ sessionState' = IF sessionState = "connected" THEN "needs_reconnect" ELSE sessionState
  /\ UNCHANGED <<stored, logins, checks, sessionCrashes, interrupted>>

(* refresh_cookies(): the response renews the session it was sent with, and that *)
(* is merged into whatever is stored now, if anything is.                        *)
MayRefreshAnyway == sessionState = "connected"     \* mutant: nothing need be stored
MayRefresh == sessionState = "connected" /\ Loaded # None

UseAnswered(u) ==
  /\ uses[u] # "idle"
  /\ uses' = [uses EXCEPT ![u] = "idle"]
  /\ \/ UNCHANGED <<stored, sessionState>>
     \/ /\ sessionState' = IF sessionState = "connected" THEN AfterLoad ELSE sessionState
        /\ stored' = IF ~MayRefresh THEN stored ELSE IF uses[u] = None THEN Anonymous ELSE uses[u]
  /\ UNCHANGED <<logins, checks, sessionCrashes, interrupted>>

(* A restart, between the two stores of a connection or of a disconnection too;  *)
(* with another key file nothing can be read.                                    *)
SessionCrash ==
  /\ sessionCrashes < MaxSessionCrashes /\ sessionCrashes' = sessionCrashes + 1
  /\ \E s \in {stored, None} \cup {l \in Logins : logins[l].phase = "validating"}, keyKept \in BOOLEAN :
       stored' = IF keyKept \/ s = None THEN s ELSE Unreadable
  /\ logins' = [l \in Logins |-> IF logins[l].phase = "none" THEN NoLogin ELSE [NoLogin EXCEPT !.phase = "ended"]]
  /\ checks' = [c \in Checks |-> None] /\ uses' = [u \in Uses |-> "idle"]
  /\ interrupted' = TRUE
  /\ UNCHANGED sessionState

LoginStep(l) ==
  \/ StartLogin(l) \/ LoginOpens(l) \/ LoginExpires(l) \/ CancelLogin(l)
  \/ CompleteLogin(l) \/ LoginAccepted(l) \/ LoginRefused(l)

SessionsNext ==
  \/ \E l \in Logins : LoginStep(l)
  \/ \E c \in Checks : StartCheck(c) \/ CheckBreaks(c) \/ (\E good \in BOOLEAN : EndCheck(c, good))
  \/ \E u \in Uses : StartUse(u) \/ UseRefused(u) \/ UseAnswered(u)
  \/ Disconnect \/ SessionCrash

SessionsSpec == SessionsInit /\ [][SessionsNext]_sessionVars

-----------------------------------------------------------------------------
(* Properties.                                                                   *)

(* "checking" is never left behind: while it is shown some validation is under   *)
(* way, whatever logins, disconnections and other validations ran meanwhile;     *)
(* only a restart or an unexpected error ends one without its verdict.           *)
CheckingIsUnderWay == sessionState = "checking" /\ ~interrupted => \E c \in Checks : checks[c] # None

(* Nothing brings a session back: once a source has none (it was disconnected),  *)
(* only a login that ends now stores one, its own (unreadable if the restart     *)
(* that ends it changes the key); a response that was under way does not.        *)
OnlyALoginStores ==
  [][stored = None /\ stored' # None => 
       \E l \in Logins : logins[l].phase = "validating" /\ logins'[l].phase = "ended" /\ stored' \in {l, Unreadable}]_sessionVars

(* "Validation succeeded (or could not be performed) for the stored session"     *)
(* (manager.py, confirm_connected()): a connected source has one.                *)
ConnectedHasSession == sessionState = "connected" => stored # None
=============================================================================
