------------------------------ MODULE SignIn ------------------------------
(***************************************************************************)
(* packages/api/src/auth.ts and auth-routes.ts: sessions, their cookies    *)
(* and the limit of sign-ins.  Several sign-ins run at once; one browser's *)
(* sessions are looked at.  Both the sessions and the failures are timed   *)
(* by the wall clock, which may be set, and forgotten by a new process.    *)
(***************************************************************************)
EXTENDS Integers, Sequences, FiniteSets

CONSTANTS
  None, Addresses,
  SESSION_TTL, COOKIE_REFRESH, WINDOW, MAX,
  Sets,                       \* by how much the clock may be set
  MaxTime, MaxLogins, MaxSets, MaxRestarts  \* bounds

SignInAssumption ==
  /\ SESSION_TTL \in Nat /\ COOKIE_REFRESH \in Nat /\ WINDOW \in Nat /\ MAX \in Nat \ {0}
  /\ Sets \subseteq Int /\ MaxLogins \in Nat /\ None \notin Nat

VARIABLES
  time, offset,         \* elapsed time; the wall clock is ahead of it by offset
  failures, checking,   \* the limiter: times by address, numbered; addresses whose check runs
  sessions,             \* by id: when used, when its cookie was sent
  cookie,               \* the browser's: whose session, until when
  logins, restarts, sets,  \* bounds: sessions made, processes, settings of the clock
  guesses, seen, lost, moved  \* history: see the properties

limiter == <<failures, checking>>
bounds == <<logins, restarts, sets>>
history == <<guesses, seen, lost, moved>>
vars == <<time, offset, limiter, sessions, cookie, bounds, history>>

Now == time + offset
NoCookie == [id |-> None, until |-> 0]

(***************************************************************************)
(* createLoginLimiter, and the route around it.                            *)
(***************************************************************************)
Recent(a) == {n \in DOMAIN failures[a] : Now - failures[a][n] < WINDOW}
Blocked(a) == Cardinality(Recent(a)) >= MAX
Newest(a) == IF Recent(a) = {} THEN 0 ELSE CHOOSE n \in Recent(a) : \A m \in Recent(a) : m <= n

Refused(a) == Blocked(a) \/ a \in checking

(* Mutant: the attempt is counted once it has failed. *)
CountedLater(a) == failures
Counted(a) ==
  [b \in Addresses |->
    IF b # a THEN IF Recent(b) = {} THEN <<>> ELSE failures[b]
    ELSE [n \in Recent(a) \cup {Newest(a) + 1} |-> IF n \in Recent(a) THEN failures[a][n] ELSE Now]]

(* History: the last MAX + 1 guesses since a right one. *)
Logged(a) == LET g == Append(guesses[a], time)
             IN IF Len(g) > MAX + 1 THEN Tail(g) ELSE g

StartsLogin(a) ==
  /\ ~Refused(a)
  /\ failures' = Counted(a) /\ checking' = checking \cup {a}
  /\ guesses' = [guesses EXCEPT ![a] = Logged(a)]
  /\ UNCHANGED <<time, offset, sessions, cookie, bounds, seen, lost, moved>>

(* A wrong password is answered after a delay; an error at once. *)
LoginFails(a) ==
  /\ a \in checking /\ checking' = checking \ {a}
  /\ UNCHANGED <<time, offset, failures, sessions, cookie, bounds, history>>

(***************************************************************************)
(* createSessions.                                                         *)
(***************************************************************************)
Live == {id \in DOMAIN sessions : sessions[id] # None}
Expired(id) == Now - sessions[id].used > SESSION_TTL
CookieUntil == time + SESSION_TTL

LoginSucceeds(a) ==
  /\ a \in checking /\ logins < MaxLogins
  /\ checking' = checking \ {a}
  /\ failures' = [failures EXCEPT ![a] = <<>>] /\ guesses' = [guesses EXCEPT ![a] = <<>>]
  /\ logins' = logins + 1
  /\ sessions' = [id \in DOMAIN sessions |->
       IF id = logins + 1 THEN [used |-> Now, cookie |-> Now]
       ELSE IF id \in Live /\ (id \in Live => Expired(id)) THEN None ELSE sessions[id]]
  /\ cookie' = [id |-> logins + 1, until |-> CookieUntil]
  /\ seen' = time /\ lost' = FALSE
  /\ UNCHANGED <<time, offset, restarts, sets, moved>>

Sent == cookie # NoCookie /\ time <= cookie.until

(* valid and cookieDue: a session that is used slides, and so does its cookie. *)
(* Mutant: it is due only when it is about to end. *)
DueAtEnd(id) == Now - sessions[id].cookie >= SESSION_TTL
CookieDue(id) == Now - sessions[id].cookie >= COOKIE_REFRESH

(* A request with the cookie; its answer may be lost. *)
Request ==
  /\ Sent /\ cookie.id \in Live
  /\ LET id == cookie.id IN
     IF Expired(id)
     THEN sessions' = [sessions EXCEPT ![id] = None] /\ UNCHANGED <<cookie, seen, lost>>
     ELSE /\ sessions' = [sessions EXCEPT ![id] =
               [used |-> Now, cookie |-> IF CookieDue(id) THEN Now ELSE @.cookie]]
          /\ seen' = time
          /\ \/ /\ UNCHANGED lost
                /\ cookie' = IF CookieDue(id) THEN [cookie EXCEPT !.until = CookieUntil] ELSE cookie
             \/ CookieDue(id) /\ lost' = TRUE /\ UNCHANGED cookie
  /\ UNCHANGED <<time, offset, limiter, bounds, guesses, moved>>

Logout ==
  /\ Sent
  /\ sessions' = [sessions EXCEPT ![cookie.id] = None] /\ cookie' = NoCookie
  /\ UNCHANGED <<time, offset, limiter, bounds, history>>

(***************************************************************************)
(* Processes and clocks.                                                   *)
(***************************************************************************)
Restart ==
  /\ restarts < MaxRestarts /\ restarts' = restarts + 1
  /\ failures' = [a \in Addresses |-> <<>>] /\ checking' = {}
  /\ sessions' = [id \in DOMAIN sessions |-> None]
  /\ guesses' = [a \in Addresses |-> <<>>]
  /\ UNCHANGED <<time, offset, cookie, logins, sets, seen, lost, moved>>

Tick ==
  /\ time < MaxTime /\ time' = time + 1
  /\ UNCHANGED <<offset, limiter, sessions, cookie, bounds, history>>

ClockSet ==
  /\ sets < MaxSets /\ sets' = sets + 1
  /\ \E by \in Sets : offset' = offset + by
  /\ moved' = TRUE
  /\ UNCHANGED <<time, limiter, sessions, cookie, logins, restarts, guesses, seen, lost>>

Init ==
  /\ time = 0 /\ offset = 0
  /\ failures = [a \in Addresses |-> <<>>] /\ checking = {}
  /\ sessions = [id \in 1 .. MaxLogins |-> None] /\ cookie = NoCookie
  /\ logins = 0 /\ restarts = 0 /\ sets = 0
  /\ guesses = [a \in Addresses |-> <<>>] /\ seen = 0 /\ lost = FALSE /\ moved = FALSE

Next ==
  \/ \E a \in Addresses : StartsLogin(a) \/ LoginFails(a) \/ LoginSucceeds(a)
  \/ Request \/ Logout \/ Restart \/ Tick \/ ClockSet

Spec == Init /\ [][Next]_vars

(***************************************************************************)
(* Properties.                                                             *)
(***************************************************************************)
(* However many sign-ins an address sends at once, no more than MAX          *)
(* passwords are tried in a WINDOW without a right one, unless the clock is  *)
(* set (auth.ts:218-238, auth-routes.ts:107-125).                            *)
GuessesLimited == ~moved => \A a \in Addresses : \A i \in DOMAIN guesses[a] :
  i + MAX \in DOMAIN guesses[a] => guesses[a][i + MAX] - guesses[a][i] >= WINDOW

(* A user who comes back while the session lives, less the time a cookie may *)
(* be old, still has the cookie for it (auth.ts:145-150, 180-185); a lost    *)
(* answer may lose it.                                                       *)
CookieLasts ==
  ~moved /\ ~lost /\ cookie.id \in Live /\ time <= seen + SESSION_TTL - COOKIE_REFRESH => Sent
=============================================================================
