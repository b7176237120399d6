------------------------------ MODULE LiveFeed ------------------------------
(***************************************************************************)
(* The live feed from end to end: the /api/live route with its heartbeat   *)
(* (packages/api/src/live-routes.ts, feed.ts), and the dashboard that      *)
(* follows it (packages/web/src/core/live.ts, core/api.ts, alerts.ts and   *)
(* the effects of app.tsx).  One dashboard is followed, with the sockets   *)
(* it opens one after the other, its requests in flight, and the sessions  *)
(* other tabs of the browser share with it.  Reads are protected.  Samples *)
(* are left out; the delay before a retry is a timer that fires.           *)
(***************************************************************************)
EXTENDS Integers, Sequences, FiniteSets

CONSTANTS
  None, Alerts,
  MaxBuffered,       \* maxBufferedBytes, in messages
  MaxEdits, MaxSockets, MaxSessions, MaxBreaks  \* bounds

LiveFeedAssumption ==
  /\ None \notin Nat \cup Alerts \cup {"open", "acked"}
  /\ MaxBuffered \in Nat /\ MaxEdits \in Nat /\ MaxSockets \in Nat /\ MaxSessions \in Nat

VARIABLES
  alert, rules,      \* the server: each alert, and the edition of the rules in force
  sessions, cookie,  \* the sessions that live; the one the browser's cookie names
  side,              \* the server's end of each socket
  alive, sid,        \* it answered the last ping; the session it was opened with
  chan,              \* sent to the browser, not yet read
  cur, sock,         \* the dashboard's socket, and its end of it
  shown, liveRules, configRules,  \* what the dashboard shows
  effect,            \* a config was set, and its effect has not run yet
  stopped, form,     \* connectLive gave up; the sign-in form is shown
  config, recheck,   \* requests in flight: /api/config, /api/session
  ack,               \* and an acknowledgement
  breaks             \* bound: accidents

server == <<alert, rules>>
login == <<sessions, cookie>>
ends == <<side, alive, sid, chan>>
client == <<cur, sock, stopped>>
view == <<shown, liveRules, configRules>>
asked == <<config, recheck, ack>>
vars == <<server, login, ends, client, view, effect, form, asked, breaks>>

Sockets == 1 .. MaxSockets
Close(code) == [type |-> "close", code |-> code]

(***************************************************************************)
(* The server.                                                             *)
(***************************************************************************)
SignedIn(s) == s \in sessions

OpenAlerts == [a \in Alerts |-> IF alert[a] \in {"open", "acked"} THEN alert[a] ELSE None]

(* Mutant: the rules in force do not ride along. *)
SnapshotWithoutRules == [type |-> "snapshot", alerts |-> OpenAlerts, rules |-> None]
Snapshot == [type |-> "snapshot", alerts |-> OpenAlerts, rules |-> rules]

FallenBehind(c) == Len(chan[c]) > MaxBuffered

(* publish: to every socket that listens; one that does not read is cut off. *)
Publish(message) ==
  /\ side' = [c \in Sockets |-> IF side[c] = "open" /\ FallenBehind(c) THEN "gone" ELSE side[c]]
  /\ chan' = [c \in Sockets |->
       IF side[c] # "open" THEN chan[c]
       ELSE Append(chan[c], IF FallenBehind(c) THEN Close(1006) ELSE message)]
  /\ UNCHANGED <<alive, sid>>

Changes(a, from, to, event) ==
  /\ alert[a] \in from /\ alert' = [alert EXCEPT ![a] = to]
  /\ Publish([type |-> "alert", event |-> event, alert |-> a])

RaiseOrClear(a) ==
  /\ \/ Changes(a, {"new"}, "open", "raised")
     \/ Changes(a, {"open", "acked"}, "cleared", "cleared")
  /\ UNCHANGED <<rules, login, client, view, effect, form, asked, breaks>>

EditRules ==
  /\ rules < MaxEdits /\ rules' = rules + 1
  /\ Publish([type |-> "rules", rules |-> rules + 1])
  /\ UNCHANGED <<alert, login, client, view, effect, form, asked, breaks>>

Accept(c) ==
  /\ side[c] = "asked"
  /\ IF SignedIn(sid[c])
     THEN side' = [side EXCEPT ![c] = "open"] /\ chan' = [chan EXCEPT ![c] = <<Snapshot>>]
     ELSE side' = [side EXCEPT ![c] = "gone"] /\ chan' = [chan EXCEPT ![c] = <<Close(4401)>>]
  /\ UNCHANGED <<server, login, alive, sid, client, view, effect, form, asked, breaks>>

Heartbeat(c) ==
  /\ side[c] = "open"
  /\ IF SignedIn(sid[c]) /\ alive[c]
     THEN alive' = [alive EXCEPT ![c] = FALSE] /\ UNCHANGED <<side, chan>>
     ELSE /\ side' = [side EXCEPT ![c] = "gone"]
          /\ chan' = [chan EXCEPT ![c] = Append(@, Close(IF SignedIn(sid[c]) THEN 1006 ELSE 4401))]
          /\ UNCHANGED alive
  /\ UNCHANGED <<server, login, sid, client, view, effect, form, asked, breaks>>

(* The browser answers a ping itself, whatever the page does. *)
Pong(c) ==
  /\ side[c] = "open" /\ ~alive[c] /\ c = cur /\ sock \in {"opening", "open"}
  /\ alive' = [alive EXCEPT ![c] = TRUE]
  /\ UNCHANGED <<server, login, side, sid, chan, client, view, effect, form, asked, breaks>>

(* A new process knows no session, and every socket is gone. *)
Restart ==
  /\ breaks < MaxBreaks /\ breaks' = breaks + 1
  /\ sessions' = {}
  /\ side' = [c \in Sockets |-> IF side[c] = "none" THEN "none" ELSE "gone"]
  /\ chan' = [c \in Sockets |-> IF side[c] \in {"asked", "open"} THEN Append(chan[c], Close(1006))
                                ELSE chan[c]]
  /\ UNCHANGED <<server, cookie, alive, sid, client, view, effect, form, asked>>

(* The connection is lost, and what was under way in it. *)
Breaks ==
  /\ breaks < MaxBreaks /\ breaks' = breaks + 1
  /\ cur # None /\ sock \in {"opening", "open"}
  /\ chan' = [chan EXCEPT ![cur] = <<Close(1006)>>]
  /\ side' = [side EXCEPT ![cur] = "gone"]
  /\ UNCHANGED <<server, login, alive, sid, client, view, effect, form, asked>>

(***************************************************************************)
(* connectLive: a socket, and what arrives in it.                          *)
(***************************************************************************)
Opens(c) ==
  /\ cur' = c /\ sock' = "opening"
  /\ side' = [side EXCEPT ![c] = "asked"] /\ sid' = [sid EXCEPT ![c] = cookie]
  /\ UNCHANGED <<alive, chan>>

NextSocket == IF cur = None THEN 1 ELSE cur + 1

(* The timer of a retry fires. *)
Retry ==
  /\ sock = "closed" /\ ~stopped /\ NextSocket \in Sockets
  /\ Opens(NextSocket)
  /\ UNCHANGED <<server, login, stopped, view, effect, form, asked, breaks>>

(* applyAlertEvent. *)
Applied(event, a) ==
  [shown EXCEPT ![a] = CASE event = "raised" -> "open"
                         [] event = "cleared" -> None
                         [] OTHER -> IF @ = None THEN None ELSE "acked"]

Shows(m) ==
  CASE m.type = "snapshot" ->
         /\ shown' = m.alerts
         /\ liveRules' = IF m.rules # None THEN m.rules ELSE liveRules
    [] m.type = "alert" -> shown' = Applied(m.event, m.alert) /\ UNCHANGED liveRules
    [] OTHER -> liveRules' = m.rules /\ UNCHANGED shown

AsksSession == recheck' = recheck \cup {"asked"}

Receive ==
  /\ sock \in {"opening", "open"} /\ chan[cur] # <<>>
  /\ LET m == Head(chan[cur]) IN
     IF m.type = "close"
     THEN /\ sock' = "closed" /\ stopped' = (m.code = 4401)
          /\ IF m.code = 4401 THEN AsksSession ELSE UNCHANGED recheck
          /\ UNCHANGED view
     ELSE /\ sock' = "open" /\ Shows(m)
          /\ UNCHANGED <<stopped, configRules, recheck>>
  /\ chan' = [chan EXCEPT ![cur] = Tail(@)]
  /\ UNCHANGED <<server, login, side, alive, sid, cur, effect, form, config, ack, breaks>>

(***************************************************************************)
(* The page's requests.  An answer is made at the server, and read later.  *)
(***************************************************************************)
Idle(is) == [is |-> is, rules |-> 0]

ConfigAnswered ==
  /\ config.is = "asked"
  /\ config' = IF SignedIn(cookie) THEN [is |-> "config", rules |-> rules] ELSE Idle("401")
  /\ UNCHANGED <<server, login, ends, client, view, effect, form, recheck, ack, breaks>>

(* A config that is set makes the effect run again; 401 shows the form and   *)
(* asks for the session.  A request that fails is made again after a while.  *)
ConfigRead ==
  /\ config.is \in {"config", "401"}
  /\ config' = Idle("none")
  /\ IF config.is = "401"
     THEN form' = TRUE /\ AsksSession /\ UNCHANGED <<view, effect>>
     ELSE /\ configRules' = config.rules /\ liveRules' = None /\ effect' = TRUE
          /\ UNCHANGED <<shown, form, recheck>>
  /\ UNCHANGED <<server, login, ends, client, ack, breaks>>

(* The old socket is closed for good, and a new one opened. *)
EffectRuns ==
  /\ effect /\ NextSocket \in Sockets
  /\ effect' = FALSE /\ stopped' = FALSE
  /\ cur' = NextSocket /\ sock' = "opening"
  /\ side' = [c \in Sockets |-> IF c = NextSocket THEN "asked" ELSE IF c = cur THEN "gone" ELSE side[c]]
  /\ sid' = [sid EXCEPT ![NextSocket] = cookie]
  /\ chan' = [c \in Sockets |-> IF c = cur THEN <<>> ELSE chan[c]]
  /\ UNCHANGED <<server, login, alive, view, form, asked, breaks>>

(* loadSession after a 401: what the server says, or NO_SESSION. *)
SessionAnswered ==
  /\ "asked" \in recheck
  /\ recheck' = (recheck \ {"asked"}) \cup {IF SignedIn(cookie) THEN "in" ELSE "out"}
  /\ UNCHANGED <<server, login, ends, client, view, effect, form, config, ack, breaks>>

SessionRead(answer) ==
  /\ answer \in recheck /\ recheck' = recheck \ {answer}
  /\ form' = (form \/ answer = "out")
  /\ UNCHANGED <<server, login, ends, client, view, effect, config, ack, breaks>>

(* An alert acknowledged from the page: 409 once it is cleared. *)
Acknowledge(a) ==
  /\ ack = None /\ shown[a] = "open" /\ ~form /\ SignedIn(cookie)
  /\ Changes(a, {"open"}, "acked", "acknowledged")
  /\ ack' = a
  /\ UNCHANGED <<rules, login, client, view, effect, form, config, recheck, breaks>>

AckRead ==
  /\ ack # None /\ ack' = None
  /\ shown' = Applied("acknowledged", ack)
  /\ UNCHANGED <<server, login, ends, client, liveRules, configRules, effect, form, config, recheck, breaks>>

(***************************************************************************)
(* Signing in, here or in another tab, and out.                            *)
(***************************************************************************)
SignIn(here) ==
  /\ cookie < MaxSessions /\ cookie' = cookie + 1 /\ sessions' = sessions \cup {cookie + 1}
  /\ IF here THEN form /\ form' = FALSE /\ config' = Idle("asked") ELSE UNCHANGED <<form, config>>
  /\ UNCHANGED <<server, ends, client, view, effect, recheck, ack, breaks>>

SignOut ==
  /\ SignedIn(cookie) /\ sessions' = sessions \ {cookie}
  /\ form' = TRUE
  /\ UNCHANGED <<server, cookie, ends, client, view, effect, asked, breaks>>

Init ==
  /\ alert = [a \in Alerts |-> "new"] /\ rules = 0
  /\ sessions = {1} /\ cookie = 1
  /\ side = [c \in Sockets |-> "none"] /\ alive = [c \in Sockets |-> TRUE]
  /\ sid = [c \in Sockets |-> 0] /\ chan = [c \in Sockets |-> <<>>]
  /\ cur = None /\ sock = "none"
  /\ shown = [a \in Alerts |-> None] /\ liveRules = None /\ configRules = None
  /\ effect = FALSE /\ stopped = FALSE /\ form = FALSE
  /\ config = Idle("asked") /\ recheck = {} /\ ack = None /\ breaks = 0

Next ==
  \/ \E a \in Alerts : RaiseOrClear(a) \/ Acknowledge(a)
  \/ \E c \in Sockets : Accept(c) \/ Heartbeat(c) \/ Pong(c)
  \/ \E answer \in {"in", "out"} : SessionRead(answer)
  \/ \E here \in BOOLEAN : SignIn(here)
  \/ EditRules \/ Restart \/ Breaks \/ Retry \/ Receive
  \/ ConfigAnswered \/ ConfigRead \/ EffectRuns \/ SessionAnswered \/ AckRead \/ SignOut

Spec == Init /\ [][Next]_vars

(***************************************************************************)
(* Properties.                                                             *)
(***************************************************************************)
(* Once everything sent in a socket is read, the dashboard shows the alerts  *)
(* and the rules the server has, whatever it missed before and whichever of  *)
(* its answers came late (live-routes.ts:80-104, app.tsx:238-256).           *)
InStep ==
  sock = "open" /\ side[cur] = "open" /\ chan[cur] = <<>> /\ ~effect
    => shown = OpenAlerts /\ (IF liveRules # None THEN liveRules ELSE configRules) = rules

(* A dashboard that was told to sign in shows the form, or is about to ask   *)
(* again (web/src/core/live.ts:50: "Retrying can't help until someone signs  *)
(* in; the app shows the form").                                             *)
ShowsTheForm == stopped => form \/ recheck # {} \/ config.is # "none" \/ effect
=============================================================================
