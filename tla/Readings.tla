------------------------------ MODULE Readings ------------------------------
(***************************************************************************)
(* The readings on the dashboard: one metric from its sensor               *)
(* (packages/collector/src/scheduler.ts) through the live socket           *)
(* (packages/api/src/live-routes.ts) and the history request               *)
(* (metrics-routes.ts) to the tile and its sparkline                       *)
(* (packages/web/src/core/store.ts, app.tsx).  The Pi's clock is set while *)
(* messages, answers and reconnections are under way; the browser's is     *)
(* right.                                                                  *)
(***************************************************************************)
EXTENDS Integers, Sequences, FiniteSets, SequencesExt

CONSTANTS
  None,
  CLOCK_STEP, LATEST_SLACK, WINDOW,      \* times, in ticks
  Sets,                                  \* what setting the clock adds to it
  MaxTime, MaxSets, MaxBreaks            \* bounds

ReadingsAssumption ==
  /\ CLOCK_STEP \in Nat /\ LATEST_SLACK \in Nat /\ WINDOW \in Nat /\ Sets \subseteq Int
  /\ MaxTime \in Nat /\ MaxSets \in Nat /\ MaxBreaks \in Nat

VARIABLES
  time, offset,          \* elapsed time, and the Pi's clock minus it
  metrics,               \* the table: readings, at most one for a stamp
  socket, sent,          \* the live socket, and what is sent and not yet read in it
  latest, series,        \* the tile: its value, and the points of its sparkline
  clockOffset,           \* the Pi's clock minus the browser's, as the page knows it
  connectedBefore,
  requests,              \* of history, in the order they were made
  reads,                 \* how many there were
  sets, breaks,          \* bounds
  heard                  \* history: a reading was pushed that no history had overtaken

pi == <<time, offset, metrics>>
state == <<latest, series>>
bounds == <<reads, sets, breaks>>
vars == <<pi, socket, sent, state, clockOffset, connectedBefore, requests, bounds, heard>>

Now == time + offset
Newest(samples) == CHOOSE s \in samples : \A r \in samples : r.ts <= s.ts
Ascending(points) == \A i \in 1 .. Len(points) - 1 : points[i].ts < points[i + 1].ts

(* Numbers in ascending order, and what is at some places of a list, as they  *)
(* come there.                                                                *)
InOrder(S) == CHOOSE f \in [1 .. Cardinality(S) -> S] : \A i, j \in DOMAIN f : i < j => f[i] < f[j]
At(list, places) == LET order == InOrder(places) IN [k \in DOMAIN order |-> list[order[k]]]

(***************************************************************************)
(* The Pi.                                                                 *)
(***************************************************************************)
ClockSet ==
  /\ sets < MaxSets /\ sets' = sets + 1
  /\ \E by \in Sets : offset' = offset + by
  /\ UNCHANGED <<time, metrics, socket, sent, state, clockOffset, connectedBefore, requests, reads, breaks, heard>>

(* At each poll a reading, if there is one, is stored, over one of the same    *)
(* stamp, and pushed.                                                          *)
Sample == [ts |-> Now + 1, n |-> reads + 1]
Push(message) == IF socket = "open" THEN Append(sent, message) ELSE sent
CollectAndStore ==
  /\ reads' = reads + 1
  /\ metrics' = {r \in metrics : r.ts # Now + 1} \cup {Sample}
  /\ sent' = Push([type |-> "sample", samples |-> <<Sample>>])
Poll ==
  /\ time < MaxTime /\ time' = time + 1
  /\ CollectAndStore \/ UNCHANGED <<reads, metrics, sent>>
  /\ UNCHANGED <<offset, socket, state, clockOffset, connectedBefore, requests, sets, breaks, heard>>

(* What a clock that read ahead has written is not the latest. *)
Recent == {r \in metrics : r.ts <= Now + LATEST_SLACK}
GetLatest == IF Recent = {} THEN <<>> ELSE <<Newest(Recent)>>

(* A socket is opened, and begins with a snapshot. *)
Connects ==
  /\ socket = "closed" /\ socket' = "open"
  /\ sent' = <<[type |-> "live"], [type |-> "snapshot", samples |-> GetLatest]>>
  /\ UNCHANGED <<pi, state, clockOffset, connectedBefore, requests, bounds, heard>>

Breaks ==
  /\ socket = "open" /\ breaks < MaxBreaks /\ breaks' = breaks + 1
  /\ socket' = "closed" /\ sent' = <<>> /\ heard' = FALSE
  /\ UNCHANGED <<pi, state, clockOffset, connectedBefore, requests, reads, sets>>

Done == [is |-> "done", from |-> None, samples |-> <<>>]

(* GET history: refused when the window lies ahead of the clock. *)
Reading(ts) == CHOOSE r \in metrics : r.ts = ts
Between(from, to) ==
  LET order == InOrder({r.ts : r \in {s \in metrics : from <= s.ts /\ s.ts <= to}})
  IN [k \in DOMAIN order |-> Reading(order[k])]
Answers(i) ==
  /\ requests[i].is = "asked"
  /\ requests' = [requests EXCEPT ![i] =
       IF @.from > Now THEN Done
       ELSE [is |-> "answered", from |-> @.from, samples |-> Between(@.from, Now)]]
  /\ UNCHANGED <<pi, socket, sent, state, clockOffset, connectedBefore, bounds, heard>>

(***************************************************************************)
(* store.ts                                                                *)
(***************************************************************************)
(* Mutant: a clock that stepped back is waited for. *)
NeverBack(current, candidate) == IF current = None THEN TRUE ELSE candidate.ts > current.ts
Newer(current, candidate) ==
  IF current = None THEN TRUE
  ELSE candidate.ts > current.ts \/ candidate.ts < current.ts - CLOCK_STEP

Shown(candidate) == IF Newer(latest, candidate) THEN candidate ELSE latest

(* The points of the series that came while the history was on its way. *)
NewerLive(samples) ==
  IF samples = <<>> THEN series
  ELSE At(series, {i \in DOMAIN series : /\ series[i].ts > Last(samples).ts
                                         /\ series[i].ts <= Last(samples).ts + CLOCK_STEP})

ApplyHistory(samples) ==
  /\ series' = samples \o NewerLive(samples)
  /\ latest' = IF samples = <<>> THEN latest ELSE Shown(Last(samples))

ApplySnapshot(samples) ==
  /\ latest' = IF samples = <<>> THEN latest ELSE Shown(samples[1])
  /\ UNCHANGED series

OutOfOrder(sample) == series # <<>> /\ sample.ts <= Last(series).ts
Duplicate(sample) == OutOfOrder(sample) /\ sample.ts >= Last(series).ts - CLOCK_STEP

ApplySample(sample) ==
  IF Duplicate(sample) THEN UNCHANGED state
  ELSE IF OutOfOrder(sample) THEN series' = <<sample>> /\ latest' = sample
  ELSE /\ series' = Append(At(series, {i \in DOMAIN series : series[i].ts >= sample.ts - WINDOW}), sample)
       /\ latest' = Shown(sample)

(***************************************************************************)
(* app.tsx                                                                 *)
(***************************************************************************)
LoadHistory == requests' =
  Append(requests, [is |-> "asked", from |-> time + clockOffset - WINDOW, samples |-> <<>>])

Receive ==
  /\ sent # <<>> /\ sent' = Tail(sent)
  /\ LET m == Head(sent) IN
     \/ /\ m.type = "live" /\ connectedBefore' = TRUE
        /\ IF connectedBefore THEN LoadHistory ELSE UNCHANGED requests
        /\ UNCHANGED <<state, clockOffset, heard>>
     \/ /\ m.type = "snapshot" /\ ApplySnapshot(m.samples) /\ heard' = FALSE
        /\ UNCHANGED <<clockOffset, connectedBefore, requests>>
     \/ /\ m.type = "sample" /\ ApplySample(m.samples[1])
        /\ heard' = (heard \/ ~Duplicate(m.samples[1]))
        /\ clockOffset' = m.samples[1].ts - time
        /\ UNCHANGED <<connectedBefore, requests>>
  /\ UNCHANGED <<pi, socket, bounds>>

HistoryRead(i) ==
  /\ requests[i].is = "answered" /\ requests' = [requests EXCEPT ![i] = Done]
  /\ ApplyHistory(requests[i].samples) /\ heard' = FALSE
  /\ UNCHANGED <<pi, socket, sent, clockOffset, connectedBefore, bounds>>

HistoryFails(i) ==
  /\ requests[i].is = "asked" /\ requests' = [requests EXCEPT ![i] = Done]
  /\ UNCHANGED <<pi, socket, sent, state, clockOffset, connectedBefore, bounds, heard>>

(* The page has its config, with the time of the server, and asks for history. *)
Init ==
  /\ time = 0 /\ offset = 0 /\ metrics = {} /\ socket = "closed" /\ sent = <<>>
  /\ latest = None /\ series = <<>> /\ clockOffset = 0 /\ connectedBefore = FALSE
  /\ requests = <<[is |-> "asked", from |-> 0 - WINDOW, samples |-> <<>>]>>
  /\ reads = 0 /\ sets = 0 /\ breaks = 0 /\ heard = FALSE

Next ==
  \/ Poll \/ ClockSet \/ Connects \/ Breaks \/ Receive
  \/ \E i \in DOMAIN requests : Answers(i) \/ HistoryRead(i) \/ HistoryFails(i)

Spec == Init /\ [][Next]_vars

(***************************************************************************)
(* Properties.                                                             *)
(***************************************************************************)
LastReading == CHOOSE r \in metrics : r.n = reads
Held(s) == s.ts - CLOCK_STEP <= LastReading.ts /\ LastReading.ts <= s.ts

(* Once a reading came that no history had overtaken, and all that was pushed *)
(* is read, the sparkline ends with the last reading and the tile shows it,   *)
(* but for one stamped a little later that a clock which stepped back has yet *)
(* to pass; so nothing from a clock that read far ahead stays, whatever       *)
(* snapshot or history brings it (store.ts:14-18: "anything further starts    *)
(* again from the new time instead of waiting for it to catch up").  And a    *)
(* sparkline's points are in order.                                           *)
ShowsThePresent ==
  /\ socket = "open" /\ sent = <<>> /\ heard =>
       IF Last(series) = LastReading THEN latest = LastReading \/ Held(latest)
       ELSE Held(Last(series))
  /\ Ascending(series)
=============================================================================
