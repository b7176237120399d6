---------------------------- MODULE Notifications ----------------------------
(***************************************************************************)
(* packages/notify: alert events become outbox rows (enqueue.ts), and one  *)
(* delivery lane per webhook sends them in order (sender.ts).  The alert   *)
(* engine is the environment here: in a check it closes and raises alerts  *)
(* as packages/alerts does, in one synchronous run that no lane, timer or  *)
(* delivery result interrupts; only the end of the process does.           *)
(***************************************************************************)
EXTENDS Outbox, Sequences

CONSTANTS
  Keys,                  \* the <<rule, metric>> pairs that can raise alerts
  Messages,              \* what a rule's alert may say
  AlertIds,              \* the ids the alerts table may use
  Severities,            \* the severities rules use: "warning", "critical"
  MinSeverity,           \* [Webhooks -> severity]: the webhook's minSeverity
  Events,                \* [Webhooks -> set of events]: what it listens to
  NotifyFiles,           \* the sets of webhooks a start may find configured
  FIRST_RETRY, MAX_RETRY, GIVE_UP_AFTER,
  CHANGED_CLEAR_DELAY, CLOCK_JUMP, PRUNE_AFTER, PRUNE_EVERY,
  Steps,                 \* how far the wall clock may be set at once
  MaxTime, MaxSets,      \* bounds: elapsed time, how often the wall clock is set
  MaxReceived,           \* bound: what one receiver gets
  Faults                 \* what may go wrong: "end", "stop", "db", "lost"

Rank == [severity \in {"warning", "critical"} |-> IF severity = "warning" THEN 0 ELSE 1]

ASSUME ConstantsAssumption ==
  /\ AlertIds \subseteq Nat \ {0}
  /\ Severities \subseteq DOMAIN Rank
  /\ MinSeverity \in [Webhooks -> DOMAIN Rank]
  /\ Events \in [Webhooks -> SUBSET NotificationEvents]
  /\ NotifyFiles \subseteq SUBSET Webhooks

ASSUME TimesAssumption ==
  /\ FIRST_RETRY \in Nat \ {0} /\ MAX_RETRY \in Nat \ {0} /\ FIRST_RETRY <= MAX_RETRY
  /\ GIVE_UP_AFTER \in Nat /\ CHANGED_CLEAR_DELAY \in Nat \ {0}
  /\ CLOCK_JUMP \in Nat \ {0} /\ PRUNE_AFTER \in Nat /\ PRUNE_EVERY \in Nat
  /\ Steps \subseteq Int /\ MaxTime \in Nat /\ MaxSets \in Nat /\ MaxReceived \in Nat
  /\ Faults \subseteq {"end", "stop", "db", "lost"}

VARIABLES
  wall, mono,            \* Date.now() and performance.now()
  sets,                  \* how often the wall clock has been set
  process,               \* "down", "running", or "stopping" once stop() is called
  configured,            \* the webhooks this process delivers to
  lastWall, lastMono,    \* the sender's previous reading of both clocks
  lastPrune,             \* when this process last pruned the table
  failing,               \* the statement that moves the rows will throw
  alerts,                \* the alerts table: id -> alert
  outbox,                \* the notifications table: id -> row
  lane,                  \* one delivery lane per webhook
  engine,                \* the check in progress
  emit,                  \* the event being turned into rows
  received,              \* what each receiver got, in order (outside the process)
  unseen,                \* history: wall-clock moves the rows were not moved with
  missed                 \* history: <<webhook, key>> pairs that lost a message

database == <<alerts, outbox>>
clocks == <<wall, mono, sets>>
sender == <<configured, lastWall, lastMono, lastPrune, failing, unseen>>
vars == <<clocks, process, sender, database, lane, engine, emit, received, missed>>

NoEvent == [pc |-> "none", type |-> "raised", alert |-> 0, nextAt |-> 0,
            todo |-> {}, queued |-> FALSE]
NoRow == [webhook |-> CHOOSE w \in Webhooks : TRUE, alert |-> 0, event |-> "raised",
          status |-> "pending", attempts |-> 0, nextAt |-> 0, createdAt |-> 0,
          doneAt |-> 0, born |-> 0]
IdleLane == [pc |-> "idle", again |-> FALSE, sent |-> FALSE, id |-> 0, row |-> NoRow,
             reached |-> FALSE]
NoCheck == [pc |-> "idle", t |-> 0, seen |-> {}]

Open == {a \in DOMAIN alerts : alerts[a].clearedBy = "open"}
OpenFor(k) == {a \in Open : alerts[a].key = k}

(***************************************************************************)
(* Who may run.  The engine's check, the enqueuer it calls and the start   *)
(* of a delivery it triggers are one synchronous run; a lane's             *)
(* continuation is a microtask, after that run and before anything else.   *)
(***************************************************************************)
NoLooking == \A w \in Webhooks : lane[w].pc # "looking"
Checking == engine.pc # "idle"
EngineRuns == process # "down" /\ Checking /\ emit.pc = "none" /\ NoLooking
Quiet == /\ ~Checking /\ emit.pc = "none"
         /\ \A w \in Webhooks : lane[w].pc \notin {"looking", "looped"}

(***************************************************************************)
(* The sender's now(): a wall-clock move of CLOCK_JUMP or more against the *)
(* monotonic clock moves every pending row with it, unless the statement   *)
(* throws.  The reading counts as the last one either way: a move the rows *)
(* did not follow is not noticed again.                                    *)
(***************************************************************************)
Jump == (wall - lastWall) - (mono - lastMono)
Noticed == Jump >= CLOCK_JUMP \/ -Jump >= CLOCK_JUMP
Shifts == Noticed /\ ~failing
Table == IF Shifts THEN ShiftPending(outbox, Jump) ELSE outbox
ReadClock ==
  /\ lastWall' = wall /\ lastMono' = mono /\ failing' = FALSE
  /\ unseen' = IF Shifts THEN unseen ELSE unseen + Jump
Elapsed == mono + IF Shifts THEN unseen ELSE unseen + Jump

RetryDelay(attempts) ==
  LET doubled == FIRST_RETRY * 2 ^ (IF attempts > 1 THEN attempts - 1 ELSE 0)
  IN  IF doubled \in 1 .. MAX_RETRY THEN doubled ELSE MAX_RETRY

PruneDue == wall - lastPrune >= PRUNE_EVERY \/ lastPrune - wall >= PRUNE_EVERY
(* Mutant: a busy lane is not told to look again. *)
WokenIfIdle == [w \in Webhooks |->
                  IF w \in configured /\ lane[w].pc = "idle"
                  THEN [IdleLane EXCEPT !.pc = "looking"] ELSE lane[w]]
(* Mutant: a lane never wakes from idle. *)
WokenIfBusy == [w \in Webhooks |->
                  IF w \notin configured \/ lane[w].pc = "idle" THEN lane[w]
                  ELSE [lane[w] EXCEPT !.again = TRUE]]
Woken == [w \in Webhooks |->
            IF w \notin configured THEN lane[w]
            ELSE IF lane[w].pc = "idle" THEN [IdleLane EXCEPT !.pc = "looking"]
            ELSE [lane[w] EXCEPT !.again = TRUE]]

(* maybePrune, then every lane: an idle one looks for work at once, a busy *)
(* one is told to look again.                                              *)
Wake ==
  /\ ReadClock
  /\ lane' = Woken
  /\ lastPrune' = IF PruneDue THEN wall ELSE lastPrune
  /\ outbox' = IF PruneDue THEN PruneNotifications(Table, wall - PRUNE_AFTER) ELSE Table

(***************************************************************************)
(* A delivery lane: drain() around sendNext().                             *)
(***************************************************************************)
Loops(w, sent) ==
  lane' = [lane EXCEPT ![w] = [pc |-> "looped", again |-> @.again, sent |-> sent,
                               id |-> 0, row |-> NoRow, reached |-> FALSE]]

(* Up to the await: the head of the queue, if there is one and it is due. *)
Looks(w) == process # "down" /\ lane[w].pc = "looking" /\ ReadClock

NothingPending(w) ==
  /\ Looks(w)
  /\ PendingOf(Table, w) = {}
  /\ outbox' = Table
  /\ Loops(w, FALSE)
  /\ UNCHANGED <<clocks, process, configured, lastPrune, alerts, engine, emit, received, missed>>

(* A head due further away than any retry is pulled in. *)
PullIn(w) ==
  /\ Looks(w)
  /\ \E id \in PendingOf(Table, w) :
       /\ IsHead(Table, w, id)
       /\ Table[id].nextAt - wall > MAX_RETRY
       /\ outbox' = SetNextAt(Table, id, wall + MAX_RETRY)
  /\ Loops(w, FALSE)
  /\ UNCHANGED <<clocks, process, configured, lastPrune, alerts, engine, emit, received, missed>>

NotDue(w) ==
  /\ Looks(w)
  /\ \E id \in PendingOf(Table, w) :
       /\ IsHead(Table, w, id)
       /\ Table[id].nextAt > wall /\ Table[id].nextAt - wall <= MAX_RETRY
  /\ outbox' = Table
  /\ Loops(w, FALSE)
  /\ UNCHANGED <<clocks, process, configured, lastPrune, alerts, engine, emit, received, missed>>

StartDelivery(w) ==
  /\ Looks(w)
  /\ \E id \in PendingOf(Table, w) :
       /\ IsHead(Table, w, id)
       /\ Table[id].nextAt <= wall
       /\ lane' = [lane EXCEPT ![w] = [pc |-> "delivering", again |-> @.again, sent |-> @.sent,
                                        id |-> id, row |-> Table[id], reached |-> FALSE]]
  /\ outbox' = Table
  /\ UNCHANGED <<clocks, process, configured, lastPrune, alerts, engine, emit, received, missed>>

(* The request arrives; whether its answer gets back is another matter. *)
ReceiverGets(w) ==
  /\ process # "down" /\ lane[w].pc = "delivering" /\ ~lane[w].reached
  /\ Len(received[w]) < MaxReceived
  /\ received' = [received EXCEPT ![w] = Append(@, <<lane[w].row.alert, lane[w].row.event>>)]
  /\ lane' = [lane EXCEPT ![w] = [@ EXCEPT !.reached = TRUE]]
  /\ UNCHANGED <<clocks, process, sender, database, engine, emit, missed>>

(* After the await. *)
Resumes(w) == process # "down" /\ Quiet /\ lane[w].pc = "delivering"

DeliverySucceeds(w) ==
  /\ Resumes(w) /\ lane[w].reached
  /\ ReadClock
  /\ outbox' = MarkSent(Table, lane[w].id, wall)
  /\ Loops(w, TRUE)
  /\ UNCHANGED <<clocks, process, configured, lastPrune, alerts, engine, emit, received, missed>>

(* createdAtOf, re-read because the row may have been shifted meanwhile. *)
CreatedAt(w) == IF lane[w].id \in DOMAIN Table THEN Table[lane[w].id].createdAt
                ELSE lane[w].row.createdAt
KeyOf(a) == IF a \in DOMAIN alerts THEN {alerts[a].key} ELSE {}

(* A refusal, a timeout, a lost answer, or a markSent that throws. *)
AttemptFails(w) ==
  /\ Resumes(w) /\ process = "running" /\ "lost" \in Faults
  /\ ReadClock
  /\ wall - CreatedAt(w) < GIVE_UP_AFTER
  /\ outbox' = MarkAttemptFailed(Table, lane[w].id, wall + RetryDelay(lane[w].row.attempts + 1))
  /\ Loops(w, FALSE)
  /\ UNCHANGED <<clocks, process, configured, lastPrune, alerts, engine, emit, received, missed>>

GivesUp(w) ==
  /\ Resumes(w) /\ process = "running" /\ "lost" \in Faults
  /\ ReadClock
  /\ wall - CreatedAt(w) >= GIVE_UP_AFTER
  /\ outbox' = MarkGivenUp(Table, lane[w].id, wall)
  /\ Loops(w, FALSE)
  /\ missed' = missed \cup ({w} \X KeyOf(lane[w].row.alert))
  /\ UNCHANGED <<clocks, process, configured, lastPrune, alerts, engine, emit, received>>

(* stop() aborted it: not an attempt. *)
DeliveryCut(w) ==
  /\ Resumes(w) /\ process = "stopping"
  /\ Loops(w, FALSE)
  /\ UNCHANGED <<clocks, process, sender, database, engine, emit, received, missed>>

(* The statement that records the outcome throws; drain() logs it. *)
RecordFails(w) ==
  /\ "db" \in Faults /\ Resumes(w) /\ process = "running"
  /\ ReadClock
  /\ outbox' = Table
  /\ Loops(w, FALSE)
  /\ UNCHANGED <<clocks, process, configured, lastPrune, alerts, engine, emit, received, missed>>

(* while (!stopped && (sent || again)), after the await of sendNext. *)
Continue(w) ==
  /\ process # "down" /\ ~Checking /\ emit.pc = "none" /\ NoLooking
  /\ lane[w].pc = "looped"
  /\ lane' = [lane EXCEPT ![w] =
               IF process = "running" /\ (@.sent \/ @.again)
               THEN [IdleLane EXCEPT !.pc = "looking"] ELSE IdleLane]
  /\ UNCHANGED <<clocks, process, sender, database, engine, emit, received, missed>>

(* setInterval(wake). *)
Timer ==
  /\ process = "running" /\ configured # {} /\ Quiet
  /\ Wake
  /\ UNCHANGED <<clocks, process, configured, alerts, engine, emit, received, missed>>

(***************************************************************************)
(* The enqueuer: one alert event becomes rows, one INSERT at a time, right *)
(* after the engine wrote the alert.  A process that ends, or a statement  *)
(* that throws, between two of these loses the rest of the event.          *)
(***************************************************************************)
Reaches(w, a) == Rank[alerts[a].severity] >= Rank[MinSeverity[w]]
Interested(type, a) == {w \in configured : type \in Events[w] /\ Reaches(w, a)}

(* closedByEdit: the newest alert an edit closed at the time a was raised. *)
ClosedAtRaise(a) == {b \in DOMAIN alerts : /\ alerts[b].key = alerts[a].key
                                           /\ alerts[b].clearedBy = "rule_changed"
                                           /\ alerts[b].clearedAt = alerts[a].raisedAt}
ClosedByEdit(a) == {b \in ClosedAtRaise(a) : \A c \in ClosedAtRaise(a) : c <= b}
SaysTheSame(a, b) == /\ alerts[a].severity = alerts[b].severity
                     /\ alerts[a].message = alerts[b].message

Handles(type) == process # "down" /\ NoLooking /\ emit.pc = "new" /\ emit.type = type

NotAnnounced ==
  /\ \/ Handles("cleared") /\ alerts[emit.alert].clearedBy = "rule_removed"
     \/ \E type \in NotificationEvents : Handles(type) /\ configured = {}
  /\ emit' = NoEvent
  /\ UNCHANGED <<clocks, process, sender, database, lane, engine, received, missed>>

QueueClear ==
  /\ Handles("cleared") /\ configured # {} /\ alerts[emit.alert].clearedBy # "rule_removed"
  /\ ReadClock
  /\ outbox' = Table
  /\ emit' = [emit EXCEPT !.pc = "inserting", !.todo = Interested("cleared", emit.alert),
                          !.nextAt = wall + IF alerts[emit.alert].clearedBy = "rule_changed"
                                            THEN CHANGED_CLEAR_DELAY ELSE 0]
  /\ UNCHANGED <<clocks, process, configured, lastPrune, alerts, lane, engine, received, missed>>

(* The clear an edit queued is superseded where the reopened alert reaches. *)
(* Mutant: withdraws the clear where the reopened alert does not reach. *)
SupersededForAll(b, a) == DeletePendingClears(outbox, b, configured)
Superseded(b, a) == DeletePendingClears(outbox, b, {w \in configured : Reaches(w, a)})

ReopenUnchanged ==
  /\ Handles("raised") /\ configured # {}
  /\ \E b \in ClosedByEdit(emit.alert) :
       SaysTheSame(b, emit.alert) /\ outbox' = Superseded(b, emit.alert)
  /\ emit' = NoEvent
  /\ UNCHANGED <<clocks, process, sender, alerts, lane, engine, received, missed>>

QueueRaise ==
  /\ Handles("raised") /\ configured # {}
  /\ \A b \in ClosedByEdit(emit.alert) : ~SaysTheSame(b, emit.alert)
  /\ ReadClock
  /\ LET left == IF ClosedByEdit(emit.alert) = {} THEN outbox
                 ELSE Superseded(CHOOSE b \in ClosedByEdit(emit.alert) : TRUE, emit.alert)
     IN  outbox' = IF Shifts THEN ShiftPending(left, Jump) ELSE left
  /\ emit' = [emit EXCEPT !.pc = "inserting", !.nextAt = wall,
                          !.todo = Interested("raised", emit.alert)]
  /\ UNCHANGED <<clocks, process, configured, lastPrune, alerts, lane, engine, received, missed>>

Inserts == process # "down" /\ NoLooking /\ emit.pc = "inserting"

InsertRow(w) ==
  /\ Inserts /\ w \in emit.todo
  /\ ReadClock
  /\ \E id \in Ids :
       /\ IsNextId(Table, id)
       /\ outbox' = InsertNotification(Table, id, w, emit.alert, emit.type,
                                       emit.nextAt, wall, Elapsed)
  /\ emit' = [emit EXCEPT !.todo = @ \ {w}, !.queued = TRUE]
  /\ UNCHANGED <<clocks, process, configured, lastPrune, alerts, lane, engine, received, missed>>

(* onQueued, unless stop() has been called. *)
WakeAfterQueue ==
  /\ Inserts /\ emit.todo = {} /\ emit.queued /\ process = "running"
  /\ Wake
  /\ emit' = NoEvent
  /\ UNCHANGED <<clocks, process, configured, alerts, engine, received, missed>>

NobodyToWake ==
  /\ Inserts /\ emit.todo = {} /\ (~emit.queued \/ process = "stopping")
  /\ emit' = NoEvent
  /\ UNCHANGED <<clocks, process, sender, database, lane, engine, received, missed>>

(* onError: the event, or what is left of it, is dropped. *)
Lost == IF emit.pc = "none" THEN {} ELSE Webhooks \X KeyOf(emit.alert)

EnqueueFails ==
  /\ "db" \in Faults /\ process # "down" /\ NoLooking
  /\ emit.pc = "new" \/ emit.todo # {}
  /\ configured # {}
  /\ emit' = NoEvent
  /\ missed' = missed \cup Lost
  /\ UNCHANGED <<clocks, process, sender, database, lane, engine, received>>

(***************************************************************************)
(* The engine: a check closes alerts whose rule is gone or was edited,     *)
(* then evaluates every rule once.  No two checks read the same            *)
(* millisecond.                                                            *)
(***************************************************************************)
Stamps == UNION {{alerts[a].raisedAt, alerts[a].clearedAt, alerts[a].clearedIn} : a \in DOMAIN alerts}

BeginCheck ==
  /\ process # "down" /\ Quiet
  /\ wall \notin Stamps
  /\ engine' = [pc |-> "closing", t |-> wall, seen |-> {}]
  /\ UNCHANGED <<clocks, process, sender, database, lane, emit, received, missed>>

Announce(type, a) == emit' = [pc |-> "new", type |-> type, alert |-> a, nextAt |-> 0,
                              todo |-> {}, queued |-> FALSE]

(* clearAlert: a clock that stepped back records no clear before the raise. *)
ClearAlert(a, by) ==
  /\ alerts' = [alerts EXCEPT ![a] =
                  [@ EXCEPT !.clearedBy = by, !.clearedIn = engine.t,
                            !.clearedAt = IF engine.t < alerts[a].raisedAt
                                           THEN alerts[a].raisedAt ELSE engine.t]]
  /\ Announce("cleared", a)
  /\ UNCHANGED <<clocks, process, sender, outbox, lane, received, missed>>

CloseChanged(a) ==
  /\ EngineRuns /\ engine.pc = "closing" /\ a \in Open
  /\ ClearAlert(a, "rule_changed")
  /\ UNCHANGED engine

CloseRemoved(a) ==
  /\ EngineRuns /\ engine.pc = "closing" /\ a \in Open
  /\ ClearAlert(a, "rule_removed")
  /\ engine' = [engine EXCEPT !.seen = @ \cup {alerts[a].key}]

ConditionClears(a) ==
  /\ EngineRuns /\ a \in Open /\ alerts[a].key \notin engine.seen
  /\ ClearAlert(a, "condition")
  /\ engine' = [engine EXCEPT !.pc = "evaluating", !.seen = @ \cup {alerts[a].key}]

ConditionRaises(k, severity, message) ==
  /\ EngineRuns /\ OpenFor(k) = {} /\ k \notin engine.seen
  /\ \E a \in AlertIds :
       /\ \A other \in DOMAIN alerts : other < a
       /\ a = 1 \/ a - 1 \in DOMAIN alerts
       /\ alerts' = [b \in DOMAIN alerts \cup {a} |->
                       IF b \in DOMAIN alerts THEN alerts[b]
                       ELSE [key |-> k, severity |-> severity, message |-> message,
                             raisedAt |-> engine.t, clearedAt |-> engine.t,
                             clearedIn |-> engine.t, clearedBy |-> "open"]]
       /\ Announce("raised", a)
  /\ engine' = [engine EXCEPT !.pc = "evaluating", !.seen = @ \cup {k}]
  /\ UNCHANGED <<clocks, process, sender, outbox, lane, received, missed>>

EndCheck ==
  /\ EngineRuns
  /\ engine' = NoCheck
  /\ UNCHANGED <<clocks, process, sender, database, lane, emit, received, missed>>

(***************************************************************************)
(* The process and the clocks.                                             *)
(***************************************************************************)
Starts(file) ==
  /\ process = "down"
  /\ process' = "running" /\ configured' = file
  /\ lastWall' = wall /\ lastMono' = mono /\ failing' = FALSE /\ unseen' = unseen + Jump
  /\ lastPrune' = wall
  /\ outbox' = PruneNotifications(FailRemovedWebhooks(outbox, file, wall), wall - PRUNE_AFTER)
  /\ lane' = [w \in Webhooks |-> IF w \in file THEN [IdleLane EXCEPT !.pc = "looking"] ELSE IdleLane]
  /\ missed' = missed \cup ((Webhooks \ file) \X Keys)
  /\ UNCHANGED <<clocks, alerts, engine, emit, received>>

(* stop(): the timer goes, deliveries are aborted, and lanes run out. *)
Stop ==
  /\ process = "running" /\ Quiet /\ "stop" \in Faults
  /\ process' = "stopping"
  /\ UNCHANGED <<clocks, sender, database, lane, engine, emit, received, missed>>

(* A crash or a power cut at any step, or the end stop() leads to.  The    *)
(* database stays; the rest of the process is gone.                        *)
Ends ==
  /\ process # "down" /\ ("end" \in Faults \/ process = "stopping")
  /\ process' = "down" /\ configured' = {} /\ lastPrune' = 0
  /\ lane' = [w \in Webhooks |-> IdleLane]
  /\ engine' = NoCheck /\ emit' = NoEvent
  /\ missed' = missed \cup Lost
  /\ UNCHANGED <<clocks, lastWall, lastMono, failing, unseen, database, received>>

Tick ==
  /\ Quiet /\ mono < MaxTime
  /\ wall' = wall + 1 /\ mono' = mono + 1
  /\ UNCHANGED <<sets, process, sender, database, lane, engine, emit, received, missed>>

(* The wall clock is set (a Pi has no clock chip: NTP, or a hand).  Whether *)
(* the sender, noticing, can move the rows is settled here.                 *)
ClockSet(step) ==
  /\ Quiet
  /\ sets < MaxSets
  /\ wall' = wall + step /\ sets' = sets + 1
  /\ failing' \in IF "db" \in Faults /\ process # "down" THEN BOOLEAN ELSE {FALSE}
  /\ UNCHANGED <<mono, process, configured, lastWall, lastMono, lastPrune, unseen,
                 database, lane, engine, emit, received, missed>>

Init ==
  /\ wall = 0 /\ mono = 0 /\ sets = 0
  /\ process = "down" /\ configured = {}
  /\ lastWall = 0 /\ lastMono = 0 /\ lastPrune = 0 /\ failing = FALSE /\ unseen = 0
  /\ alerts = << >> /\ outbox = << >>
  /\ lane = [w \in Webhooks |-> IdleLane]
  /\ engine = NoCheck /\ emit = NoEvent
  /\ received = [w \in Webhooks |-> << >>]
  /\ missed = {}

LaneStep(w) == \/ NothingPending(w) \/ PullIn(w) \/ NotDue(w) \/ StartDelivery(w)
               \/ DeliverySucceeds(w) \/ AttemptFails(w) \/ GivesUp(w)
               \/ DeliveryCut(w) \/ RecordFails(w) \/ Continue(w)

EnqueueStep == \/ NotAnnounced \/ QueueClear \/ ReopenUnchanged \/ QueueRaise
               \/ (\E w \in Webhooks : InsertRow(w))
               \/ WakeAfterQueue \/ NobodyToWake \/ EnqueueFails

EngineStep == \/ BeginCheck \/ EndCheck
              \/ (\E a \in AlertIds : CloseChanged(a) \/ CloseRemoved(a) \/ ConditionClears(a))
              \/ (\E k \in Keys, severity \in Severities, message \in Messages :
                     ConditionRaises(k, severity, message))

ProcessStep == Stop \/ Ends \/ \E file \in NotifyFiles : Starts(file)

Next == \/ (\E w \in Webhooks : LaneStep(w) \/ ReceiverGets(w))
        \/ EnqueueStep \/ EngineStep \/ ProcessStep
        \/ Timer \/ Tick \/ (\E step \in Steps : ClockSet(step))

Spec == Init /\ [][Next]_vars

(***************************************************************************)
(* Properties.                                                             *)
(***************************************************************************)
Alerts == [key: Keys, severity: Severities, message: Messages,
           raisedAt: Int, clearedAt: Int, clearedIn: Int,
           clearedBy: {"open", "condition", "rule_removed", "rule_changed"}]
Items == Nat \X NotificationEvents
Lanes == [pc: {"idle", "looking", "delivering", "looped"}, again: BOOLEAN, sent: BOOLEAN,
          id: Nat, row: Rows, reached: BOOLEAN]

(* Every variable keeps its type. *)
TypeOK ==
  /\ wall \in Int /\ mono \in Nat /\ sets \in Nat
  /\ process \in {"down", "running", "stopping"}
  /\ configured \in SUBSET Webhooks
  /\ lastWall \in Int /\ lastMono \in Int /\ lastPrune \in Int /\ failing \in BOOLEAN /\ unseen \in Int
  /\ DOMAIN alerts \subseteq AlertIds /\ alerts \in [DOMAIN alerts -> Alerts]
  /\ IsTable(outbox)
  /\ lane \in [Webhooks -> Lanes]
  /\ engine \in [pc: {"idle", "closing", "evaluating"}, t: Int, seen: SUBSET Keys]
  /\ emit \in [pc: {"none", "new", "inserting"}, type: NotificationEvents, alert: Nat,
               nextAt: Int, todo: SUBSET Webhooks, queued: BOOLEAN]
  /\ received \in [Webhooks -> Seq(Items)]
  /\ missed \in SUBSET (Webhooks \X Keys)

(* While a message is on its way nothing else touches its row: it is there,  *)
(* pending, the oldest of its webhook, and still says what is being sent.    *)
(* markSent and createdAtOf after the await therefore hit the right row,     *)
(* though ids are used again and an edit deletes rows (sender.ts:66-80,      *)
(* outbox.ts:98).                                                            *)
InFlightIsHead ==
  \A w \in Webhooks :
    lane[w].pc = "delivering" =>
      /\ IsHead(outbox, w, lane[w].id)
      /\ outbox[lane[w].id].alert = lane[w].row.alert
      /\ outbox[lane[w].id].event = lane[w].row.event
      /\ outbox[lane[w].id].attempts = lane[w].row.attempts

(* Why it holds.  A check reads one time, new to the alerts table, and what  *)
(* it closes for an edit is queued for later: so the only rows a reopening   *)
(* withdraws are of this check and not yet due.                              *)
EditClear(id) == /\ outbox[id].status = "pending" /\ outbox[id].event = "cleared"
                 /\ alerts[outbox[id].alert].clearedBy = "rule_changed"
                 /\ alerts[outbox[id].alert].clearedAt = engine.t

DownIsIdle == process = "down" =>
  /\ engine = NoCheck /\ emit = NoEvent /\ \A w \in Webhooks : lane[w] = IdleLane
CheckReadsOneTime == Checking => engine.t = wall
EventIsOfThisCheck == emit.pc # "none" =>
  /\ Checking /\ emit.alert \in DOMAIN alerts
  /\ emit.type = "raised" => alerts[emit.alert].raisedAt = engine.t
  /\ emit.type = "cleared" => alerts[emit.alert].clearedBy # "open"
  /\ (/\ emit.pc = "inserting" /\ emit.type = "cleared"
      /\ alerts[emit.alert].clearedBy = "rule_changed") => emit.nextAt > wall
ClearsAreOfClosed == \A id \in DOMAIN outbox : outbox[id].event = "cleared" =>
  outbox[id].alert \in DOMAIN alerts /\ alerts[outbox[id].alert].clearedBy # "open"
EditClearsWait == Checking => \A id \in DOMAIN outbox : EditClear(id) =>
  /\ outbox[id].nextAt > wall /\ lastWall = wall /\ lastMono = mono
  /\ \A w \in Webhooks : lane[w].pc = "delivering" => lane[w].id # id

InFlightInv == /\ DownIsIdle /\ CheckReadsOneTime /\ EventIsOfThisCheck /\ ClearsAreOfClosed
               /\ EditClearsWait /\ InFlightIsHead

(* While a process runs nothing waits for a webhook it does not serve: the   *)
(* rows of a webhook taken out of the notify file end as failed, so putting  *)
(* it back does not send old news (sender.ts:168-172).                       *)
PendingIsServed ==
  process = "running" =>
    \A id \in DOMAIN outbox : outbox[id].status = "pending" => outbox[id].webhook \in configured

(* A pending row's age on the wall clock is the time that passed since it    *)
(* was queued, whatever the clock was set to meanwhile: give-up after 6 h    *)
(* (sender.ts:73-80) is 6 h.  It is off by no more and no less than the      *)
(* moves the sender lets go: those too small to notice, those while no       *)
(* process ran, and those for which shiftPending threw, which now() logs and *)
(* never makes up for (sender.ts:144-160).                                   *)
AgeIsElapsed ==
  \A id \in DOMAIN outbox :
    outbox[id].status = "pending" =>
      lastWall - outbox[id].createdAt = lastMono + unseen - outbox[id].born

(* The last thing a receiver was told about a key, if anything. *)
ToldAbout(w, k) == {i \in 1 .. Len(received[w]) : alerts[received[w][i][1]].key = k}
LastTold(w, k) == {received[w][i] : i \in {i \in ToldAbout(w, k) : \A j \in ToldAbout(w, k) : j <= i}}
ReachingAlerts(w, k) == {a \in DOMAIN alerts : alerts[a].key = k /\ Reaches(w, a)}
NewestRemoved(w, k) ==
  \E a \in ReachingAlerts(w, k) : /\ alerts[a].clearedBy = "rule_removed"
                                  /\ \A b \in ReachingAlerts(w, k) : b <= a

(* With nothing queued for it, a receiver that listens to both events knows  *)
(* how things stand: told of the open alert as it is worded now, or told it  *)
(* is over.  Edits that close and reopen, the clears they withdraw, severity *)
(* changes across a webhook's minimum, restarts and resends included; a      *)
(* removed rule ends in silence by design (enqueue.ts:59-83).                *)
ReceiverInStep ==
  \A w \in configured, k \in Keys :
    ( /\ Quiet /\ process = "running"
      /\ Events[w] = NotificationEvents /\ <<w, k>> \notin missed
      /\ \A id \in PendingOf(outbox, w) : alerts[outbox[id].alert].key # k
      /\ ~NewestRemoved(w, k) )
    => IF \E a \in OpenFor(k) : Reaches(w, a)
       THEN \E a \in OpenFor(k) : \E told \in LastTold(w, k) :
              told[2] = "raised" /\ SaysTheSame(told[1], a)
       ELSE \A told \in LastTold(w, k) : told[2] = "cleared"

(* A new message never waits for the timer behind nothing: the lane that     *)
(* could send it looks again before it goes idle (sender.ts:213-247), unless *)
(* it has just given up the message before it.                               *)
BehindGivenUp(w, id) ==
  \E f \in DOMAIN outbox :
    /\ outbox[f].webhook = w /\ outbox[f].status = "failed" /\ f < id
    /\ \A between \in DOMAIN outbox : f < between /\ between < id => outbox[between].webhook # w
FreshHeadIsNoticed ==
  \A w \in configured :
    ( process = "running" /\ Quiet /\ lane[w].pc = "idle" )
    => \A id \in PendingOf(outbox, w) :
         IsHead(outbox, w, id) =>
           \/ outbox[id].attempts > 0 \/ outbox[id].nextAt > outbox[id].createdAt
           \/ BehindGivenUp(w, id)

(* b is the reopening of a: one check closed a because its rule was edited   *)
(* and raised b saying the same.                                             *)
ReopenedAs(a, b) == /\ alerts[a].key = alerts[b].key /\ alerts[a].clearedBy = "rule_changed"
                    /\ alerts[b].raisedAt = alerts[a].clearedIn /\ a < b
                    /\ SaysTheSame(a, b)
Told(w) == {received[w][n] : n \in 1 .. Len(received[w])}

(* "Editing a rule so its alert closes and reopens unchanged sends nothing"  *)
(* (docs/alerts.md:69): neither the close nor the reopening, unless the      *)
(* process ended in between and lost the rest of the event.                  *)
UnchangedReopenIsSilent ==
  \A a, b \in DOMAIN alerts :
    ReopenedAs(a, b) =>
      \A w \in Webhooks :
        <<w, alerts[b].key>> \notin missed =>
          <<a, "cleared">> \notin Told(w) /\ <<b, "raised">> \notin Told(w)

(***************************************************************************)
(* Node's event loop runs every callback that is ready: a lane's next      *)
(* step, the timer, a request's answer or its timeout, and the rest of a   *)
(* check.  A timer or an answer that is ready waits while other callbacks  *)
(* run, but not for ever (strong fairness).  Nothing obliges a process to  *)
(* end or start, a clock to be set, or a receiver to answer well.          *)
(***************************************************************************)
Fairness ==
  /\ WF_vars(EngineStep) /\ WF_vars(EnqueueStep) /\ SF_vars(Timer)
  /\ \A w \in Webhooks :
       /\ WF_vars(NothingPending(w) \/ PullIn(w) \/ NotDue(w) \/ StartDelivery(w) \/ Continue(w))
       /\ SF_vars(DeliverySucceeds(w) \/ AttemptFails(w) \/ GivesUp(w) \/ DeliveryCut(w))
FairSpec == Spec /\ Fairness

DueHead(w) == \E id \in PendingOf(outbox, w) : IsHead(outbox, w, id) /\ outbox[id].nextAt <= wall

(* While the process runs, the oldest message of a webhook, once due, is     *)
(* tried: sent, rescheduled or given up, whatever other queues do            *)
(* (sender.ts:211-265).                                                      *)
DueHeadIsTried ==
  \A w \in Webhooks :
    (process = "running" /\ w \in configured /\ DueHead(w))
      ~> (process # "running" \/ ~DueHead(w) \/ lane[w].pc = "delivering")
=============================================================================
