------------------------ MODULE NotificationsProofs ------------------------
(***************************************************************************)
(* What holds of Notifications for every set of webhooks, rules, delays    *)
(* and clock settings.                                                     *)
(***************************************************************************)
EXTENDS NotificationsFifo, TLAPS

(***************************************************************************)
(* The statements of the outbox.                                           *)
(***************************************************************************)

(* shiftPending moves times and nothing else. *)
LEMMA ShiftKeeps ==
  ASSUME NEW t, IsTable(t), NEW ms \in Int
  PROVE  /\ IsTable(ShiftPending(t, ms)) /\ DOMAIN ShiftPending(t, ms) = DOMAIN t
         /\ \A i \in DOMAIN t : /\ ShiftPending(t, ms)[i].webhook = t[i].webhook
                                /\ ShiftPending(t, ms)[i].status = t[i].status
                                /\ ShiftPending(t, ms)[i].attempts = t[i].attempts
                                /\ ShiftPending(t, ms)[i].alert = t[i].alert
                                /\ ShiftPending(t, ms)[i].event = t[i].event
                                /\ ShiftPending(t, ms)[i].born = t[i].born
<1>1. DOMAIN ShiftPending(t, ms) = DOMAIN t
  BY DEF ShiftPending
<1>2. ASSUME NEW i \in DOMAIN t
      PROVE  /\ ShiftPending(t, ms)[i] \in Rows
             /\ ShiftPending(t, ms)[i].webhook = t[i].webhook
             /\ ShiftPending(t, ms)[i].status = t[i].status
             /\ ShiftPending(t, ms)[i].attempts = t[i].attempts
             /\ ShiftPending(t, ms)[i].alert = t[i].alert
             /\ ShiftPending(t, ms)[i].event = t[i].event
             /\ ShiftPending(t, ms)[i].born = t[i].born
  <2>1. t[i] \in Rows
    BY DEF IsTable
  <2>2. t[i].createdAt + ms \in Int /\ t[i].nextAt + ms \in Int
    BY <2>1 DEF Rows
  <2>3. CASE t[i].status = "pending"
    <3>1. ShiftPending(t, ms)[i] = [t[i] EXCEPT !.createdAt = t[i].createdAt + ms,
                                               !.nextAt = t[i].nextAt + ms]
      BY <2>3 DEF ShiftPending
    <3> QED
      BY <2>1, <2>2, <3>1 DEF Rows
  <2>4. CASE t[i].status # "pending"
    BY <2>1, <2>4 DEF ShiftPending
  <2> QED
    BY <2>3, <2>4
<1>3. ShiftPending(t, ms) \in [DOMAIN t -> Rows]
  BY <1>1, <1>2 DEF ShiftPending
<1> QED
  BY <1>1, <1>2, <1>3 DEF IsTable

(* An UPDATE of one row leaves a table, with the same rows in it. *)
LEMMA UpdateKeeps ==
  ASSUME NEW t, IsTable(t), NEW id, NEW row, id \in DOMAIN t => row \in Rows
  PROVE  /\ IsTable(Update(t, id, row)) /\ DOMAIN Update(t, id, row) = DOMAIN t
         /\ \A i \in DOMAIN t : Update(t, id, row)[i] = IF i = id THEN row ELSE t[i]
  BY DEF Update, With, IsTable

(* A DELETE leaves a table, with the other rows as they were. *)
LEMMA WithoutKeeps ==
  ASSUME NEW t, IsTable(t), NEW gone
  PROVE  /\ IsTable(Without(t, gone)) /\ DOMAIN Without(t, gone) = DOMAIN t \ gone
         /\ \A i \in DOMAIN t \ gone : Without(t, gone)[i] = t[i]
  BY DEF Without, IsTable

(* An INSERT adds the one row. *)
LEMMA InsertAdds ==
  ASSUME NEW t, IsTable(t), NEW id, IsNextId(t, id), NEW w \in Webhooks, NEW a \in Nat,
         NEW e \in NotificationEvents, NEW next \in Int, NEW at \in Int, NEW b \in Int
  PROVE  LET u == InsertNotification(t, id, w, a, e, next, at, b)
         IN  /\ IsTable(u) /\ DOMAIN u = DOMAIN t \cup {id} /\ id \notin DOMAIN t
             /\ \A i \in DOMAIN t : u[i] = t[i] /\ i < id
             /\ u[id] = [webhook |-> w, alert |-> a, event |-> e, status |-> "pending",
                         attempts |-> 0, nextAt |-> next, createdAt |-> at,
                         doneAt |-> 0, born |-> b]
<1> DEFINE row == [webhook |-> w, alert |-> a, event |-> e, status |-> "pending",
                   attempts |-> 0, nextAt |-> next, createdAt |-> at, doneAt |-> 0, born |-> b]
           u == InsertNotification(t, id, w, a, e, next, at, b)
<1>1. row \in Rows
  BY DEF Rows, Statuses
<1>2. id \in Ids /\ \A i \in DOMAIN t : i < id
  BY DEF IsNextId
<1>3. id \notin DOMAIN t
  BY <1>2, IdsAssumption
<1>4. u = With(t, id, row)
  BY DEF InsertNotification
<1> QED
  BY <1>1, <1>2, <1>3, <1>4 DEF With, IsTable

(* The UPDATEs of one row: they set its status, times and attempts. *)
OneRowUpdates(t, id, at) == {MarkSent(t, id, at), MarkAttemptFailed(t, id, at),
                             MarkGivenUp(t, id, at), SetNextAt(t, id, at)}

LEMMA RowUpdates ==
  ASSUME NEW t, IsTable(t), NEW id, NEW at \in Int, NEW u \in OneRowUpdates(t, id, at)
  PROVE  /\ IsTable(u) /\ DOMAIN u = DOMAIN t /\ \A i \in DOMAIN t \ {id} : u[i] = t[i]
         /\ id \in DOMAIN t => /\ u[id].webhook = t[id].webhook /\ u[id].alert = t[id].alert
                               /\ u[id].event = t[id].event /\ u[id].born = t[id].born
                               /\ u[id].createdAt = t[id].createdAt
                               /\ u[id].status = "pending" => t[id].status = "pending"
<1> DEFINE Rest(row) == /\ row.webhook = t[id].webhook /\ row.alert = t[id].alert
                        /\ row.event = t[id].event /\ row.born = t[id].born
                        /\ row.createdAt = t[id].createdAt
                        /\ row.status = "pending" => t[id].status = "pending"
<1>1. id \in DOMAIN t => t[id] \in Rows /\ t[id].attempts + 1 \in Nat
  BY DEF IsTable, Rows
<1>2. ASSUME NEW row, u = Update(t, id, row), id \in DOMAIN t => row \in Rows /\ Rest(row)
      PROVE  /\ IsTable(u) /\ DOMAIN u = DOMAIN t /\ \A i \in DOMAIN t \ {id} : u[i] = t[i]
             /\ id \in DOMAIN t => Rest(u[id])
  <2>1. /\ IsTable(u) /\ DOMAIN u = DOMAIN t
        /\ \A i \in DOMAIN t : u[i] = IF i = id THEN row ELSE t[i]
    BY <1>2, UpdateKeeps
  <2> QED
    BY <1>2, <2>1
<1>3. CASE u = MarkSent(t, id, at)
  <2> DEFINE row == [t[id] EXCEPT !.status = "sent", !.doneAt = at, !.attempts = @ + 1]
  <2>1. u = Update(t, id, row)
    BY <1>3 DEF MarkSent
  <2>2. id \in DOMAIN t => row \in Rows /\ Rest(row)
    BY <1>1 DEF Rows, Statuses
  <2> QED
    BY <1>2, <2>1, <2>2
<1>4. CASE u = MarkAttemptFailed(t, id, at)
  <2> DEFINE row == [t[id] EXCEPT !.attempts = @ + 1, !.nextAt = at]
  <2>1. u = Update(t, id, row)
    BY <1>4 DEF MarkAttemptFailed
  <2>2. id \in DOMAIN t => row \in Rows /\ Rest(row)
    BY <1>1 DEF Rows
  <2> QED
    BY <1>2, <2>1, <2>2
<1>5. CASE u = MarkGivenUp(t, id, at)
  <2> DEFINE row == [t[id] EXCEPT !.status = "failed", !.doneAt = at, !.attempts = @ + 1]
  <2>1. u = Update(t, id, row)
    BY <1>5 DEF MarkGivenUp
  <2>2. id \in DOMAIN t => row \in Rows /\ Rest(row)
    BY <1>1 DEF Rows, Statuses
  <2> QED
    BY <1>2, <2>1, <2>2
<1>6. CASE u = SetNextAt(t, id, at)
  <2> DEFINE row == [t[id] EXCEPT !.nextAt = at]
  <2>1. u = Update(t, id, row)
    BY <1>6 DEF SetNextAt
  <2>2. id \in DOMAIN t => row \in Rows /\ Rest(row)
    BY <1>1 DEF Rows
  <2> QED
    BY <1>2, <2>1, <2>2
<1> QED
  BY <1>3, <1>4, <1>5, <1>6 DEF OneRowUpdates

(* Ids are numbers, so a table has at most one oldest pending row. *)
LEMMA HeadIsPending ==
  ASSUME NEW t, IsTable(t), NEW w, NEW id, IsHead(t, w, id)
  PROVE  id \in DOMAIN t /\ id \in Nat /\ t[id].webhook = w /\ t[id].status = "pending"
  BY IdsAssumption DEF IsHead, PendingOf, IsTable

(* A head stays one when it stays pending and no older row becomes pending. *)
LEMMA HeadStays ==
  ASSUME NEW t, NEW u, NEW w, NEW id, IsHead(t, w, id), id \in PendingOf(u, w),
         \A i \in PendingOf(u, w) : i \in PendingOf(t, w) \/ id <= i
  PROVE  IsHead(u, w, id)
  BY DEF IsHead

-----------------------------------------------------------------------------
(***************************************************************************)
(* Types.                                                                  *)
(***************************************************************************)
LEMMA NoRowType == Webhooks # {} => NoRow \in Rows
  BY DEF NoRow, Rows, NotificationEvents, Statuses

LEMMA IdleLaneType == Webhooks # {} => IdleLane \in Lanes
  BY NoRowType DEF IdleLane, Lanes

(* The backoff is between the first delay and the longest. *)
LEMMA RetryDelayType == \A n : RetryDelay(n) \in 1 .. MAX_RETRY
<1>1. ASSUME NEW d PROVE (IF d \in 1 .. MAX_RETRY THEN d ELSE MAX_RETRY) \in 1 .. MAX_RETRY
  BY TimesAssumption
<1> QED
  BY <1>1 DEF RetryDelay

(* now() leaves a table: the same rows, pending ones perhaps at other times. *)
LEMMA TableKeeps ==
  ASSUME TypeOK
  PROVE  /\ Jump \in Int /\ IsTable(Table) /\ DOMAIN Table = DOMAIN outbox
         /\ \A i \in DOMAIN outbox : /\ Table[i].webhook = outbox[i].webhook
                                     /\ Table[i].status = outbox[i].status
                                     /\ Table[i].attempts = outbox[i].attempts
                                     /\ Table[i].alert = outbox[i].alert
                                     /\ Table[i].event = outbox[i].event
                                     /\ Table[i].born = outbox[i].born
<1>1. Jump \in Int /\ IsTable(outbox)
  BY DEF TypeOK, Jump
<1> QED
  BY <1>1, ShiftKeeps DEF Table

LEMMA ReadClockType ==
  ASSUME TypeOK, ReadClock
  PROVE  lastWall' \in Int /\ lastMono' \in Int /\ unseen' \in Int /\ failing' \in BOOLEAN
<1>1. wall \in Int /\ mono \in Int /\ unseen \in Int /\ Jump \in Int
  BY TableKeeps DEF TypeOK
<1>2. lastWall' \in Int /\ lastMono' \in Int /\ unseen' \in Int
  BY <1>1 DEF ReadClock
<1>3. failing' \in BOOLEAN
  BY DEF ReadClock
<1> QED
  BY <1>2, <1>3

LEMMA LoopsType ==
  ASSUME TypeOK, NEW w \in Webhooks, NEW sent \in BOOLEAN, Loops(w, sent)
  PROVE  lane' \in [Webhooks -> Lanes]
  BY NoRowType DEF TypeOK, Loops, Lanes

LEMMA WakeType ==
  ASSUME TypeOK, Wake
  PROVE  /\ lastWall' \in Int /\ lastMono' \in Int /\ unseen' \in Int /\ lastPrune' \in Int
         /\ failing' \in BOOLEAN /\ lane' \in [Webhooks -> Lanes] /\ IsTable(outbox')
<1>1. IsTable(outbox')
  BY TableKeeps, WithoutKeeps DEF Wake, PruneNotifications
<1>2. lane' \in [Webhooks -> Lanes]
  <2>1. lane \in [Webhooks -> Lanes]
    BY DEF TypeOK
  <2>2. \A l \in Lanes : [l EXCEPT !.again = TRUE] \in Lanes /\ [l EXCEPT !.pc = "looking"] \in Lanes
    BY DEF Lanes
  <2>3. lane' = Woken
    BY DEF Wake
  <2> QED
    BY <2>1, <2>2, <2>3, IdleLaneType DEF Woken
<1>3. lastPrune' \in Int
  BY DEF Wake, TypeOK
<1> QED
  BY <1>1, <1>2, <1>3, ReadClockType DEF Wake

LEMMA KeyOfType ==
  ASSUME TypeOK, NEW a
  PROVE  KeyOf(a) \subseteq Keys
  BY DEF TypeOK, KeyOf, Alerts
LEMMA TypeInit == Init => TypeOK
<1> SUFFICES ASSUME Init PROVE TypeOK
  OBVIOUS
<1>1. IsTable(outbox) /\ alerts \in [DOMAIN alerts -> Alerts] /\ DOMAIN alerts \subseteq AlertIds
  BY DEF Init, IsTable
<1>2. lane \in [Webhooks -> Lanes]
  BY IdleLaneType DEF Init
<1>3. received \in [Webhooks -> Seq(Items)]
  BY DEF Init
<1>4. failing \in BOOLEAN
  BY DEF Init
<1> QED
  BY <1>1, <1>2, <1>3, <1>4 DEF Init, TypeOK, NoCheck, NoEvent, NotificationEvents

(* A lane's own steps. *)
LEMMA TypeLane ==
  ASSUME TypeOK, NEW w \in Webhooks, LaneStep(w) \/ ReceiverGets(w)
  PROVE  TypeOK'
<1> USE DEF clocks, sender, database
<1>1. CASE NothingPending(w)
  BY <1>1, TableKeeps, ReadClockType, LoopsType DEF TypeOK, NothingPending, Looks
<1>2. CASE PullIn(w)
  <2>1. PICK id \in PendingOf(Table, w) : outbox' = SetNextAt(Table, id, wall + MAX_RETRY)
    BY <1>2 DEF PullIn
  <2>2. wall \in Int /\ MAX_RETRY \in Int
    <3>1. wall \in Int
      BY DEF TypeOK
    <3>2. MAX_RETRY \in Int
      BY TimesAssumption
    <3> QED
      BY <3>1, <3>2
  <2>3. wall + MAX_RETRY \in Int
    BY <2>2
  <2>4. \A at \in Int : IsTable(SetNextAt(Table, id, at))
    BY TableKeeps, RowUpdates DEF OneRowUpdates
  <2> QED
    BY <1>2, <2>1, <2>3, <2>4, ReadClockType, LoopsType DEF TypeOK, PullIn, Looks
<1>3. CASE NotDue(w)
  BY <1>3, TableKeeps, ReadClockType, LoopsType DEF TypeOK, NotDue, Looks
<1>4. CASE StartDelivery(w)
  <2>1. PICK id \in PendingOf(Table, w) :
           lane' = [lane EXCEPT ![w] = [pc |-> "delivering", again |-> @.again, sent |-> @.sent,
                                        id |-> id, row |-> Table[id], reached |-> FALSE]]
    BY <1>4 DEF StartDelivery
  <2>2. id \in Nat /\ Table[id] \in Rows
    BY TableKeeps, IdsAssumption DEF PendingOf, IsTable
  <2>3. lane' \in [Webhooks -> Lanes]
    BY <2>1, <2>2 DEF TypeOK, Lanes
  <2> QED
    BY <1>4, <2>3, TableKeeps, ReadClockType DEF TypeOK, StartDelivery, Looks
<1>5. CASE DeliverySucceeds(w)
  <2>1. IsTable(outbox')
    BY <1>5, TableKeeps, RowUpdates DEF DeliverySucceeds, TypeOK, OneRowUpdates
  <2> QED
    BY <1>5, <2>1, ReadClockType, LoopsType DEF TypeOK, DeliverySucceeds
<1>6. CASE AttemptFails(w)
  <2>1. IsTable(outbox')
    <3>1. wall + RetryDelay(lane[w].row.attempts + 1) \in Int
      BY RetryDelayType DEF TypeOK
    <3> QED
      BY <1>6, <3>1, TableKeeps, RowUpdates DEF AttemptFails, OneRowUpdates
  <2> QED
    BY <1>6, <2>1, ReadClockType, LoopsType DEF TypeOK, AttemptFails
<1>7. CASE GivesUp(w)
  <2>1. IsTable(outbox')
    BY <1>7, TableKeeps, RowUpdates DEF GivesUp, TypeOK, OneRowUpdates
  <2>2. missed' \in SUBSET (Webhooks \X Keys)
    BY <1>7, KeyOfType DEF TypeOK, GivesUp
  <2> QED
    BY <1>7, <2>1, <2>2, ReadClockType, LoopsType DEF TypeOK, GivesUp
<1>8. CASE DeliveryCut(w)
  BY <1>8, LoopsType DEF TypeOK, DeliveryCut
<1>9. CASE RecordFails(w)
  BY <1>9, TableKeeps, ReadClockType, LoopsType DEF TypeOK, RecordFails
<1>10. CASE Continue(w)
  <2>1. lane' \in [Webhooks -> Lanes]
    BY <1>10, IdleLaneType DEF Continue, TypeOK, Lanes
  <2> QED
    BY <1>10, <2>1 DEF TypeOK, Continue
<1>11. CASE ReceiverGets(w)
  <2>1. <<lane[w].row.alert, lane[w].row.event>> \in Items
    BY DEF TypeOK, Lanes, Rows, Items
  <2>2. received' \in [Webhooks -> Seq(Items)]
    BY <1>11, <2>1 DEF ReceiverGets, TypeOK
  <2>3. lane' \in [Webhooks -> Lanes]
    <3>1. [lane[w] EXCEPT !.reached = TRUE] \in Lanes
      <4>1. lane[w] \in Lanes
        BY DEF TypeOK
      <4> HIDE DEF TypeOK
      <4> QED
        BY <4>1 DEF Lanes
    <3> QED
      BY <1>11, <3>1 DEF ReceiverGets, TypeOK
  <2> QED
    BY <1>11, <2>2, <2>3 DEF TypeOK, ReceiverGets
<1> QED
  BY <1>1, <1>2, <1>3, <1>4, <1>5, <1>6, <1>7, <1>8, <1>9, <1>10, <1>11 DEF LaneStep

(* The enqueuer. *)
LEMMA SupersededType ==
  ASSUME TypeOK, NEW b, NEW a
  PROVE  IsTable(Superseded(b, a)) /\ DOMAIN Superseded(b, a) \subseteq DOMAIN outbox
<1>1. IsTable(outbox)
  BY DEF TypeOK
<1>2. \E gone : Superseded(b, a) = Without(outbox, gone)
  BY DEF Superseded, DeletePendingClears
<1>3. PICK gone : Superseded(b, a) = Without(outbox, gone)
  BY <1>2
<1>4. IsTable(Without(outbox, gone)) /\ DOMAIN Without(outbox, gone) = DOMAIN outbox \ gone
  BY <1>1, WithoutKeeps
<1> QED
  BY <1>3, <1>4

LEMMA LostType == TypeOK => Lost \subseteq Webhooks \X Keys
  BY KeyOfType DEF Lost

LEMMA TypeEnqueue ==
  ASSUME TypeOK, EnqueueStep
  PROVE  TypeOK'
<1> USE DEF clocks, sender, database
<1>0. NoEvent \in [pc: {"none", "new", "inserting"}, type: NotificationEvents, alert: Nat,
                   nextAt: Int, todo: SUBSET Webhooks, queued: BOOLEAN]
  BY DEF NoEvent, NotificationEvents
<1>1. CASE NotAnnounced
  BY <1>0, <1>1 DEF TypeOK, NotAnnounced
<1>2. CASE QueueClear
  <2>1. Interested("cleared", emit.alert) \in SUBSET Webhooks
    BY DEF Interested, TypeOK
  <2>2. wall + (IF alerts[emit.alert].clearedBy = "rule_changed" THEN CHANGED_CLEAR_DELAY ELSE 0) \in Int
    <3>1. wall \in Int
      BY DEF TypeOK
    <3> QED
      BY <3>1, TimesAssumption
  <2>3. emit' \in [pc: {"none", "new", "inserting"}, type: NotificationEvents, alert: Nat,
                   nextAt: Int, todo: SUBSET Webhooks, queued: BOOLEAN]
    BY <1>2, <2>1, <2>2 DEF QueueClear, TypeOK
  <2> QED
    BY <1>2, <2>3, TableKeeps, ReadClockType DEF TypeOK, QueueClear
<1>3. CASE ReopenUnchanged
  <2>1. IsTable(outbox')
    BY <1>3, SupersededType DEF ReopenUnchanged
  <2> QED
    BY <1>0, <1>3, <2>1 DEF TypeOK, ReopenUnchanged
<1>4. CASE QueueRaise
  <2> DEFINE left == IF ClosedByEdit(emit.alert) = {} THEN outbox
                     ELSE Superseded(CHOOSE b \in ClosedByEdit(emit.alert) : TRUE, emit.alert)
  <2>1. IsTable(left)
    BY SupersededType DEF TypeOK
  <2>2. outbox' = IF Shifts THEN ShiftPending(left, Jump) ELSE left
    BY <1>4 DEF QueueRaise
  <2> HIDE DEF left
  <2>3. IsTable(outbox')
    BY <2>1, <2>2, TableKeeps, ShiftKeeps
  <2>4. Interested("raised", emit.alert) \in SUBSET Webhooks
    BY DEF Interested, TypeOK
  <2>5. emit' \in [pc: {"none", "new", "inserting"}, type: NotificationEvents, alert: Nat,
                   nextAt: Int, todo: SUBSET Webhooks, queued: BOOLEAN]
    BY <1>4, <2>4 DEF QueueRaise, TypeOK
  <2> QED
    BY <1>4, <2>3, <2>5, ReadClockType DEF TypeOK, QueueRaise
<1>5. CASE \E w \in Webhooks : InsertRow(w)
  <2>1. PICK w \in Webhooks : InsertRow(w)
    BY <1>5
  <2>2. PICK id \in Ids : /\ IsNextId(Table, id)
                          /\ outbox' = InsertNotification(Table, id, w, emit.alert, emit.type,
                                                          emit.nextAt, wall, Elapsed)
    BY <2>1 DEF InsertRow
  <2>3. Elapsed \in Int
    BY TableKeeps DEF Elapsed, TypeOK
  <2>4. IsTable(outbox')
    BY <2>2, <2>3, TableKeeps, InsertAdds DEF TypeOK
  <2>5. emit' \in [pc: {"none", "new", "inserting"}, type: NotificationEvents, alert: Nat,
                   nextAt: Int, todo: SUBSET Webhooks, queued: BOOLEAN]
    BY <2>1 DEF InsertRow, TypeOK
  <2> QED
    BY <2>1, <2>4, <2>5, ReadClockType DEF TypeOK, InsertRow
<1>6. CASE WakeAfterQueue
  BY <1>0, <1>6, WakeType DEF TypeOK, WakeAfterQueue
<1>7. CASE NobodyToWake
  BY <1>0, <1>7 DEF TypeOK, NobodyToWake
<1>8. CASE EnqueueFails
  <2>1. missed' \in SUBSET (Webhooks \X Keys)
    BY <1>8, LostType DEF TypeOK, EnqueueFails
  <2> QED
    BY <1>0, <1>8, <2>1 DEF TypeOK, EnqueueFails
<1> QED
  BY <1>1, <1>2, <1>3, <1>4, <1>5, <1>6, <1>7, <1>8 DEF EnqueueStep

(* The engine. *)
LEMMA ClearAlertType ==
  ASSUME TypeOK, NEW a \in Open, NEW by \in {"condition", "rule_removed", "rule_changed"},
         ClearAlert(a, by)
  PROVE  /\ DOMAIN alerts' = DOMAIN alerts /\ alerts' \in [DOMAIN alerts -> Alerts]
         /\ \A b \in DOMAIN alerts \ {a} : alerts'[b] = alerts[b]
         /\ alerts'[a].clearedBy = by /\ alerts'[a].raisedAt = alerts[a].raisedAt
         /\ alerts'[a].key = alerts[a].key
         /\ alerts'[a].clearedAt \in {engine.t, alerts[a].raisedAt}
         /\ emit'.pc = "new" /\ emit'.type = "cleared" /\ emit'.alert = a
         /\ emit' \in [pc: {"none", "new", "inserting"}, type: NotificationEvents, alert: Nat,
                       nextAt: Int, todo: SUBSET Webhooks, queued: BOOLEAN]
<1>1. a \in DOMAIN alerts /\ a \in Nat /\ alerts[a] \in Alerts /\ engine.t \in Int
  BY ConstantsAssumption DEF Open, TypeOK
<1> DEFINE at == IF engine.t < alerts[a].raisedAt THEN alerts[a].raisedAt ELSE engine.t
           row == [alerts[a] EXCEPT !.clearedBy = by, !.clearedIn = engine.t, !.clearedAt = at]
<1>2. at \in Int /\ at \in {engine.t, alerts[a].raisedAt}
  BY <1>1 DEF Alerts
<1>3. alerts' = [alerts EXCEPT ![a] = row]
  BY DEF ClearAlert
<1> HIDE DEF at
<1>4. row \in Alerts /\ row.clearedBy = by /\ row.raisedAt = alerts[a].raisedAt
      /\ row.key = alerts[a].key /\ row.clearedAt = at
  BY <1>1, <1>2 DEF Alerts
<1> HIDE DEF row
<1>5. /\ emit'.pc = "new" /\ emit'.type = "cleared" /\ emit'.alert = a
      /\ emit' \in [pc: {"none", "new", "inserting"}, type: NotificationEvents, alert: Nat,
                    nextAt: Int, todo: SUBSET Webhooks, queued: BOOLEAN]
  BY <1>1 DEF ClearAlert, Announce, NotificationEvents
<1>6. alerts \in [DOMAIN alerts -> Alerts]
  BY DEF TypeOK
<1> QED
  BY <1>1, <1>2, <1>3, <1>4, <1>5, <1>6

LEMMA TypeEngine ==
  ASSUME TypeOK, EngineStep
  PROVE  TypeOK'
<1> USE DEF clocks, sender, database
<1>1. CASE BeginCheck
  BY <1>1 DEF TypeOK, BeginCheck
<1>2. CASE EndCheck
  BY <1>2 DEF TypeOK, EndCheck, NoCheck
<1>3. ASSUME NEW a \in AlertIds, CloseChanged(a) PROVE TypeOK'
  <2>1. a \in Open /\ ClearAlert(a, "rule_changed") /\ UNCHANGED engine
    BY <1>3 DEF CloseChanged
  <2> QED
    BY <2>1, ClearAlertType DEF TypeOK, ClearAlert
<1>4. ASSUME NEW a \in AlertIds, CloseRemoved(a) PROVE TypeOK'
  <2>1. a \in Open /\ ClearAlert(a, "rule_removed")
    BY <1>4 DEF CloseRemoved
  <2>2. alerts[a].key \in Keys
    BY <2>1 DEF Open, TypeOK, Alerts
  <2>3. engine' \in [pc: {"idle", "closing", "evaluating"}, t: Int, seen: SUBSET Keys]
    BY <1>4, <2>2 DEF CloseRemoved, TypeOK
  <2> QED
    BY <2>1, <2>3, ClearAlertType DEF TypeOK, ClearAlert
<1>5. ASSUME NEW a \in AlertIds, ConditionClears(a) PROVE TypeOK'
  <2>1. a \in Open /\ ClearAlert(a, "condition")
    BY <1>5 DEF ConditionClears
  <2>2. alerts[a].key \in Keys
    BY <2>1 DEF Open, TypeOK, Alerts
  <2>3. engine' \in [pc: {"idle", "closing", "evaluating"}, t: Int, seen: SUBSET Keys]
    BY <1>5, <2>2 DEF ConditionClears, TypeOK
  <2> QED
    BY <2>1, <2>3, ClearAlertType DEF TypeOK, ClearAlert
<1>6. ASSUME NEW k \in Keys, NEW severity \in Severities, NEW message \in Messages,
             ConditionRaises(k, severity, message)
      PROVE  TypeOK'
  <2> DEFINE row == [key |-> k, severity |-> severity, message |-> message,
                     raisedAt |-> engine.t, clearedAt |-> engine.t,
                     clearedIn |-> engine.t, clearedBy |-> "open"]
  <2>1. PICK a \in AlertIds :
          /\ alerts' = [b \in DOMAIN alerts \cup {a} |-> IF b \in DOMAIN alerts THEN alerts[b] ELSE row]
          /\ Announce("raised", a)
    BY <1>6 DEF ConditionRaises
  <2>2. row \in Alerts
    BY DEF Alerts, TypeOK
  <2> HIDE DEF row
  <2>3. DOMAIN alerts' \subseteq AlertIds /\ alerts' \in [DOMAIN alerts' -> Alerts]
    BY <2>1, <2>2 DEF TypeOK
  <2>4. emit' \in [pc: {"none", "new", "inserting"}, type: NotificationEvents, alert: Nat,
                   nextAt: Int, todo: SUBSET Webhooks, queued: BOOLEAN]
    BY <2>1, ConstantsAssumption DEF Announce, NotificationEvents
  <2>5. engine' \in [pc: {"idle", "closing", "evaluating"}, t: Int, seen: SUBSET Keys]
    BY <1>6 DEF ConditionRaises, TypeOK
  <2> QED
    BY <1>6, <2>3, <2>4, <2>5 DEF TypeOK, ConditionRaises
<1> QED
  BY <1>1, <1>2, <1>3, <1>4, <1>5, <1>6 DEF EngineStep

(* The process, the timer and the clocks. *)
LEMMA StartTable ==
  ASSUME TypeOK, NEW file \in NotifyFiles
  PROVE  /\ IsTable(FailRemovedWebhooks(outbox, file, wall))
         /\ IsTable(PruneNotifications(FailRemovedWebhooks(outbox, file, wall), wall - PRUNE_AFTER))
<1> DEFINE t == FailRemovedWebhooks(outbox, file, wall)
<1>1. ASSUME NEW i \in DOMAIN outbox PROVE t[i] \in Rows
  <2>1. outbox[i] \in Rows /\ wall \in Int
    BY DEF TypeOK, IsTable
  <2>2. [outbox[i] EXCEPT !.status = "failed", !.doneAt = wall] \in Rows
    BY <2>1 DEF Rows, Statuses
  <2> QED
    BY <2>1, <2>2 DEF FailRemovedWebhooks
<1>2. IsTable(t)
  BY <1>1 DEF IsTable, TypeOK, FailRemovedWebhooks
<1> HIDE DEF t
<1>3. IsTable(PruneNotifications(t, wall - PRUNE_AFTER))
  BY <1>2, WithoutKeeps DEF PruneNotifications
<1> QED
  BY <1>2, <1>3 DEF t

LEMMA TypeProcess ==
  ASSUME TypeOK, ProcessStep \/ Timer \/ Tick \/ \E step \in Steps : ClockSet(step)
  PROVE  TypeOK'
<1> USE DEF clocks, sender, database
<1>1. CASE Stop
  BY <1>1 DEF TypeOK, Stop
<1>2. CASE Ends
  <2>1. missed' \in SUBSET (Webhooks \X Keys)
    BY <1>2, LostType DEF TypeOK, Ends
  <2>2. lane' \in [Webhooks -> Lanes]
    BY <1>2, IdleLaneType DEF Ends
  <2> QED
    BY <1>2, <2>1, <2>2 DEF TypeOK, Ends, NoCheck, NoEvent, NotificationEvents
<1>3. ASSUME NEW file \in NotifyFiles, Starts(file) PROVE TypeOK'
  <2>1. file \subseteq Webhooks
    BY ConstantsAssumption
  <2>2. lane' \in [Webhooks -> Lanes]
    BY <1>3, IdleLaneType DEF Starts, Lanes
  <2>3. missed' \in SUBSET (Webhooks \X Keys)
    BY <1>3 DEF TypeOK, Starts
  <2>4. unseen' \in Int
    <3>1. unseen \in Int /\ Jump \in Int
      BY TableKeeps DEF TypeOK
    <3>2. unseen' = unseen + Jump
      BY <1>3 DEF Starts
    <3> QED
      BY <3>1, <3>2
  <2>5. IsTable(outbox')
    BY <1>3, StartTable DEF Starts
  <2>6. lastWall' \in Int /\ lastMono' \in Int /\ lastPrune' \in Int
    BY <1>3 DEF TypeOK, Starts
  <2>7. process' = "running" /\ configured' = file
    BY <1>3 DEF Starts
  <2>8. UNCHANGED <<clocks, alerts, engine, emit, received>>
    BY <1>3 DEF Starts
  <2>9. failing' \in BOOLEAN
    BY <1>3 DEF Starts
  <2> QED
    BY <2>1, <2>2, <2>3, <2>4, <2>5, <2>6, <2>7, <2>8, <2>9 DEF TypeOK
<1>4. CASE Timer
  BY <1>4, WakeType DEF TypeOK, Timer
<1>5. CASE Tick
  <2>1. wall' \in Int /\ mono' \in Nat
    BY <1>5 DEF TypeOK, Tick
  <2> QED
    BY <1>5, <2>1 DEF TypeOK, Tick
<1>6. ASSUME NEW step \in Steps, ClockSet(step) PROVE TypeOK'
  <2>1. step \in Int
    BY TimesAssumption
  <2>2. wall' \in Int /\ sets' \in Nat
    BY <1>6, <2>1 DEF TypeOK, ClockSet
  <2>3. failing' \in BOOLEAN
    BY <1>6 DEF ClockSet
  <2>4. UNCHANGED <<mono, process, configured, lastWall, lastMono, lastPrune, unseen,
                    database, lane, engine, emit, received, missed>>
    BY <1>6 DEF ClockSet
  <2> QED
    BY <2>2, <2>3, <2>4 DEF TypeOK
<1> QED
  BY <1>1, <1>2, <1>3, <1>4, <1>5, <1>6 DEF ProcessStep

LEMMA TypeNext == TypeOK /\ [Next]_vars => TypeOK'
<1> SUFFICES ASSUME TypeOK, [Next]_vars PROVE TypeOK'
  OBVIOUS
<1>1. CASE UNCHANGED vars
  BY <1>1 DEF vars, clocks, sender, database, TypeOK
<1>2. CASE Next
  BY <1>2, TypeLane, TypeEnqueue, TypeEngine, TypeProcess DEF Next
<1> QED
  BY <1>1, <1>2

(* Every variable keeps its type: the tables stay tables whatever the sender, *)
(* the enqueuer, the engine and restarts do to them.                          *)
THEOREM TypeCorrect == Spec => []TypeOK
<1>1. Init => TypeOK
  BY TypeInit
<1>2. TypeOK /\ [Next]_vars => TypeOK'
  BY TypeNext
<1> QED
  BY <1>1, <1>2, PTL DEF Spec
-----------------------------------------------------------------------------
(***************************************************************************)
(* The age of a pending row.                                               *)
(***************************************************************************)

(* now() keeps ages: it moves the rows with the clock or owns up to a move. *)
LEMMA AgeTable ==
  ASSUME TypeOK, AgeIsElapsed, ReadClock, NEW i \in DOMAIN Table, Table[i].status = "pending"
  PROVE  lastWall' - Table[i].createdAt = lastMono' + unseen' - Table[i].born
<1>1. /\ wall \in Int /\ mono \in Int /\ lastWall \in Int /\ lastMono \in Int /\ unseen \in Int
      /\ Jump \in Int
  BY TableKeeps DEF TypeOK
<1>2. i \in DOMAIN outbox /\ outbox[i] \in Rows /\ outbox[i].status = "pending"
  BY TableKeeps DEF TypeOK, IsTable
<1>3. /\ lastWall - outbox[i].createdAt = lastMono + unseen - outbox[i].born
      /\ outbox[i].createdAt \in Int /\ outbox[i].born \in Int
  BY <1>2 DEF AgeIsElapsed, Rows
<1>4. CASE Shifts
  <2>1. Table[i] = [outbox[i] EXCEPT !.createdAt = @ + Jump, !.nextAt = @ + Jump]
    BY <1>2, <1>4 DEF Table, ShiftPending
  <2>2. Table[i].createdAt = outbox[i].createdAt + Jump /\ Table[i].born = outbox[i].born
    BY <1>2, <2>1 DEF Rows
  <2>3. lastWall' = wall /\ lastMono' = mono /\ unseen' = unseen
    BY <1>4 DEF ReadClock
  <2>4. Jump = (wall - lastWall) - (mono - lastMono)
    BY DEF Jump
  <2> QED
    BY <1>1, <1>3, <2>2, <2>3, <2>4
<1>5. CASE ~Shifts
  <2>1. Table[i] = outbox[i]
    BY <1>5 DEF Table
  <2>2. lastWall' = wall /\ lastMono' = mono /\ unseen' = unseen + Jump
    BY <1>5 DEF ReadClock
  <2>3. Jump = (wall - lastWall) - (mono - lastMono)
    BY DEF Jump
  <2> QED
    BY <1>1, <1>3, <2>1, <2>2, <2>3
<1> QED
  BY <1>4, <1>5

(* Each pending row afterwards is one of t, with its time of queueing. *)
AgedAs(t, u) == \A i \in DOMAIN u : u[i].status = "pending" =>
                  /\ i \in DOMAIN t /\ t[i].status = "pending"
                  /\ u[i].createdAt = t[i].createdAt /\ u[i].born = t[i].born

LEMMA AgeRead ==
  ASSUME TypeOK, AgeIsElapsed, ReadClock, AgedAs(Table, outbox')
  PROVE  AgeIsElapsed'
  BY AgeTable DEF AgeIsElapsed, AgedAs

LEMMA AgeStill ==
  ASSUME AgeIsElapsed, UNCHANGED <<lastWall, lastMono, unseen>>, AgedAs(outbox, outbox')
  PROVE  AgeIsElapsed'
  BY DEF AgeIsElapsed, AgedAs

LEMMA AgePrune ==
  ASSUME NEW t, NEW before
  PROVE  AgedAs(t, t) /\ AgedAs(t, PruneNotifications(t, before))
  BY DEF AgedAs, PruneNotifications, Without

(* The statements that end an attempt make no row pending. *)
LEMMA AgeUpdates ==
  ASSUME TypeOK, NEW id, NEW at \in Int, NEW u \in OneRowUpdates(Table, id, at)
  PROVE  AgedAs(Table, u)
<1>1. IsTable(Table)
  BY TableKeeps
<1> QED
  BY <1>1, RowUpdates DEF AgedAs

LEMMA AgeLane ==
  ASSUME TypeOK, AgeIsElapsed, NEW w \in Webhooks, LaneStep(w) \/ ReceiverGets(w)
  PROVE  AgeIsElapsed'
<1> USE DEF clocks, sender, database
<1>0. wall \in Int /\ AgedAs(Table, Table) /\ AgedAs(outbox, outbox)
  BY AgePrune DEF TypeOK
<1>1. CASE NothingPending(w) \/ NotDue(w) \/ StartDelivery(w) \/ RecordFails(w)
  BY <1>0, <1>1, AgeRead DEF NothingPending, NotDue, StartDelivery, RecordFails, Looks
<1>2. CASE PullIn(w)
  <2>1. PICK id \in PendingOf(Table, w) : outbox' = SetNextAt(Table, id, wall + MAX_RETRY)
    BY <1>2 DEF PullIn
  <2>2. wall + MAX_RETRY \in Int
    BY <1>0, TimesAssumption
  <2> QED
    BY <1>2, <2>1, <2>2, AgeUpdates, AgeRead DEF PullIn, Looks, OneRowUpdates
<1>3. CASE DeliverySucceeds(w)
  BY <1>0, <1>3, AgeUpdates, AgeRead DEF DeliverySucceeds, OneRowUpdates
<1>4. CASE AttemptFails(w)
  <2>1. wall + RetryDelay(lane[w].row.attempts + 1) \in Int
    BY <1>0, RetryDelayType
  <2> QED
    BY <1>4, <2>1, AgeUpdates, AgeRead DEF AttemptFails, OneRowUpdates
<1>5. CASE GivesUp(w)
  BY <1>0, <1>5, AgeUpdates, AgeRead DEF GivesUp, OneRowUpdates
<1>6. CASE DeliveryCut(w) \/ Continue(w) \/ ReceiverGets(w)
  BY <1>0, <1>6, AgeStill DEF DeliveryCut, Continue, ReceiverGets
<1> QED
  BY <1>1, <1>2, <1>3, <1>4, <1>5, <1>6 DEF LaneStep

LEMMA AgeWake ==
  ASSUME TypeOK, AgeIsElapsed, Wake
  PROVE  AgeIsElapsed'
  BY AgePrune, AgeRead DEF Wake

(* Withdrawing a clear leaves the other rows as they were. *)
LEMMA AgeSuperseded ==
  ASSUME NEW b, NEW a
  PROVE  /\ AgedAs(outbox, Superseded(b, a))
         /\ \A i \in DOMAIN Superseded(b, a) :
              i \in DOMAIN outbox /\ Superseded(b, a)[i] = outbox[i]
  BY DEF AgedAs, Superseded, DeletePendingClears, Without

LEMMA AgeEnqueue ==
  ASSUME TypeOK, AgeIsElapsed, EnqueueStep
  PROVE  AgeIsElapsed'
<1> USE DEF clocks, sender, database
<1>0. AgedAs(Table, Table) /\ AgedAs(outbox, outbox)
  BY AgePrune
<1>1. CASE NotAnnounced \/ NobodyToWake \/ EnqueueFails
  BY <1>0, <1>1, AgeStill DEF NotAnnounced, NobodyToWake, EnqueueFails
<1>2. CASE QueueClear
  BY <1>0, <1>2, AgeRead DEF QueueClear
<1>3. CASE ReopenUnchanged
  BY <1>3, AgeSuperseded, AgeStill DEF ReopenUnchanged
<1>4. CASE QueueRaise
  <2>1. PICK left : /\ \A i \in DOMAIN left : i \in DOMAIN outbox /\ left[i] = outbox[i]
                    /\ outbox' = IF Shifts THEN ShiftPending(left, Jump) ELSE left
    <3> DEFINE left == IF ClosedByEdit(emit.alert) = {} THEN outbox
                       ELSE Superseded(CHOOSE b \in ClosedByEdit(emit.alert) : TRUE, emit.alert)
    <3>1. \A i \in DOMAIN left : i \in DOMAIN outbox /\ left[i] = outbox[i]
      BY AgeSuperseded
    <3>2. outbox' = IF Shifts THEN ShiftPending(left, Jump) ELSE left
      BY <1>4 DEF QueueRaise
    <3> HIDE DEF left
    <3> QED
      BY <3>1, <3>2
  <2>2. DOMAIN outbox' = DOMAIN left /\ \A i \in DOMAIN left : i \in DOMAIN Table /\ outbox'[i] = Table[i]
    BY <2>1 DEF Table, ShiftPending
  <2>3. AgedAs(Table, outbox')
    BY <2>2 DEF AgedAs
  <2> QED
    BY <1>4, <2>3, AgeRead DEF QueueRaise
<1>5. ASSUME NEW w \in Webhooks, InsertRow(w) PROVE AgeIsElapsed'
  <2>1. PICK id \in Ids : /\ IsNextId(Table, id)
                          /\ outbox' = InsertNotification(Table, id, w, emit.alert, emit.type,
                                                          emit.nextAt, wall, Elapsed)
    BY <1>5 DEF InsertRow
  <2>2. DOMAIN outbox' = DOMAIN Table \cup {id} /\ id \notin DOMAIN Table
    BY <2>1, IdsAssumption DEF IsNextId, InsertNotification, With
  <2>3. \A i \in DOMAIN Table : outbox'[i] = Table[i]
    BY <2>1, <2>2 DEF InsertNotification, With
  <2>4. outbox'[id].createdAt = wall /\ outbox'[id].born = Elapsed
    BY <2>1 DEF InsertNotification, With
  <2>5. ReadClock
    BY <1>5 DEF InsertRow
  <2>6. lastWall' - wall = lastMono' + unseen' - Elapsed
    <3>1. wall \in Int /\ mono \in Int /\ unseen \in Int /\ Jump \in Int
      BY TableKeeps DEF TypeOK
    <3> QED
      BY <2>5, <3>1 DEF ReadClock, Elapsed
  <2> QED
    BY <2>2, <2>3, <2>4, <2>5, <2>6, AgeTable DEF AgeIsElapsed
<1>6. CASE WakeAfterQueue
  BY <1>6, AgeWake DEF WakeAfterQueue
<1> QED
  BY <1>1, <1>2, <1>3, <1>4, <1>5, <1>6 DEF EnqueueStep

LEMMA AgeNext == TypeOK /\ AgeIsElapsed /\ [Next]_vars => AgeIsElapsed'
<1> SUFFICES ASSUME TypeOK, AgeIsElapsed, [Next]_vars PROVE AgeIsElapsed'
  OBVIOUS
<1> USE DEF clocks, sender, database
<1>1. ASSUME UNCHANGED <<outbox, lastWall, lastMono, unseen>> PROVE AgeIsElapsed'
  BY <1>1, AgePrune, AgeStill
<1>2. ASSUME NEW w \in Webhooks, LaneStep(w) \/ ReceiverGets(w) PROVE AgeIsElapsed'
  BY <1>2, AgeLane
<1>3. CASE EnqueueStep
  BY <1>3, AgeEnqueue
<1>4. CASE EngineStep
  BY <1>1, <1>4 DEF EngineStep, BeginCheck, EndCheck, CloseChanged, CloseRemoved, ConditionClears,
     ConditionRaises, ClearAlert
<1>5. ASSUME NEW file \in NotifyFiles, Starts(file) PROVE AgeIsElapsed'
  <2> DEFINE t == FailRemovedWebhooks(outbox, file, wall)
  <2>1. AgedAs(outbox, t)
    BY DEF AgedAs, FailRemovedWebhooks, TypeOK, IsTable, Rows
  <2>2. outbox' = PruneNotifications(t, wall - PRUNE_AFTER)
    BY <1>5 DEF Starts
  <2> HIDE DEF t
  <2>3. AgedAs(outbox, outbox')
    BY <2>1, <2>2, AgePrune DEF AgedAs
  <2>4. ASSUME NEW i \in DOMAIN outbox', outbox'[i].status = "pending"
        PROVE  lastWall' - outbox'[i].createdAt = lastMono' + unseen' - outbox'[i].born
    <3>1. /\ i \in DOMAIN outbox /\ outbox[i] \in Rows /\ outbox[i].status = "pending"
          /\ outbox'[i].createdAt = outbox[i].createdAt /\ outbox'[i].born = outbox[i].born
      BY <2>3, <2>4 DEF AgedAs, TypeOK, IsTable
    <3>2. outbox[i].createdAt \in Int /\ outbox[i].born \in Int
      BY <3>1 DEF Rows
    <3>3. lastWall - outbox[i].createdAt = lastMono + unseen - outbox[i].born
      BY <3>1 DEF AgeIsElapsed
    <3>4. lastWall' = wall /\ lastMono' = mono /\ unseen' = unseen + (wall - lastWall) - (mono - lastMono)
      BY <1>5 DEF Starts, Jump, TypeOK
    <3>5. /\ wall \in Int /\ mono \in Int /\ lastWall \in Int /\ lastMono \in Int
          /\ unseen \in Int
      BY DEF TypeOK
    <3> QED
      BY <3>1, <3>2, <3>3, <3>4, <3>5
  <2> QED
    BY <2>4 DEF AgeIsElapsed
<1>6. CASE Timer
  BY <1>6, AgeWake DEF Timer
<1>7. CASE Stop \/ Ends \/ Tick \/ (\E step \in Steps : ClockSet(step)) \/ UNCHANGED vars
  BY <1>1, <1>7 DEF Stop, Ends, Tick, ClockSet, vars
<1> QED
  BY <1>2, <1>3, <1>4, <1>5, <1>6, <1>7 DEF Next, ProcessStep

(* A pending message is as old on the wall clock as the time that passed,    *)
(* but for moves too small to notice or made while no process ran, however   *)
(* the clock is set: the give-up age is measured in elapsed time.            *)
THEOREM AgeCorrect == Spec => []AgeIsElapsed
<1>1. Init => TypeOK /\ AgeIsElapsed
  BY TypeInit DEF Init, AgeIsElapsed
<1>2. TypeOK /\ AgeIsElapsed /\ [Next]_vars => (TypeOK /\ AgeIsElapsed)'
  BY TypeNext, AgeNext
<1> QED
  BY <1>1, <1>2, PTL DEF Spec

-----------------------------------------------------------------------------
(***************************************************************************)
(* The row a delivery is about stays as it is until the delivery is over,  *)
(* for every number of webhooks and rules, every delay and every setting   *)
(* of the clocks.                                                          *)
(***************************************************************************)
IInv == TypeOK /\ InFlightInv

(***************************************************************************)
(* The process, the check and the event it announces.                      *)
(***************************************************************************)
LEMMA DownStep ==
  ASSUME IInv, Next
  PROVE  DownIsIdle'
<1> USE DEF clocks, sender, database, IInv, InFlightInv, DownIsIdle
<1>1. ASSUME process # "down", process' = process PROVE DownIsIdle'
  BY <1>1
<1>2. ASSUME NEW w \in Webhooks, LaneStep(w) \/ ReceiverGets(w) PROVE DownIsIdle'
  BY <1>1, <1>2 DEF LaneStep, NothingPending, PullIn, NotDue, StartDelivery, Looks, ReceiverGets,
     DeliverySucceeds, AttemptFails, GivesUp, DeliveryCut, RecordFails, Continue, Resumes
<1>3. CASE EnqueueStep
  BY <1>1, <1>3 DEF EnqueueStep, NotAnnounced, QueueClear, ReopenUnchanged, QueueRaise, InsertRow,
     Handles, Inserts, WakeAfterQueue, NobodyToWake, EnqueueFails
<1>4. CASE EngineStep
  BY <1>1, <1>4 DEF EngineStep, BeginCheck, EndCheck, CloseChanged, CloseRemoved, ConditionClears,
     ConditionRaises, ClearAlert, EngineRuns
<1>5. CASE Stop \/ \E file \in NotifyFiles : Starts(file)
  BY <1>5 DEF Stop, Starts
<1>6. CASE Ends
  BY <1>6 DEF Ends
<1>7. CASE Timer
  BY <1>1, <1>7 DEF Timer
<1>8. CASE Tick \/ \E step \in Steps : ClockSet(step)
  BY <1>8 DEF Tick, ClockSet
<1> QED
  BY <1>2, <1>3, <1>4, <1>5, <1>6, <1>7, <1>8 DEF Next, ProcessStep

(* The wall clock does not move during a check. *)
LEMMA OneTimeStep ==
  ASSUME IInv, Next
  PROVE  CheckReadsOneTime'
<1> USE DEF clocks, sender, database, IInv, InFlightInv, CheckReadsOneTime, Checking
<1>1. ASSUME UNCHANGED <<wall, engine>> PROVE CheckReadsOneTime'
  BY <1>1
<1>2. ASSUME NEW w \in Webhooks, LaneStep(w) \/ ReceiverGets(w) PROVE CheckReadsOneTime'
  BY <1>1, <1>2 DEF LaneStep, NothingPending, PullIn, NotDue, StartDelivery, ReceiverGets,
     DeliverySucceeds, AttemptFails, GivesUp, DeliveryCut, RecordFails, Continue
<1>3. CASE EnqueueStep
  BY <1>1, <1>3 DEF EnqueueStep, NotAnnounced, QueueClear, ReopenUnchanged, QueueRaise, InsertRow,
     WakeAfterQueue, NobodyToWake, EnqueueFails
<1>4. CASE EngineStep
  <2>1. ASSUME wall' = wall, Checking, engine'.t = engine.t PROVE CheckReadsOneTime'
    BY <2>1
  <2>2. CASE BeginCheck
    BY <2>2 DEF BeginCheck
  <2>3. CASE EndCheck
    BY <2>3 DEF EndCheck, NoCheck
  <2>4. ASSUME NEW a \in AlertIds, CloseChanged(a) \/ CloseRemoved(a) \/ ConditionClears(a)
        PROVE  CheckReadsOneTime'
    <3>1. wall' = wall /\ Checking
      BY <2>4 DEF CloseChanged, CloseRemoved, ConditionClears, ClearAlert, EngineRuns
    <3>2. engine'.t = engine.t
      BY <2>4 DEF CloseChanged, CloseRemoved, ConditionClears, TypeOK
    <3> QED
      BY <2>1, <3>1, <3>2
  <2>5. ASSUME NEW k \in Keys, NEW severity \in Severities, NEW message \in Messages,
               ConditionRaises(k, severity, message)
        PROVE  CheckReadsOneTime'
    <3>1. wall' = wall /\ Checking /\ engine'.t = engine.t
      BY <2>5 DEF ConditionRaises, EngineRuns, TypeOK
    <3> QED
      BY <2>1, <3>1
  <2> QED
    BY <1>4, <2>2, <2>3, <2>4, <2>5 DEF EngineStep
<1>5. CASE ProcessStep
  BY <1>1, <1>5 DEF ProcessStep, Stop, Starts, Ends, NoCheck
<1>6. CASE Timer
  BY <1>1, <1>6 DEF Timer
<1>7. CASE Tick \/ \E step \in Steps : ClockSet(step)
  BY <1>7 DEF Tick, ClockSet, Quiet
<1> QED
  BY <1>2, <1>3, <1>4, <1>5, <1>6, <1>7 DEF Next

(* A closed alert keeps its row, and an alert keeps its time of raising. *)
ClosedStay ==
  \A a \in DOMAIN alerts :
    /\ a \in DOMAIN alerts' /\ alerts'[a].raisedAt = alerts[a].raisedAt
    /\ alerts[a].clearedBy # "open" => alerts'[a] = alerts[a]

LEMMA ClosedStayStep ==
  ASSUME TypeOK, Next
  PROVE  ClosedStay
<1> USE DEF clocks, sender, database
<1>1. ASSUME UNCHANGED alerts PROVE ClosedStay
  BY <1>1 DEF ClosedStay
<1>2. ASSUME NEW w \in Webhooks, LaneStep(w) \/ ReceiverGets(w) PROVE ClosedStay
  BY <1>1, <1>2 DEF LaneStep, NothingPending, PullIn, NotDue, StartDelivery, ReceiverGets,
     DeliverySucceeds, AttemptFails, GivesUp, DeliveryCut, RecordFails, Continue
<1>3. CASE EnqueueStep
  BY <1>1, <1>3 DEF EnqueueStep, NotAnnounced, QueueClear, ReopenUnchanged, QueueRaise, InsertRow,
     WakeAfterQueue, NobodyToWake, EnqueueFails
<1>4. CASE BeginCheck \/ EndCheck
  BY <1>1, <1>4 DEF BeginCheck, EndCheck
<1>5. ASSUME NEW a \in AlertIds, CloseChanged(a) \/ CloseRemoved(a) \/ ConditionClears(a)
      PROVE  ClosedStay
  <2>1. PICK by \in {"condition", "rule_removed", "rule_changed"} : a \in Open /\ ClearAlert(a, by)
    BY <1>5 DEF CloseChanged, CloseRemoved, ConditionClears
  <2>2. a \in Open /\ alerts[a].clearedBy = "open"
    BY <2>1 DEF Open
  <2> QED
    BY <2>1, <2>2, ClearAlertType DEF ClosedStay
<1>6. ASSUME NEW k \in Keys, NEW severity \in Severities, NEW message \in Messages,
             ConditionRaises(k, severity, message)
      PROVE  ClosedStay
  BY <1>6 DEF ConditionRaises, ClosedStay
<1>7. CASE ProcessStep \/ Timer \/ Tick \/ \E step \in Steps : ClockSet(step)
  BY <1>1, <1>7 DEF ProcessStep, Stop, Starts, Ends, Timer, Tick, ClockSet
<1> QED
  BY <1>2, <1>3, <1>4, <1>5, <1>6, <1>7 DEF Next, EngineStep

(* The event being announced stays of this check. *)
LEMMA EventStep ==
  ASSUME IInv, Next
  PROVE  EventIsOfThisCheck'
<1> USE DEF clocks, sender, database, IInv, InFlightInv
<1>1. ASSUME UNCHANGED <<wall, engine, emit, alerts>> PROVE EventIsOfThisCheck'
  BY <1>1 DEF EventIsOfThisCheck, Checking
<1>2. ASSUME emit' = NoEvent PROVE EventIsOfThisCheck'
  BY <1>2 DEF EventIsOfThisCheck, NoEvent
<1>3. ASSUME NEW w \in Webhooks, LaneStep(w) \/ ReceiverGets(w) PROVE EventIsOfThisCheck'
  BY <1>1, <1>3 DEF LaneStep, NothingPending, PullIn, NotDue, StartDelivery, ReceiverGets,
     DeliverySucceeds, AttemptFails, GivesUp, DeliveryCut, RecordFails, Continue
<1>4. CASE QueueClear
  <2>1. /\ UNCHANGED <<wall, engine, alerts>> /\ emit.pc = "new"
        /\ emit'.pc = "inserting" /\ emit'.alert = emit.alert /\ emit'.type = emit.type
        /\ emit.type = "cleared"
        /\ emit'.nextAt = wall + IF alerts[emit.alert].clearedBy = "rule_changed"
                                 THEN CHANGED_CLEAR_DELAY ELSE 0
    BY <1>4 DEF QueueClear, Handles, TypeOK
  <2>2. alerts[emit.alert].clearedBy = "rule_changed" => emit'.nextAt > wall
    <3>1. wall \in Int
      BY DEF TypeOK
    <3> QED
      BY <2>1, <3>1, TimesAssumption
  <2> QED
    BY <2>1, <2>2 DEF EventIsOfThisCheck, Checking
<1>5. CASE QueueRaise
  <2>1. /\ UNCHANGED <<wall, engine, alerts>> /\ emit.pc = "new"
        /\ emit'.alert = emit.alert /\ emit'.type = emit.type /\ emit.type = "raised"
    BY <1>5 DEF QueueRaise, Handles, TypeOK
  <2> QED
    BY <2>1 DEF EventIsOfThisCheck, Checking
<1>6. ASSUME NEW w \in Webhooks, InsertRow(w) PROVE EventIsOfThisCheck'
  <2>1. /\ UNCHANGED <<wall, engine, alerts>> /\ emit.pc = "inserting"
        /\ emit'.pc = "inserting" /\ emit'.alert = emit.alert /\ emit'.type = emit.type
        /\ emit'.nextAt = emit.nextAt
    BY <1>6 DEF InsertRow, Inserts, TypeOK
  <2> QED
    BY <2>1 DEF EventIsOfThisCheck, Checking
<1>7. CASE NotAnnounced \/ ReopenUnchanged \/ WakeAfterQueue \/ NobodyToWake \/ EnqueueFails \/ Ends
  BY <1>2, <1>7 DEF NotAnnounced, ReopenUnchanged, WakeAfterQueue, NobodyToWake, EnqueueFails, Ends
<1>8. CASE BeginCheck \/ EndCheck
  BY <1>8 DEF BeginCheck, EndCheck, EventIsOfThisCheck, Checking, EngineRuns, Quiet
<1>9. ASSUME NEW a \in AlertIds, CloseChanged(a) \/ CloseRemoved(a) \/ ConditionClears(a)
      PROVE  EventIsOfThisCheck'
  <2>1. PICK by \in {"condition", "rule_removed", "rule_changed"} : a \in Open /\ ClearAlert(a, by)
    BY <1>9 DEF CloseChanged, CloseRemoved, ConditionClears
  <2>2. a \in DOMAIN alerts' /\ emit'.alert = a /\ emit'.type = "cleared" /\ emit'.pc = "new"
        /\ alerts'[a].clearedBy # "open"
    BY <2>1, ClearAlertType DEF Open
  <2>3. Checking'
    BY <1>9 DEF CloseChanged, CloseRemoved, ConditionClears, EngineRuns, Checking, TypeOK
  <2> QED
    BY <2>2, <2>3 DEF EventIsOfThisCheck
<1>10. ASSUME NEW k \in Keys, NEW severity \in Severities, NEW message \in Messages,
              ConditionRaises(k, severity, message)
       PROVE  EventIsOfThisCheck'
  <2> DEFINE row == [key |-> k, severity |-> severity, message |-> message,
                     raisedAt |-> engine.t, clearedAt |-> engine.t,
                     clearedIn |-> engine.t, clearedBy |-> "open"]
  <2>1. PICK a \in AlertIds :
          /\ \A other \in DOMAIN alerts : other < a
          /\ alerts' = [b \in DOMAIN alerts \cup {a} |-> IF b \in DOMAIN alerts THEN alerts[b] ELSE row]
          /\ Announce("raised", a)
    BY <1>10 DEF ConditionRaises
  <2>2. a \notin DOMAIN alerts
    BY <2>1, ConstantsAssumption
  <2>3. a \in DOMAIN alerts' /\ alerts'[a].raisedAt = engine.t
    BY <2>1, <2>2
  <2>4. emit'.type = "raised" /\ emit'.alert = a /\ emit'.pc = "new"
    BY <2>1 DEF Announce
  <2>5. engine'.t = engine.t /\ Checking'
    BY <1>10 DEF ConditionRaises, Checking, TypeOK
  <2> QED
    BY <2>3, <2>4, <2>5 DEF EventIsOfThisCheck
<1>11. CASE Stop \/ (\E file \in NotifyFiles : Starts(file)) \/ Timer
  BY <1>1, <1>11 DEF Stop, Starts, Timer
<1>12. CASE Tick \/ \E step \in Steps : ClockSet(step)
  BY <1>12 DEF Tick, ClockSet, Quiet, EventIsOfThisCheck
<1> QED
  BY <1>3, <1>4, <1>5, <1>6, <1>7, <1>8, <1>9, <1>10, <1>11, <1>12
  DEF Next, EngineStep, EnqueueStep, ProcessStep

(***************************************************************************)
(* What a step does to the rows: a row after it was there before, for the  *)
(* same webhook and event, and pending only if it was; or it is the one    *)
(* row the enqueuer inserted, above all others.                            *)
(***************************************************************************)
Was(t, u, i) == /\ i \in DOMAIN t
                /\ u[i].webhook = t[i].webhook /\ u[i].alert = t[i].alert
                /\ u[i].event = t[i].event /\ u[i].born = t[i].born
                /\ u[i].status = "pending" => t[i].status = "pending"

Inserted(i) == /\ \A j \in DOMAIN outbox : j < i
               /\ emit.pc = "inserting" /\ outbox'[i].alert = emit.alert
               /\ outbox'[i].event = emit.type /\ outbox'[i].nextAt = emit.nextAt
               /\ outbox'[i].webhook \in emit.todo
               /\ lastWall' = wall /\ lastMono' = mono
               /\ outbox'[i].status = "pending"
               /\ outbox'[i].born = Elapsed /\ lastMono' + unseen' = Elapsed

RowsFrom == \A i \in DOMAIN outbox' : Was(outbox, outbox', i) \/ Inserted(i)

LEMMA TableWas ==
  ASSUME TypeOK
  PROVE  \A i \in DOMAIN Table : Was(outbox, Table, i)
  BY TableKeeps DEF Was

(* The statements that end an attempt leave the rows that were there. *)
LEMMA AttemptWas ==
  ASSUME TypeOK, NEW id \in DOMAIN outbox, NEW at \in Int, outbox[id].status = "pending",
         NEW u \in OneRowUpdates(Table, id, at)
  PROVE  /\ DOMAIN u = DOMAIN outbox
         /\ \A i \in DOMAIN u : Was(outbox, u, i)
         /\ \A i \in DOMAIN outbox \ {id} : u[i] = Table[i]
<1>1. IsTable(Table) /\ DOMAIN Table = DOMAIN outbox /\ id \in DOMAIN Table
  BY TableKeeps
<1>2. /\ DOMAIN u = DOMAIN outbox /\ \A i \in DOMAIN outbox \ {id} : u[i] = Table[i]
      /\ u[id].webhook = Table[id].webhook /\ u[id].alert = Table[id].alert
      /\ u[id].event = Table[id].event /\ u[id].born = Table[id].born
  BY <1>1, RowUpdates
<1> QED
  BY <1>1, <1>2, TableKeeps DEF Was

LEMMA WakeWas ==
  ASSUME TypeOK, Wake
  PROVE  /\ \A i \in DOMAIN outbox' : Was(outbox, outbox', i)
         /\ \A i \in DOMAIN outbox : outbox[i].status = "pending" =>
              i \in DOMAIN outbox' /\ outbox'[i] = Table[i]
<1>1. IsTable(Table) /\ DOMAIN Table = DOMAIN outbox
  BY TableKeeps
<1>2. ASSUME NEW before
      PROVE  /\ DOMAIN PruneNotifications(Table, before) \subseteq DOMAIN Table
             /\ \A i \in DOMAIN PruneNotifications(Table, before) :
                  PruneNotifications(Table, before)[i] = Table[i]
             /\ \A i \in DOMAIN Table : Table[i].status = "pending" =>
                  i \in DOMAIN PruneNotifications(Table, before)
  BY <1>1 DEF PruneNotifications, Without
<1>3. \/ outbox' = Table
      \/ outbox' = PruneNotifications(Table, wall - PRUNE_AFTER)
  BY DEF Wake
<1>4. \A i \in DOMAIN outbox : Table[i].status = outbox[i].status
  BY TableKeeps
<1>5. \A i \in DOMAIN outbox' : i \in DOMAIN Table /\ outbox'[i] = Table[i]
  BY <1>2, <1>3
<1>6. \A i \in DOMAIN outbox : outbox[i].status = "pending" =>
        i \in DOMAIN outbox' /\ outbox'[i] = Table[i]
  BY <1>1, <1>2, <1>3, <1>4, <1>5
<1> QED
  BY <1>5, <1>6, TableWas DEF Was

(* The lane being continued works on a row of the table. *)
LEMMA LaneRow ==
  ASSUME IInv, NEW w \in Webhooks, lane[w].pc = "delivering"
  PROVE  /\ lane[w].id \in DOMAIN outbox /\ lane[w].id \in Nat
         /\ outbox[lane[w].id].webhook = w /\ outbox[lane[w].id].status = "pending"
<1>1. IsTable(outbox) /\ IsHead(outbox, w, lane[w].id)
  BY DEF IInv, TypeOK, InFlightInv, InFlightIsHead
<1> QED
  BY <1>1, HeadIsPending

LEMMA LaneRows ==
  ASSUME IInv, NEW w \in Webhooks, LaneStep(w) \/ ReceiverGets(w)
  PROVE  /\ \A i \in DOMAIN outbox' : Was(outbox, outbox', i)
         /\ \/ outbox' = outbox
            \/ outbox' = Table
            \/ \E id \in DOMAIN outbox :
                 /\ DOMAIN outbox' = DOMAIN outbox /\ outbox[id].webhook = w
                 /\ \A i \in DOMAIN outbox \ {id} : outbox'[i] = Table[i]
<1> USE DEF clocks, sender, database
<1>1. TypeOK /\ wall \in Int
  BY DEF IInv, TypeOK
<1>2. CASE outbox' = outbox
  BY <1>2 DEF Was
<1>3. CASE outbox' = Table
  BY <1>1, <1>3, TableWas
<1>4. CASE PullIn(w)
  <2>1. PICK id \in PendingOf(Table, w) : outbox' = SetNextAt(Table, id, wall + MAX_RETRY)
    BY <1>4 DEF PullIn
  <2>2. id \in DOMAIN outbox /\ outbox[id].status = "pending" /\ outbox[id].webhook = w
    BY <1>1, TableKeeps DEF PendingOf
  <2>3. wall + MAX_RETRY \in Int
    BY <1>1, TimesAssumption
  <2> QED
    BY <1>1, <2>1, <2>2, <2>3, AttemptWas DEF OneRowUpdates
<1>5. CASE DeliverySucceeds(w)
  <2>1. lane[w].pc = "delivering" /\ outbox' = MarkSent(Table, lane[w].id, wall)
    BY <1>5 DEF DeliverySucceeds, Resumes
  <2> QED
    BY <1>1, <2>1, LaneRow, AttemptWas DEF OneRowUpdates
<1>6. CASE AttemptFails(w)
  <2>1. /\ lane[w].pc = "delivering"
        /\ outbox' = MarkAttemptFailed(Table, lane[w].id, wall + RetryDelay(lane[w].row.attempts + 1))
    BY <1>6 DEF AttemptFails, Resumes
  <2>2. wall + RetryDelay(lane[w].row.attempts + 1) \in Int
    BY <1>1, RetryDelayType
  <2> QED
    BY <1>1, <2>1, <2>2, LaneRow, AttemptWas DEF OneRowUpdates
<1>7. CASE GivesUp(w)
  <2>1. lane[w].pc = "delivering" /\ outbox' = MarkGivenUp(Table, lane[w].id, wall)
    BY <1>7 DEF GivesUp, Resumes
  <2> QED
    BY <1>1, <2>1, LaneRow, AttemptWas DEF OneRowUpdates
<1>8. CASE NothingPending(w) \/ NotDue(w) \/ StartDelivery(w) \/ RecordFails(w)
  BY <1>3, <1>8 DEF NothingPending, NotDue, StartDelivery, RecordFails
<1>9. CASE DeliveryCut(w) \/ Continue(w) \/ ReceiverGets(w)
  BY <1>2, <1>9 DEF DeliveryCut, Continue, ReceiverGets
<1> QED
  BY <1>4, <1>5, <1>6, <1>7, <1>8, <1>9 DEF LaneStep

(* What an edit's reopening withdraws: clears of the alert the edit closed, *)
(* and only those that wait in this check.                                  *)
LEMMA SupersededAre ==
  ASSUME IInv, NEW b \in ClosedByEdit(emit.alert), emit.pc = "new", emit.type = "raised"
  PROVE  /\ \A i \in DOMAIN Superseded(b, emit.alert) :
              i \in DOMAIN outbox /\ Superseded(b, emit.alert)[i] = outbox[i]
         /\ \A i \in DOMAIN outbox : i \in DOMAIN Superseded(b, emit.alert) \/ EditClear(i)
<1>1. alerts[emit.alert].raisedAt = engine.t
  BY DEF IInv, InFlightInv, EventIsOfThisCheck
<1>2. alerts[b].clearedBy = "rule_changed" /\ alerts[b].clearedAt = engine.t
  BY <1>1 DEF ClosedByEdit, ClosedAtRaise
<1>3. \A i \in DOMAIN outbox :
        (outbox[i].status = "pending" /\ outbox[i].event = "cleared" /\ outbox[i].alert = b) => EditClear(i)
  BY <1>2 DEF EditClear
<1> QED
  BY <1>3 DEF Superseded, DeletePendingClears, Without

LEMMA EnqueueRows ==
  ASSUME IInv, EnqueueStep
  PROVE  /\ RowsFrom
         /\ \A i \in DOMAIN outbox : outbox[i].status = "pending" =>
              \/ EditClear(i) /\ emit.pc = "new" /\ i \notin DOMAIN outbox'
              \/ i \in DOMAIN outbox' /\ (outbox'[i] = outbox[i] \/ outbox'[i] = Table[i])
<1> USE DEF clocks, sender, database
<1>0. TypeOK /\ IsTable(outbox) /\ IsTable(Table) /\ DOMAIN Table = DOMAIN outbox
  BY TableKeeps DEF IInv, TypeOK
<1>1. CASE UNCHANGED outbox
  BY <1>1 DEF RowsFrom, Was
<1>2. CASE outbox' = Table
  BY <1>0, <1>2, TableWas DEF RowsFrom
<1>3. ASSUME NEW left, NEW b \in ClosedByEdit(emit.alert), emit.pc = "new", emit.type = "raised",
             left = Superseded(b, emit.alert),
             outbox' = left \/ outbox' = IF Shifts THEN ShiftPending(left, Jump) ELSE left
      PROVE  /\ RowsFrom
             /\ \A i \in DOMAIN outbox : outbox[i].status = "pending" =>
                  \/ EditClear(i) /\ emit.pc = "new" /\ i \notin DOMAIN outbox'
                  \/ i \in DOMAIN outbox' /\ (outbox'[i] = outbox[i] \/ outbox'[i] = Table[i])
  <2>1. /\ \A i \in DOMAIN left : i \in DOMAIN outbox /\ left[i] = outbox[i]
        /\ \A i \in DOMAIN outbox : i \in DOMAIN left \/ EditClear(i)
    BY <1>3, SupersededAre
  <2>2. DOMAIN outbox' = DOMAIN left
    BY <1>3 DEF ShiftPending
  <2>3. \A i \in DOMAIN left : outbox'[i] = outbox[i] \/ outbox'[i] = Table[i]
    <3>1. CASE outbox' = left
      BY <2>1, <3>1
    <3>2. CASE Shifts /\ outbox' = ShiftPending(left, Jump)
      <4>1. \A i \in DOMAIN left : outbox'[i] = Table[i]
        BY <2>1, <3>2 DEF ShiftPending, Table
      <4> QED
        BY <4>1
    <3> QED
      BY <1>3, <3>1, <3>2
  <2>4. \A i \in DOMAIN left : Was(outbox, outbox', i)
    BY <1>0, <2>1, <2>3, TableKeeps DEF Was
  <2> QED
    BY <1>3, <2>1, <2>2, <2>3, <2>4 DEF RowsFrom
<1>4. CASE ReopenUnchanged
  <2>1. PICK b \in ClosedByEdit(emit.alert) : outbox' = Superseded(b, emit.alert)
    BY <1>4 DEF ReopenUnchanged
  <2>2. emit.pc = "new" /\ emit.type = "raised"
    BY <1>4 DEF ReopenUnchanged, Handles
  <2> QED
    BY <1>3, <2>1, <2>2
<1>5. CASE QueueRaise
  <2>1. emit.pc = "new" /\ emit.type = "raised"
    BY <1>5 DEF QueueRaise, Handles
  <2>2. CASE ClosedByEdit(emit.alert) = {}
    <3>1. outbox' = IF Shifts THEN ShiftPending(outbox, Jump) ELSE outbox
      BY <1>5, <2>2 DEF QueueRaise
    <3> QED
      BY <1>2, <3>1 DEF Table
  <2>3. CASE ClosedByEdit(emit.alert) # {}
    <3> DEFINE b == CHOOSE b \in ClosedByEdit(emit.alert) : TRUE
    <3>1. b \in ClosedByEdit(emit.alert)
      BY <2>3
    <3>2. outbox' = IF Shifts THEN ShiftPending(Superseded(b, emit.alert), Jump)
                    ELSE Superseded(b, emit.alert)
      BY <1>5, <2>3 DEF QueueRaise
    <3> QED
      BY <1>3, <2>1, <3>1, <3>2
  <2> QED
    BY <2>2, <2>3
<1>6. ASSUME NEW w \in Webhooks, InsertRow(w)
      PROVE  /\ RowsFrom
             /\ \A i \in DOMAIN outbox : outbox[i].status = "pending" =>
                  i \in DOMAIN outbox' /\ outbox'[i] = Table[i]
  <2>1. PICK id \in Ids : /\ IsNextId(Table, id)
                          /\ outbox' = InsertNotification(Table, id, w, emit.alert, emit.type,
                                                          emit.nextAt, wall, Elapsed)
    BY <1>6 DEF InsertRow
  <2>2. emit.pc = "inserting" /\ lastWall' = wall /\ lastMono' = mono
    BY <1>6 DEF InsertRow, Inserts, ReadClock
  <2>3. /\ emit.alert \in Nat /\ emit.type \in NotificationEvents /\ emit.nextAt \in Int
        /\ wall \in Int /\ Elapsed \in Int
    <3>1. /\ emit.alert \in Nat /\ emit.type \in NotificationEvents /\ emit.nextAt \in Int
          /\ wall \in Int /\ mono \in Int /\ unseen \in Int
      BY <1>0 DEF TypeOK
    <3>2. Jump \in Int
      BY <1>0, TableKeeps
    <3>3. Elapsed \in Int
      BY <3>1, <3>2 DEF Elapsed
    <3> QED
      BY <3>1, <3>3
  <2>4. /\ DOMAIN outbox' = DOMAIN Table \cup {id} /\ id \notin DOMAIN Table
        /\ \A i \in DOMAIN Table : outbox'[i] = Table[i] /\ i < id
        /\ outbox'[id].alert = emit.alert /\ outbox'[id].event = emit.type
        /\ outbox'[id].nextAt = emit.nextAt /\ outbox'[id].webhook = w
        /\ outbox'[id].born = Elapsed /\ outbox'[id].status = "pending"
    <3>1. id \notin DOMAIN Table /\ \A i \in DOMAIN Table : i < id
      BY <2>1, IdsAssumption DEF IsNextId
    <3> QED
      BY <2>1, <3>1 DEF InsertNotification, With
  <2>5. \A i \in DOMAIN outbox : Was(outbox, outbox', i)
    BY <1>0, <2>4, TableKeeps DEF Was
  <2>6. lastMono' + unseen' = Elapsed
    BY <1>6 DEF InsertRow, ReadClock, Elapsed
  <2>7. Inserted(id)
    BY <1>0, <1>6, <2>2, <2>4, <2>6 DEF Inserted, InsertRow
  <2> QED
    BY <1>0, <2>4, <2>5, <2>7 DEF RowsFrom
<1>7. CASE WakeAfterQueue
  BY <1>0, <1>7, WakeWas DEF WakeAfterQueue, RowsFrom
<1>8. CASE QueueClear
  BY <1>2, <1>8 DEF QueueClear
<1>9. CASE NotAnnounced \/ NobodyToWake \/ EnqueueFails
  BY <1>1, <1>9 DEF NotAnnounced, NobodyToWake, EnqueueFails
<1> QED
  BY <1>4, <1>5, <1>6, <1>7, <1>8, <1>9 DEF EnqueueStep

LEMMA RowsFromStep ==
  ASSUME IInv, Next
  PROVE  RowsFrom
<1> USE DEF clocks, sender, database
<1>1. CASE UNCHANGED outbox
  BY <1>1 DEF RowsFrom, Was
<1>2. ASSUME NEW w \in Webhooks, LaneStep(w) \/ ReceiverGets(w) PROVE RowsFrom
  BY <1>2, LaneRows DEF RowsFrom
<1>3. CASE EnqueueStep
  BY <1>3, EnqueueRows
<1>4. CASE EngineStep
  BY <1>1, <1>4 DEF EngineStep, BeginCheck, EndCheck, CloseChanged, CloseRemoved, ConditionClears,
     ConditionRaises, ClearAlert
<1>5. ASSUME NEW file \in NotifyFiles, Starts(file) PROVE RowsFrom
  <2> DEFINE t == FailRemovedWebhooks(outbox, file, wall)
  <2>1. outbox' = PruneNotifications(t, wall - PRUNE_AFTER)
    BY <1>5 DEF Starts
  <2>2. IsTable(outbox)
    BY DEF IInv, TypeOK
  <2>3. \A i \in DOMAIN t : Was(outbox, t, i)
    BY <2>2 DEF Was, FailRemovedWebhooks, IsTable, Rows
  <2>4. \A i \in DOMAIN outbox' : i \in DOMAIN t /\ outbox'[i] = t[i]
    BY <2>1 DEF PruneNotifications, Without
  <2> HIDE DEF t
  <2> QED
    BY <2>3, <2>4 DEF RowsFrom, Was
<1>6. CASE Stop \/ Ends \/ Tick \/ \E step \in Steps : ClockSet(step)
  BY <1>1, <1>6 DEF Stop, Ends, Tick, ClockSet
<1>7. CASE Timer
  BY <1>7, WakeWas DEF Timer, RowsFrom, IInv
<1> QED
  BY <1>2, <1>3, <1>4, <1>5, <1>6, <1>7 DEF Next, ProcessStep

(* An announced clear stays the clear of a closed alert. *)
LEMMA ClearsStep ==
  ASSUME IInv, Next
  PROVE  ClearsAreOfClosed'
<1>1. RowsFrom /\ ClosedStay
  BY RowsFromStep, ClosedStayStep DEF IInv
<1>2. ASSUME NEW i \in DOMAIN outbox', outbox'[i].event = "cleared"
      PROVE  outbox'[i].alert \in DOMAIN alerts' /\ alerts'[outbox'[i].alert].clearedBy # "open"
  <2>1. CASE Was(outbox, outbox', i)
    BY <1>1, <1>2, <2>1 DEF Was, ClosedStay, IInv, InFlightInv, ClearsAreOfClosed
  <2>2. CASE Inserted(i)
    BY <1>1, <1>2, <2>2 DEF Inserted, ClosedStay, IInv, InFlightInv, EventIsOfThisCheck
  <2> QED
    BY <1>1, <2>1, <2>2 DEF RowsFrom
<1> QED
  BY <1>2 DEF ClearsAreOfClosed

(***************************************************************************)
(* A step keeps the row of every delivery that goes on.                    *)
(***************************************************************************)
GoesOn(v) == /\ lane[v].pc = "delivering" /\ lane'[v].id = lane[v].id
             /\ lane'[v].row = lane[v].row

RowKept(v) == /\ lane[v].id \in DOMAIN outbox'
              /\ outbox'[lane[v].id].status = "pending"
              /\ outbox'[lane[v].id].attempts = outbox[lane[v].id].attempts

LEMMA TableKept ==
  ASSUME IInv, NEW v \in Webhooks, lane[v].pc = "delivering", lane[v].id \in DOMAIN outbox',
         outbox'[lane[v].id] = outbox[lane[v].id] \/ outbox'[lane[v].id] = Table[lane[v].id]
  PROVE  RowKept(v)
  BY LaneRow, TableKeeps DEF RowKept, IInv

(* A step of the lane itself: only the request's arrival leaves it going on. *)
LEMMA OwnLane ==
  ASSUME IInv, NEW w \in Webhooks, LaneStep(w) \/ ReceiverGets(w), lane'[w].pc = "delivering"
  PROVE  (GoesOn(w) /\ RowKept(w)) \/ StartDelivery(w)
<1> USE DEF clocks, sender, database
<1>1. w \in DOMAIN lane /\ lane[w] \in Lanes
  BY DEF IInv, TypeOK
<1>2. CASE ReceiverGets(w)
  <2>1. /\ lane[w].pc = "delivering" /\ UNCHANGED outbox
        /\ lane' = [lane EXCEPT ![w] = [lane[w] EXCEPT !.reached = TRUE]]
    BY <1>2 DEF ReceiverGets
  <2>2. GoesOn(w)
    BY <1>1, <2>1 DEF GoesOn, Lanes
  <2> QED
    BY <2>1, <2>2, LaneRow, TableKept
<1>3. CASE Loops(w, TRUE) \/ Loops(w, FALSE)
  BY <1>1, <1>3 DEF Loops
<1>4. CASE Continue(w)
  BY <1>1, <1>4 DEF Continue, IdleLane
<1> QED
  BY <1>2, <1>3, <1>4 DEF LaneStep, NothingPending, PullIn, NotDue, DeliverySucceeds, AttemptFails,
     GivesUp, DeliveryCut, RecordFails

LEMMA OtherLane ==
  ASSUME IInv, NEW w \in Webhooks, LaneStep(w) \/ ReceiverGets(w), NEW v \in Webhooks, v # w
  PROVE  lane'[v] = lane[v]
  BY DEF IInv, TypeOK, LaneStep, Loops, ReceiverGets, Continue, NothingPending, PullIn, NotDue,
     StartDelivery, DeliverySucceeds, AttemptFails, GivesUp, DeliveryCut, RecordFails

LEMMA WakeGoesOn ==
  ASSUME IInv, Wake, NEW v \in Webhooks, lane'[v].pc = "delivering"
  PROVE  GoesOn(v) /\ RowKept(v)
<1>1. lane[v] \in Lanes
  BY DEF IInv, TypeOK
<1>2. lane'[v] \in {lane[v], [IdleLane EXCEPT !.pc = "looking"], [lane[v] EXCEPT !.again = TRUE]}
  BY DEF Wake, Woken
<1>3. GoesOn(v)
  BY <1>1, <1>2 DEF GoesOn, Lanes, IdleLane
<1>4. lane[v].id \in DOMAIN outbox' /\ outbox'[lane[v].id] = Table[lane[v].id]
  BY <1>3, LaneRow, WakeWas DEF GoesOn, IInv
<1> QED
  BY <1>3, <1>4, TableKept DEF GoesOn

LEMMA GoesOnStep ==
  ASSUME IInv, Next, NEW v \in Webhooks, lane'[v].pc = "delivering"
  PROVE  (GoesOn(v) /\ RowKept(v)) \/ StartDelivery(v)
<1> USE DEF clocks, sender, database
<1>1. ASSUME UNCHANGED <<lane, outbox>> PROVE GoesOn(v) /\ RowKept(v)
  BY <1>1, LaneRow, TableKept DEF GoesOn
<1>2. ASSUME NEW w \in Webhooks, LaneStep(w) \/ ReceiverGets(w)
      PROVE  (GoesOn(v) /\ RowKept(v)) \/ StartDelivery(v)
  <2>1. CASE v = w
    BY <1>2, <2>1, OwnLane
  <2>2. CASE v # w
    <3>1. GoesOn(v)
      BY <1>2, <2>2, OtherLane DEF GoesOn
    <3>2. /\ lane[v].pc = "delivering" /\ lane[v].id \in DOMAIN outbox
          /\ outbox[lane[v].id].webhook = v
      BY <3>1, LaneRow DEF GoesOn
    <3>3. DOMAIN Table = DOMAIN outbox
      BY TableKeeps DEF IInv
    <3>4. /\ lane[v].id \in DOMAIN outbox'
          /\ outbox'[lane[v].id] = outbox[lane[v].id] \/ outbox'[lane[v].id] = Table[lane[v].id]
      BY <1>2, <2>2, <3>2, <3>3, LaneRows
    <3> QED
      BY <3>1, <3>2, <3>4, TableKept
  <2> QED
    BY <2>1, <2>2
<1>3. CASE WakeAfterQueue \/ Timer
  BY <1>3, WakeGoesOn DEF WakeAfterQueue, Timer
<1>4. CASE EnqueueStep /\ ~WakeAfterQueue
  <2>1. UNCHANGED lane
    BY <1>4 DEF EnqueueStep, NotAnnounced, QueueClear, ReopenUnchanged, QueueRaise, InsertRow,
       NobodyToWake, EnqueueFails
  <2>2. /\ lane[v].pc = "delivering" /\ lane[v].id \in DOMAIN outbox
        /\ outbox[lane[v].id].status = "pending"
    BY <2>1, LaneRow
  <2>3. emit.pc = "new" => ~EditClear(lane[v].id)
    BY <2>2 DEF IInv, InFlightInv, EventIsOfThisCheck, EditClearsWait
  <2>4. /\ lane[v].id \in DOMAIN outbox'
        /\ outbox'[lane[v].id] = outbox[lane[v].id] \/ outbox'[lane[v].id] = Table[lane[v].id]
    BY <1>4, <2>2, <2>3, EnqueueRows
  <2> QED
    BY <2>1, <2>2, <2>4, TableKept DEF GoesOn
<1>5. CASE EngineStep
  BY <1>1, <1>5 DEF EngineStep, BeginCheck, EndCheck, CloseChanged, CloseRemoved, ConditionClears,
     ConditionRaises, ClearAlert
<1>6. CASE Stop \/ Tick \/ \E step \in Steps : ClockSet(step)
  BY <1>1, <1>6 DEF Stop, Tick, ClockSet
<1>7. CASE Ends \/ \E file \in NotifyFiles : Starts(file)
  BY <1>7 DEF Ends, Starts, IdleLane
<1> QED
  BY <1>2, <1>3, <1>4, <1>5, <1>6, <1>7 DEF Next, ProcessStep

LEMMA InFlightStep ==
  ASSUME IInv, Next
  PROVE  InFlightIsHead'
<1> SUFFICES ASSUME NEW v \in Webhooks, lane'[v].pc = "delivering"
             PROVE  /\ IsHead(outbox', v, lane'[v].id)
                    /\ outbox'[lane'[v].id].alert = lane'[v].row.alert
                    /\ outbox'[lane'[v].id].event = lane'[v].row.event
                    /\ outbox'[lane'[v].id].attempts = lane'[v].row.attempts
  BY DEF InFlightIsHead
<1>1. CASE StartDelivery(v)
  <2>1. PICK id \in PendingOf(Table, v) :
          /\ IsHead(Table, v, id)
          /\ lane' = [lane EXCEPT ![v] = [pc |-> "delivering", again |-> @.again, sent |-> @.sent,
                                          id |-> id, row |-> Table[id], reached |-> FALSE]]
    BY <1>1 DEF StartDelivery
  <2>2. lane'[v].id = id /\ lane'[v].row = Table[id] /\ outbox' = Table
    BY <1>1, <2>1 DEF StartDelivery, IInv, TypeOK
  <2> QED
    BY <2>1, <2>2
<1>2. CASE GoesOn(v) /\ RowKept(v)
  <2> DEFINE id == lane[v].id
  <2>1. /\ IsTable(outbox) /\ IsTable(outbox') /\ RowsFrom /\ lane[v].pc = "delivering"
        /\ id \in DOMAIN outbox /\ id \in Nat /\ id \in DOMAIN outbox'
    BY <1>2, LaneRow, RowsFromStep, TypeNext DEF GoesOn, RowKept, IInv, TypeOK
  <2>2. IsHead(outbox, v, id)
    BY <2>1 DEF IInv, InFlightInv, InFlightIsHead
  <2>3. Was(outbox, outbox', id)
    BY <2>1 DEF RowsFrom, Inserted
  <2>4. id \in PendingOf(outbox', v)
    BY <1>2, <2>1, <2>2, <2>3, HeadIsPending DEF Was, RowKept, PendingOf
  <2>5. \A i \in PendingOf(outbox', v) : i \in PendingOf(outbox, v) \/ id <= i
    BY <2>1, IdsAssumption DEF PendingOf, RowsFrom, Was, Inserted, IsTable
  <2>6. IsHead(outbox', v, id)
    BY <2>2, <2>4, <2>5, HeadStays
  <2> QED
    BY <1>2, <2>1, <2>3, <2>6 DEF GoesOn, RowKept, Was, IInv, InFlightInv, InFlightIsHead
<1> QED
  BY <1>1, <1>2, GoesOnStep

(***************************************************************************)
(* During a check: the clocks stand, and an edit's clear stays due later.  *)
(***************************************************************************)
LEMMA CheckGoesOn ==
  ASSUME IInv, Next, ~BeginCheck, Checking'
  PROVE  /\ Checking /\ UNCHANGED <<wall, mono>> /\ engine'.t = engine.t
         /\ UNCHANGED <<lastWall, lastMono>> \/ (lastWall' = wall /\ lastMono' = mono)
<1> USE DEF clocks, sender, database
<1>0. engine.pc \in {"idle", "closing", "evaluating"} /\ engine \in [pc: {"idle", "closing", "evaluating"}, t: Int, seen: SUBSET Keys]
  BY DEF IInv, TypeOK
<1>1. ASSUME NEW w \in Webhooks, LaneStep(w) \/ ReceiverGets(w)
      PROVE  /\ UNCHANGED <<wall, mono, engine>>
             /\ UNCHANGED <<lastWall, lastMono>> \/ ReadClock
  BY <1>1 DEF LaneStep, NothingPending, PullIn, NotDue, StartDelivery, Looks, ReceiverGets,
     DeliverySucceeds, AttemptFails, GivesUp, DeliveryCut, RecordFails, Continue
<1>2. CASE EnqueueStep
  <2>1. /\ UNCHANGED <<wall, mono, engine>>
        /\ UNCHANGED <<lastWall, lastMono>> \/ ReadClock
    BY <1>2 DEF EnqueueStep, NotAnnounced, QueueClear, ReopenUnchanged, QueueRaise, InsertRow,
       WakeAfterQueue, NobodyToWake, EnqueueFails, Wake
  <2> QED
    BY <2>1 DEF ReadClock, Checking
<1>3. CASE EndCheck
  BY <1>3 DEF EndCheck, NoCheck, Checking
<1>4. ASSUME NEW a \in AlertIds, CloseChanged(a) \/ CloseRemoved(a) \/ ConditionClears(a)
      PROVE  UNCHANGED <<wall, mono, lastWall, lastMono>> /\ Checking /\ engine'.t = engine.t
  BY <1>0, <1>4 DEF CloseChanged, CloseRemoved, ConditionClears, ClearAlert, EngineRuns
<1>5. ASSUME NEW k \in Keys, NEW severity \in Severities, NEW message \in Messages,
             ConditionRaises(k, severity, message)
      PROVE  UNCHANGED <<wall, mono, lastWall, lastMono>> /\ Checking /\ engine'.t = engine.t
  BY <1>0, <1>5 DEF ConditionRaises, EngineRuns
<1>6. CASE ProcessStep
  BY <1>6 DEF ProcessStep, Stop, Starts, Ends, NoCheck, Checking, IInv, InFlightInv, DownIsIdle
<1>7. CASE Timer
  BY <1>7 DEF Timer, Wake, ReadClock, Checking, Quiet
<1>8. CASE Tick \/ \E step \in Steps : ClockSet(step)
  BY <1>8 DEF Tick, ClockSet, Quiet, Checking
<1> QED
  BY <1>1, <1>2, <1>3, <1>4, <1>5, <1>6, <1>7, <1>8 DEF Next, EngineStep, ReadClock, Checking

(* A pending row left in the table during a check is where it was, moved by *)
(* now(), or pulled in.                                                     *)
LEMMA RowDuringCheck ==
  ASSUME IInv, Next, Checking, NEW i \in DOMAIN outbox, i \in DOMAIN outbox',
         outbox[i].status = "pending", Table = outbox
  PROVE  outbox'[i] = outbox[i] \/ outbox'[i].nextAt = wall + MAX_RETRY
<1> USE DEF clocks, sender, database
<1>1. ASSUME UNCHANGED outbox \/ outbox' = Table PROVE outbox'[i] = outbox[i]
  BY <1>1
<1>2. ASSUME NEW w \in Webhooks, PullIn(w)
      PROVE  outbox'[i] = outbox[i] \/ outbox'[i].nextAt = wall + MAX_RETRY
  <2>1. PICK id \in PendingOf(Table, w) : outbox' = SetNextAt(Table, id, wall + MAX_RETRY)
    BY <1>2 DEF PullIn
  <2>2. id \in DOMAIN outbox /\ outbox[i] \in Rows
    BY <2>1 DEF PendingOf, IInv, TypeOK, IsTable
  <2> QED
    BY <2>1, <2>2 DEF SetNextAt, Update, With, Rows
<1>3. ASSUME NEW w \in Webhooks, LaneStep(w) \/ ReceiverGets(w), ~PullIn(w)
      PROVE  outbox'[i] = outbox[i]
  BY <1>1, <1>3 DEF LaneStep, NothingPending, NotDue, StartDelivery, ReceiverGets,
     DeliverySucceeds, AttemptFails, GivesUp, DeliveryCut, RecordFails, Continue, Resumes, Quiet
<1>4. CASE EnqueueStep
  BY <1>4, EnqueueRows
<1>5. CASE EngineStep
  BY <1>1, <1>5 DEF EngineStep, BeginCheck, EndCheck, CloseChanged, CloseRemoved, ConditionClears,
     ConditionRaises, ClearAlert
<1>6. CASE ProcessStep
  BY <1>1, <1>6 DEF ProcessStep, Stop, Starts, Ends, IInv, InFlightInv, DownIsIdle, Checking, NoCheck
<1>7. CASE Timer \/ Tick \/ \E step \in Steps : ClockSet(step)
  BY <1>7 DEF Timer, Tick, ClockSet, Quiet
<1> QED
  BY <1>2, <1>3, <1>4, <1>5, <1>6, <1>7 DEF Next

LEMMA EditClearsStep ==
  ASSUME IInv, Next
  PROVE  EditClearsWait'
<1> SUFFICES ASSUME Checking', NEW i \in DOMAIN outbox', EditClear(i)'
             PROVE  /\ outbox'[i].nextAt > wall' /\ lastWall' = wall' /\ lastMono' = mono'
                    /\ \A v \in Webhooks : lane'[v].pc = "delivering" => lane'[v].id # i
  BY DEF EditClearsWait
<1>1. CASE BeginCheck
  <2>1. UNCHANGED <<outbox, alerts>> /\ engine'.t = wall /\ wall \notin Stamps
    BY <1>1 DEF BeginCheck, database
  <2>2. outbox[i].alert \in DOMAIN alerts /\ alerts[outbox[i].alert].clearedAt = wall
    BY <2>1 DEF EditClear, IInv, InFlightInv, ClearsAreOfClosed
  <2> QED
    BY <2>1, <2>2 DEF Stamps
<1>2. CASE ~BeginCheck
  <2>1. /\ Checking /\ UNCHANGED <<wall, mono>> /\ engine'.t = engine.t
        /\ UNCHANGED <<lastWall, lastMono>> \/ (lastWall' = wall /\ lastMono' = mono)
    BY <1>2, CheckGoesOn
  <2>2. /\ RowsFrom /\ ClosedStay /\ TypeOK /\ IsTable(outbox) /\ ClearsAreOfClosed
        /\ EditClearsWait /\ EventIsOfThisCheck /\ wall \in Int /\ mono \in Int
    <3>1. TypeOK /\ ClearsAreOfClosed /\ EditClearsWait /\ EventIsOfThisCheck
      BY DEF IInv, InFlightInv
    <3>2. IsTable(outbox) /\ wall \in Int /\ mono \in Int
      BY <3>1 DEF TypeOK
    <3> QED
      BY <3>1, <3>2, RowsFromStep, ClosedStayStep
  <2>3. CASE Was(outbox, outbox', i)
    <3>1. i \in DOMAIN outbox /\ outbox[i].status = "pending" /\ EditClear(i)
      BY <2>1, <2>2, <2>3 DEF Was, EditClear, ClosedStay, ClearsAreOfClosed
    <3>2. /\ outbox[i].nextAt > wall /\ lastWall = wall /\ lastMono = mono
          /\ \A v \in Webhooks : lane[v].pc = "delivering" => lane[v].id # i
      BY <2>1, <2>2, <3>1 DEF EditClearsWait
    <3>3. Table = outbox
      BY <2>2, <3>2, TimesAssumption DEF Table, Shifts, Noticed, Jump
    <3>4. outbox'[i].nextAt > wall'
      BY <2>1, <2>2, <3>1, <3>2, <3>3, RowDuringCheck, TimesAssumption
    <3>5. ASSUME NEW v \in Webhooks, lane'[v].pc = "delivering" PROVE lane'[v].id # i
      <4>1. CASE GoesOn(v)
        BY <3>2, <4>1 DEF GoesOn
      <4>2. CASE StartDelivery(v)
        <5>1. PICK id \in PendingOf(Table, v) :
                /\ Table[id].nextAt <= wall
                /\ lane' = [lane EXCEPT ![v] = [pc |-> "delivering", again |-> @.again,
                                                sent |-> @.sent, id |-> id, row |-> Table[id],
                                                reached |-> FALSE]]
          BY <4>2 DEF StartDelivery
        <5>2. lane'[v].id = id
          BY <2>2, <5>1 DEF TypeOK
        <5>3. outbox[i].nextAt \in Int
          BY <2>2, <3>1 DEF IsTable, Rows
        <5> QED
          BY <2>2, <3>2, <3>3, <5>1, <5>2, <5>3
      <4> QED
        BY <3>5, <4>1, <4>2, GoesOnStep
    <3> QED
      BY <2>1, <3>2, <3>4, <3>5
  <2>4. CASE Inserted(i)
    <3>1. emit.type = "cleared" /\ emit.alert \in DOMAIN alerts /\ emit.pc = "inserting"
      BY <2>2, <2>4 DEF Inserted, EditClear, EventIsOfThisCheck
    <3>2. alerts[emit.alert].clearedBy = "rule_changed"
      BY <2>2, <2>4, <3>1 DEF Inserted, EditClear, EventIsOfThisCheck, ClosedStay
    <3>3. outbox'[i].nextAt > wall' /\ lastWall' = wall' /\ lastMono' = mono'
      BY <2>1, <2>2, <2>4, <3>1, <3>2 DEF Inserted, EventIsOfThisCheck
    <3>4. i \notin DOMAIN outbox
      BY <2>2, <2>4, IdsAssumption DEF Inserted, IsTable
    <3>5. ASSUME NEW v \in Webhooks, lane'[v].pc = "delivering" PROVE lane'[v].id # i
      <4>1. CASE GoesOn(v)
        BY <3>4, <4>1, LaneRow DEF GoesOn
      <4>2. CASE StartDelivery(v)
        <5>1. outbox' = Table
          BY <4>2 DEF StartDelivery
        <5> QED
          BY <2>2, <3>4, <5>1, TableKeeps
      <4> QED
        BY <3>5, <4>1, <4>2, GoesOnStep
    <3> QED
      BY <3>3, <3>5
  <2> QED
    BY <2>2, <2>3, <2>4 DEF RowsFrom
<1> QED
  BY <1>1, <1>2

LEMMA InFlightInit == Init => IInv
<1> SUFFICES ASSUME Init PROVE InFlightInv
  BY TypeInit DEF IInv
<1>1. outbox = << >> /\ process = "down" /\ engine = NoCheck /\ emit = NoEvent
      /\ \A w \in Webhooks : lane[w] = IdleLane
  BY DEF Init
<1>2. DOMAIN outbox = {}
  BY <1>1
<1>3. ~Checking /\ emit.pc = "none" /\ \A w \in Webhooks : lane[w].pc = "idle"
  BY <1>1 DEF Checking, NoCheck, NoEvent, IdleLane
<1>4. ClearsAreOfClosed
  BY <1>2 DEF ClearsAreOfClosed
<1>5. DownIsIdle /\ CheckReadsOneTime /\ EventIsOfThisCheck /\ EditClearsWait /\ InFlightIsHead
  BY <1>1, <1>3 DEF DownIsIdle, CheckReadsOneTime, EventIsOfThisCheck, EditClearsWait, InFlightIsHead
<1> QED
  BY <1>4, <1>5 DEF InFlightInv

LEMMA InFlightNext == IInv /\ [Next]_vars => IInv'
<1> SUFFICES ASSUME IInv, [Next]_vars PROVE IInv'
  OBVIOUS
<1>1. TypeOK'
  BY TypeNext DEF IInv
<1>2. CASE Next
  BY <1>1, <1>2, DownStep, OneTimeStep, EventStep, ClearsStep, EditClearsStep, InFlightStep
  DEF IInv, InFlightInv
<1>3. CASE UNCHANGED vars
  BY <1>1, <1>3 DEF vars, clocks, sender, database, IInv, InFlightInv, DownIsIdle, CheckReadsOneTime,
     Checking, EventIsOfThisCheck, ClearsAreOfClosed, EditClearsWait, EditClear, InFlightIsHead
<1> QED
  BY <1>2, <1>3

(* While a message is on its way its row stays pending, the oldest of its   *)
(* webhook, and says what is being sent (sender.ts:66-80): the outcome is   *)
(* recorded on the row it belongs to.                                       *)
THEOREM InFlightCorrect == Spec => []InFlightIsHead
<1>1. Init => IInv
  BY InFlightInit
<1>2. IInv /\ [Next]_vars => IInv'
  BY InFlightNext
<1>3. IInv => InFlightIsHead
  BY DEF IInv, InFlightInv
<1> QED
  BY <1>1, <1>2, <1>3, PTL DEF Spec

-----------------------------------------------------------------------------
(***************************************************************************)
(* What a receiver of notifications is told, for every failure and every   *)
(* end of the process.                                                     *)
(***************************************************************************)

(***************************************************************************)
(* The rows that wait for a webhook, and what each step does to them.      *)
(***************************************************************************)
LEMMA SamePending ==
  ASSUME NEW t, NEW u, DOMAIN u = DOMAIN t,
         \A i \in DOMAIN t : u[i].webhook = t[i].webhook /\ u[i].status = t[i].status
  PROVE  \A v : PendingOf(u, v) = PendingOf(t, v)
  BY DEF PendingOf

LEMMA TablePending ==
  ASSUME TypeOK
  PROVE  \A v : PendingOf(Table, v) = PendingOf(outbox, v)
  BY TableKeeps, SamePending

LEMMA AttemptPending ==
  ASSUME NEW t, IsTable(t), NEW id \in DOMAIN t, NEW at, NEW v
  PROVE  /\ PendingOf(SetNextAt(t, id, at), v) = PendingOf(t, v)
         /\ PendingOf(MarkAttemptFailed(t, id, at), v) = PendingOf(t, v)
         /\ PendingOf(MarkSent(t, id, at), v) = PendingOf(t, v) \ {id}
         /\ PendingOf(MarkGivenUp(t, id, at), v) = PendingOf(t, v) \ {id}
<1>1. t[id] \in Rows
  BY DEF IsTable
<1>2. ASSUME NEW row, row.webhook = t[id].webhook
      PROVE  /\ row.status = t[id].status => PendingOf(Update(t, id, row), v) = PendingOf(t, v)
             /\ row.status # "pending" => PendingOf(Update(t, id, row), v) = PendingOf(t, v) \ {id}
  BY <1>2 DEF Update, With, PendingOf
<1>3. PendingOf(SetNextAt(t, id, at), v) = PendingOf(t, v)
  BY <1>1, <1>2 DEF SetNextAt, Rows
<1>4. PendingOf(MarkAttemptFailed(t, id, at), v) = PendingOf(t, v)
  BY <1>1, <1>2 DEF MarkAttemptFailed, Rows
<1>5. PendingOf(MarkSent(t, id, at), v) = PendingOf(t, v) \ {id}
  BY <1>1, <1>2 DEF MarkSent, Rows
<1>6. PendingOf(MarkGivenUp(t, id, at), v) = PendingOf(t, v) \ {id}
  BY <1>1, <1>2 DEF MarkGivenUp, Rows
<1> QED
  BY <1>3, <1>4, <1>5, <1>6

(* Nothing is queued or taken out of a queue. *)
QueuesStay == \A v : PendingOf(outbox', v) = PendingOf(outbox, v)

(* A lane ends a delivery for good: the row leaves the queue. *)
LaneEnds(w) ==
  /\ lane[w].pc = "delivering"
  /\ PendingOf(outbox', w) = PendingOf(outbox, w) \ {lane[w].id}
  /\ \A v : v # w => PendingOf(outbox', v) = PendingOf(outbox, v)

LEMMA LaneQueues ==
  ASSUME IInv, NEW w \in Webhooks, LaneStep(w) \/ ReceiverGets(w)
  PROVE  \/ QueuesStay /\ ~DeliverySucceeds(w) /\ ~GivesUp(w)
         \/ LaneEnds(w) /\ (DeliverySucceeds(w) \/ GivesUp(w))
<1> USE DEF clocks, sender, database
<1>1. TypeOK /\ IsTable(Table) /\ DOMAIN Table = DOMAIN outbox /\ w \in DOMAIN lane
  BY TableKeeps DEF IInv, TypeOK
<1>2. CASE DeliverySucceeds(w) \/ GivesUp(w)
  <2>1. /\ lane[w].pc = "delivering"
        /\ \/ outbox' = MarkSent(Table, lane[w].id, wall)
           \/ outbox' = MarkGivenUp(Table, lane[w].id, wall)
    BY <1>2 DEF DeliverySucceeds, GivesUp, Resumes
  <2>2. lane[w].id \in DOMAIN Table /\ outbox[lane[w].id].webhook = w
    BY <1>1, <2>1, LaneRow
  <2>3. \A v : PendingOf(outbox', v) = PendingOf(outbox, v) \ {lane[w].id}
    BY <1>1, <2>1, <2>2, AttemptPending, TablePending
  <2>4. \A v : v # w => lane[w].id \notin PendingOf(outbox, v)
    BY <2>2 DEF PendingOf
  <2> QED
    BY <1>2, <2>1, <2>3, <2>4 DEF LaneEnds
<1>3. CASE ~DeliverySucceeds(w) /\ ~GivesUp(w)
  <2>1. CASE outbox' = outbox \/ outbox' = Table
    BY <1>1, <1>3, <2>1, TablePending DEF QueuesStay
  <2>2. CASE PullIn(w)
    <3>1. PICK id \in PendingOf(Table, w) : outbox' = SetNextAt(Table, id, wall + MAX_RETRY)
      BY <2>2 DEF PullIn
    <3>2. id \in DOMAIN Table
      BY <3>1 DEF PendingOf
    <3> QED
      BY <1>1, <1>3, <3>1, <3>2, AttemptPending, TablePending DEF QueuesStay
  <2>3. CASE AttemptFails(w)
    <3>1. PICK at : lane[w].pc = "delivering" /\ outbox' = MarkAttemptFailed(Table, lane[w].id, at)
      BY <2>3 DEF AttemptFails, Resumes
    <3>2. lane[w].id \in DOMAIN Table
      BY <1>1, <3>1, LaneRow
    <3> QED
      BY <1>1, <1>3, <3>1, <3>2, AttemptPending, TablePending DEF QueuesStay
  <2> QED
    BY <1>3, <2>1, <2>2, <2>3 DEF LaneStep, NothingPending, NotDue, StartDelivery, RecordFails,
       DeliveryCut, Continue, ReceiverGets
<1> QED
  BY <1>2, <1>3

(* Prunings leave what waits. *)
LEMMA PrunePending ==
  ASSUME NEW t, NEW before, NEW v
  PROVE  PendingOf(PruneNotifications(t, before), v) = PendingOf(t, v)
  BY DEF PendingOf, PruneNotifications, Without

LEMMA WakeQueues ==
  ASSUME TypeOK, Wake
  PROVE  QueuesStay
<1>1. outbox' = PruneNotifications(Table, wall - PRUNE_AFTER) \/ outbox' = Table
  BY DEF Wake
<1> QED
  BY <1>1, PrunePending, TablePending DEF QueuesStay

(* A reopening withdraws the clears of the alert an edit closed. *)
IsWithdrawn(i, v, b) == /\ outbox[i].event = "cleared" /\ outbox[i].alert = b
                        /\ v \in configured /\ Reaches(v, emit.alert)
Withdraws(b) ==
  \A v : PendingOf(outbox', v) = {i \in PendingOf(outbox, v) : ~IsWithdrawn(i, v, b)}

LEMMA SupersededPending ==
  ASSUME NEW b, NEW v
  PROVE  PendingOf(Superseded(b, emit.alert), v)
           = {i \in PendingOf(outbox, v) : ~IsWithdrawn(i, v, b)}
<1>1. ASSUME NEW i \in DOMAIN outbox, outbox[i].status = "pending", outbox[i].webhook = v
      PROVE  i \in DOMAIN Superseded(b, emit.alert) <=> ~IsWithdrawn(i, v, b)
  BY <1>1 DEF Superseded, DeletePendingClears, Without, IsWithdrawn
<1>2. \A i \in DOMAIN Superseded(b, emit.alert) :
        i \in DOMAIN outbox /\ Superseded(b, emit.alert)[i] = outbox[i]
  BY DEF Superseded, DeletePendingClears, Without
<1> QED
  BY <1>1, <1>2 DEF PendingOf

LEMMA ReopenQueues ==
  ASSUME TypeOK, ReopenUnchanged
  PROVE  \E b \in ClosedByEdit(emit.alert) : SaysTheSame(b, emit.alert) /\ Withdraws(b)
<1>1. PICK b \in ClosedByEdit(emit.alert) :
        SaysTheSame(b, emit.alert) /\ outbox' = Superseded(b, emit.alert)
  BY DEF ReopenUnchanged
<1>2. Withdraws(b)
  BY <1>1, SupersededPending DEF Withdraws
<1> QED
  BY <1>1, <1>2

LEMMA RaiseQueues ==
  ASSUME TypeOK, QueueRaise
  PROVE  QueuesStay \/ \E b \in ClosedByEdit(emit.alert) : Withdraws(b)
<1> DEFINE b == CHOOSE b \in ClosedByEdit(emit.alert) : TRUE
           left == IF ClosedByEdit(emit.alert) = {} THEN outbox ELSE Superseded(b, emit.alert)
<1>1. outbox' = IF Shifts THEN ShiftPending(left, Jump) ELSE left
  BY DEF QueueRaise
<1>2. ClosedByEdit(emit.alert) # {} => b \in ClosedByEdit(emit.alert)
  OBVIOUS
<1> HIDE DEF left
<1>3. \A v : PendingOf(ShiftPending(left, Jump), v) = PendingOf(left, v)
  <2>1. \A i \in DOMAIN left :
          (left[i].status = "pending" <=> ShiftPending(left, Jump)[i].status = "pending")
          \/ left[i] \notin Rows
    BY DEF ShiftPending, Rows
  <2>2. \A i \in DOMAIN left : left[i] \in Rows
    <3>1. IsTable(outbox)
      BY DEF TypeOK
    <3> QED
      BY <3>1 DEF left, Superseded, DeletePendingClears, Without, IsTable
  <2>3. \A i \in DOMAIN left : ShiftPending(left, Jump)[i].webhook = left[i].webhook
    BY <2>2 DEF ShiftPending, Rows
  <2> QED
    BY <2>1, <2>2, <2>3 DEF PendingOf, ShiftPending
<1>4. \A v : PendingOf(outbox', v) = PendingOf(left, v)
  BY <1>1, <1>3
<1>5. CASE ClosedByEdit(emit.alert) = {}
  BY <1>4, <1>5 DEF left, QueuesStay
<1>6. CASE ClosedByEdit(emit.alert) # {}
  <2>1. left = Superseded(b, emit.alert)
    BY <1>6 DEF left
  <2>2. Withdraws(b)
    BY <1>4, <2>1, SupersededPending DEF Withdraws
  <2> QED
    BY <1>2, <1>6, <2>2
<1> QED
  BY <1>5, <1>6

(* The enqueuer queues the message at hand for w, behind all others. *)
Queues(w, n) ==
  /\ n \notin DOMAIN outbox /\ n \in DOMAIN outbox' /\ \A i \in DOMAIN outbox : i < n
  /\ outbox'[n].alert = emit.alert /\ outbox'[n].event = emit.type
  /\ PendingOf(outbox', w) = PendingOf(outbox, w) \cup {n}
  /\ \A v : v # w => PendingOf(outbox', v) = PendingOf(outbox, v)

LEMMA InsertQueues ==
  ASSUME TypeOK, NEW w \in Webhooks, InsertRow(w)
  PROVE  \E n \in Ids : Queues(w, n)
<1>1. PICK n \in Ids : /\ IsNextId(Table, n)
                       /\ outbox' = InsertNotification(Table, n, w, emit.alert, emit.type,
                                                       emit.nextAt, wall, Elapsed)
  BY DEF InsertRow
<1>2. IsTable(Table) /\ DOMAIN Table = DOMAIN outbox
  BY TableKeeps
<1>3. n \notin DOMAIN Table /\ \A i \in DOMAIN Table : i < n
  BY <1>1, <1>2, IdsAssumption DEF IsNextId, IsTable
<1>4. /\ DOMAIN outbox' = DOMAIN Table \cup {n} /\ \A i \in DOMAIN Table : outbox'[i] = Table[i]
      /\ outbox'[n].alert = emit.alert /\ outbox'[n].event = emit.type
      /\ outbox'[n].webhook = w /\ outbox'[n].status = "pending"
  BY <1>1, <1>3 DEF InsertNotification, With
<1>5. /\ PendingOf(outbox', w) = PendingOf(Table, w) \cup {n}
      /\ \A v : v # w => PendingOf(outbox', v) = PendingOf(Table, v)
  BY <1>3, <1>4 DEF PendingOf
<1>6. Queues(w, n)
  BY <1>2, <1>3, <1>4, <1>5, TablePending DEF Queues
<1> QED
  BY <1>6

(* A start keeps what waits for the webhooks it serves, and fails the rest. *)
LEMMA StartQueues ==
  ASSUME TypeOK, NEW file \in NotifyFiles, Starts(file)
  PROVE  /\ \A v \in file : PendingOf(outbox', v) = PendingOf(outbox, v)
         /\ \A v : v \notin file => PendingOf(outbox', v) = {}
<1> DEFINE t == FailRemovedWebhooks(outbox, file, wall)
<1>1. outbox' = PruneNotifications(t, wall - PRUNE_AFTER) /\ IsTable(outbox)
  BY DEF Starts, TypeOK
<1>2. \A i \in DOMAIN outbox : /\ outbox[i] \in Rows /\ t[i].webhook = outbox[i].webhook
                               /\ t[i].status = "pending" <=>
                                    outbox[i].status = "pending" /\ outbox[i].webhook \in file
  BY <1>1 DEF IsTable, Rows, FailRemovedWebhooks
<1>3. DOMAIN t = DOMAIN outbox
  BY DEF FailRemovedWebhooks
<1> HIDE DEF t
<1>4. /\ \A v \in file : PendingOf(t, v) = PendingOf(outbox, v)
      /\ \A v : v \notin file => PendingOf(t, v) = {}
  BY <1>2, <1>3 DEF PendingOf
<1> QED
  BY <1>1, <1>4, PrunePending

(* All other steps leave the queues as they are. *)
LEMMA QuietQueues ==
  ASSUME TypeOK,
         \/ NotAnnounced \/ QueueClear \/ WakeAfterQueue \/ NobodyToWake \/ EnqueueFails
         \/ EngineStep \/ Stop \/ Ends \/ Timer \/ Tick \/ \E step \in Steps : ClockSet(step)
  PROVE  QueuesStay
<1> USE DEF clocks, sender, database
<1>1. CASE QueueClear
  BY <1>1, TablePending DEF QueueClear, QueuesStay
<1>2. CASE WakeAfterQueue \/ Timer
  BY <1>2, WakeQueues DEF WakeAfterQueue, Timer
<1>3. CASE NotAnnounced \/ NobodyToWake \/ EnqueueFails
  BY <1>3 DEF NotAnnounced, NobodyToWake, EnqueueFails, QueuesStay
<1>4. CASE EngineStep
  BY <1>4 DEF EngineStep, BeginCheck, EndCheck, CloseChanged, CloseRemoved, ConditionClears,
     ConditionRaises, ClearAlert, QueuesStay
<1>5. CASE Stop \/ Ends \/ Tick \/ \E step \in Steps : ClockSet(step)
  BY <1>5 DEF Stop, Ends, Tick, ClockSet, QueuesStay
<1> QED
  BY <1>1, <1>2, <1>3, <1>4, <1>5

-----------------------------------------------------------------------------
(***************************************************************************)
(* Whose rows wait, and who has missed something.                          *)
(***************************************************************************)
ServedInv == process # "down" =>
  /\ \A w \in Webhooks : PendingOf(outbox, w) # {} => w \in configured
  /\ emit.todo \subseteq configured
  /\ (Webhooks \ configured) \X Keys \subseteq missed

ProcessGoesOn == /\ configured' = configured /\ process # "down" /\ process' # "down"
                 /\ missed \subseteq missed'

LEMMA GoesOnOrNot ==
  ASSUME TypeOK, Next
  PROVE  \/ ProcessGoesOn
         \/ Ends \/ \E file \in NotifyFiles : Starts(file)
         \/ process = "down" /\ (Tick \/ \E step \in Steps : ClockSet(step))
<1> USE DEF clocks, sender, database, ProcessGoesOn
<1>1. ASSUME NEW w \in Webhooks, LaneStep(w) \/ ReceiverGets(w) PROVE ProcessGoesOn
  BY <1>1 DEF LaneStep, NothingPending, PullIn, NotDue, StartDelivery, Looks, ReceiverGets,
     DeliverySucceeds, AttemptFails, GivesUp, DeliveryCut, RecordFails, Continue, Resumes
<1>2. CASE EnqueueStep
  BY <1>2 DEF EnqueueStep, NotAnnounced, QueueClear, ReopenUnchanged, QueueRaise, InsertRow,
     Handles, Inserts, WakeAfterQueue, NobodyToWake, EnqueueFails, NotificationEvents
<1>3. CASE EngineStep
  BY <1>3 DEF EngineStep, BeginCheck, EndCheck, CloseChanged, CloseRemoved, ConditionClears,
     ConditionRaises, ClearAlert, EngineRuns
<1>4. CASE Stop \/ Timer
  BY <1>4 DEF Stop, Timer
<1>5. CASE Tick \/ \E step \in Steps : ClockSet(step)
  BY <1>5 DEF Tick, ClockSet
<1> QED
  BY <1>1, <1>2, <1>3, <1>4, <1>5 DEF Next, ProcessStep

(* The webhooks still to be served are of those a process delivers to. *)
LEMMA TodoStep ==
  ASSUME IInv, Next
  PROVE  emit'.todo \subseteq emit.todo \cup configured
<1> USE DEF clocks, sender, database
<1>0. emit \in [pc: {"none", "new", "inserting"}, type: NotificationEvents, alert: Nat,
                nextAt: Int, todo: SUBSET Webhooks, queued: BOOLEAN]
  BY DEF IInv, TypeOK
<1>1. ASSUME emit' = NoEvent \/ emit'.todo = {} \/ UNCHANGED emit
      PROVE  emit'.todo \subseteq emit.todo \cup configured
  BY <1>1 DEF NoEvent
<1>2. ASSUME NEW w \in Webhooks, LaneStep(w) \/ ReceiverGets(w)
      PROVE  emit'.todo \subseteq emit.todo \cup configured
  BY <1>1, <1>2 DEF LaneStep, NothingPending, PullIn, NotDue, StartDelivery, Looks, ReceiverGets,
     DeliverySucceeds, AttemptFails, GivesUp, DeliveryCut, RecordFails, Continue, Resumes
<1>3. CASE QueueClear \/ QueueRaise
  <2>1. emit'.todo \in {Interested("cleared", emit.alert), Interested("raised", emit.alert)}
    BY <1>0, <1>3 DEF QueueClear, QueueRaise
  <2> QED
    BY <2>1 DEF Interested
<1>4. ASSUME NEW w \in Webhooks, InsertRow(w)
      PROVE  emit'.todo \subseteq emit.todo \cup configured
  BY <1>0, <1>4 DEF InsertRow
<1>5. CASE NotAnnounced \/ ReopenUnchanged \/ WakeAfterQueue \/ NobodyToWake \/ EnqueueFails
  BY <1>1, <1>5 DEF NotAnnounced, ReopenUnchanged, WakeAfterQueue, NobodyToWake, EnqueueFails
<1>6. CASE EngineStep
  <2>1. CASE BeginCheck \/ EndCheck
    BY <1>1, <2>1 DEF BeginCheck, EndCheck
  <2>2. CASE ~BeginCheck /\ ~EndCheck
    <3>1. \E type \in NotificationEvents, a \in AlertIds : Announce(type, a)
      BY <1>6, <2>2 DEF EngineStep, CloseChanged, CloseRemoved, ConditionClears, ConditionRaises,
         ClearAlert, NotificationEvents
    <3>2. emit'.todo = {}
      BY <3>1 DEF Announce
    <3> QED
      BY <1>1, <3>2
  <2> QED
    BY <2>1, <2>2
<1>7. CASE ProcessStep \/ Timer \/ Tick \/ \E step \in Steps : ClockSet(step)
  BY <1>1, <1>7 DEF ProcessStep, Stop, Starts, Ends, Timer, Tick, ClockSet
<1> QED
  BY <1>2, <1>3, <1>4, <1>5, <1>6, <1>7 DEF Next, EnqueueStep

(* Nothing is queued for a webhook but what was due to it. *)
LEMMA PendingFrom ==
  ASSUME IInv, Next, NEW w \in Webhooks, PendingOf(outbox', w) # {}
  PROVE  PendingOf(outbox, w) # {} \/ w \in emit.todo
<1>1. PICK i \in PendingOf(outbox', w) : TRUE
  OBVIOUS
<1>2. i \in DOMAIN outbox' /\ outbox'[i].webhook = w /\ outbox'[i].status = "pending"
  BY <1>1 DEF PendingOf
<1>3. Was(outbox, outbox', i) \/ Inserted(i)
  BY <1>2, RowsFromStep DEF RowsFrom
<1>4. CASE Was(outbox, outbox', i)
  <2>1. i \in PendingOf(outbox, w)
    BY <1>2, <1>4 DEF Was, PendingOf
  <2> QED
    BY <2>1
<1>5. CASE Inserted(i)
  BY <1>2, <1>5 DEF Inserted
<1> QED
  BY <1>3, <1>4, <1>5

LEMMA ServedNext ==
  ASSUME IInv, ServedInv, [Next]_vars
  PROVE  ServedInv'
<1> SUFFICES ASSUME process' # "down"
             PROVE  /\ \A w \in Webhooks : PendingOf(outbox', w) # {} => w \in configured'
                    /\ emit'.todo \subseteq configured'
                    /\ (Webhooks \ configured') \X Keys \subseteq missed'
  BY DEF ServedInv
<1>0. TypeOK
  BY DEF IInv
<1>1. CASE Next /\ ProcessGoesOn
  BY <1>1, TodoStep, PendingFrom DEF ServedInv, ProcessGoesOn
<1>2. ASSUME NEW file \in NotifyFiles, Starts(file)
      PROVE  /\ \A w \in Webhooks : PendingOf(outbox', w) # {} => w \in configured'
             /\ emit'.todo \subseteq configured'
             /\ (Webhooks \ configured') \X Keys \subseteq missed'
  <2>1. configured' = file /\ emit'.todo = {}
    BY <1>2 DEF Starts, IInv, InFlightInv, DownIsIdle, NoEvent
  <2>2. missed' = missed \cup ((Webhooks \ file) \X Keys)
    BY <1>2 DEF Starts
  <2> QED
    BY <1>0, <1>2, <2>1, <2>2, StartQueues
<1>3. CASE Ends
  BY <1>3 DEF Ends
<1>4. CASE process = "down" /\ (Tick \/ \E step \in Steps : ClockSet(step))
  BY <1>4 DEF Tick, ClockSet
<1>5. CASE UNCHANGED vars
  BY <1>5 DEF vars, clocks, sender, database, ServedInv
<1> QED
  BY <1>0, <1>1, <1>2, <1>3, <1>4, <1>5, GoesOnOrNot

LEMMA ServedInit == Init => ServedInv
  BY DEF Init, ServedInv

(* While a process runs, nothing waits for a webhook it does not serve: what *)
(* waited for one taken out of the notify file fails at the start            *)
(* (sender.ts:168-172), and no event queues for another (enqueue.ts:32-34).  *)
THEOREM ServedCorrect == Spec => []PendingIsServed
<1>1. Init => IInv /\ ServedInv
  BY InFlightInit, ServedInit
<1>2. IInv /\ ServedInv /\ [Next]_vars => (IInv /\ ServedInv)'
  BY InFlightNext, ServedNext
<1>3. IInv /\ ServedInv => PendingIsServed
  BY DEF IInv, TypeOK, IsTable, Rows, ServedInv, PendingIsServed, PendingOf
<1> QED
  BY <1>1, <1>2, <1>3, PTL DEF Spec

-----------------------------------------------------------------------------
(***************************************************************************)
(* What a step does to the alerts: a check closes an open one, or raises   *)
(* one above all others, and then announces it.                            *)
(***************************************************************************)
SameAlert(b) == /\ alerts'[b].key = alerts[b].key /\ alerts'[b].severity = alerts[b].severity
                /\ alerts'[b].message = alerts[b].message
                /\ alerts'[b].raisedAt = alerts[b].raisedAt
StandStill == UNCHANGED <<clocks, process, configured, outbox, lane, received, missed>>

Announced(a, type) == /\ Checking /\ Checking' /\ engine'.t = engine.t /\ emit.pc = "none"
                      /\ emit'.pc = "new" /\ emit'.type = type /\ emit'.alert = a
                      /\ StandStill

Closes(a) ==
  /\ a \in Open /\ Announced(a, "cleared")
  /\ DOMAIN alerts' = DOMAIN alerts
  /\ \A b \in DOMAIN alerts \ {a} : alerts'[b] = alerts[b]
  /\ SameAlert(a) /\ alerts'[a].clearedIn = engine.t
  /\ alerts'[a].clearedAt = IF engine.t < alerts[a].raisedAt THEN alerts[a].raisedAt ELSE engine.t
  /\ alerts'[a].clearedBy # "open"
  /\ alerts'[a].clearedBy = "rule_changed" => engine.pc = "closing"
  /\ engine'.pc = "closing" => engine.pc = "closing"
  /\ engine.seen \subseteq engine'.seen

Raises(k, a) ==
  /\ a \notin DOMAIN alerts /\ \A b \in DOMAIN alerts : b < a
  /\ OpenFor(k) = {} /\ k \notin engine.seen /\ engine'.seen = engine.seen \cup {k}
  /\ Announced(a, "raised")
  /\ DOMAIN alerts' = DOMAIN alerts \cup {a}
  /\ \A b \in DOMAIN alerts : alerts'[b] = alerts[b]
  /\ alerts'[a].key = k /\ alerts'[a].clearedBy = "open" /\ alerts'[a].raisedAt = engine.t
  /\ alerts'[a].clearedAt = engine.t /\ alerts'[a].clearedIn = engine.t
  /\ engine'.pc = "evaluating"

EventGoesOn ==
  /\ emit.pc # "none" /\ emit'.alert = emit.alert /\ emit'.type = emit.type
  /\ \/ UNCHANGED <<emit, engine>>
     \/ emit'.pc = "inserting" /\ QueueClear
     \/ emit'.pc = "inserting" /\ QueueRaise
     \/ emit'.pc = "inserting" /\ emit.pc = "inserting" /\ \E w \in Webhooks : InsertRow(w)

LEMMA ClosesStep ==
  ASSUME IInv, NEW a \in AlertIds, CloseChanged(a) \/ CloseRemoved(a) \/ ConditionClears(a)
  PROVE  Closes(a)
<1> USE DEF clocks, sender, database
<1>0. /\ TypeOK /\ engine \in [pc: {"idle", "closing", "evaluating"}, t: Int, seen: SUBSET Keys]
      /\ engine.t \in Int
  BY DEF IInv, TypeOK
<1>1. PICK by \in {"condition", "rule_removed", "rule_changed"} :
        /\ a \in Open /\ ClearAlert(a, by)
        /\ by = "rule_changed" => CloseChanged(a)
  BY <1>0 DEF CloseChanged, CloseRemoved, ConditionClears
<1>2. a \in DOMAIN alerts /\ alerts[a] \in Alerts
  BY <1>0, <1>1 DEF Open, TypeOK
<1> DEFINE at == IF engine.t < alerts[a].raisedAt THEN alerts[a].raisedAt ELSE engine.t
           row == [alerts[a] EXCEPT !.clearedBy = by, !.clearedIn = engine.t, !.clearedAt = at]
<1>3. alerts' = [alerts EXCEPT ![a] = row]
  BY <1>1 DEF ClearAlert
<1>4. /\ row.key = alerts[a].key /\ row.severity = alerts[a].severity
      /\ row.message = alerts[a].message /\ row.raisedAt = alerts[a].raisedAt
      /\ row.clearedIn = engine.t /\ row.clearedAt = at /\ row.clearedBy = by
  BY <1>2 DEF Alerts
<1> HIDE DEF row, at
<1>5. /\ DOMAIN alerts' = DOMAIN alerts /\ alerts'[a] = row
      /\ \A b \in DOMAIN alerts \ {a} : alerts'[b] = alerts[b]
  BY <1>2, <1>3
<1>6. alerts'[a].clearedAt = IF engine.t < alerts[a].raisedAt THEN alerts[a].raisedAt ELSE engine.t
  BY <1>4, <1>5 DEF at
<1>7. StandStill
  BY <1>1 DEF ClearAlert, StandStill
<1>8. /\ Checking /\ emit.pc = "none" /\ engine'.t = engine.t /\ Checking'
      /\ engine'.pc = "closing" => engine.pc = "closing"
      /\ by = "rule_changed" => engine.pc = "closing"
      /\ engine.seen \subseteq engine'.seen
  BY <1>0, <1>1 DEF CloseChanged, CloseRemoved, ConditionClears, EngineRuns, Checking
<1>9. emit'.pc = "new" /\ emit'.type = "cleared" /\ emit'.alert = a
  BY <1>1 DEF ClearAlert, Announce
<1> QED
  BY <1>1, <1>4, <1>5, <1>6, <1>7, <1>8, <1>9 DEF Closes, Announced, SameAlert

LEMMA RaisesStep ==
  ASSUME IInv, NEW k \in Keys, NEW severity \in Severities, NEW message \in Messages,
         ConditionRaises(k, severity, message)
  PROVE  \E a \in AlertIds : Raises(k, a)
<1> USE DEF clocks, sender, database
<1>0. /\ engine \in [pc: {"idle", "closing", "evaluating"}, t: Int, seen: SUBSET Keys]
      /\ DOMAIN alerts \subseteq AlertIds
  BY DEF IInv, TypeOK
<1> DEFINE row == [key |-> k, severity |-> severity, message |-> message,
                   raisedAt |-> engine.t, clearedAt |-> engine.t,
                   clearedIn |-> engine.t, clearedBy |-> "open"]
<1>1. PICK a \in AlertIds :
        /\ \A other \in DOMAIN alerts : other < a
        /\ alerts' = [b \in DOMAIN alerts \cup {a} |-> IF b \in DOMAIN alerts THEN alerts[b] ELSE row]
        /\ Announce("raised", a)
  BY DEF ConditionRaises
<1>2. a \notin DOMAIN alerts
  BY <1>0, <1>1, ConstantsAssumption
<1>3. /\ DOMAIN alerts' = DOMAIN alerts \cup {a} /\ \A b \in DOMAIN alerts : alerts'[b] = alerts[b]
      /\ alerts'[a].key = k /\ alerts'[a].clearedBy = "open" /\ alerts'[a].raisedAt = engine.t
      /\ alerts'[a].clearedAt = engine.t /\ alerts'[a].clearedIn = engine.t
  BY <1>1, <1>2
<1>4. OpenFor(k) = {} /\ Checking /\ emit.pc = "none" /\ StandStill
  BY DEF ConditionRaises, EngineRuns, StandStill
<1>5. /\ engine'.t = engine.t /\ engine'.pc = "evaluating" /\ Checking'
      /\ k \notin engine.seen /\ engine'.seen = engine.seen \cup {k}
  BY <1>0 DEF ConditionRaises, Checking
<1>6. emit'.pc = "new" /\ emit'.type = "raised" /\ emit'.alert = a
  BY <1>1 DEF Announce
<1>7. Raises(k, a)
  BY <1>1, <1>2, <1>3, <1>4, <1>5, <1>6 DEF Raises, Announced
<1> QED
  BY <1>7

LEMMA Kinds ==
  ASSUME IInv, Next
  PROVE  \/ UNCHANGED <<alerts, engine>> /\ (EventGoesOn \/ emit'.pc = "none")
         \/ BeginCheck /\ emit'.pc = "none"
         \/ UNCHANGED alerts /\ ~Checking' /\ emit'.pc = "none"
         \/ \E a \in Open : Closes(a)
         \/ \E k \in Keys, a \in AlertIds : Raises(k, a)
<1> USE DEF clocks, sender, database
<1>0. TypeOK /\ emit \in [pc: {"none", "new", "inserting"}, type: NotificationEvents, alert: Nat,
                          nextAt: Int, todo: SUBSET Webhooks, queued: BOOLEAN]
  BY DEF IInv, TypeOK
<1>1. ASSUME UNCHANGED <<alerts, engine, emit>>
      PROVE  UNCHANGED <<alerts, engine>> /\ (EventGoesOn \/ emit'.pc = "none")
  BY <1>1 DEF EventGoesOn
<1>2. ASSUME NEW w \in Webhooks, LaneStep(w) \/ ReceiverGets(w)
      PROVE  UNCHANGED <<alerts, engine, emit>>
  BY <1>2 DEF LaneStep, NothingPending, PullIn, NotDue, StartDelivery, Looks, ReceiverGets,
     DeliverySucceeds, AttemptFails, GivesUp, DeliveryCut, RecordFails, Continue, Resumes
<1>3. CASE QueueClear
  <2>1. UNCHANGED <<alerts, engine>> /\ emit.pc # "none"
    BY <1>3 DEF QueueClear, Handles
  <2>2. emit'.pc = "inserting" /\ emit'.alert = emit.alert /\ emit'.type = emit.type
    BY <1>0, <1>3 DEF QueueClear
  <2> QED
    BY <1>3, <2>1, <2>2 DEF EventGoesOn
<1>4. CASE QueueRaise
  <2>1. UNCHANGED <<alerts, engine>> /\ emit.pc # "none"
    BY <1>4 DEF QueueRaise, Handles
  <2>2. emit'.pc = "inserting" /\ emit'.alert = emit.alert /\ emit'.type = emit.type
    BY <1>0, <1>4 DEF QueueRaise
  <2> QED
    BY <1>4, <2>1, <2>2 DEF EventGoesOn
<1>5. ASSUME NEW w \in Webhooks, InsertRow(w)
      PROVE  UNCHANGED <<alerts, engine>> /\ EventGoesOn
  <2>1. UNCHANGED <<alerts, engine>> /\ emit.pc = "inserting"
    BY <1>5 DEF InsertRow, Inserts
  <2>2. emit'.pc = "inserting" /\ emit'.alert = emit.alert /\ emit'.type = emit.type
    BY <1>0, <1>5, <2>1 DEF InsertRow
  <2> QED
    BY <1>5, <2>1, <2>2 DEF EventGoesOn
<1>6. CASE NotAnnounced \/ ReopenUnchanged \/ WakeAfterQueue \/ NobodyToWake \/ EnqueueFails
  BY <1>6 DEF NotAnnounced, ReopenUnchanged, WakeAfterQueue, NobodyToWake, EnqueueFails, NoEvent
<1>7. CASE EndCheck \/ Ends
  BY <1>7 DEF EndCheck, Ends, NoCheck, NoEvent, Checking, EngineRuns
<1>8. CASE BeginCheck
  BY <1>8 DEF BeginCheck, Quiet
<1>9. CASE Stop \/ (\E file \in NotifyFiles : Starts(file)) \/ Timer \/ Tick
           \/ \E step \in Steps : ClockSet(step)
  BY <1>1, <1>9 DEF Stop, Starts, Timer, Tick, ClockSet
<1>10. ASSUME NEW a \in AlertIds, CloseChanged(a) \/ CloseRemoved(a) \/ ConditionClears(a)
       PROVE  \E c \in Open : Closes(c)
  BY <1>10, ClosesStep DEF Closes
<1>11. ASSUME NEW k \in Keys, NEW severity \in Severities, NEW message \in Messages,
              ConditionRaises(k, severity, message)
       PROVE  \E c \in Keys, a \in AlertIds : Raises(c, a)
  BY <1>11, RaisesStep
<1> QED
  BY <1>1, <1>2, <1>3, <1>4, <1>5, <1>6, <1>7, <1>8, <1>9, <1>10, <1>11
  DEF Next, EnqueueStep, EngineStep, ProcessStep

LEMMA AlertIdsAre ==
  ASSUME TypeOK
  PROVE  DOMAIN alerts \subseteq Nat /\ Open \subseteq DOMAIN alerts
  BY ConstantsAssumption DEF TypeOK, Open

LEMMA AlertsGrow ==
  ASSUME IInv, Next
  PROVE  \A a \in DOMAIN alerts : a \in DOMAIN alerts' /\ SameAlert(a)
<1>1. Open \subseteq DOMAIN alerts
  BY AlertIdsAre DEF IInv
<1>2. CASE UNCHANGED alerts
  BY <1>2 DEF SameAlert
<1>3. ASSUME NEW a \in Open, Closes(a)
      PROVE  \A b \in DOMAIN alerts : b \in DOMAIN alerts' /\ SameAlert(b)
  BY <1>1, <1>3 DEF Closes, SameAlert
<1>4. ASSUME NEW k \in Keys, NEW a \in AlertIds, Raises(k, a)
      PROVE  \A b \in DOMAIN alerts : b \in DOMAIN alerts' /\ SameAlert(b)
  BY <1>4 DEF Raises, SameAlert
<1>5. BeginCheck => UNCHANGED alerts
  BY DEF BeginCheck, database
<1> QED
  BY <1>2, <1>3, <1>4, <1>5, Kinds

(* An alert's severity and what it says stay, so whom it reaches stays.    *)
LEMMA ReachesStays ==
  ASSUME NEW a \in DOMAIN alerts, SameAlert(a), NEW w
  PROVE  Reaches(w, a)' <=> Reaches(w, a)
  BY DEF SameAlert, Reaches

LEMMA SaysStays ==
  ASSUME NEW a, NEW b, SameAlert(a), SameAlert(b)
  PROVE  SaysTheSame(a, b)' <=> SaysTheSame(a, b)
  BY DEF SameAlert, SaysTheSame

(***************************************************************************)
(* The order of a check's alerts.  An open alert is the newest of its rule *)
(* and metric.  An edit closes one alert of a rule and metric in a check,  *)
(* what it closes is over before the rules are evaluated, and what reopens *)
(* it follows it directly.  What is being announced is the newest.         *)
(***************************************************************************)
EditClosed(a) == alerts[a].clearedBy = "rule_changed" /\ alerts[a].clearedAt = engine.t

OpenIsNewest ==
  \A a \in Open : \A b \in DOMAIN alerts : alerts[b].key = alerts[a].key => b <= a
OneEdit == Checking =>
  \A a, c \in DOMAIN alerts :
    EditClosed(a) /\ EditClosed(c) /\ alerts[a].key = alerts[c].key => a = c
ClosedFirst == engine.pc = "closing" =>
  \A a \in DOMAIN alerts : EditClosed(a) => OpenFor(alerts[a].key) = {}
EventIsNewest == emit.pc # "none" =>
  /\ \A b \in DOMAIN alerts : alerts[b].key = alerts[emit.alert].key => b <= emit.alert
  /\ emit.type = "raised" => alerts[emit.alert].clearedBy = "open"
  /\ emit.pc = "inserting" => \A w \in emit.todo : Reaches(w, emit.alert)

SeenFirst == Checking =>
  \A a, c \in DOMAIN alerts :
    EditClosed(a) /\ alerts[c].key = alerts[a].key /\ alerts[a].key \notin engine.seen => c <= a
ReopensOnce == (emit.pc = "new" /\ emit.type = "raised") =>
  \A a, c \in DOMAIN alerts :
    /\ EditClosed(a) /\ alerts[a].key = alerts[emit.alert].key
    /\ alerts[c].key = alerts[emit.alert].key
    => c <= a \/ c = emit.alert

OrderInv == /\ OpenIsNewest /\ OneEdit /\ ClosedFirst /\ EventIsNewest
            /\ SeenFirst /\ ReopensOnce

LEMMA OpenStep ==
  ASSUME IInv, OpenIsNewest, Next
  PROVE  OpenIsNewest'
<1>1. DOMAIN alerts \subseteq Nat /\ Open \subseteq DOMAIN alerts
  BY AlertIdsAre DEF IInv
<1>2. CASE UNCHANGED alerts
  BY <1>2 DEF OpenIsNewest, Open
<1>3. ASSUME NEW a \in Open, Closes(a) PROVE OpenIsNewest'
  <2>1. /\ Open' \subseteq Open /\ DOMAIN alerts' = DOMAIN alerts
        /\ \A b \in DOMAIN alerts : alerts'[b].key = alerts[b].key
    BY <1>1, <1>3 DEF Closes, SameAlert, Open
  <2> QED
    BY <1>1, <2>1 DEF OpenIsNewest
<1>4. ASSUME NEW k \in Keys, NEW a \in AlertIds, Raises(k, a) PROVE OpenIsNewest'
  <2>1. /\ Open' \subseteq Open \cup {a} /\ DOMAIN alerts' = DOMAIN alerts \cup {a}
        /\ \A b \in DOMAIN alerts : alerts'[b].key = alerts[b].key /\ b < a
        /\ alerts'[a].key = k /\ \A b \in Open : alerts[b].key # k
    BY <1>4 DEF Raises, Open, OpenFor
  <2>2. a \in Nat
    BY ConstantsAssumption
  <2> QED
    BY <1>1, <2>1, <2>2 DEF OpenIsNewest
<1>5. BeginCheck => UNCHANGED alerts
  BY DEF BeginCheck, database
<1> QED
  BY <1>2, <1>3, <1>4, <1>5, Kinds

LEMMA EditStep ==
  ASSUME IInv, OrderInv, Next
  PROVE  OneEdit' /\ ClosedFirst'
<1>1. DOMAIN alerts \subseteq Nat /\ Open \subseteq DOMAIN alerts
  BY AlertIdsAre DEF IInv
<1>2. CASE UNCHANGED <<alerts, engine>>
  BY <1>2 DEF OrderInv, OneEdit, ClosedFirst, EditClosed, OpenFor, Open, Checking
<1>3. CASE BeginCheck
  <2>1. UNCHANGED alerts /\ engine'.t = wall /\ wall \notin Stamps
    BY <1>3 DEF BeginCheck, database
  <2>2. \A a \in DOMAIN alerts' : ~EditClosed(a)'
    BY <2>1 DEF Stamps, EditClosed
  <2> QED
    BY <2>2 DEF OneEdit, ClosedFirst
<1>4. CASE ~Checking'
  BY <1>4 DEF OneEdit, ClosedFirst, Checking
<1>5. ASSUME NEW a \in Open, Closes(a) PROVE OneEdit' /\ ClosedFirst'
  <2>1. /\ DOMAIN alerts' = DOMAIN alerts /\ engine'.t = engine.t /\ Checking
        /\ \A b \in DOMAIN alerts : alerts'[b].key = alerts[b].key
        /\ Open' = Open \ {a}
    BY <1>1, <1>5 DEF Closes, Announced, SameAlert, Open
  <2>2. \A b \in DOMAIN alerts \ {a} : EditClosed(b)' <=> EditClosed(b)
    BY <1>5, <2>1 DEF Closes, EditClosed
  <2>3. ASSUME NEW b \in DOMAIN alerts \ {a}, EditClosed(a)', EditClosed(b)'
        PROVE  alerts[b].key # alerts[a].key
    <3>1. engine.pc = "closing" /\ EditClosed(b)
      BY <1>5, <2>2, <2>3 DEF Closes, EditClosed
    <3>2. OpenFor(alerts[b].key) = {}
      BY <3>1 DEF OrderInv, ClosedFirst
    <3> QED
      BY <3>2 DEF OpenFor
  <2>4. OneEdit'
    BY <1>1, <2>1, <2>2, <2>3 DEF OneEdit, OrderInv
  <2>5. ASSUME engine'.pc = "closing", NEW c \in DOMAIN alerts, EditClosed(c)'
        PROVE  OpenFor(alerts[c].key)' = {}
    <3>1. OpenFor(alerts[c].key)' = {b \in Open \ {a} : alerts[b].key = alerts[c].key}
      BY <1>1, <2>1, <2>5 DEF OpenFor
    <3>2. CASE c = a
      BY <1>1, <3>1, <3>2 DEF OrderInv, OpenIsNewest
    <3>3. CASE c # a
      <4>1. engine.pc = "closing" /\ EditClosed(c)
        BY <1>5, <2>2, <2>5, <3>3 DEF Closes
      <4> QED
        BY <3>1, <4>1 DEF OrderInv, ClosedFirst, OpenFor
    <3> QED
      BY <3>2, <3>3
  <2> QED
    BY <2>1, <2>4, <2>5 DEF ClosedFirst
<1>6. ASSUME NEW k \in Keys, NEW a \in AlertIds, Raises(k, a) PROVE OneEdit' /\ ClosedFirst'
  <2>1. /\ DOMAIN alerts' = DOMAIN alerts \cup {a} /\ engine'.t = engine.t /\ Checking
        /\ \A b \in DOMAIN alerts : alerts'[b] = alerts[b]
        /\ alerts'[a].clearedBy = "open" /\ engine'.pc = "evaluating"
    BY <1>6 DEF Raises, Announced
  <2>2. ~EditClosed(a)' /\ \A b \in DOMAIN alerts : EditClosed(b)' <=> EditClosed(b)
    BY <2>1 DEF EditClosed
  <2> QED
    BY <2>1, <2>2 DEF OneEdit, ClosedFirst, OrderInv
<1> QED
  BY <1>2, <1>3, <1>4, <1>5, <1>6, Kinds

LEMMA NewestStep ==
  ASSUME IInv, OrderInv, Next
  PROVE  EventIsNewest'
<1>1. DOMAIN alerts \subseteq Nat /\ Open \subseteq DOMAIN alerts
  BY AlertIdsAre DEF IInv
<1>2. CASE emit'.pc = "none"
  BY <1>2 DEF EventIsNewest
<1>3. CASE UNCHANGED <<alerts, engine>> /\ EventGoesOn
  <2>1. emit.pc # "none" /\ emit'.alert = emit.alert /\ emit'.type = emit.type
    BY <1>3 DEF EventGoesOn
  <2>2. /\ \A b \in DOMAIN alerts : alerts[b].key = alerts[emit.alert].key => b <= emit.alert
        /\ emit.type = "raised" => alerts[emit.alert].clearedBy = "open"
    BY <2>1 DEF OrderInv, EventIsNewest
  <2>3. ASSUME emit'.pc = "inserting", NEW w \in emit'.todo PROVE Reaches(w, emit.alert)
    <3>0. emit \in [pc: {"none", "new", "inserting"}, type: NotificationEvents, alert: Nat,
                    nextAt: Int, todo: SUBSET Webhooks, queued: BOOLEAN]
      BY DEF IInv, TypeOK
    <3>1. CASE QueueClear \/ QueueRaise
      <4>1. emit'.todo \in {Interested("cleared", emit.alert), Interested("raised", emit.alert)}
        BY <3>0, <3>1 DEF QueueClear, QueueRaise
      <4> QED
        BY <2>3, <4>1 DEF Interested
    <3>2. CASE UNCHANGED emit
      BY <2>3, <3>2 DEF OrderInv, EventIsNewest
    <3>3. ASSUME emit.pc = "inserting", NEW v \in Webhooks, InsertRow(v) PROVE w \in emit.todo
      BY <2>3, <3>0, <3>3 DEF InsertRow
    <3> QED
      BY <1>3, <3>1, <3>2, <3>3 DEF EventGoesOn, OrderInv, EventIsNewest
  <2>4. \A w : Reaches(w, emit.alert)' <=> Reaches(w, emit.alert)
    BY <1>3, <2>1 DEF Reaches
  <2> QED
    BY <1>3, <2>1, <2>2, <2>3, <2>4 DEF EventIsNewest
<1>4. ASSUME NEW a \in Open, Closes(a) PROVE EventIsNewest'
  <2>1. /\ DOMAIN alerts' = DOMAIN alerts /\ emit'.alert = a /\ emit'.type = "cleared"
        /\ emit'.pc = "new" /\ a \in DOMAIN alerts
        /\ \A b \in DOMAIN alerts : alerts'[b].key = alerts[b].key
    BY <1>1, <1>4 DEF Closes, Announced, SameAlert
  <2> QED
    BY <1>4, <2>1 DEF EventIsNewest, OrderInv, OpenIsNewest
<1>5. ASSUME NEW k \in Keys, NEW a \in AlertIds, Raises(k, a) PROVE EventIsNewest'
  <2>1. /\ DOMAIN alerts' = DOMAIN alerts \cup {a} /\ emit'.alert = a /\ emit'.pc = "new"
        /\ \A b \in DOMAIN alerts : b < a
        /\ alerts'[a].clearedBy = "open"
    BY <1>5 DEF Raises, Announced
  <2>2. a \in Nat
    BY ConstantsAssumption
  <2> QED
    BY <1>1, <2>1, <2>2 DEF EventIsNewest
<1> QED
  BY <1>2, <1>3, <1>4, <1>5, Kinds

LEMMA SeenStep ==
  ASSUME IInv, OrderInv, Next
  PROVE  SeenFirst' /\ ReopensOnce'
<1>1. DOMAIN alerts \subseteq Nat /\ Open \subseteq DOMAIN alerts
  BY AlertIdsAre DEF IInv
<1>2. CASE UNCHANGED <<alerts, engine>> /\ (EventGoesOn \/ emit'.pc = "none")
  <2>1. SeenFirst'
    BY <1>2 DEF SeenFirst, OrderInv, EditClosed, Checking
  <2>2. (emit'.pc = "new" /\ emit'.type = "raised") => UNCHANGED emit
    BY <1>2 DEF EventGoesOn
  <2> QED
    BY <1>2, <2>1, <2>2 DEF ReopensOnce, OrderInv, EditClosed
<1>3. CASE BeginCheck /\ emit'.pc = "none"
  <2>1. UNCHANGED alerts /\ engine'.t = wall /\ wall \notin Stamps
    BY <1>3 DEF BeginCheck, database
  <2>2. \A a \in DOMAIN alerts' : ~EditClosed(a)'
    BY <2>1 DEF Stamps, EditClosed
  <2> QED
    BY <2>2 DEF SeenFirst, ReopensOnce
<1>4. CASE ~Checking' /\ emit'.pc = "none"
  BY <1>4 DEF SeenFirst, ReopensOnce, Checking
<1>5. ASSUME NEW a \in Open, Closes(a) PROVE SeenFirst' /\ ReopensOnce'
  <2>1. /\ DOMAIN alerts' = DOMAIN alerts /\ engine'.t = engine.t /\ Checking
        /\ engine.seen \subseteq engine'.seen /\ emit'.type = "cleared"
        /\ \A b \in DOMAIN alerts : alerts'[b].key = alerts[b].key
    BY <1>1, <1>5 DEF Closes, Announced, SameAlert
  <2>2. \A b \in DOMAIN alerts \ {a} : EditClosed(b)' <=> EditClosed(b)
    BY <1>5, <2>1 DEF Closes, EditClosed
  <2>3. \A c \in DOMAIN alerts : alerts[c].key = alerts[a].key => c <= a
    BY <1>5 DEF OrderInv, OpenIsNewest
  <2>4. SeenFirst'
    <3>1. SUFFICES ASSUME NEW b \in DOMAIN alerts, NEW c \in DOMAIN alerts, EditClosed(b)',
                          alerts[c].key = alerts[b].key, alerts[b].key \notin engine'.seen
                   PROVE  c <= b
      BY <2>1 DEF SeenFirst
    <3>2. CASE b = a
      BY <2>3, <3>1, <3>2
    <3>3. CASE b # a
      BY <2>1, <2>2, <3>1, <3>3 DEF OrderInv, SeenFirst
    <3> QED
      BY <3>2, <3>3
  <2> QED
    BY <2>1, <2>4 DEF ReopensOnce
<1>6. ASSUME NEW k \in Keys, NEW a \in AlertIds, Raises(k, a) PROVE SeenFirst' /\ ReopensOnce'
  <2>1. /\ DOMAIN alerts' = DOMAIN alerts \cup {a} /\ engine'.t = engine.t /\ Checking
        /\ \A b \in DOMAIN alerts : alerts'[b] = alerts[b]
        /\ a \notin DOMAIN alerts /\ k \notin engine.seen /\ engine'.seen = engine.seen \cup {k}
        /\ alerts'[a].clearedBy = "open" /\ alerts'[a].key = k /\ emit'.alert = a
    BY <1>6 DEF Raises, Announced
  <2>2. ~EditClosed(a)' /\ \A b \in DOMAIN alerts : EditClosed(b)' <=> EditClosed(b)
    BY <2>1 DEF EditClosed
  <2>3. \A b, c \in DOMAIN alerts :
          EditClosed(b) /\ alerts[c].key = alerts[b].key /\ alerts[b].key \notin engine.seen => c <= b
    BY <2>1 DEF OrderInv, SeenFirst
  <2>4. SeenFirst'
    <3>1. SUFFICES ASSUME NEW b \in DOMAIN alerts', NEW c \in DOMAIN alerts', EditClosed(b)',
                          alerts'[c].key = alerts'[b].key, alerts'[b].key \notin engine'.seen
                   PROVE  c <= b
      BY DEF SeenFirst
    <3>2. b \in DOMAIN alerts /\ alerts[b].key # k
      BY <2>1, <2>2, <3>1
    <3>3. c \in DOMAIN alerts
      BY <2>1, <3>1, <3>2
    <3> QED
      BY <2>1, <2>2, <2>3, <3>1, <3>2, <3>3
  <2>5. ReopensOnce'
    <3>1. SUFFICES ASSUME NEW b \in DOMAIN alerts', NEW c \in DOMAIN alerts', EditClosed(b)',
                          alerts'[b].key = k, alerts'[c].key = k, c # a
                   PROVE  c <= b
      BY <2>1 DEF ReopensOnce
    <3>2. b \in DOMAIN alerts /\ c \in DOMAIN alerts
      BY <2>1, <2>2, <3>1
    <3> QED
      BY <2>1, <2>2, <2>3, <3>1, <3>2
  <2> QED
    BY <2>4, <2>5
<1> QED
  BY <1>2, <1>3, <1>4, <1>5, <1>6, Kinds

(***************************************************************************)
(* Rows and messages are about alerts of the table, rows about alerts that *)
(* reach their webhook; what arrived of a delivery under way came last.    *)
(***************************************************************************)
RowsOfAlerts == \A i \in DOMAIN outbox :
  outbox[i].alert \in DOMAIN alerts /\ Reaches(outbox[i].webhook, outbox[i].alert)
ToldOfAlerts == \A w \in Webhooks : \A n \in 1 .. Len(received[w]) :
  received[w][n][1] \in DOMAIN alerts
LastIs(w, item) == received[w] # << >> /\ received[w][Len(received[w])] = item
ReachedIsTold == \A w \in Webhooks :
  lane[w].pc = "delivering" /\ lane[w].reached =>
    LastIs(w, <<lane[w].row.alert, lane[w].row.event>>)

NewsInv == OrderInv /\ RowsOfAlerts /\ ToldOfAlerts /\ ReachedIsTold /\ ServedInv

LEMMA RowsOfStep ==
  ASSUME IInv, NewsInv, Next
  PROVE  RowsOfAlerts'
<1>1. RowsFrom /\ \A a \in DOMAIN alerts : a \in DOMAIN alerts' /\ SameAlert(a)
  BY RowsFromStep, AlertsGrow
<1>2. ASSUME NEW i \in DOMAIN outbox'
      PROVE  /\ outbox'[i].alert \in DOMAIN alerts
             /\ Reaches(outbox'[i].webhook, outbox'[i].alert)
  <2>1. CASE Was(outbox, outbox', i)
    BY <2>1 DEF Was, NewsInv, RowsOfAlerts
  <2>2. CASE Inserted(i)
    <3>1. emit.alert \in DOMAIN alerts
      BY <2>2 DEF Inserted, IInv, InFlightInv, EventIsOfThisCheck
    <3> QED
      BY <2>2, <3>1 DEF Inserted, NewsInv, OrderInv, EventIsNewest
  <2> QED
    BY <1>1, <2>1, <2>2 DEF RowsFrom
<1>3. \A w : \A a \in DOMAIN alerts : Reaches(w, a)' <=> Reaches(w, a)
  BY <1>1, ReachesStays
<1> QED
  BY <1>1, <1>2, <1>3 DEF RowsOfAlerts, Reaches

(* A request that arrives: the row being sent, at the end. *)
LEMMA Arrives ==
  ASSUME IInv, NEW w \in Webhooks, ReceiverGets(w)
  PROVE  /\ lane[w].pc = "delivering" /\ lane[w].id \in PendingOf(outbox, w)
         /\ Len(received'[w]) = Len(received[w]) + 1
         /\ \A n \in 1 .. Len(received[w]) : received'[w][n] = received[w][n]
         /\ received'[w][Len(received[w]) + 1]
              = <<outbox[lane[w].id].alert, outbox[lane[w].id].event>>
         /\ \A v \in Webhooks \ {w} : received'[v] = received[v]
         /\ lane'[w].row = lane[w].row
<1>1. /\ lane[w].pc = "delivering"
      /\ received' = [received EXCEPT ![w] = Append(@, <<lane[w].row.alert, lane[w].row.event>>)]
      /\ lane' = [lane EXCEPT ![w] = [@ EXCEPT !.reached = TRUE]]
  BY DEF ReceiverGets
<1>2. lane \in [Webhooks -> Lanes] /\ received \in [Webhooks -> Seq(Items)] /\ lane[w] \in Lanes
  BY DEF IInv, TypeOK
<1>3. /\ outbox[lane[w].id].alert = lane[w].row.alert
      /\ outbox[lane[w].id].event = lane[w].row.event /\ IsHead(outbox, w, lane[w].id)
  BY <1>1 DEF IInv, InFlightInv, InFlightIsHead
<1>4. lane'[w].row = lane[w].row
  BY <1>1, <1>2 DEF Lanes
<1>5. received[w] \in Seq(Items)
  BY <1>2
<1>6. received'[w] = Append(received[w], <<outbox[lane[w].id].alert, outbox[lane[w].id].event>>)
  BY <1>1, <1>2, <1>3
<1> QED
  BY <1>1, <1>2, <1>3, <1>4, <1>5, <1>6 DEF IsHead

LEMMA ReceivedStays ==
  ASSUME Next, NEW w \in Webhooks, ~ReceiverGets(w)
  PROVE  received'[w] = received[w] \/ \E v \in Webhooks \ {w} : ReceiverGets(v)
<1> USE DEF clocks, sender, database
<1>1. ASSUME NEW v \in Webhooks, LaneStep(v) PROVE UNCHANGED received
  BY <1>1 DEF LaneStep, NothingPending, PullIn, NotDue, StartDelivery, Looks,
     DeliverySucceeds, AttemptFails, GivesUp, DeliveryCut, RecordFails, Continue, Resumes
<1>2. CASE EnqueueStep
  BY <1>2 DEF EnqueueStep, NotAnnounced, QueueClear, ReopenUnchanged, QueueRaise, InsertRow,
     WakeAfterQueue, NobodyToWake, EnqueueFails
<1>3. CASE EngineStep
  BY <1>3 DEF EngineStep, BeginCheck, EndCheck, CloseChanged, CloseRemoved, ConditionClears,
     ConditionRaises, ClearAlert
<1>4. CASE ProcessStep \/ Timer \/ Tick \/ \E step \in Steps : ClockSet(step)
  BY <1>4 DEF ProcessStep, Stop, Starts, Ends, Timer, Tick, ClockSet
<1> QED
  BY <1>1, <1>2, <1>3, <1>4 DEF Next

LEMMA ReceivedOfOthers ==
  ASSUME IInv, Next, NEW w \in Webhooks, ~ReceiverGets(w)
  PROVE  received'[w] = received[w]
  BY ReceivedStays, Arrives

LEMMA ToldOfStep ==
  ASSUME IInv, NewsInv, Next
  PROVE  ToldOfAlerts'
<1>1. \A a \in DOMAIN alerts : a \in DOMAIN alerts'
  BY AlertsGrow
<1>2. ASSUME NEW w \in Webhooks, NEW n \in 1 .. Len(received'[w])
      PROVE  received'[w][n][1] \in DOMAIN alerts
  <2>1. CASE ~ReceiverGets(w)
    BY <1>2, <2>1, ReceivedOfOthers DEF NewsInv, ToldOfAlerts
  <2>2. CASE ReceiverGets(w)
    <3>1. lane[w].id \in DOMAIN outbox
      BY <2>2, Arrives DEF PendingOf
    <3>2. outbox[lane[w].id].alert \in DOMAIN alerts
      BY <3>1 DEF NewsInv, RowsOfAlerts
    <3>3. Len(received[w]) \in Nat
      BY DEF IInv, TypeOK
    <3>4. n \in 1 .. Len(received[w]) \/ n = Len(received[w]) + 1
      BY <1>2, <2>2, <3>3, Arrives
    <3> QED
      BY <2>2, <3>2, <3>4, Arrives DEF NewsInv, ToldOfAlerts
  <2> QED
    BY <2>1, <2>2
<1> QED
  BY <1>1, <1>2 DEF ToldOfAlerts

LEMMA LaneReached ==
  ASSUME IInv, Next, NEW w \in Webhooks, lane'[w].pc = "delivering", lane'[w].reached
  PROVE  \/ ReceiverGets(w)
         \/ lane[w].pc = "delivering" /\ lane[w].reached /\ lane'[w].row = lane[w].row
<1> USE DEF clocks, sender, database
<1>0. lane \in [Webhooks -> Lanes] /\ lane[w] \in Lanes
  BY DEF IInv, TypeOK
<1>1. CASE UNCHANGED lane
  BY <1>1
<1>2. ASSUME NEW v \in Webhooks, LaneStep(v) \/ ReceiverGets(v), ~ReceiverGets(w)
      PROVE  lane[w].pc = "delivering" /\ lane[w].reached /\ lane'[w].row = lane[w].row
  <2>1. CASE v # w
    BY <1>2, <2>1, OtherLane
  <2>2. CASE v = w /\ DeliveryCut(w)
    BY <1>0, <2>2 DEF DeliveryCut, Loops
  <2>3. CASE v = w /\ StartDelivery(w)
    BY <1>0, <2>3 DEF StartDelivery
  <2>4. CASE v = w /\ Continue(w)
    BY <1>0, <2>4 DEF Continue, IdleLane
  <2>5. CASE Loops(w, TRUE) \/ Loops(w, FALSE)
    BY <1>0, <2>5 DEF Loops
  <2> QED
    BY <1>2, <2>1, <2>2, <2>3, <2>4, <2>5 DEF LaneStep, NothingPending, PullIn, NotDue,
       DeliverySucceeds, AttemptFails, GivesUp, RecordFails
<1>3. CASE WakeAfterQueue \/ Timer
  <2>1. lane'[w] \in {lane[w], [IdleLane EXCEPT !.pc = "looking"], [lane[w] EXCEPT !.again = TRUE]}
    BY <1>3 DEF WakeAfterQueue, Timer, Wake, Woken
  <2> QED
    BY <1>0, <2>1 DEF Lanes, IdleLane
<1>4. CASE EnqueueStep /\ ~WakeAfterQueue
  BY <1>1, <1>4 DEF EnqueueStep, NotAnnounced, QueueClear, ReopenUnchanged, QueueRaise, InsertRow,
     NobodyToWake, EnqueueFails
<1>5. CASE EngineStep
  BY <1>1, <1>5 DEF EngineStep, BeginCheck, EndCheck, CloseChanged, CloseRemoved, ConditionClears,
     ConditionRaises, ClearAlert
<1>6. CASE Stop \/ Tick \/ \E step \in Steps : ClockSet(step)
  BY <1>1, <1>6 DEF Stop, Tick, ClockSet
<1>7. CASE Ends \/ \E file \in NotifyFiles : Starts(file)
  BY <1>7 DEF Ends, Starts, IdleLane
<1> QED
  BY <1>2, <1>3, <1>4, <1>5, <1>6, <1>7 DEF Next, ProcessStep

LEMMA ReachedStep ==
  ASSUME IInv, NewsInv, Next
  PROVE  ReachedIsTold'
<1> SUFFICES ASSUME NEW w \in Webhooks, lane'[w].pc = "delivering", lane'[w].reached
             PROVE  LastIs(w, <<lane[w].row.alert, lane[w].row.event>>)'
  BY DEF ReachedIsTold
<1>0. received[w] \in Seq(Items) /\ Len(received[w]) \in Nat /\ received'[w] \in Seq(Items)
  <2>1. TypeOK'
    BY TypeNext DEF IInv
  <2> QED
    BY <2>1 DEF IInv, TypeOK
<1>1. CASE ReceiverGets(w)
  <2>1. Len(received'[w]) = Len(received[w]) + 1
    BY <1>1, Arrives
  <2>2. received'[w] # << >>
    BY <1>0, <2>1
  <2>3. received'[w][Len(received'[w])] = <<lane[w].row.alert, lane[w].row.event>>
    BY <1>1, <2>1, Arrives DEF IInv, InFlightInv, InFlightIsHead
  <2> QED
    BY <1>1, <2>2, <2>3, Arrives DEF LastIs
<1>2. CASE ~ReceiverGets(w)
  BY <1>2, LaneReached, ReceivedOfOthers DEF NewsInv, ReachedIsTold, LastIs
<1> QED
  BY <1>1, <1>2

-----------------------------------------------------------------------------
(***************************************************************************)
(* The last word a receiver will have had of a rule and metric once what   *)
(* waits for it has arrived.                                               *)
(***************************************************************************)
Newest(S) == {i \in S : \A j \in S : j <= i}
Item(i) == <<outbox[i].alert, outbox[i].event>>
Queue(w, k) == {i \in PendingOf(outbox, w) : alerts[outbox[i].alert].key = k}
LastWord(w, k, S) == IF S = {} THEN LastTold(w, k) ELSE {Item(i) : i \in Newest(S)}

(* What the queue says but for the clears that may yet be withdrawn. *)
Firm(w, k) == {i \in Queue(w, k) : ~EditClear(i)}

LEMMA RowIds ==
  ASSUME TypeOK
  PROVE  DOMAIN outbox \subseteq Nat /\ DOMAIN Table = DOMAIN outbox
  BY TableKeeps, IdsAssumption DEF TypeOK, IsTable

LEMMA SameItem ==
  ASSUME IInv, Next, NEW i \in DOMAIN outbox, i \in DOMAIN outbox'
  PROVE  /\ outbox'[i].alert = outbox[i].alert /\ outbox'[i].event = outbox[i].event
         /\ outbox'[i].webhook = outbox[i].webhook
<1>1. ~Inserted(i)
  BY RowIds DEF IInv, Inserted
<1> QED
  BY <1>1, RowsFromStep DEF RowsFrom, Was

LEMMA LastToldStays ==
  ASSUME IInv, NewsInv, Next, NEW w \in Webhooks, NEW k, received'[w] = received[w]
  PROVE  LastTold(w, k)' = LastTold(w, k)
<1>1. \A n \in 1 .. Len(received[w]) :
        alerts'[received'[w][n][1]].key = alerts[received[w][n][1]].key
  BY AlertsGrow DEF NewsInv, ToldOfAlerts, SameAlert
<1>2. ToldAbout(w, k)' = ToldAbout(w, k)
  BY <1>1 DEF ToldAbout
<1> QED
  BY <1>2 DEF LastTold

LEMMA WordStays ==
  ASSUME IInv, NewsInv, Next, NEW w \in Webhooks, NEW k, NEW S,
         S \subseteq DOMAIN outbox, S \subseteq DOMAIN outbox',
         S = {} => received'[w] = received[w]
  PROVE  LastWord(w, k, S)' = LastWord(w, k, S)
<1>1. \A i \in S : Item(i)' = Item(i)
  BY SameItem DEF Item
<1>2. CASE S = {}
  BY <1>2, LastToldStays DEF LastWord
<1>3. CASE S # {}
  <2>1. Newest(S) \subseteq S
    BY DEF Newest
  <2>2. {Item(i)' : i \in Newest(S)} = {Item(i) : i \in Newest(S)}
    BY <1>1, <2>1
  <2> QED
    BY <1>3, <2>2 DEF LastWord, Newest
<1> QED
  BY <1>2, <1>3

(* Which rows are about a rule and metric does not change. *)
LEMMA QueueStep ==
  ASSUME IInv, NewsInv, Next, NEW w \in Webhooks, NEW k
  PROVE  \A i \in PendingOf(outbox, w) : i \in PendingOf(outbox', w) =>
           (i \in Queue(w, k)' <=> i \in Queue(w, k))
<1> SUFFICES ASSUME NEW i \in PendingOf(outbox, w), i \in PendingOf(outbox', w)
             PROVE  i \in Queue(w, k)' <=> i \in Queue(w, k)
  OBVIOUS
<1>1. i \in DOMAIN outbox /\ i \in DOMAIN outbox'
  BY DEF PendingOf
<1>2. outbox'[i].alert = outbox[i].alert
  BY <1>1, SameItem
<1>3. alerts'[outbox[i].alert].key = alerts[outbox[i].alert].key
  BY <1>1, AlertsGrow DEF NewsInv, RowsOfAlerts, SameAlert
<1> QED
  BY <1>2, <1>3 DEF Queue

LEMMA QueueSame ==
  ASSUME IInv, NewsInv, Next, NEW w \in Webhooks, NEW k,
         PendingOf(outbox', w) = PendingOf(outbox, w)
  PROVE  Queue(w, k)' = Queue(w, k)
<1>1. Queue(w, k)' \subseteq PendingOf(outbox', w) /\ Queue(w, k) \subseteq PendingOf(outbox, w)
  BY DEF Queue
<1> QED
  BY <1>1, QueueStep

(* A clear of this check that may be withdrawn stays one while the check    *)
(* and the alerts stay.                                                     *)
LEMMA EditClearSame ==
  ASSUME IInv, Next, UNCHANGED <<alerts, engine>>, NEW w, NEW i \in PendingOf(outbox, w),
         i \in PendingOf(outbox', w)
  PROVE  EditClear(i)' <=> EditClear(i)
<1>1. /\ i \in DOMAIN outbox /\ i \in DOMAIN outbox'
      /\ outbox[i].status = "pending" /\ outbox'[i].status = "pending"
  BY DEF PendingOf
<1> QED
  BY <1>1, SameItem DEF EditClear

(* The end of a delivery: what left the queue is what was heard last. *)
LEMMA WordAfterDelivery ==
  ASSUME IInv, NewsInv, Next, NEW w \in Webhooks, NEW k, DeliverySucceeds(w), LaneEnds(w),
         NEW S, S \subseteq Queue(w, k), NEW id, id = lane[w].id
  PROVE  LastWord(w, k, S \ {id})' = LastWord(w, k, S)
<1> USE DEF clocks, sender, database
<1>1. /\ lane[w].pc = "delivering" /\ lane[w].reached /\ UNCHANGED received
  BY DEF DeliverySucceeds, Resumes
<1>2. /\ S \subseteq DOMAIN outbox /\ S \ {id} \subseteq DOMAIN outbox'
      /\ S \subseteq PendingOf(outbox, w)
  BY DEF Queue, PendingOf, LaneEnds
<1>3. LastWord(w, k, S \ {id})' = LastWord(w, k, S \ {id})
  BY <1>1, <1>2, WordStays
<1>4. CASE id \notin S
  <2>1. S \ {id} = S
    BY <1>4
  <2> QED
    BY <1>3, <2>1
<1>5. CASE id \in S /\ S # {id}
  <2>1. IsHead(outbox, w, id)
    BY <1>1 DEF IInv, InFlightInv, InFlightIsHead
  <2>2. \A i \in S : id <= i
    BY <1>2, <2>1 DEF IsHead
  <2>3. DOMAIN outbox \subseteq Nat
    BY RowIds DEF IInv
  <2>4. Newest(S \ {id}) = Newest(S)
    BY <1>2, <1>5, <2>2, <2>3 DEF Newest
  <2> QED
    BY <1>3, <1>5, <2>4 DEF LastWord
<1>6. CASE S = {id}
  <2>1. S \ {id} = {} /\ id \in Queue(w, k) /\ id \in DOMAIN outbox
    BY <1>2, <1>6
  <2>2. id <= id
    BY <2>1, RowIds DEF IInv
  <2>3. LastWord(w, k, S) = {Item(id)}
    BY <1>6, <2>2 DEF LastWord, Newest
  <2>4. LastIs(w, Item(id))
    BY <1>1 DEF NewsInv, ReachedIsTold, Item, IInv, InFlightInv, InFlightIsHead
  <2>5. LastTold(w, k) = {Item(id)}
    <3> DEFINE n == Len(received[w])
    <3>1. n \in Nat /\ received[w] \in Seq(Items)
      BY DEF IInv, TypeOK
    <3>2. n # 0 /\ received[w][n] = Item(id)
      BY <2>4, <3>1 DEF LastIs
    <3>3. alerts[received[w][n][1]].key = k
      BY <2>1, <3>2 DEF Item, Queue
    <3> HIDE DEF n
    <3>4. ToldAbout(w, k) \subseteq 1 .. n /\ n \in ToldAbout(w, k)
      BY <3>1, <3>2, <3>3 DEF ToldAbout, n
    <3>5. {i \in ToldAbout(w, k) : \A j \in ToldAbout(w, k) : j <= i} = {n}
      BY <3>1, <3>4
    <3> QED
      BY <3>2, <3>5 DEF LastTold
  <2> QED
    BY <1>3, <2>1, <2>3, <2>5 DEF LastWord
<1> QED
  BY <1>4, <1>5, <1>6

-----------------------------------------------------------------------------
(***************************************************************************)
(* The last word is in step with the alerts, or the next is owed.          *)
(***************************************************************************)
KnowsOf(words, a) == \E told \in words : told[2] = "raised" /\ SaysTheSame(told[1], a)
Knows(w, k, words) ==
  \/ NewestRemoved(w, k)
  \/ \E a \in OpenFor(k) : Reaches(w, a) /\ KnowsOf(words, a)
  \/ /\ \A a \in OpenFor(k) : ~Reaches(w, a)
     /\ \A told \in words : told[2] = "cleared"

(* What is being announced is still to be queued for w. *)
Owed(w, k) == /\ emit.pc # "none" /\ alerts[emit.alert].key = k /\ Reaches(w, emit.alert)
              /\ emit.pc = "new" \/ w \in emit.todo

NotReopened(a) ==
  \A b \in DOMAIN alerts : alerts[b].key = alerts[a].key =>
    b <= a \/ (b = emit.alert /\ emit.pc = "new" /\ emit.type = "raised")

(* Without the clears a reopening would withdraw, the queue still says that *)
(* what an edit has just closed is open.                                    *)
FirmTells(w, k) == Checking =>
  \A a \in DOMAIN alerts :
    alerts[a].key = k /\ EditClosed(a) /\ Reaches(w, a) /\ NotReopened(a)
      => KnowsOf(LastWord(w, k, Firm(w, k)), a)

Listens(w, k) == Events[w] = NotificationEvents /\ <<w, k>> \notin missed
Tells(w, k) == /\ Owed(w, k) \/ Knows(w, k, LastWord(w, k, Queue(w, k)))
               /\ FirmTells(w, k)
TellsInv == \A w \in Webhooks, k \in Keys : Listens(w, k) => Tells(w, k)

LEMMA QueueRows ==
  ASSUME NEW w, NEW k
  PROVE  /\ Firm(w, k) \subseteq Queue(w, k) /\ Queue(w, k) \subseteq PendingOf(outbox, w)
         /\ PendingOf(outbox, w) \subseteq DOMAIN outbox
  BY DEF Firm, Queue, PendingOf

LEMMA WordsOfAlerts ==
  ASSUME NewsInv, NEW w \in Webhooks, NEW k, NEW S, S \subseteq DOMAIN outbox,
         NEW told \in LastWord(w, k, S)
  PROVE  told[1] \in DOMAIN alerts
<1>1. CASE S = {}
  <2>1. told \in LastTold(w, k)
    BY <1>1 DEF LastWord
  <2>2. PICK n \in 1 .. Len(received[w]) : told = received[w][n]
    BY <2>1 DEF LastTold, ToldAbout
  <2> QED
    BY <2>2 DEF NewsInv, ToldOfAlerts
<1>2. CASE S # {}
  <2>1. PICK i \in S : told = Item(i)
    BY <1>2 DEF LastWord, Newest
  <2> QED
    BY <2>1 DEF NewsInv, RowsOfAlerts, Item
<1> QED
  BY <1>1, <1>2

(* What was missed is not made up for. *)
LEMMA MissedStays ==
  ASSUME IInv, Next
  PROVE  missed \subseteq missed'
<1>1. Ends \/ (\E file \in NotifyFiles : Starts(file)) => missed \subseteq missed'
  BY DEF Ends, Starts
<1>2. Tick \/ (\E step \in Steps : ClockSet(step)) => missed \subseteq missed'
  BY DEF Tick, ClockSet
<1> QED
  BY <1>1, <1>2, GoesOnOrNot DEF ProcessGoesOn, IInv

(* A message that arrives is the last word on its rule only.  *)
LEMMA ToldOnArrival ==
  ASSUME IInv, NewsInv, Next, NEW w \in Webhooks, NEW k, ReceiverGets(w),
         lane[w].id \notin Queue(w, k)
  PROVE  LastTold(w, k)' = LastTold(w, k)
<1>0. received[w] \in Seq(Items)
  BY DEF IInv, TypeOK
<1>1. PICK n \in Nat : n = Len(received[w])
  BY <1>0
<1>2. lane[w].id \in PendingOf(outbox, w) /\ lane[w].id \in DOMAIN outbox
  BY Arrives DEF PendingOf
<1>3. alerts[outbox[lane[w].id].alert].key # k
  BY <1>2 DEF Queue
<1>4. UNCHANGED alerts
  BY DEF ReceiverGets, database
<1>5. /\ Len(received'[w]) = n + 1 /\ alerts[received'[w][n + 1][1]].key # k
      /\ \A m \in 1 .. n : received'[w][m] = received[w][m]
  BY <1>1, <1>3, Arrives
<1>6. ToldAbout(w, k) = {m \in 1 .. n : alerts[received[w][m][1]].key = k}
  BY <1>1 DEF ToldAbout
<1>7. ToldAbout(w, k)' = {m \in 1 .. n + 1 : alerts[received'[w][m][1]].key = k}
  BY <1>4, <1>5 DEF ToldAbout
<1>8. ToldAbout(w, k)' = ToldAbout(w, k) /\ ToldAbout(w, k) \subseteq 1 .. n
  <2>1. \A m \in 1 .. n + 1 : m \in 1 .. n \/ m = n + 1
    OBVIOUS
  <2>2. \A m \in 1 .. n : m \in 1 .. n + 1
    OBVIOUS
  <2> QED
    BY <1>5, <1>6, <1>7, <2>1, <2>2
<1> QED
  BY <1>5, <1>8 DEF LastTold

(* A row on its way is not a clear that may be withdrawn. *)
LEMMA OnItsWay ==
  ASSUME IInv, Checking, NEW w \in Webhooks, lane[w].pc = "delivering"
  PROVE  ~EditClear(lane[w].id)
  BY LaneRow DEF IInv, InFlightInv, EditClearsWait

CalmWords(w, k) ==
  /\ LastWord(w, k, Queue(w, k))' = LastWord(w, k, Queue(w, k))
  /\ Checking => LastWord(w, k, Firm(w, k))' = LastWord(w, k, Firm(w, k))

(* Queues of one rule and metric that stay say the same as before. *)
LEMMA SameQueues ==
  ASSUME IInv, NewsInv, Next, UNCHANGED <<alerts, engine>>, NEW w \in Webhooks, NEW k,
         Queue(w, k)' = Queue(w, k), Queue(w, k) \subseteq PendingOf(outbox', w),
         received'[w] = received[w] \/ ReceiverGets(w)
  PROVE  CalmWords(w, k)
<1>1. /\ Queue(w, k) \subseteq DOMAIN outbox /\ Queue(w, k) \subseteq DOMAIN outbox'
      /\ Firm(w, k) \subseteq Queue(w, k)
  BY DEF Queue, PendingOf, Firm
<1>2. Firm(w, k)' = Firm(w, k)
  <2>1. \A i \in Queue(w, k) : EditClear(i)' <=> EditClear(i)
    BY QueueRows, EditClearSame
  <2> QED
    BY <2>1 DEF Firm
<1>3. ASSUME NEW S, S \subseteq Queue(w, k),
             lane[w].id \in S \/ lane[w].id \notin Queue(w, k) \/ ~ReceiverGets(w)
      PROVE  LastWord(w, k, S)' = LastWord(w, k, S)
  <2>1. S \subseteq DOMAIN outbox /\ S \subseteq DOMAIN outbox'
    BY <1>1, <1>3
  <2>2. CASE S # {}
    BY <2>1, <2>2, WordStays
  <2>3. CASE S = {} /\ ~ReceiverGets(w)
    BY <2>1, <2>3, WordStays
  <2>4. CASE S = {} /\ ReceiverGets(w)
    BY <1>3, <2>4, ToldOnArrival DEF LastWord
  <2> QED
    BY <2>2, <2>3, <2>4
<1>4. LastWord(w, k, Queue(w, k))' = LastWord(w, k, Queue(w, k))
  <2>1. PICK S : S = Queue(w, k)
    OBVIOUS
  <2>2. LastWord(w, k, S)' = LastWord(w, k, S)
    BY <1>3, <2>1
  <2>3. Queue(w, k)' = S
    BY <2>1
  <2> QED
    BY <2>1, <2>2, <2>3 DEF LastWord
<1>5. Checking => LastWord(w, k, Firm(w, k))' = LastWord(w, k, Firm(w, k))
  <2> SUFFICES ASSUME Checking PROVE LastWord(w, k, Firm(w, k))' = LastWord(w, k, Firm(w, k))
    OBVIOUS
  <2>1. PICK S : S = Firm(w, k)
    OBVIOUS
  <2>2. lane[w].id \in S \/ lane[w].id \notin Queue(w, k) \/ ~ReceiverGets(w)
    BY <2>1, OnItsWay, Arrives DEF Firm
  <2>3. LastWord(w, k, S)' = LastWord(w, k, S)
    BY <1>1, <1>3, <2>1, <2>2
  <2>4. Firm(w, k)' = S
    BY <1>2, <2>1
  <2> QED
    BY <2>1, <2>3, <2>4 DEF LastWord
<1> QED
  BY <1>4, <1>5 DEF CalmWords


(***************************************************************************)
(* Steps that leave the alerts and the queue alone.                        *)
(***************************************************************************)
LEMMA KnowsStays ==
  ASSUME UNCHANGED alerts, NEW w, NEW k, NEW words
  PROVE  /\ Knows(w, k, words)' <=> Knows(w, k, words)
         /\ \A a : KnowsOf(words, a)' <=> KnowsOf(words, a)
  BY DEF Knows, KnowsOf, NewestRemoved, ReachingAlerts, OpenFor, Open, Reaches, SaysTheSame

LEMMA CalmReopened ==
  ASSUME UNCHANGED alerts, EventGoesOn \/ emit'.pc = "none", NEW a
  PROVE  NotReopened(a)' => NotReopened(a)
<1>1. UNCHANGED emit \/ emit'.pc # "new"
  BY DEF EventGoesOn
<1>2. CASE UNCHANGED emit
  BY <1>2 DEF NotReopened
<1>3. CASE emit'.pc # "new"
  BY <1>3 DEF NotReopened
<1> QED
  BY <1>1, <1>2, <1>3

LEMMA CalmTells ==
  ASSUME UNCHANGED <<alerts, engine>>, EventGoesOn \/ emit'.pc = "none",
         NEW w, NEW k, CalmWords(w, k), Tells(w, k),
         Owed(w, k) => Owed(w, k)' \/ NewestRemoved(w, k)
  PROVE  Tells(w, k)'
<1>1. Owed(w, k)' \/ Knows(w, k, LastWord(w, k, Queue(w, k)))'
  <2>1. PICK words : words = LastWord(w, k, Queue(w, k))
    OBVIOUS
  <2>2. words = LastWord(w, k, Queue(w, k))'
    BY <2>1 DEF CalmWords
  <2>3. Owed(w, k)' \/ Knows(w, k, words)
    BY <2>1 DEF Tells, Knows
  <2>4. Owed(w, k)' \/ Knows(w, k, words)'
    BY <2>3, KnowsStays
  <2> QED
    BY <2>2, <2>4 DEF Knows
<1>2. FirmTells(w, k)'
  <2> SUFFICES ASSUME Checking, NEW a \in DOMAIN alerts, alerts[a].key = k,
                      EditClosed(a), Reaches(w, a), NotReopened(a)'
               PROVE  KnowsOf(LastWord(w, k, Firm(w, k)), a)'
    BY DEF FirmTells, Checking, EditClosed, Reaches
  <2>1. PICK words : words = LastWord(w, k, Firm(w, k))
    OBVIOUS
  <2>2. words = LastWord(w, k, Firm(w, k))'
    BY <2>1 DEF CalmWords
  <2>3. NotReopened(a)
    BY CalmReopened
  <2>4. KnowsOf(words, a)
    BY <2>1, <2>3 DEF Tells, FirmTells
  <2>5. KnowsOf(words, a)'
    BY <2>4, KnowsStays
  <2> QED
    BY <2>2, <2>5 DEF KnowsOf
<1> QED
  BY <1>1, <1>2 DEF Tells

(* The queue and the receiver as they were: the last word as it was.       *)
LEMMA QueueWords ==
  ASSUME IInv, NewsInv, Next, NEW w \in Webhooks, NEW k,
         Queue(w, k)' = Queue(w, k), Queue(w, k) \subseteq PendingOf(outbox', w),
         received'[w] = received[w]
  PROVE  LastWord(w, k, Queue(w, k))' = LastWord(w, k, Queue(w, k))
<1>1. Queue(w, k) \subseteq DOMAIN outbox /\ Queue(w, k) \subseteq DOMAIN outbox'
  BY DEF Queue, PendingOf
<1>2. PICK S : S = Queue(w, k)
  OBVIOUS
<1>3. LastWord(w, k, S)' = LastWord(w, k, S)
  BY <1>1, <1>2, WordStays
<1>4. Queue(w, k)' = S
  BY <1>2
<1> QED
  BY <1>2, <1>3, <1>4 DEF LastWord

(* A queue of w that stays says the same of every rule and metric. *)
LEMMA CalmQueue ==
  ASSUME IInv, NewsInv, Next, UNCHANGED <<alerts, engine>>, NEW w \in Webhooks, NEW k,
         PendingOf(outbox', w) = PendingOf(outbox, w)
  PROVE  CalmWords(w, k)
<1>1. Queue(w, k)' = Queue(w, k) /\ Queue(w, k) \subseteq PendingOf(outbox', w)
  BY QueueSame DEF Queue
<1>2. received'[w] = received[w] \/ ReceiverGets(w)
  BY ReceivedOfOthers
<1> QED
  BY <1>1, <1>2, SameQueues

LEMMA LaneTells ==
  ASSUME IInv, NewsInv, NEW w \in Webhooks, NEW k \in Keys, Tells(w, k), Listens(w, k)',
         NEW v \in Webhooks, LaneStep(v) \/ ReceiverGets(v)
  PROVE  Tells(w, k)'
<1> USE DEF clocks, sender, database
<1>0. Next
  BY DEF Next
<1>1. UNCHANGED <<alerts, engine, emit>>
  BY DEF LaneStep, NothingPending, PullIn, NotDue, StartDelivery, Looks, ReceiverGets,
     DeliverySucceeds, AttemptFails, GivesUp, DeliveryCut, RecordFails, Continue, Resumes
<1>2. (Owed(w, k) => Owed(w, k)') /\ (EventGoesOn \/ emit'.pc = "none")
  BY <1>1 DEF Owed, Reaches, EventGoesOn
<1>3. ASSUME CalmWords(w, k) PROVE Tells(w, k)'
  BY <1>1, <1>2, <1>3, CalmTells
<1>4. CASE PendingOf(outbox', w) = PendingOf(outbox, w)
  BY <1>0, <1>1, <1>3, <1>4, CalmQueue
<1>5. CASE PendingOf(outbox', w) # PendingOf(outbox, w)
  <2>1. v = w /\ LaneEnds(w) /\ (DeliverySucceeds(w) \/ GivesUp(w))
    BY <1>5, LaneQueues DEF QueuesStay, LaneEnds
  <2>2. PICK id : id = lane[w].id
    OBVIOUS
  <2>3. PendingOf(outbox', w) = PendingOf(outbox, w) \ {id} /\ lane[w].pc = "delivering"
    BY <2>1, <2>2 DEF LaneEnds
  <2>4. Queue(w, k)' = Queue(w, k) \ {id}
    <3>1. \A i : i \in Queue(w, k)' => i \in PendingOf(outbox', w)
      BY DEF Queue
    <3>2. \A i : i \in Queue(w, k) => i \in PendingOf(outbox, w)
      BY DEF Queue
    <3> QED
      BY <1>0, <2>3, <3>1, <3>2, QueueStep
  <2>5. CASE DeliverySucceeds(w)
    <3>1. ASSUME NEW S, S \subseteq Queue(w, k)
          PROVE  LastWord(w, k, S \ {id})' = LastWord(w, k, S)
      BY <1>0, <2>1, <2>2, <2>5, <3>1, WordAfterDelivery
    <3>2. LastWord(w, k, Queue(w, k))' = LastWord(w, k, Queue(w, k))
      <4>1. PICK S : S = Queue(w, k)
        OBVIOUS
      <4>2. LastWord(w, k, S \ {id})' = LastWord(w, k, S) /\ Queue(w, k)' = S \ {id}
        BY <2>4, <3>1, <4>1
      <4> QED
        BY <4>1, <4>2 DEF LastWord
    <3>3. LastWord(w, k, Firm(w, k))' = LastWord(w, k, Firm(w, k))
      <4>1. PICK S : S = Firm(w, k)
        OBVIOUS
      <4>2. \A i \in Queue(w, k) \ {id} : EditClear(i)' <=> EditClear(i)
        BY <1>0, <1>1, <2>3, QueueRows, EditClearSame
      <4>3. Firm(w, k)' = S \ {id}
        BY <2>4, <4>1, <4>2 DEF Firm
      <4>4. LastWord(w, k, S \ {id})' = LastWord(w, k, S)
        BY <3>1, <4>1, QueueRows
      <4> QED
        BY <4>1, <4>3, <4>4 DEF LastWord
    <3> QED
      BY <1>3, <3>2, <3>3 DEF CalmWords
  <2>6. CASE GivesUp(w)
    <3>1. IsHead(outbox, w, id) /\ outbox[id].alert = lane[w].row.alert
      BY <2>2, <2>3 DEF IInv, InFlightInv, InFlightIsHead
    <3>2. id \in DOMAIN outbox /\ outbox[id].alert \in DOMAIN alerts
      BY <3>1 DEF IsHead, PendingOf, NewsInv, RowsOfAlerts
    <3>3. missed' = missed \cup ({w} \X {alerts[outbox[id].alert].key})
      BY <2>6, <3>1, <3>2 DEF GivesUp, KeyOf
    <3>4. id \notin Queue(w, k)
      BY <3>3 DEF Listens, Queue
    <3>5. Queue(w, k)' = Queue(w, k) /\ Queue(w, k) \subseteq PendingOf(outbox', w)
      BY <2>3, <2>4, <3>4, QueueRows
    <3>6. received'[w] = received[w]
      BY <2>6 DEF GivesUp
    <3> QED
      BY <1>0, <1>1, <1>3, <3>5, <3>6, SameQueues
  <2> QED
    BY <2>1, <2>5, <2>6
<1> QED
  BY <1>4, <1>5


(* What a webhook that missed nothing of a rule and metric is served. *)
LEMMA ListensServed ==
  ASSUME NewsInv, NEW w \in Webhooks, NEW k \in Keys, <<w, k>> \notin missed, process # "down"
  PROVE  w \in configured
  BY DEF NewsInv, ServedInv

LEMMA QuietTells ==
  ASSUME IInv, NewsInv, NEW w \in Webhooks, NEW k \in Keys, Listens(w, k), Tells(w, k),
         Listens(w, k)',
         \/ NotAnnounced \/ QueueClear \/ WakeAfterQueue \/ NobodyToWake \/ EnqueueFails
         \/ Stop \/ Timer \/ Tick \/ \E step \in Steps : ClockSet(step)
  PROVE  Tells(w, k)'
<1> USE DEF clocks, sender, database
<1>0. Next /\ QueuesStay
  <2>1. TypeOK
    BY DEF IInv
  <2> QED
    BY <2>1, QuietQueues DEF Next, EnqueueStep, ProcessStep
<1>1. UNCHANGED <<alerts, engine>>
  BY DEF NotAnnounced, QueueClear, WakeAfterQueue, NobodyToWake, EnqueueFails, Stop, Timer,
     Tick, ClockSet
<1>2. CASE emit'.pc = "none" \/ UNCHANGED emit \/ QueueClear
  <2>1. EventGoesOn \/ emit'.pc = "none"
    <3>1. CASE QueueClear
      <4>1. emit \in [pc: {"none", "new", "inserting"}, type: NotificationEvents, alert: Nat,
                      nextAt: Int, todo: SUBSET Webhooks, queued: BOOLEAN]
        BY DEF IInv, TypeOK
      <4>2. emit'.pc = "inserting" /\ emit'.alert = emit.alert /\ emit'.type = emit.type
        BY <3>1, <4>1 DEF QueueClear
      <4> QED
        BY <3>1, <4>2 DEF EventGoesOn, QueueClear, Handles
    <3> QED
      BY <1>1, <1>2, <3>1 DEF EventGoesOn
  <2>2. CalmWords(w, k)
    BY <1>0, <1>1, CalmQueue DEF QueuesStay
  <2>3. ASSUME Owed(w, k) PROVE Owed(w, k)' \/ NewestRemoved(w, k)
    <3>0. /\ emit.alert \in DOMAIN alerts /\ emit.pc # "none" /\ process # "down"
          /\ w \in configured
      <4>1. emit.alert \in DOMAIN alerts /\ emit.pc # "none" /\ process # "down"
        BY <2>3 DEF Owed, IInv, InFlightInv, EventIsOfThisCheck, DownIsIdle, NoEvent
      <4> QED
        BY <4>1, ListensServed DEF Listens
    <3>1. CASE NotAnnounced
      <4>1. alerts[emit.alert].clearedBy = "rule_removed"
        BY <3>0, <3>1 DEF NotAnnounced
      <4>2. \A b \in DOMAIN alerts : alerts[b].key = alerts[emit.alert].key => b <= emit.alert
        BY <3>0 DEF NewsInv, OrderInv, EventIsNewest
      <4> QED
        BY <2>3, <3>0, <4>1, <4>2 DEF Owed, NewestRemoved, ReachingAlerts
    <3>2. CASE QueueClear
      <4>0. emit \in [pc: {"none", "new", "inserting"}, type: NotificationEvents, alert: Nat,
                      nextAt: Int, todo: SUBSET Webhooks, queued: BOOLEAN]
        BY DEF IInv, TypeOK
      <4>1. /\ emit'.pc = "inserting" /\ emit'.alert = emit.alert
            /\ emit'.todo = Interested("cleared", emit.alert)
        BY <3>2, <4>0 DEF QueueClear
      <4>2. w \in Interested("cleared", emit.alert)
        BY <2>3, <3>0 DEF Interested, Owed, Listens, NotificationEvents
      <4> QED
        BY <1>1, <2>3, <4>1, <4>2 DEF Owed, Reaches
    <3>3. CASE WakeAfterQueue \/ NobodyToWake
      BY <2>3, <3>3 DEF WakeAfterQueue, NobodyToWake, Inserts, Owed
    <3>4. CASE EnqueueFails
      BY <2>3, <3>0, <3>4 DEF EnqueueFails, Lost, KeyOf, Owed, Listens
    <3>5. CASE UNCHANGED emit
      BY <1>1, <2>3, <3>5 DEF Owed, Reaches
    <3> QED
      BY <3>1, <3>2, <3>3, <3>4, <3>5 DEF Stop, Timer, Tick, ClockSet
  <2> QED
    BY <1>1, <2>1, <2>2, <2>3, CalmTells
<1>3. emit'.pc = "none" \/ UNCHANGED emit \/ QueueClear
  <2>1. CASE NotAnnounced \/ WakeAfterQueue \/ NobodyToWake \/ EnqueueFails
    BY <2>1 DEF NotAnnounced, WakeAfterQueue, NobodyToWake, EnqueueFails, NoEvent
  <2>2. CASE Stop \/ Timer \/ Tick \/ \E step \in Steps : ClockSet(step)
    BY <2>2 DEF Stop, Timer, Tick, ClockSet
  <2> QED
    BY <2>1, <2>2
<1> QED
  BY <1>2, <1>3

(* The start of a process, and the start and end of a check. *)
LEMMA TurnTells ==
  ASSUME IInv, NewsInv, NEW w \in Webhooks, NEW k \in Keys, Listens(w, k), Tells(w, k),
         Listens(w, k)',
         \/ BeginCheck \/ EndCheck \/ Ends \/ \E file \in NotifyFiles : Starts(file)
  PROVE  Tells(w, k)'
<1> USE DEF clocks, sender, database
<1>0. TypeOK /\ Next
  BY DEF IInv, Next, EngineStep, ProcessStep
<1>1. PendingOf(outbox', w) = PendingOf(outbox, w)
  <2>1. ASSUME NEW file \in NotifyFiles, Starts(file)
        PROVE  PendingOf(outbox', w) = PendingOf(outbox, w)
    <3>1. w \in file
      BY <2>1 DEF Starts, Listens
    <3> QED
      BY <1>0, <2>1, <3>1, StartQueues
  <2>2. CASE BeginCheck \/ EndCheck \/ Ends
    BY <2>2 DEF BeginCheck, EndCheck, Ends
  <2> QED
    BY <2>1, <2>2
<1>2. UNCHANGED alerts /\ received'[w] = received[w] /\ emit'.pc = "none"
  BY DEF BeginCheck, Quiet, EndCheck, EngineRuns, Ends, Starts, NoEvent, IInv, InFlightInv, DownIsIdle
<1>3. ~Owed(w, k)
  <2>1. CASE emit.pc = "none"
    BY <2>1 DEF Owed
  <2>2. CASE emit.pc # "none"
    <3>1. Ends
      BY <2>2 DEF BeginCheck, Quiet, EndCheck, EngineRuns, Starts, NoEvent, IInv, InFlightInv, DownIsIdle
    <3>2. emit.alert \in DOMAIN alerts
      BY <2>2 DEF IInv, InFlightInv, EventIsOfThisCheck
    <3> QED
      BY <2>2, <3>1, <3>2 DEF Ends, Lost, KeyOf, Owed, Listens
  <2> QED
    BY <2>1, <2>2
<1>4. Knows(w, k, LastWord(w, k, Queue(w, k)))'
  <2>1. Queue(w, k)' = Queue(w, k) /\ Queue(w, k) \subseteq PendingOf(outbox', w)
    BY <1>0, <1>1, QueueSame DEF Queue
  <2>2. PICK words : words = LastWord(w, k, Queue(w, k))
    OBVIOUS
  <2>3. words = LastWord(w, k, Queue(w, k))'
    BY <1>0, <1>2, <2>1, <2>2, QueueWords
  <2>4. Knows(w, k, words)'
    BY <1>2, <1>3, <2>2, KnowsStays DEF Tells, Knows
  <2> QED
    BY <2>3, <2>4 DEF Knows
<1>5. FirmTells(w, k)'
  <2>1. CASE BeginCheck
    <3>1. UNCHANGED alerts /\ engine'.t = wall /\ wall \notin Stamps
      BY <2>1 DEF BeginCheck
    <3>2. \A a \in DOMAIN alerts' : ~EditClosed(a)'
      BY <3>1 DEF Stamps, EditClosed
    <3> QED
      BY <3>2 DEF FirmTells
  <2>2. CASE ~Checking'
    BY <2>2 DEF FirmTells, Checking
  <2>3. ~BeginCheck => ~Checking'
    BY DEF EndCheck, Ends, Starts, NoCheck, Checking, IInv, InFlightInv, DownIsIdle
  <2> QED
    BY <2>1, <2>2, <2>3
<1> QED
  BY <1>4, <1>5 DEF Tells


-----------------------------------------------------------------------------
(***************************************************************************)
(* A message is queued: for w and this rule and metric, it is the last     *)
(* word.                                                                   *)
(***************************************************************************)
LEMMA FirmSame ==
  ASSUME IInv, NewsInv, Next, NEW w \in Webhooks, NEW k,
         Firm(w, k)' = Firm(w, k), Firm(w, k) \subseteq PendingOf(outbox', w),
         received'[w] = received[w]
  PROVE  LastWord(w, k, Firm(w, k))' = LastWord(w, k, Firm(w, k))
<1>1. Firm(w, k) \subseteq DOMAIN outbox /\ Firm(w, k) \subseteq DOMAIN outbox'
  BY QueueRows DEF PendingOf
<1>2. PICK S : S = Firm(w, k)
  OBVIOUS
<1>3. LastWord(w, k, S)' = LastWord(w, k, S)
  BY <1>1, <1>2, WordStays
<1>4. Firm(w, k)' = S
  BY <1>2
<1> QED
  BY <1>2, <1>3, <1>4 DEF LastWord

LEMMA InsertWords ==
  ASSUME IInv, NewsInv, NEW w \in Webhooks, NEW k \in Keys, InsertRow(w), Listens(w, k),
         alerts[emit.alert].key = k
  PROVE  /\ Knows(w, k, LastWord(w, k, Queue(w, k)))'
         /\ Tells(w, k) => FirmTells(w, k)'
<1> USE DEF clocks, sender, database
<1>0. /\ TypeOK /\ Next /\ UNCHANGED <<alerts, engine>> /\ received'[w] = received[w]
      /\ w \in emit.todo /\ emit.pc = "inserting"
  BY DEF IInv, Next, EnqueueStep, InsertRow, Inserts
<1>1. emit'.pc = "inserting" /\ EventGoesOn
  <2>1. emit \in [pc: {"none", "new", "inserting"}, type: NotificationEvents, alert: Nat,
                  nextAt: Int, todo: SUBSET Webhooks, queued: BOOLEAN]
    BY <1>0 DEF TypeOK
  <2>2. emit'.pc = "inserting" /\ emit'.alert = emit.alert /\ emit'.type = emit.type
    BY <1>0, <2>1 DEF InsertRow
  <2> QED
    BY <1>0, <2>2 DEF EventGoesOn
<1>2. /\ emit.alert \in DOMAIN alerts /\ emit.alert \in Nat /\ Reaches(w, emit.alert)
      /\ emit.type \in {"raised", "cleared"}
      /\ emit.type = "raised" => alerts[emit.alert].clearedBy = "open"
      /\ emit.type = "cleared" => alerts[emit.alert].clearedBy # "open"
      /\ \A b \in DOMAIN alerts : alerts[b].key = k => b <= emit.alert
  BY <1>0 DEF NewsInv, OrderInv, EventIsNewest, IInv, InFlightInv, EventIsOfThisCheck,
     TypeOK, NotificationEvents
<1>3. PICK n \in Ids : Queues(w, n)
  BY <1>0, InsertQueues
<1>4. /\ n \in Nat /\ n \notin DOMAIN outbox /\ n \in DOMAIN outbox'
      /\ \A i \in DOMAIN outbox : i < n
      /\ outbox'[n].alert = emit.alert /\ outbox'[n].event = emit.type
      /\ PendingOf(outbox', w) = PendingOf(outbox, w) \cup {n}
  BY <1>3, IdsAssumption DEF Queues
<1>5. Queue(w, k)' = Queue(w, k) \cup {n} /\ Queue(w, k) \subseteq DOMAIN outbox
  <2>1. \A i : i \in Queue(w, k)' => i \in PendingOf(outbox', w)
    BY DEF Queue
  <2>2. \A i : i \in Queue(w, k) => i \in PendingOf(outbox, w)
    BY DEF Queue
  <2>3. n \in Queue(w, k)'
    BY <1>0, <1>4 DEF Queue
  <2> QED
    BY <1>0, <1>4, <2>1, <2>2, <2>3, QueueStep, QueueRows
<1>6. Knows(w, k, LastWord(w, k, Queue(w, k)))'
  <2>1. LastWord(w, k, Queue(w, k))' = {<<emit.alert, emit.type>>}
    <3>1. Newest(Queue(w, k)') = {n}
      BY <1>4, <1>5, <1>0, RowIds DEF Newest
    <3> QED
      BY <1>4, <1>5, <3>1 DEF LastWord, Newest, Item
  <2>2. CASE emit.type = "raised"
    <3>1. emit.alert \in OpenFor(k)
      BY <1>2, <2>2 DEF OpenFor, Open
    <3>2. KnowsOf({<<emit.alert, emit.type>>}, emit.alert)
      BY <2>2 DEF KnowsOf, SaysTheSame
    <3>3. Knows(w, k, {<<emit.alert, emit.type>>})
      BY <1>2, <3>1, <3>2 DEF Knows
    <3>4. PICK words : words = {<<emit.alert, emit.type>>}
      OBVIOUS
    <3>5. Knows(w, k, words)'
      BY <1>0, <3>3, <3>4, KnowsStays
    <3> QED
      BY <2>1, <3>4, <3>5 DEF Knows
  <2>3. CASE emit.type = "cleared"
    <3>1. ASSUME NEW a \in OpenFor(k) PROVE FALSE
      <4>1. a \in DOMAIN alerts /\ a \in Nat /\ a \in Open /\ alerts[a].key = k
        BY <1>0, <3>1, AlertIdsAre DEF OpenFor, Open
      <4>2. emit.alert <= a /\ a <= emit.alert
        BY <1>2, <4>1 DEF NewsInv, OrderInv, OpenIsNewest
      <4>3. a = emit.alert
        BY <1>2, <4>1, <4>2
      <4> QED
        BY <1>2, <2>3, <4>1, <4>3 DEF Open
    <3>2. Knows(w, k, {<<emit.alert, emit.type>>})
      BY <2>3, <3>1 DEF Knows
    <3>4. PICK words : words = {<<emit.alert, emit.type>>}
      OBVIOUS
    <3>5. Knows(w, k, words)'
      BY <1>0, <3>2, <3>4, KnowsStays
    <3> QED
      BY <2>1, <3>4, <3>5 DEF Knows
  <2> QED
    BY <1>2, <2>2, <2>3
<1>7. ASSUME Tells(w, k) PROVE FirmTells(w, k)'
  <2> SUFFICES ASSUME Checking, NEW a \in DOMAIN alerts, alerts[a].key = k,
                      EditClosed(a), Reaches(w, a), NotReopened(a)'
               PROVE  KnowsOf(LastWord(w, k, Firm(w, k)), a)'
    BY <1>0 DEF FirmTells, Checking, EditClosed, Reaches
  <2>1. a = emit.alert
    <3>1. a \in Nat /\ a <= emit.alert
      BY <1>0, <1>2, AlertIdsAre
    <3>2. emit.alert <= a
      BY <1>0, <1>1, <1>2 DEF NotReopened
    <3> QED
      BY <1>2, <3>1, <3>2
  <2>2. emit.type = "cleared"
    BY <1>2, <2>1 DEF EditClosed
  <2>3. EditClear(n)'
    <3>1. outbox'[n].status = "pending"
      BY <1>4 DEF PendingOf
    <3> QED
      BY <1>0, <1>4, <2>1, <2>2, <3>1 DEF EditClear, EditClosed
  <2>4. Firm(w, k)' = Firm(w, k) /\ Firm(w, k) \subseteq PendingOf(outbox', w)
    <3>1. \A i \in Queue(w, k) : EditClear(i)' <=> EditClear(i)
      BY <1>0, <1>4, QueueRows, EditClearSame
    <3>2. n \notin Queue(w, k)
      BY <1>4, <1>5
    <3> QED
      BY <1>4, <1>5, <2>3, <3>1, <3>2, QueueRows DEF Firm
  <2>5. PICK words : words = LastWord(w, k, Firm(w, k))
    OBVIOUS
  <2>6. words = LastWord(w, k, Firm(w, k))'
    BY <1>0, <2>4, <2>5, FirmSame
  <2>7. KnowsOf(words, a)
    BY <1>0, <1>1, <1>7, <2>5, CalmReopened DEF Tells, FirmTells
  <2>8. KnowsOf(words, a)'
    BY <1>0, <2>7, KnowsStays
  <2> QED
    BY <2>6, <2>8 DEF KnowsOf
<1> QED
  BY <1>6, <1>7

LEMMA InsertTells ==
  ASSUME IInv, NewsInv, NEW w \in Webhooks, NEW k \in Keys, Listens(w, k), Tells(w, k),
         NEW v \in Webhooks, InsertRow(v)
  PROVE  Tells(w, k)'
<1> USE DEF clocks, sender, database
<1>0. TypeOK /\ Next /\ UNCHANGED <<alerts, engine>> /\ received'[w] = received[w]
  BY DEF IInv, Next, EnqueueStep, InsertRow
<1>1. /\ emit.pc = "inserting" /\ emit'.pc = "inserting" /\ emit'.alert = emit.alert
      /\ emit'.type = emit.type /\ emit'.todo = emit.todo \ {v}
  <2>1. emit \in [pc: {"none", "new", "inserting"}, type: NotificationEvents, alert: Nat,
                  nextAt: Int, todo: SUBSET Webhooks, queued: BOOLEAN]
    BY <1>0 DEF TypeOK
  <2> QED
    BY <1>0, <2>1 DEF InsertRow, Inserts
<1>2. EventGoesOn
  BY <1>1 DEF EventGoesOn
<1>3. PICK n \in Ids : Queues(v, n)
  BY <1>0, InsertQueues
<1>4. CASE v # w
  <2>1. CalmWords(w, k)
    BY <1>0, <1>3, <1>4, CalmQueue DEF Queues
  <2>2. Owed(w, k) => Owed(w, k)'
    BY <1>0, <1>1, <1>4 DEF Owed, Reaches
  <2> QED
    BY <1>0, <1>2, <2>1, <2>2, CalmTells
<1>5. CASE v = w /\ alerts[emit.alert].key # k
  <2>1. /\ PendingOf(outbox', w) = PendingOf(outbox, w) \cup {n}
        /\ outbox'[n].alert = emit.alert /\ n \notin DOMAIN outbox
    BY <1>3, <1>5 DEF Queues
  <2>2. n \notin Queue(w, k)'
    BY <1>0, <1>5, <2>1 DEF Queue
  <2>3. Queue(w, k)' = Queue(w, k) /\ Queue(w, k) \subseteq PendingOf(outbox', w)
    <3>1. \A i : i \in Queue(w, k)' => i \in PendingOf(outbox', w)
      BY DEF Queue
    <3>2. \A i : i \in Queue(w, k) => i \in PendingOf(outbox, w)
      BY DEF Queue
    <3> QED
      BY <1>0, <2>1, <2>2, <3>1, <3>2, QueueStep
  <2>4. CalmWords(w, k)
    BY <1>0, <2>3, SameQueues
  <2>5. ~Owed(w, k)
    BY <1>5 DEF Owed
  <2> QED
    BY <1>0, <1>2, <2>4, <2>5, CalmTells
<1>6. CASE v = w /\ alerts[emit.alert].key = k
  BY <1>6, InsertWords DEF Tells
<1> QED
  BY <1>4, <1>5, <1>6


-----------------------------------------------------------------------------
(***************************************************************************)
(* An alert is raised anew: the clears of an edit before it are withdrawn. *)
(***************************************************************************)
Reopens == ReopenUnchanged \/ QueueRaise

LEMMA ReopenFacts ==
  ASSUME IInv, NewsInv, Reopens
  PROVE  /\ TypeOK /\ Next /\ UNCHANGED <<alerts, engine, received>>
         /\ emit.pc = "new" /\ emit.type = "raised" /\ process # "down" /\ Checking
         /\ emit'.pc # "new" /\ (EventGoesOn \/ emit'.pc = "none")
         /\ emit.alert \in Open /\ emit.alert \in Nat
         /\ alerts[emit.alert].raisedAt = engine.t
         /\ \A c \in DOMAIN alerts : alerts[c].key = alerts[emit.alert].key => c <= emit.alert
         /\ \A c \in ClosedByEdit(emit.alert) :
              c \in DOMAIN alerts /\ EditClosed(c) /\ alerts[c].key = alerts[emit.alert].key
<1> USE DEF clocks, sender, database
<1>0. TypeOK /\ Next /\ emit.alert \in Nat
  BY DEF IInv, TypeOK, Next, EnqueueStep, Reopens
<1>1. /\ UNCHANGED <<alerts, engine, received>> /\ process # "down"
      /\ emit.pc = "new" /\ emit.type = "raised"
  BY DEF Reopens, ReopenUnchanged, QueueRaise, Handles
<1>2. emit'.pc # "new" /\ (EventGoesOn \/ emit'.pc = "none")
  <2>1. CASE ReopenUnchanged
    BY <2>1 DEF ReopenUnchanged, NoEvent
  <2>2. CASE QueueRaise
    <3>1. emit \in [pc: {"none", "new", "inserting"}, type: NotificationEvents, alert: Nat,
                    nextAt: Int, todo: SUBSET Webhooks, queued: BOOLEAN]
      BY <1>0 DEF TypeOK
    <3>2. emit'.pc = "inserting" /\ emit'.alert = emit.alert /\ emit'.type = emit.type
      BY <2>2, <3>1 DEF QueueRaise
    <3> QED
      BY <1>1, <2>2, <3>2 DEF EventGoesOn
  <2> QED
    BY <2>1, <2>2 DEF Reopens
<1>3. /\ emit.alert \in DOMAIN alerts /\ Checking
      /\ alerts[emit.alert].raisedAt = engine.t
  BY <1>1 DEF IInv, InFlightInv, EventIsOfThisCheck
<1>4. /\ alerts[emit.alert].clearedBy = "open"
      /\ \A c \in DOMAIN alerts : alerts[c].key = alerts[emit.alert].key => c <= emit.alert
  BY <1>1 DEF NewsInv, OrderInv, EventIsNewest
<1>5. \A c \in ClosedByEdit(emit.alert) :
        c \in DOMAIN alerts /\ EditClosed(c) /\ alerts[c].key = alerts[emit.alert].key
  BY <1>3 DEF ClosedByEdit, ClosedAtRaise, EditClosed
<1> QED
  BY <1>0, <1>1, <1>2, <1>3, <1>4, <1>5 DEF Open

(* Where it reaches, the alert the edit closed is no longer the newest.     *)
LEMMA ReopenFirm ==
  ASSUME IInv, NewsInv, Reopens, NEW w, NEW k, alerts[emit.alert].key = k
  PROVE  FirmTells(w, k)'
<1>1. SUFFICES ASSUME NEW a \in DOMAIN alerts, alerts[a].key = k, EditClosed(a), NotReopened(a)'
               PROVE  FALSE
  BY ReopenFacts DEF FirmTells, EditClosed
<1>2. a \in Nat /\ emit.alert \in DOMAIN alerts
  BY ReopenFacts, AlertIdsAre
<1>3. emit.alert <= a /\ a <= emit.alert
  BY <1>1, <1>2, ReopenFacts DEF NotReopened
<1>4. a = emit.alert
  BY <1>2, <1>3, ReopenFacts
<1> QED
  BY <1>1, <1>4, ReopenFacts DEF EditClosed, Open

(* Elsewhere nothing changes. *)
LEMMA ReopenOthers ==
  ASSUME IInv, NewsInv, Reopens, NEW w \in Webhooks, NEW k \in Keys, Tells(w, k),
         alerts[emit.alert].key # k \/ ~Reaches(w, emit.alert)
  PROVE  Tells(w, k)'
<1>1. ~Owed(w, k)
  BY DEF Owed
<1>2. ASSUME CalmWords(w, k) PROVE Tells(w, k)'
  BY <1>1, <1>2, ReopenFacts, CalmTells
<1>3. QueuesStay \/ \E b \in ClosedByEdit(emit.alert) : Withdraws(b)
  BY ReopenFacts, ReopenQueues, RaiseQueues DEF Reopens
<1>4. CASE PendingOf(outbox', w) = PendingOf(outbox, w)
  BY <1>2, <1>4, ReopenFacts, CalmQueue
<1>5. ASSUME NEW b \in ClosedByEdit(emit.alert), Withdraws(b) PROVE CalmWords(w, k)
  <2>1. CASE ~Reaches(w, emit.alert)
    <3>1. \A i : ~IsWithdrawn(i, w, b)
      BY <2>1 DEF IsWithdrawn
    <3>2. PendingOf(outbox', w) = {i \in PendingOf(outbox, w) : ~IsWithdrawn(i, w, b)}
      BY <1>5 DEF Withdraws
    <3>3. PendingOf(outbox', w) = PendingOf(outbox, w)
      BY <3>1, <3>2
    <3> QED
      BY <3>3, ReopenFacts, CalmQueue
  <2>2. CASE alerts[emit.alert].key # k
    <3>1. alerts[b].key # k
      BY <1>5, <2>2, ReopenFacts
    <3>2. PendingOf(outbox', w) = {i \in PendingOf(outbox, w) : ~IsWithdrawn(i, w, b)}
      BY <1>5 DEF Withdraws
    <3>3. Queue(w, k) \subseteq PendingOf(outbox', w)
      BY <3>1, <3>2 DEF Queue, IsWithdrawn
    <3>4. \A i : i \in Queue(w, k)' => i \in PendingOf(outbox', w)
      BY DEF Queue
    <3>5. Queue(w, k)' = Queue(w, k)
      <4>1. \A i \in PendingOf(outbox, w) : i \in PendingOf(outbox', w) =>
              (i \in Queue(w, k)' <=> i \in Queue(w, k))
        BY ReopenFacts, QueueStep
      <4>2. \A i : i \in Queue(w, k)' <=> i \in Queue(w, k)
        BY <3>2, <3>3, <3>4, <4>1
      <4> QED
        BY <4>2
    <3>6. received'[w] = received[w]
      BY ReopenFacts
    <3> QED
      BY <3>3, <3>5, <3>6, ReopenFacts, SameQueues
  <2> QED
    BY <2>1, <2>2
<1> QED
  BY <1>2, <1>3, <1>4, <1>5 DEF QueuesStay

LEMMA RaiseTells ==
  ASSUME IInv, NewsInv, QueueRaise, NEW w \in Webhooks, NEW k \in Keys, Listens(w, k), Tells(w, k)
  PROVE  Tells(w, k)'
<1>0. Reopens
  BY DEF Reopens
<1>1. CASE alerts[emit.alert].key # k \/ ~Reaches(w, emit.alert)
  BY <1>0, <1>1, ReopenOthers
<1>2. CASE alerts[emit.alert].key = k /\ Reaches(w, emit.alert)
  <2>1. emit \in [pc: {"none", "new", "inserting"}, type: NotificationEvents, alert: Nat,
                  nextAt: Int, todo: SUBSET Webhooks, queued: BOOLEAN]
    BY DEF IInv, TypeOK
  <2>2. /\ emit'.pc = "inserting" /\ emit'.alert = emit.alert
        /\ emit'.todo = Interested("raised", emit.alert)
    BY <2>1 DEF QueueRaise
  <2>3. w \in configured
    BY <1>0, ReopenFacts, ListensServed DEF Listens
  <2>4. w \in Interested("raised", emit.alert)
    BY <1>2, <2>3 DEF Interested, Listens, NotificationEvents
  <2>5. Owed(w, k)'
    BY <1>0, <1>2, <2>2, <2>4, ReopenFacts DEF Owed, Reaches
  <2> QED
    BY <1>0, <1>2, <2>5, ReopenFirm DEF Tells
<1> QED
  BY <1>1, <1>2

LEMMA ReopenTells ==
  ASSUME IInv, NewsInv, ReopenUnchanged, NEW w \in Webhooks, NEW k \in Keys,
         Listens(w, k), Tells(w, k)
  PROVE  Tells(w, k)'
<1>0. Reopens
  BY DEF Reopens
<1>1. CASE alerts[emit.alert].key # k \/ ~Reaches(w, emit.alert)
  BY <1>0, <1>1, ReopenOthers
<1>2. CASE alerts[emit.alert].key = k /\ Reaches(w, emit.alert)
  <2>1. PICK b \in ClosedByEdit(emit.alert) : SaysTheSame(b, emit.alert) /\ Withdraws(b)
    BY <1>0, ReopenFacts, ReopenQueues
  <2>2. b \in DOMAIN alerts /\ EditClosed(b) /\ alerts[b].key = k
    BY <1>0, <1>2, <2>1, ReopenFacts
  <2>3. w \in configured
    BY <1>0, ReopenFacts, ListensServed DEF Listens
  <2>4. ASSUME NEW i \in Queue(w, k) PROVE IsWithdrawn(i, w, b) <=> EditClear(i)
    <3>1. /\ i \in DOMAIN outbox /\ outbox[i].status = "pending" /\ alerts[outbox[i].alert].key = k
          /\ outbox[i].alert \in DOMAIN alerts
      BY DEF Queue, PendingOf, NewsInv, RowsOfAlerts
    <3>2. EditClear(i) <=> outbox[i].event = "cleared" /\ EditClosed(outbox[i].alert)
      BY <3>1 DEF EditClear, EditClosed
    <3>3. EditClosed(outbox[i].alert) <=> outbox[i].alert = b
      BY <1>0, <2>2, <3>1, ReopenFacts DEF NewsInv, OrderInv, OneEdit
    <3> QED
      BY <1>2, <2>3, <3>2, <3>3 DEF IsWithdrawn
  <2>5. Queue(w, k)' = Firm(w, k) /\ Firm(w, k) \subseteq PendingOf(outbox', w)
    <3>1. PendingOf(outbox', w) = {i \in PendingOf(outbox, w) : ~IsWithdrawn(i, w, b)}
      BY <2>1 DEF Withdraws
    <3>2. \A i : i \in Queue(w, k)' => i \in PendingOf(outbox', w)
      BY DEF Queue
    <3>3. \A i : i \in Queue(w, k) => i \in PendingOf(outbox, w)
      BY DEF Queue
    <3>4. \A i : i \in Queue(w, k)' <=> i \in Queue(w, k) /\ ~IsWithdrawn(i, w, b)
      BY <1>0, <3>1, <3>2, <3>3, ReopenFacts, QueueStep
    <3>5. \A i : i \in Queue(w, k)' <=> i \in Firm(w, k)
      BY <2>4, <3>4 DEF Firm
    <3>6. Firm(w, k) \subseteq PendingOf(outbox', w)
      BY <3>2, <3>5
    <3> QED
      BY <3>5, <3>6
  <2>6. PICK S : S = Firm(w, k)
    OBVIOUS
  <2>7. PICK words : words = LastWord(w, k, S)
    OBVIOUS
  <2>8. words = LastWord(w, k, Queue(w, k))'
    <3>1. S \subseteq DOMAIN outbox /\ S \subseteq DOMAIN outbox' /\ received'[w] = received[w]
      BY <1>0, <2>5, <2>6, QueueRows, ReopenFacts DEF PendingOf
    <3>2. LastWord(w, k, S)' = LastWord(w, k, S)
      BY <1>0, <3>1, ReopenFacts, WordStays
    <3>3. Queue(w, k)' = S
      BY <2>5, <2>6
    <3> QED
      BY <2>7, <3>2, <3>3 DEF LastWord
  <2>9. KnowsOf(words, b)
    <3>1. NotReopened(b)
      BY <1>0, <1>2, <2>2, ReopenFacts DEF NotReopened, NewsInv, OrderInv, ReopensOnce
    <3>2. Reaches(w, b)
      BY <1>2, <2>1 DEF Reaches, SaysTheSame
    <3> QED
      BY <1>0, <2>2, <2>6, <2>7, <3>1, <3>2, ReopenFacts DEF Tells, FirmTells
  <2>10. KnowsOf(words, emit.alert)
    BY <2>1, <2>9 DEF KnowsOf, SaysTheSame
  <2>11. Knows(w, k, words)
    BY <1>0, <1>2, <2>10, ReopenFacts DEF Knows, OpenFor
  <2>12. Knows(w, k, words)'
    BY <1>0, <2>11, ReopenFacts, KnowsStays
  <2>13. FirmTells(w, k)'
    BY <1>0, <1>2, ReopenFirm
  <2> QED
    BY <2>8, <2>12, <2>13 DEF Tells, Knows
<1> QED
  BY <1>1, <1>2


-----------------------------------------------------------------------------
(***************************************************************************)
(* A check closes or raises an alert: w is owed a message if it reaches w, *)
(* and nothing else changes for it.                                        *)
(***************************************************************************)
LEMMA StandingWords ==
  ASSUME IInv, NewsInv, Next, StandStill, NEW w \in Webhooks, NEW k,
         NEW words, words = LastWord(w, k, Queue(w, k))
  PROVE  /\ Queue(w, k)' = Queue(w, k) /\ words = LastWord(w, k, Queue(w, k))'
         /\ \A told \in words : told[1] \in DOMAIN alerts
<1>1. PendingOf(outbox', w) = PendingOf(outbox, w) /\ received'[w] = received[w]
  BY DEF StandStill
<1>2. Queue(w, k)' = Queue(w, k)
  BY <1>1, QueueSame
<1>3. Queue(w, k) \subseteq PendingOf(outbox', w)
  BY <1>1, QueueRows
<1>4. words = LastWord(w, k, Queue(w, k))'
  BY <1>1, <1>2, <1>3, QueueWords
<1>5. PICK S : S = Queue(w, k)
  OBVIOUS
<1>6. S \subseteq DOMAIN outbox /\ words = LastWord(w, k, S)
  BY <1>5, QueueRows
<1> QED
  BY <1>2, <1>4, <1>6, WordsOfAlerts

LEMMA StandingFirm ==
  ASSUME IInv, NewsInv, Next, StandStill, NEW w \in Webhooks, NEW k,
         \A i \in Queue(w, k) : EditClear(i)' <=> EditClear(i),
         NEW words, words = LastWord(w, k, Firm(w, k))
  PROVE  /\ words = LastWord(w, k, Firm(w, k))'
         /\ \A told \in words : told[1] \in DOMAIN alerts
<1>1. PendingOf(outbox', w) = PendingOf(outbox, w) /\ received'[w] = received[w]
  BY DEF StandStill
<1>2. Queue(w, k)' = Queue(w, k)
  BY <1>1, QueueSame
<1>3. Firm(w, k)' = Firm(w, k) /\ Firm(w, k) \subseteq PendingOf(outbox', w)
  BY <1>1, <1>2, QueueRows DEF Firm
<1>4. words = LastWord(w, k, Firm(w, k))'
  BY <1>1, <1>3, FirmSame
<1>5. PICK S : S = Firm(w, k)
  OBVIOUS
<1>6. S \subseteq DOMAIN outbox /\ words = LastWord(w, k, S)
  BY <1>5, QueueRows
<1> QED
  BY <1>4, <1>6, WordsOfAlerts

LEMMA KnowsOfStays ==
  ASSUME IInv, Next, NEW words, \A told \in words : told[1] \in DOMAIN alerts,
         NEW a \in DOMAIN alerts
  PROVE  KnowsOf(words, a)' <=> KnowsOf(words, a)
<1>1. \A b \in DOMAIN alerts : SameAlert(b)
  BY AlertsGrow
<1>2. \A told \in words : SaysTheSame(told[1], a)' <=> SaysTheSame(told[1], a)
  BY <1>1, SaysStays
<1> QED
  BY <1>2 DEF KnowsOf

(* What is open for others, and what was the last to reach them, is so      *)
(* still when an alert changes that does not reach w.                       *)
LEMMA KnowsOthers ==
  ASSUME IInv, Next, NEW w, NEW k, NEW a,
         DOMAIN alerts' \subseteq DOMAIN alerts \cup {a},
         \A b \in DOMAIN alerts \ {a} : alerts'[b] = alerts[b],
         \/ a \in DOMAIN alerts /\ (alerts[a].key # k \/ ~Reaches(w, a))
         \/ a \notin DOMAIN alerts /\ (alerts'[a].key # k \/ ~Reaches(w, a)'),
         NEW words, \A told \in words : told[1] \in DOMAIN alerts, Knows(w, k, words)
  PROVE  Knows(w, k, words)'
<1>1. \A b \in DOMAIN alerts : b \in DOMAIN alerts' /\ SameAlert(b)
  BY AlertsGrow
<1>2. \A b \in DOMAIN alerts : Reaches(w, b)' <=> Reaches(w, b)
  BY <1>1, ReachesStays
<1>3. ReachingAlerts(w, k)' = ReachingAlerts(w, k) /\ a \notin ReachingAlerts(w, k)
  BY <1>1, <1>2 DEF ReachingAlerts, SameAlert
<1>4. CASE NewestRemoved(w, k)
  BY <1>3, <1>4 DEF NewestRemoved, ReachingAlerts, Knows
<1>5. ASSUME NEW c \in OpenFor(k), Reaches(w, c), KnowsOf(words, c) PROVE Knows(w, k, words)'
  <2>1. c \in DOMAIN alerts /\ c # a
    BY <1>3, <1>5 DEF OpenFor, Open, ReachingAlerts
  <2>2. c \in OpenFor(k)'
    BY <1>1, <1>5, <2>1 DEF OpenFor, Open
  <2>3. KnowsOf(words, c)' /\ Reaches(w, c)'
    BY <1>2, <1>5, <2>1, KnowsOfStays
  <2> QED
    BY <2>2, <2>3 DEF Knows
<1>6. CASE (\A c \in OpenFor(k) : ~Reaches(w, c)) /\ \A told \in words : told[2] = "cleared"
  <2>1. ASSUME NEW c \in OpenFor(k)', Reaches(w, c)' PROVE FALSE
    <3>1. c \in DOMAIN alerts /\ c # a
      BY <1>1, <1>3, <2>1 DEF OpenFor, Open, ReachingAlerts
    <3>2. c \in OpenFor(k)
      BY <2>1, <3>1 DEF OpenFor, Open
    <3> QED
      BY <1>2, <1>6, <2>1, <3>1, <3>2
  <2> QED
    BY <1>6, <2>1 DEF Knows
<1> QED
  BY <1>4, <1>5, <1>6 DEF Knows


LEMMA ClosesTells ==
  ASSUME IInv, NewsInv, Next, NEW w \in Webhooks, NEW k \in Keys, Tells(w, k),
         NEW a \in Open, Closes(a)
  PROVE  Tells(w, k)'
<1>0. TypeOK /\ a \in DOMAIN alerts /\ a \in Nat /\ alerts[a].clearedBy = "open"
  BY AlertIdsAre DEF IInv, Open
<1>1. /\ StandStill /\ Checking /\ emit.pc = "none" /\ emit'.pc = "new" /\ emit'.alert = a
      /\ emit'.type = "cleared" /\ engine'.t = engine.t /\ DOMAIN alerts' = DOMAIN alerts
      /\ \A b \in DOMAIN alerts \ {a} : alerts'[b] = alerts[b]
      /\ alerts'[a].clearedBy = "rule_changed" => engine.pc = "closing"
  BY DEF Closes, Announced
<1>2. /\ \A b \in DOMAIN alerts : SameAlert(b) /\ (Reaches(w, b)' <=> Reaches(w, b))
      /\ \A b \in DOMAIN alerts : alerts[b].key = alerts[a].key => b <= a
  BY <1>0, AlertsGrow, ReachesStays DEF NewsInv, OrderInv, OpenIsNewest
<1>3. PICK words : words = LastWord(w, k, Queue(w, k))
  OBVIOUS
<1>4. /\ Queue(w, k)' = Queue(w, k) /\ words = LastWord(w, k, Queue(w, k))'
      /\ \A told \in words : told[1] \in DOMAIN alerts
  BY <1>1, <1>3, StandingWords
<1>5. Knows(w, k, words) /\ FirmTells(w, k)
  BY <1>1, <1>3 DEF Tells, Owed, Knows
<1>6. Owed(w, k)' \/ Knows(w, k, LastWord(w, k, Queue(w, k)))'
  <2>1. CASE alerts[a].key = k /\ Reaches(w, a)
    BY <1>0, <1>1, <1>2, <2>1 DEF Owed, SameAlert, Reaches
  <2>2. CASE alerts[a].key # k \/ ~Reaches(w, a)
    <3>1. Knows(w, k, words)'
      BY <1>0, <1>1, <1>4, <1>5, <2>2, KnowsOthers
    <3> QED
      BY <1>4, <3>1 DEF Knows
  <2> QED
    BY <2>1, <2>2
<1>7. FirmTells(w, k)'
  <2> SUFFICES ASSUME NEW c \in DOMAIN alerts, alerts[c].key = k, EditClosed(c)',
                      Reaches(w, c), NotReopened(c)'
               PROVE  KnowsOf(LastWord(w, k, Firm(w, k)), c)'
    BY <1>1, <1>2 DEF FirmTells, SameAlert
  <2>1. \A b \in DOMAIN alerts : alerts[b].key = k => b <= c
    BY <1>1, <1>2 DEF NotReopened, SameAlert
  <2>2. CASE c = a
    <3>1. ASSUME NEW i \in Queue(w, k) PROVE ~EditClear(i)'
      <4>1. /\ i \in DOMAIN outbox /\ outbox'[i] = outbox[i]
            /\ outbox[i].alert \in DOMAIN alerts /\ alerts[outbox[i].alert].key = k
        BY <1>1 DEF Queue, PendingOf, NewsInv, RowsOfAlerts, StandStill
      <4>2. outbox[i].event = "cleared" => outbox[i].alert # a
        BY <1>0, <4>1 DEF IInv, InFlightInv, ClearsAreOfClosed
      <4>3. OneEdit' /\ Checking'
        BY EditStep, <1>1 DEF NewsInv, Closes, Announced
      <4>4. EditClosed(outbox[i].alert)' => outbox[i].alert = a
        BY <1>1, <1>2, <2>2, <4>1, <4>3 DEF OneEdit, SameAlert
      <4> QED
        BY <4>1, <4>2, <4>4 DEF EditClear, EditClosed
    <3>2. Firm(w, k)' = Queue(w, k)'
      BY <1>4, <3>1 DEF Firm
    <3>3. KnowsOf(words, a)
      <4>1. a \in OpenFor(k) /\ a \in Nat /\ DOMAIN alerts \subseteq Nat
        BY <1>0, <2>2, AlertIdsAre DEF OpenFor
      <4>2. \A x \in DOMAIN alerts : alerts[x].key = k /\ a <= x => x = a
        BY <2>1, <2>2, <4>1
      <4>3. ~NewestRemoved(w, k)
        <5>1. a \in ReachingAlerts(w, k)
          BY <1>0, <2>2 DEF ReachingAlerts
        <5> QED
          BY <1>0, <4>2, <5>1 DEF NewestRemoved, ReachingAlerts
      <4>4. \A x \in OpenFor(k) : x = a
        <5>1. ASSUME NEW x \in OpenFor(k) PROVE x = a
          <6>1. x \in Open /\ x \in DOMAIN alerts /\ alerts[x].key = k
            BY DEF OpenFor, Open
          <6>2. a <= x
            BY <1>0, <2>2, <6>1 DEF NewsInv, OrderInv, OpenIsNewest
          <6> QED
            BY <4>2, <6>1, <6>2
        <5> QED
          BY <5>1
      <4> QED
        BY <1>5, <2>2, <4>1, <4>3, <4>4 DEF Knows
    <3>4. KnowsOf(words, a)'
      BY <1>0, <1>4, <3>3, KnowsOfStays
    <3>5. words = LastWord(w, k, Firm(w, k))'
      BY <1>4, <3>2 DEF LastWord
    <3> QED
      BY <2>2, <3>4, <3>5 DEF KnowsOf
  <2>3. CASE c # a
    <3>1. alerts[a].key # k
      <4>1. SUFFICES ASSUME alerts[a].key = k PROVE FALSE
        OBVIOUS
      <4>2. a <= c /\ c <= a /\ c \in Nat
        BY <1>0, <1>2, <2>1, <4>1, AlertIdsAre
      <4> QED
        BY <1>0, <2>3, <4>2
    <3>2. EditClosed(c)
      BY <1>1, <2>3 DEF EditClosed
    <3>3. NotReopened(c)
      BY <2>1 DEF NotReopened
    <3>4. PICK said : said = LastWord(w, k, Firm(w, k))
      OBVIOUS
    <3>5. KnowsOf(said, c)
      BY <1>1, <1>5, <3>2, <3>3, <3>4 DEF FirmTells
    <3>6. ASSUME NEW i \in Queue(w, k) PROVE EditClear(i)' <=> EditClear(i)
      <4>1. /\ outbox' = outbox /\ outbox[i].alert \in DOMAIN alerts
            /\ alerts[outbox[i].alert].key = k
        BY <1>1 DEF Queue, PendingOf, NewsInv, RowsOfAlerts, StandStill
      <4>2. alerts'[outbox[i].alert] = alerts[outbox[i].alert]
        BY <1>1, <3>1, <4>1
      <4> QED
        BY <1>1, <4>1, <4>2 DEF EditClear
    <3>7. /\ said = LastWord(w, k, Firm(w, k))'
          /\ \A told \in said : told[1] \in DOMAIN alerts
      BY <1>1, <3>4, <3>6, StandingFirm
    <3>8. KnowsOf(said, c)'
      BY <3>5, <3>7, KnowsOfStays
    <3> QED
      BY <3>7, <3>8 DEF KnowsOf
  <2> QED
    BY <2>2, <2>3
<1> QED
  BY <1>6, <1>7 DEF Tells

LEMMA RaisesTells ==
  ASSUME IInv, NewsInv, Next, NEW w \in Webhooks, NEW k \in Keys, Tells(w, k),
         NEW key \in Keys, NEW a \in AlertIds, Raises(key, a)
  PROVE  Tells(w, k)'
<1>1. /\ StandStill /\ Checking /\ emit.pc = "none" /\ emit'.pc = "new" /\ emit'.alert = a
      /\ engine'.t = engine.t /\ DOMAIN alerts' = DOMAIN alerts \cup {a}
      /\ a \notin DOMAIN alerts /\ \A b \in DOMAIN alerts : alerts'[b] = alerts[b]
      /\ alerts'[a].key = key /\ alerts'[a].clearedBy = "open"
  BY DEF Raises, Announced
<1>2. PICK words : words = LastWord(w, k, Queue(w, k))
  OBVIOUS
<1>3. /\ Queue(w, k)' = Queue(w, k) /\ words = LastWord(w, k, Queue(w, k))'
      /\ \A told \in words : told[1] \in DOMAIN alerts
  BY <1>1, <1>2, StandingWords
<1>4. Knows(w, k, words) /\ FirmTells(w, k)
  BY <1>1, <1>2 DEF Tells, Owed, Knows
<1>5. Owed(w, k)' \/ Knows(w, k, LastWord(w, k, Queue(w, k)))'
  <2>1. CASE key = k /\ Reaches(w, a)'
    BY <1>1, <2>1 DEF Owed, Reaches
  <2>2. CASE key # k \/ ~Reaches(w, a)'
    <3>1. DOMAIN alerts' \subseteq DOMAIN alerts \cup {a}
      BY <1>1
    <3>2. \A b \in DOMAIN alerts \ {a} : alerts'[b] = alerts[b]
      BY <1>1
    <3>3. a \notin DOMAIN alerts /\ (alerts'[a].key # k \/ ~Reaches(w, a)')
      BY <1>1, <2>2
    <3>4. Knows(w, k, words)'
      BY <1>3, <1>4, <3>1, <3>2, <3>3, KnowsOthers
    <3> QED
      BY <1>3, <3>4 DEF Knows
  <2> QED
    BY <2>1, <2>2
<1>6. FirmTells(w, k)'
  <2> SUFFICES ASSUME NEW c \in DOMAIN alerts', alerts'[c].key = k, EditClosed(c)',
                      Reaches(w, c)', NotReopened(c)'
               PROVE  KnowsOf(LastWord(w, k, Firm(w, k)), c)'
    BY DEF FirmTells
  <2>1. c \in DOMAIN alerts /\ alerts[c].key = k /\ EditClosed(c) /\ Reaches(w, c)
    BY <1>1 DEF EditClosed, Reaches
  <2>2. NotReopened(c)
    BY <1>1, <2>1 DEF NotReopened
  <2>3. PICK said : said = LastWord(w, k, Firm(w, k))
    OBVIOUS
  <2>4. KnowsOf(said, c)
    BY <1>1, <1>4, <2>1, <2>2, <2>3 DEF FirmTells
  <2>5. ASSUME NEW i \in Queue(w, k) PROVE EditClear(i)' <=> EditClear(i)
    <3>1. outbox' = outbox /\ outbox[i].alert \in DOMAIN alerts
      BY <1>1 DEF Queue, PendingOf, NewsInv, RowsOfAlerts, StandStill
    <3> QED
      BY <1>1, <3>1 DEF EditClear
  <2>6. said = LastWord(w, k, Firm(w, k))' /\ \A told \in said : told[1] \in DOMAIN alerts
    BY <1>1, <2>3, <2>5, StandingFirm
  <2>7. KnowsOf(said, c)'
    BY <2>1, <2>4, <2>6, KnowsOfStays
  <2> QED
    BY <2>6, <2>7 DEF KnowsOf
<1> QED
  BY <1>5, <1>6 DEF Tells


-----------------------------------------------------------------------------
LEMMA TellsNext ==
  ASSUME IInv, NewsInv, TellsInv, Next
  PROVE  TellsInv'
<1> SUFFICES ASSUME NEW w \in Webhooks, NEW k \in Keys, Listens(w, k)'
             PROVE  Tells(w, k)'
  BY DEF TellsInv
<1>1. Listens(w, k) /\ Tells(w, k)
  BY MissedStays DEF Listens, TellsInv
<1>2. ASSUME NEW v \in Webhooks, LaneStep(v) \/ ReceiverGets(v) PROVE Tells(w, k)'
  BY <1>1, <1>2, LaneTells
<1>3. CASE \/ NotAnnounced \/ QueueClear \/ WakeAfterQueue \/ NobodyToWake \/ EnqueueFails
           \/ Stop \/ Timer \/ Tick \/ \E step \in Steps : ClockSet(step)
  BY <1>1, <1>3, QuietTells
<1>4. CASE ReopenUnchanged \/ QueueRaise
  BY <1>1, <1>4, ReopenTells, RaiseTells
<1>5. ASSUME NEW v \in Webhooks, InsertRow(v) PROVE Tells(w, k)'
  BY <1>1, <1>5, InsertTells
<1>6. CASE BeginCheck \/ EndCheck \/ Ends \/ \E file \in NotifyFiles : Starts(file)
  BY <1>1, <1>6, TurnTells
<1>7. ASSUME NEW a \in AlertIds, CloseChanged(a) \/ CloseRemoved(a) \/ ConditionClears(a)
      PROVE  Tells(w, k)'
  <2>1. Closes(a) /\ a \in Open
    BY <1>7, ClosesStep DEF Closes
  <2> QED
    BY <1>1, <2>1, ClosesTells
<1>8. ASSUME NEW key \in Keys, NEW severity \in Severities, NEW message \in Messages,
             ConditionRaises(key, severity, message)
      PROVE  Tells(w, k)'
  <2>1. PICK a \in AlertIds : Raises(key, a)
    BY <1>8, RaisesStep
  <2> QED
    BY <1>1, <2>1, RaisesTells
<1> QED
  BY <1>2, <1>3, <1>4, <1>5, <1>6, <1>7, <1>8 DEF Next, EnqueueStep, EngineStep, ProcessStep

LEMMA NewsInit == Init => NewsInv /\ TellsInv
<1> SUFFICES ASSUME Init PROVE NewsInv /\ TellsInv
  OBVIOUS
<1>1. /\ emit.pc = "none" /\ engine.pc = "idle" /\ ~Checking /\ Open = {}
      /\ DOMAIN alerts = {} /\ DOMAIN outbox = {}
      /\ \A w \in Webhooks : Len(received[w]) = 0 /\ lane[w].pc = "idle"
  BY DEF Init, NoEvent, NoCheck, IdleLane, Checking, Open
<1>2. OrderInv
  BY <1>1 DEF OrderInv, OpenIsNewest, OneEdit, ClosedFirst, EventIsNewest, SeenFirst, ReopensOnce
<1>3. RowsOfAlerts /\ ToldOfAlerts /\ ReachedIsTold /\ ServedInv
  BY <1>1, ServedInit DEF RowsOfAlerts, ToldOfAlerts, ReachedIsTold
<1>4. ASSUME NEW w \in Webhooks, NEW k \in Keys PROVE Tells(w, k)
  <2>1. Queue(w, k) = {} /\ ToldAbout(w, k) = {}
    BY <1>1 DEF Queue, PendingOf, ToldAbout
  <2>2. LastWord(w, k, Queue(w, k)) = {}
    BY <2>1 DEF LastWord, LastTold
  <2>3. \A a \in OpenFor(k) : ~Reaches(w, a)
    BY <1>1 DEF OpenFor
  <2> QED
    BY <1>1, <2>2, <2>3 DEF Tells, Knows, FirmTells
<1> QED
  BY <1>2, <1>3, <1>4 DEF NewsInv, TellsInv

LEMMA NewsNext ==
  ASSUME IInv, NewsInv, TellsInv, [Next]_vars
  PROVE  NewsInv' /\ TellsInv'
<1>1. CASE Next
  BY <1>1, OpenStep, EditStep, NewestStep, SeenStep, RowsOfStep, ToldOfStep, ReachedStep,
     ServedNext, TellsNext DEF NewsInv, OrderInv
<1>2. CASE UNCHANGED vars
  <2>0. /\ UNCHANGED <<alerts, outbox, lane, engine, emit, received, missed>>
        /\ UNCHANGED <<process, configured>>
    BY <1>2 DEF vars, clocks, sender, database
  <2>1. OrderInv'
    BY <2>0 DEF NewsInv, OrderInv, OpenIsNewest, OneEdit, ClosedFirst, EventIsNewest, SeenFirst,
       ReopensOnce, EditClosed, OpenFor, Open, Checking, Reaches
  <2>2. RowsOfAlerts'
    BY <2>0 DEF NewsInv, RowsOfAlerts, Reaches
  <2>3. ToldOfAlerts'
    BY <2>0 DEF NewsInv, ToldOfAlerts
  <2>4. ReachedIsTold'
    BY <2>0 DEF NewsInv, ReachedIsTold, LastIs
  <2>5. ServedInv'
    BY ServedNext DEF NewsInv
  <2>6. ASSUME NEW w \in Webhooks, NEW k \in Keys, Listens(w, k)' PROVE Tells(w, k)'
    <3>1. Listens(w, k) /\ Tells(w, k)
      BY <2>0, <2>6 DEF Listens, TellsInv
    <3>2. /\ Queue(w, k)' = Queue(w, k) /\ LastTold(w, k)' = LastTold(w, k)
          /\ \A i : Item(i)' = Item(i)
      BY <2>0 DEF Queue, PendingOf, LastTold, ToldAbout, Item
    <3>3. Firm(w, k)' = Firm(w, k)
      BY <2>0, <3>2 DEF Firm, EditClear
    <3>4. CalmWords(w, k)
      BY <3>2, <3>3 DEF CalmWords, LastWord, Newest
    <3>5. EventGoesOn \/ emit'.pc = "none"
      BY <2>0 DEF EventGoesOn
    <3>6. Owed(w, k) => Owed(w, k)'
      BY <2>0 DEF Owed, Reaches
    <3> QED
      BY <2>0, <3>1, <3>4, <3>5, <3>6, CalmTells
  <2> QED
    BY <2>1, <2>2, <2>3, <2>4, <2>5, <2>6 DEF NewsInv, TellsInv
<1> QED
  BY <1>1, <1>2

(* With nothing queued for it, a receiver that listens to both events knows *)
(* how things stand, whatever was edited, withdrawn, resent or restarted     *)
(* on the way (enqueue.ts:59-83, sender.ts:66-80).                           *)
THEOREM ReceiverCorrect == Spec => []ReceiverInStep
<1>1. Init => IInv /\ NewsInv /\ TellsInv
  BY InFlightInit, NewsInit
<1>2. IInv /\ NewsInv /\ TellsInv /\ [Next]_vars => (IInv /\ NewsInv /\ TellsInv)'
  BY InFlightNext, NewsNext
<1>3. IInv /\ TellsInv => ReceiverInStep
  <2> SUFFICES ASSUME IInv, TellsInv, NEW w \in configured, NEW k \in Keys, Quiet,
                      Events[w] = NotificationEvents, <<w, k>> \notin missed,
                      \A id \in PendingOf(outbox, w) : alerts[outbox[id].alert].key # k,
                      ~NewestRemoved(w, k)
               PROVE  IF \E a \in OpenFor(k) : Reaches(w, a)
                      THEN \E a \in OpenFor(k) : \E told \in LastTold(w, k) :
                             told[2] = "raised" /\ SaysTheSame(told[1], a)
                      ELSE \A told \in LastTold(w, k) : told[2] = "cleared"
    BY DEF ReceiverInStep
  <2>1. w \in Webhooks /\ ~Owed(w, k)
    BY DEF IInv, TypeOK, Quiet, Owed
  <2>2. LastWord(w, k, Queue(w, k)) = LastTold(w, k)
    BY DEF Queue, LastWord
  <2>3. Knows(w, k, LastTold(w, k))
    BY <2>1, <2>2 DEF TellsInv, Listens, Tells, Knows
  <2> QED
    BY <2>3 DEF Knows, KnowsOf
<1> QED
  BY <1>1, <1>2, <1>3, PTL DEF Spec


-----------------------------------------------------------------------------
(***************************************************************************)
(* An edit that closes an alert and reopens it unchanged sends nothing,    *)
(* where the clock is not set back.  (Set back between the raise and the   *)
(* edit, the close is stamped with the time of the raise, clearAlert of    *)
(* packages/storage, and closedByEdit does not find it.)                   *)
(***************************************************************************)
SetAhead == Steps \subseteq Nat

AtHand(b) == emit.pc = "new" /\ emit.type = "raised" /\ emit.alert = b
SilentFor(w, a, b) ==
  /\ <<a, "cleared">> \notin Told(w) /\ <<b, "raised">> \notin Told(w)
  /\ \A i \in PendingOf(outbox, w) :
       /\ Item(i) # <<b, "raised">>
       /\ Item(i) = <<a, "cleared">> => AtHand(b)

AlertsInTime == \A a \in DOMAIN alerts :
  alerts[a].raisedAt <= wall /\ alerts[a].clearedAt = alerts[a].clearedIn
ToldIsClosed == \A w \in Webhooks : \A a : <<a, "cleared">> \in Told(w) =>
  a \in DOMAIN alerts /\ alerts[a].clearedBy # "open"
EditIsUntold == Checking =>
  \A a \in DOMAIN alerts : EditClosed(a) => \A w \in Webhooks : <<a, "cleared">> \notin Told(w)
ReopenIsSilent == \A a, b \in DOMAIN alerts : ReopenedAs(a, b) =>
  /\ ~(emit.pc = "inserting" /\ emit.type = "raised" /\ emit.alert = b)
  /\ \A w \in Webhooks : <<w, alerts[b].key>> \notin missed => SilentFor(w, a, b)

ToldInv == ToldIsClosed /\ EditIsUntold
SilentInv == AlertsInTime /\ ToldInv /\ ReopenIsSilent

LEMMA TimePasses ==
  ASSUME SetAhead, IInv, Next
  PROVE  wall' >= wall
<1> USE DEF clocks, sender, database
<1>0. wall \in Int
  BY DEF IInv, TypeOK
<1>1. ASSUME NEW w \in Webhooks, LaneStep(w) \/ ReceiverGets(w) PROVE wall' = wall
  BY <1>1 DEF LaneStep, NothingPending, PullIn, NotDue, StartDelivery, Looks, ReceiverGets,
     DeliverySucceeds, AttemptFails, GivesUp, DeliveryCut, RecordFails, Continue, Resumes
<1>2. CASE EnqueueStep
  <2>1. wall' = wall
    BY <1>2 DEF EnqueueStep, NotAnnounced, QueueClear, ReopenUnchanged, QueueRaise, InsertRow,
       WakeAfterQueue, NobodyToWake, EnqueueFails
  <2> QED
    BY <1>0, <2>1
<1>3. CASE EngineStep \/ ProcessStep \/ Timer
  <2>1. wall' = wall
    BY <1>3 DEF EngineStep, BeginCheck, EndCheck, CloseChanged, CloseRemoved, ConditionClears,
       ConditionRaises, ClearAlert, ProcessStep, Stop, Ends, Starts, Timer
  <2> QED
    BY <1>0, <2>1
<1>4. CASE Tick
  BY <1>0, <1>4 DEF Tick
<1>5. ASSUME NEW step \in Steps, ClockSet(step) PROVE wall' >= wall
  BY <1>0, <1>5 DEF ClockSet, SetAhead
<1> QED
  BY <1>0, <1>1, <1>2, <1>3, <1>4, <1>5 DEF Next

LEMMA InTimeStep ==
  ASSUME SetAhead, IInv, NewsInv, SilentInv, Next
  PROVE  AlertsInTime'
<1>0. /\ wall' >= wall /\ wall \in Int /\ wall' \in Int /\ Open \subseteq DOMAIN alerts
      /\ \A a \in DOMAIN alerts : alerts[a] \in Alerts
  <2>1. TypeOK /\ TypeOK'
    BY TypeNext DEF IInv
  <2> QED
    BY <2>1, TimePasses, AlertIdsAre DEF TypeOK
<1>1. CASE UNCHANGED alerts
  BY <1>0, <1>1 DEF SilentInv, AlertsInTime, Alerts
<1>2. ASSUME NEW a \in Open, Closes(a) PROVE AlertsInTime'
  <2>1. /\ Checking /\ DOMAIN alerts' = DOMAIN alerts /\ a \in DOMAIN alerts
        /\ \A b \in DOMAIN alerts \ {a} : alerts'[b] = alerts[b]
        /\ alerts'[a].raisedAt = alerts[a].raisedAt /\ alerts'[a].clearedIn = engine.t
        /\ alerts'[a].clearedAt
             = IF engine.t < alerts[a].raisedAt THEN alerts[a].raisedAt ELSE engine.t
    BY <1>0, <1>2 DEF Closes, Announced, SameAlert
  <2>2. engine.t = wall /\ alerts[a].raisedAt <= wall /\ alerts[a].raisedAt \in Int
    BY <1>0, <2>1 DEF IInv, InFlightInv, CheckReadsOneTime, SilentInv, AlertsInTime, Alerts
  <2>3. alerts'[a].clearedAt = alerts'[a].clearedIn /\ alerts'[a].raisedAt <= wall'
    BY <1>0, <2>1, <2>2
  <2> QED
    BY <1>0, <2>1, <2>3 DEF SilentInv, AlertsInTime, Alerts
<1>3. ASSUME NEW k \in Keys, NEW a \in AlertIds, Raises(k, a) PROVE AlertsInTime'
  <2>1. /\ Checking /\ DOMAIN alerts' = DOMAIN alerts \cup {a}
        /\ \A b \in DOMAIN alerts : alerts'[b] = alerts[b]
        /\ alerts'[a].raisedAt = engine.t /\ alerts'[a].clearedAt = alerts'[a].clearedIn
    BY <1>3 DEF Raises, Announced
  <2>2. engine.t = wall
    BY <2>1 DEF IInv, InFlightInv, CheckReadsOneTime
  <2> QED
    BY <1>0, <2>1, <2>2 DEF SilentInv, AlertsInTime, Alerts
<1>4. BeginCheck => UNCHANGED alerts
  BY DEF BeginCheck, database
<1> QED
  BY <1>1, <1>2, <1>3, <1>4, Kinds


LEMMA ToldGrows ==
  ASSUME IInv, Next, NEW w \in Webhooks
  PROVE  Told(w)' = IF ReceiverGets(w) THEN Told(w) \cup {Item(lane[w].id)} ELSE Told(w)
<1>1. CASE ~ReceiverGets(w)
  BY <1>1, ReceivedOfOthers DEF Told
<1>2. CASE ReceiverGets(w)
  <2>0. received[w] \in Seq(Items)
    BY DEF IInv, TypeOK
  <2>1. PICK n \in Nat : n = Len(received[w])
    BY <2>0
  <2>2. /\ Len(received'[w]) = n + 1 /\ received'[w][n + 1] = Item(lane[w].id)
        /\ \A m \in 1 .. n : received'[w][m] = received[w][m]
    BY <1>2, <2>1, Arrives DEF Item
  <2>3. Told(w)' = {received'[w][m] : m \in 1 .. n + 1} /\ Told(w) = {received[w][m] : m \in 1 .. n}
    BY <2>1, <2>2 DEF Told
  <2>4. \A m \in 1 .. n + 1 : m \in 1 .. n \/ m = n + 1
    OBVIOUS
  <2>5. n + 1 \in 1 .. n + 1 /\ \A m \in 1 .. n : m \in 1 .. n + 1
    OBVIOUS
  <2>6. \A item : item \in Told(w)' <=> item \in Told(w) \cup {Item(lane[w].id)}
    BY <2>2, <2>3, <2>4, <2>5
  <2> QED
    BY <1>2, <2>6
<1> QED
  BY <1>1, <1>2

(* What is closed stays as it is. *)
LEMMA ClosedStays ==
  ASSUME IInv, Next, NEW a \in DOMAIN alerts, alerts[a].clearedBy # "open"
  PROVE  a \in DOMAIN alerts' /\ alerts'[a] = alerts[a]
<1>1. a \notin Open
  BY DEF Open
<1>2. BeginCheck => UNCHANGED alerts
  BY DEF BeginCheck, database
<1> QED
  BY <1>1, <1>2, Kinds DEF Closes, Raises

LEMMA ToldClosedStep ==
  ASSUME IInv, NewsInv, ToldInv, Next
  PROVE  ToldIsClosed'
<1> SUFFICES ASSUME NEW w \in Webhooks, NEW a, <<a, "cleared">> \in Told(w)'
             PROVE  a \in DOMAIN alerts /\ alerts[a].clearedBy # "open"
  BY ClosedStays DEF ToldIsClosed
<1>1. CASE <<a, "cleared">> \in Told(w)
  BY <1>1 DEF ToldInv, ToldIsClosed
<1>2. CASE ReceiverGets(w) /\ <<a, "cleared">> = Item(lane[w].id)
  <2>1. lane[w].id \in DOMAIN outbox
    BY <1>2, Arrives DEF PendingOf
  <2> QED
    BY <1>2, <2>1 DEF Item, IInv, InFlightInv, ClearsAreOfClosed
<1> QED
  BY <1>1, <1>2, ToldGrows

(* A clear of this check that may be withdrawn does not arrive. *)
LEMMA EditDoesNotArrive ==
  ASSUME IInv, Checking, NEW w \in Webhooks, ReceiverGets(w), NEW a, EditClosed(a),
         alerts[a].clearedBy = "rule_changed"
  PROVE  Item(lane[w].id) # <<a, "cleared">>
<1>1. lane[w].pc = "delivering" /\ lane[w].id \in DOMAIN outbox /\ outbox[lane[w].id].status = "pending"
  BY Arrives DEF PendingOf
<1>2. ~EditClear(lane[w].id)
  BY <1>1, OnItsWay
<1> QED
  BY <1>1, <1>2 DEF EditClear, EditClosed, Item

LEMMA EditUntoldStep ==
  ASSUME IInv, NewsInv, ToldInv, Next
  PROVE  EditIsUntold'
<1>1. CASE UNCHANGED <<alerts, engine>>
  <2> SUFFICES ASSUME Checking, NEW a \in DOMAIN alerts, EditClosed(a), NEW w \in Webhooks
               PROVE  <<a, "cleared">> \notin Told(w)'
    BY <1>1 DEF EditIsUntold, Checking, EditClosed
  <2>1. <<a, "cleared">> \notin Told(w)
    BY DEF ToldInv, EditIsUntold
  <2>2. ReceiverGets(w) => Item(lane[w].id) # <<a, "cleared">>
    BY EditDoesNotArrive DEF EditClosed
  <2> QED
    BY <2>1, <2>2, ToldGrows
<1>2. CASE BeginCheck
  <2>1. UNCHANGED alerts /\ engine'.t = wall /\ wall \notin Stamps
    BY <1>2 DEF BeginCheck, database
  <2>2. \A a \in DOMAIN alerts' : ~EditClosed(a)'
    BY <2>1 DEF Stamps, EditClosed
  <2> QED
    BY <2>2 DEF EditIsUntold
<1>3. CASE ~Checking'
  BY <1>3 DEF EditIsUntold, Checking
<1>4. ASSUME NEW a \in Open, Closes(a) PROVE EditIsUntold'
  <2>1. /\ Checking /\ engine'.t = engine.t /\ UNCHANGED received
        /\ DOMAIN alerts' = DOMAIN alerts
        /\ \A b \in DOMAIN alerts \ {a} : alerts'[b] = alerts[b]
    BY <1>4 DEF Closes, Announced, StandStill
  <2> SUFFICES ASSUME NEW b \in DOMAIN alerts, EditClosed(b)', NEW w \in Webhooks
               PROVE  <<b, "cleared">> \notin Told(w)
    BY <2>1 DEF EditIsUntold, Told
  <2>2. CASE b = a
    BY <1>4, <2>2 DEF Open, ToldInv, ToldIsClosed
  <2>3. CASE b # a
    BY <2>1, <2>3 DEF EditClosed, ToldInv, EditIsUntold
  <2> QED
    BY <2>2, <2>3
<1>5. ASSUME NEW k \in Keys, NEW a \in AlertIds, Raises(k, a) PROVE EditIsUntold'
  <2>1. /\ Checking /\ engine'.t = engine.t /\ UNCHANGED received
        /\ DOMAIN alerts' = DOMAIN alerts \cup {a} /\ alerts'[a].clearedBy = "open"
        /\ \A b \in DOMAIN alerts : alerts'[b] = alerts[b]
    BY <1>5 DEF Raises, Announced, StandStill
  <2> SUFFICES ASSUME NEW b \in DOMAIN alerts', EditClosed(b)', NEW w \in Webhooks
               PROVE  <<b, "cleared">> \notin Told(w)
    BY <2>1 DEF EditIsUntold, Told
  <2>2. b \in DOMAIN alerts /\ EditClosed(b)
    BY <2>1 DEF EditClosed
  <2> QED
    BY <2>1, <2>2 DEF ToldInv, EditIsUntold
<1> QED
  BY <1>1, <1>2, <1>3, <1>4, <1>5, Kinds

LEMMA ToldNext ==
  ASSUME IInv, NewsInv, ToldInv, [Next]_vars
  PROVE  ToldInv'
<1>1. CASE Next
  BY <1>1, ToldClosedStep, EditUntoldStep DEF ToldInv
<1>2. CASE UNCHANGED vars
  <2>1. UNCHANGED <<alerts, engine, received>>
    BY <1>2 DEF vars, database
  <2> QED
    BY <2>1 DEF ToldInv, ToldIsClosed, EditIsUntold, Told, Checking, EditClosed
<1> QED
  BY <1>1, <1>2

LEMMA ToldInit == Init => ToldInv
<1> SUFFICES ASSUME Init PROVE ToldInv
  OBVIOUS
<1>1. ~Checking /\ \A w \in Webhooks : Told(w) = {}
  BY DEF Init, Checking, NoCheck, Told
<1> QED
  BY <1>1 DEF ToldInv, ToldIsClosed, EditIsUntold


(* Whether one alert reopens another is settled when the other is raised.   *)
LEMMA ReopenedWas ==
  ASSUME IInv, NewsInv, Next, NEW a \in DOMAIN alerts, NEW b \in DOMAIN alerts,
         ReopenedAs(a, b)'
  PROVE  ReopenedAs(a, b)
<1>1. SameAlert(a) /\ SameAlert(b) /\ (SaysTheSame(a, b)' <=> SaysTheSame(a, b))
  BY AlertsGrow, SaysStays
<1>2. CASE alerts'[a].clearedBy = alerts[a].clearedBy /\ alerts'[a].clearedIn = alerts[a].clearedIn
  BY <1>1, <1>2 DEF ReopenedAs, SameAlert
<1>3. ASSUME Closes(a) PROVE FALSE
  <2>1. b <= a
    BY <1>1, <1>3 DEF Closes, NewsInv, OrderInv, OpenIsNewest, ReopenedAs, SameAlert
  <2>2. a \in Nat /\ b \in Nat /\ a < b
    BY AlertIdsAre DEF IInv, ReopenedAs
  <2> QED
    BY <2>1, <2>2
<1>4. Closes(a) \/ alerts'[a] = alerts[a]
  <2>1. BeginCheck => UNCHANGED alerts
    BY DEF BeginCheck, database
  <2> QED
    BY <2>1, Kinds DEF Closes, Raises
<1> QED
  BY <1>2, <1>3, <1>4

(* What a check reopens it closed itself, and it is all it closed of the   *)
(* rule and metric.                                                        *)
LEMMA ReopenedNow ==
  ASSUME IInv, NewsInv, SilentInv, NEW a \in DOMAIN alerts, NEW b \in DOMAIN alerts,
         ReopenedAs(a, b), emit.pc # "none", emit.type = "raised", emit.alert = b
  PROVE  Checking /\ EditClosed(a) /\ ClosedByEdit(b) = {a}
<1>1. Checking /\ alerts[b].raisedAt = engine.t
  BY DEF IInv, InFlightInv, EventIsOfThisCheck
<1>2. EditClosed(a)
  BY <1>1 DEF ReopenedAs, EditClosed, SilentInv, AlertsInTime
<1>3. \A c \in ClosedAtRaise(b) : c = a
  BY <1>1, <1>2 DEF ClosedAtRaise, EditClosed, NewsInv, OrderInv, OneEdit, ReopenedAs
<1>4. a \in ClosedAtRaise(b) /\ a \in Nat
  BY <1>1, <1>2, AlertIdsAre DEF ClosedAtRaise, EditClosed, ReopenedAs, IInv
<1>5. ClosedAtRaise(b) = {a}
  BY <1>3, <1>4
<1> QED
  BY <1>1, <1>2, <1>4, <1>5 DEF ClosedByEdit

LEMMA AtHandStep ==
  ASSUME IInv, Next, NEW b, AtHand(b)
  PROVE  \/ AtHand(b)'
         \/ NotAnnounced /\ configured = {}
         \/ ReopenUnchanged \/ QueueRaise \/ EnqueueFails \/ Ends
<1> USE DEF clocks, sender, database
<1>1. UNCHANGED emit => AtHand(b)'
  BY DEF AtHand
<1>2. ASSUME NEW w \in Webhooks, LaneStep(w) \/ ReceiverGets(w) PROVE UNCHANGED emit
  BY <1>2 DEF LaneStep, NothingPending, PullIn, NotDue, StartDelivery, Looks, ReceiverGets,
     DeliverySucceeds, AttemptFails, GivesUp, DeliveryCut, RecordFails, Continue, Resumes
<1>3. CASE NotAnnounced
  BY <1>3 DEF NotAnnounced, Handles, AtHand
<1>4. ~QueueClear /\ ~WakeAfterQueue /\ ~NobodyToWake /\ \A w \in Webhooks : ~InsertRow(w)
  BY DEF QueueClear, Handles, AtHand, WakeAfterQueue, NobodyToWake, InsertRow, Inserts
<1>5. ~EngineStep
  BY DEF EngineStep, BeginCheck, Quiet, EndCheck, CloseChanged, CloseRemoved, ConditionClears,
     ConditionRaises, EngineRuns, AtHand
<1>6. CASE Stop \/ (\E file \in NotifyFiles : Starts(file)) \/ Timer \/ Tick
           \/ \E step \in Steps : ClockSet(step)
  BY <1>1, <1>6 DEF Stop, Starts, Timer, Tick, ClockSet
<1> QED
  BY <1>1, <1>2, <1>3, <1>4, <1>5, <1>6 DEF Next, EnqueueStep, ProcessStep

(* The event at hand ends: the clear it waits for is withdrawn, or the rest *)
(* of the event is lost.                                                    *)
LEMMA AtHandEnds ==
  ASSUME IInv, NewsInv, SilentInv, Next, NEW a \in DOMAIN alerts, NEW b \in DOMAIN alerts,
         ReopenedAs(a, b), AtHand(b), ~AtHand(b)', NEW w \in Webhooks,
         <<w, alerts[b].key>> \notin missed', NEW i \in PendingOf(outbox, w),
         i \in PendingOf(outbox', w)
  PROVE  Item(i) # <<a, "cleared">>
<1>0. /\ emit.pc = "new" /\ emit.type = "raised" /\ emit.alert = b
      /\ alerts[b].key \in Keys /\ ClosedByEdit(b) = {a}
  <2>1. emit.pc = "new" /\ emit.type = "raised" /\ emit.alert = b
    BY DEF AtHand
  <2>2. alerts[b].key \in Keys
    BY DEF IInv, TypeOK, Alerts
  <2> QED
    BY <2>1, <2>2, ReopenedNow
<1>1. w \in configured
  <2>1. process # "down"
    BY <1>0 DEF IInv, InFlightInv, DownIsIdle, NoEvent
  <2> QED
    BY <2>1 DEF NewsInv, ServedInv
<1>2. CASE EnqueueFails \/ Ends
  BY <1>0, <1>2 DEF EnqueueFails, Ends, Lost, KeyOf
<1>3. CASE QueueRaise
  BY <1>0, <1>3 DEF QueueRaise, ReopenedAs
<1>4. CASE ReopenUnchanged
  <2>1. TypeOK
    BY DEF IInv
  <2>2. Withdraws(a)
    BY <1>0, <1>4, <2>1, ReopenQueues
  <2>3. ~IsWithdrawn(i, w, a)
    BY <2>2 DEF Withdraws
  <2>4. outbox[i].webhook = w /\ i \in DOMAIN outbox
    BY DEF PendingOf
  <2>5. outbox[i].alert = a => Reaches(w, a)
    BY <2>4 DEF NewsInv, RowsOfAlerts
  <2>6. outbox[i].alert = a => Reaches(w, b)
    BY <2>5 DEF Reaches, ReopenedAs, SaysTheSame
  <2> QED
    BY <1>0, <1>1, <2>3, <2>6 DEF IsWithdrawn, Item
<1> QED
  BY <1>1, <1>2, <1>3, <1>4, AtHandStep

LEMMA SilentStays ==
  ASSUME IInv, NewsInv, SilentInv, Next, NEW a \in DOMAIN alerts, NEW b \in DOMAIN alerts,
         ReopenedAs(a, b), NEW w \in Webhooks, <<w, alerts[b].key>> \notin missed'
  PROVE  SilentFor(w, a, b)'
<1>1. SilentFor(w, a, b)
  BY MissedStays DEF SilentInv, ReopenIsSilent
<1>2. ASSUME ReceiverGets(w)
      PROVE  Item(lane[w].id) # <<a, "cleared">> /\ Item(lane[w].id) # <<b, "raised">>
  <2>1. lane[w].id \in PendingOf(outbox, w)
    BY <1>2, Arrives
  <2>2. CASE AtHand(b)
    <3>1. Checking /\ EditClosed(a)
      BY <2>2, ReopenedNow DEF AtHand
    <3>2. Item(lane[w].id) # <<a, "cleared">>
      BY <1>2, <3>1, EditDoesNotArrive DEF ReopenedAs
    <3> QED
      BY <1>1, <2>1, <3>2 DEF SilentFor
  <2> QED
    BY <1>1, <2>1, <2>2 DEF SilentFor
<1>3. <<a, "cleared">> \notin Told(w)' /\ <<b, "raised">> \notin Told(w)'
  BY <1>1, <1>2, ToldGrows DEF SilentFor
<1>4. ASSUME NEW i \in PendingOf(outbox', w)
      PROVE  Item(i)' # <<b, "raised">> /\ (Item(i)' = <<a, "cleared">> => AtHand(b)')
  <2>1. i \in DOMAIN outbox' /\ outbox'[i].webhook = w /\ outbox'[i].status = "pending"
    BY <1>4 DEF PendingOf
  <2>2. CASE Was(outbox, outbox', i)
    <3>1. i \in PendingOf(outbox, w) /\ Item(i)' = Item(i)
      BY <2>1, <2>2 DEF Was, PendingOf, Item
    <3>2. Item(i) # <<b, "raised">> /\ (Item(i) = <<a, "cleared">> => AtHand(b))
      BY <1>1, <3>1 DEF SilentFor
    <3>3. AtHand(b) /\ ~AtHand(b)' => Item(i) # <<a, "cleared">>
      BY <1>4, <3>1, AtHandEnds
    <3> QED
      BY <3>1, <3>2, <3>3
  <2>3. CASE Inserted(i)
    <3>1. Item(i)' = <<emit.alert, emit.type>> /\ emit.pc = "inserting"
      BY <2>3 DEF Inserted, Item
    <3>2. ~(emit.type = "raised" /\ emit.alert = b)
      BY <3>1 DEF SilentInv, ReopenIsSilent
    <3>3. emit.alert # a
      <4>1. SUFFICES ASSUME emit.alert = a PROVE FALSE
        OBVIOUS
      <4>2. b <= a /\ a < b /\ a \in Nat /\ b \in Nat
        BY <3>1, <4>1, AlertIdsAre DEF NewsInv, OrderInv, EventIsNewest, ReopenedAs, IInv
      <4> QED
        BY <4>2
    <3> QED
      BY <3>1, <3>2, <3>3
  <2> QED
    BY <2>1, <2>2, <2>3, RowsFromStep DEF RowsFrom
<1> QED
  BY <1>3, <1>4 DEF SilentFor


LEMMA ReopenSilentStep ==
  ASSUME IInv, NewsInv, SilentInv, Next
  PROVE  ReopenIsSilent'
<1> SUFFICES ASSUME NEW a \in DOMAIN alerts', NEW b \in DOMAIN alerts', ReopenedAs(a, b)'
             PROVE  /\ ~(emit'.pc = "inserting" /\ emit'.type = "raised" /\ emit'.alert = b)
                    /\ \A w \in Webhooks :
                         <<w, alerts'[b].key>> \notin missed' => SilentFor(w, a, b)'
  BY DEF ReopenIsSilent
<1>1. CASE a \in DOMAIN alerts /\ b \in DOMAIN alerts
  <2>1. ReopenedAs(a, b) /\ alerts'[b].key = alerts[b].key
    BY <1>1, ReopenedWas, AlertsGrow DEF SameAlert
  <2>2. ASSUME emit'.pc = "inserting", emit'.type = "raised", emit'.alert = b PROVE FALSE
    <3>1. EventGoesOn
      BY <2>2, Kinds DEF Closes, Raises, Announced
    <3>2. emit.type = "raised" /\ emit.alert = b
      BY <2>2, <3>1 DEF EventGoesOn
    <3>3. emit.pc # "inserting"
      BY <1>1, <2>1, <3>2 DEF SilentInv, ReopenIsSilent
    <3>4. QueueRaise
      BY <2>2, <3>1, <3>2, <3>3 DEF EventGoesOn, QueueClear, Handles
    <3>5. ClosedByEdit(b) = {a}
      BY <1>1, <2>1, <3>1, <3>2, ReopenedNow DEF EventGoesOn
    <3> QED
      BY <2>1, <3>2, <3>4, <3>5 DEF QueueRaise, ReopenedAs
  <2> QED
    BY <1>1, <2>1, <2>2, SilentStays
<1>2. ASSUME NEW k \in Keys, NEW c \in AlertIds, Raises(k, c), a \notin DOMAIN alerts \/ b \notin DOMAIN alerts
      PROVE  /\ emit'.pc = "new"
             /\ \A w \in Webhooks : SilentFor(w, a, b)'
  <2>1. /\ Checking /\ UNCHANGED <<outbox, received>> /\ c \notin DOMAIN alerts
        /\ DOMAIN alerts' = DOMAIN alerts \cup {c}
        /\ \A d \in DOMAIN alerts : alerts'[d] = alerts[d]
        /\ alerts'[c].clearedBy = "open" /\ alerts'[c].raisedAt = engine.t
        /\ emit'.pc = "new" /\ emit'.type = "raised" /\ emit'.alert = c
    BY <1>2 DEF Raises, Announced, StandStill
  <2>2. a \in DOMAIN alerts /\ b = c
    BY <1>2, <2>1 DEF ReopenedAs
  <2>3. EditClosed(a)
    BY <2>1, <2>2 DEF ReopenedAs, EditClosed, SilentInv, AlertsInTime
  <2>4. ASSUME NEW w \in Webhooks PROVE SilentFor(w, a, b)'
    <3>1. <<a, "cleared">> \notin Told(w)
      BY <2>1, <2>2, <2>3 DEF SilentInv, ToldInv, EditIsUntold
    <3>2. <<b, "raised">> \notin Told(w)
      BY <2>1, <2>2 DEF Told, NewsInv, ToldOfAlerts
    <3>3. \A i \in PendingOf(outbox, w) : Item(i) # <<b, "raised">>
      BY <2>1, <2>2 DEF PendingOf, Item, NewsInv, RowsOfAlerts
    <3>4. AtHand(b)'
      BY <2>1, <2>2 DEF AtHand
    <3>5. Told(w)' = Told(w) /\ PendingOf(outbox, w)' = PendingOf(outbox, w)
          /\ \A i : Item(i)' = Item(i)
      BY <2>1 DEF Told, PendingOf, Item
    <3> QED
      BY <3>1, <3>2, <3>3, <3>4, <3>5 DEF SilentFor
  <2> QED
    BY <2>1, <2>4
<1>3. BeginCheck => UNCHANGED alerts
  BY DEF BeginCheck, database
<1>4. \/ a \in DOMAIN alerts /\ b \in DOMAIN alerts
      \/ \E k \in Keys, c \in AlertIds : Raises(k, c)
  BY <1>3, Kinds DEF Closes
<1> QED
  BY <1>1, <1>2, <1>4

LEMMA SilentNext ==
  ASSUME SetAhead, IInv, NewsInv, SilentInv, [Next]_vars
  PROVE  SilentInv'
<1>1. CASE Next
  BY <1>1, InTimeStep, ToldNext, ReopenSilentStep DEF SilentInv
<1>2. CASE UNCHANGED vars
  <2>1. UNCHANGED <<wall, alerts, outbox, engine, emit, received, missed>>
    BY <1>2 DEF vars, clocks, sender, database
  <2>2. AlertsInTime'
    BY <2>1 DEF SilentInv, AlertsInTime
  <2>3. ToldInv'
    BY <1>2, ToldNext DEF SilentInv
  <2>4. ReopenIsSilent'
    <3>1. \A a, b : /\ ReopenedAs(a, b)' <=> ReopenedAs(a, b)
                    /\ \A w : SilentFor(w, a, b)' <=> SilentFor(w, a, b)
      <4>1. \A a, b : ReopenedAs(a, b)' <=> ReopenedAs(a, b)
        BY <2>1 DEF ReopenedAs, SaysTheSame
      <4>2. /\ \A w : Told(w)' = Told(w) /\ PendingOf(outbox, w)' = PendingOf(outbox, w)
            /\ \A i : Item(i)' = Item(i)
            /\ \A b : AtHand(b)' <=> AtHand(b)
        BY <2>1 DEF Told, PendingOf, Item, AtHand
      <4>3. \A a, b, w : SilentFor(w, a, b)' <=> SilentFor(w, a, b)
        BY <4>2 DEF SilentFor
      <4> QED
        BY <4>1, <4>3
    <3> QED
      BY <2>1, <3>1 DEF SilentInv, ReopenIsSilent
  <2> QED
    BY <2>2, <2>3, <2>4 DEF SilentInv
<1> QED
  BY <1>1, <1>2

(* An edit that closes an alert and reopens it unchanged tells no receiver  *)
(* of either (enqueue.ts:59-83), unless the event was lost on the way: for  *)
(* clocks that are right or set ahead.                                      *)
THEOREM SilentCorrect == ASSUME SetAhead PROVE Spec => []UnchangedReopenIsSilent
<1> DEFINE Inv == IInv /\ NewsInv /\ TellsInv /\ SilentInv
<1>1. Init => Inv
  <2>1. Init => SilentInv
    <3>1. Init => DOMAIN alerts = {}
      BY DEF Init
    <3> QED
      BY <3>1, ToldInit DEF SilentInv, AlertsInTime, ReopenIsSilent
  <2> QED
    BY <2>1, InFlightInit, NewsInit
<1>2. Inv /\ [Next]_vars => Inv'
  BY InFlightNext, NewsNext, SilentNext
<1>3. Inv => UnchangedReopenIsSilent
  BY DEF SilentInv, ReopenIsSilent, SilentFor, UnchangedReopenIsSilent
<1> QED
  BY <1>1, <1>2, <1>3, PTL DEF Spec


-----------------------------------------------------------------------------
(***************************************************************************)
(* A new message is noticed by its lane, where the clock is not set back   *)
(* and the database does not fail.  (A clock set back by less than a jump  *)
(* puts a message into the future of its own queueing; a statement that    *)
(* throws ends a lane's turn, or an event, without a look at what waits.   *)
(* The timer finds both, five seconds later at most.)                      *)
(***************************************************************************)
NoFailedStatement == "db" \notin Faults

(* What keeps it: *)
LastOf(w, i) == \A j \in PendingOf(outbox, w) : j <= i
WakeDue == emit.pc = "inserting" /\ emit.queued
Excused(w, i) == \/ outbox[i].attempts > 0 \/ outbox[i].nextAt > outbox[i].createdAt
                 \/ BehindGivenUp(w, i)
HeadExcused(w) == \A i \in PendingOf(outbox, w) : IsHead(outbox, w, i) => Excused(w, i)
Settled(w) == \/ lane[w].pc = "idle"
              \/ lane[w].pc = "looped" /\ ~lane[w].sent /\ ~lane[w].again

(* a queue is served in order; *)
InOrder == \A w : \A i \in PendingOf(outbox, w), j \in DOMAIN outbox :
             outbox[j].webhook = w /\ i < j => j \in PendingOf(outbox, w)

(* time goes on, and what waits was queued in the past; *)
BornInTime == /\ lastMono <= mono /\ Jump >= 0
              /\ \A i \in DOMAIN outbox :
                   outbox[i].status = "pending" => outbox[i].born <= lastMono + unseen

(* a lane that will not look again has seen the head, or is about to be     *)
(* woken; and what a reopening may yet withdraw is the last of a queue      *)
(* whose lane rests, so its withdrawal brings no other row to the head.     *)
Seen(w) == Settled(w) => WakeDue \/ HeadExcused(w)
EditSeen(w) == Checking => \A i \in PendingOf(outbox, w) : EditClear(i) =>
  /\ lane[w].pc = "idle" => WakeDue /\ w \notin emit.todo
  /\ lane[w].pc \in {"idle", "looking"} => LastOf(w, i)
  /\ lane[w].pc = "looped" /\ ~lane[w].again => WakeDue \/ LastOf(w, i)
NoticedInv == /\ InOrder /\ BornInTime
              /\ process = "running" => \A w \in configured : Seen(w) /\ EditSeen(w)

(* What leaves a queue other than at its front leaves the table. *)
LEMMA LeavesInOrder ==
  ASSUME IInv, Next, NEW w \in Webhooks, NEW i \in PendingOf(outbox, w), NEW j \in PendingOf(outbox, w),
         i \in PendingOf(outbox', w), j \in DOMAIN outbox', i < j
  PROVE  j \in PendingOf(outbox', w)
<1>0. TypeOK /\ i \in Nat /\ j \in Nat
  BY RowIds DEF IInv, PendingOf
<1>1. CASE \A v \in Webhooks : PendingOf(outbox, v) \subseteq PendingOf(outbox', v)
  BY <1>1
<1>2. ASSUME NEW v \in Webhooks, LaneStep(v) \/ ReceiverGets(v)
      PROVE  j \in PendingOf(outbox', w)
  <2>1. CASE QueuesStay
    BY <2>1 DEF QueuesStay
  <2>2. CASE LaneEnds(v)
    <3>1. lane[v].pc = "delivering" => IsHead(outbox, v, lane[v].id) /\ lane[v].id \in Nat
      BY <1>2, LaneRow DEF IInv, InFlightInv, InFlightIsHead
    <3> QED
      BY <1>0, <2>2, <3>1 DEF LaneEnds, IsHead
  <2> QED
    BY <1>2, <2>1, <2>2, LaneQueues
<1>3. CASE EnqueueStep
  <2>1. j \in DOMAIN outbox /\ outbox[j].status = "pending" /\ outbox[j].webhook = w
    BY DEF PendingOf
  <2>2. outbox'[j] = outbox[j] \/ outbox'[j] = Table[j]
    BY <1>3, <2>1, EnqueueRows
  <2> QED
    BY <1>0, <2>1, <2>2, TableKeeps DEF PendingOf
<1>4. ASSUME NEW file \in NotifyFiles, Starts(file)
      PROVE  j \in PendingOf(outbox', w)
  BY <1>0, <1>4, StartQueues
<1> QED
  BY <1>0, <1>1, <1>2, <1>3, <1>4, QuietQueues DEF Next, ProcessStep, QueuesStay

LEMMA InOrderStep ==
  ASSUME IInv, InOrder, Next
  PROVE  InOrder'
<1>0. TypeOK' /\ IsTable(outbox') /\ DOMAIN outbox \subseteq Nat /\ DOMAIN outbox' \subseteq Nat
  <2>1. TypeOK /\ TypeOK'
    BY TypeNext DEF IInv
  <2> QED
    BY <2>1, IdsAssumption DEF TypeOK, IsTable
<1> SUFFICES ASSUME NEW w, NEW i \in PendingOf(outbox', w), NEW j \in DOMAIN outbox',
                    outbox'[j].webhook = w, i < j
             PROVE  j \in PendingOf(outbox', w)
  BY DEF InOrder
<1>1. i \in DOMAIN outbox' /\ i \in Nat /\ j \in Nat /\ w \in Webhooks
  BY <1>0 DEF PendingOf, IsTable, Rows
<1>2. CASE Inserted(j)
  BY <1>2 DEF Inserted, PendingOf
<1>3. CASE Was(outbox, outbox', j)
  <2>1. j \in DOMAIN outbox /\ outbox[j].webhook = w
    BY <1>3 DEF Was
  <2>2. ~Inserted(i)
    BY <1>0, <1>1, <2>1 DEF Inserted
  <2>3. Was(outbox, outbox', i)
    BY <1>1, <2>2, RowsFromStep DEF RowsFrom
  <2>4. i \in PendingOf(outbox, w)
    BY <2>3 DEF Was, PendingOf
  <2>5. j \in PendingOf(outbox, w)
    BY <2>1, <2>4 DEF InOrder
  <2> QED
    BY <1>1, <2>4, <2>5, LeavesInOrder
<1> QED
  BY <1>2, <1>3, RowsFromStep DEF RowsFrom

(* now() reads the clocks, or nothing the sender knows of time changes. *)
LEMMA ReadsOrNot ==
  ASSUME IInv, Next
  PROVE  \/ ReadClock /\ UNCHANGED <<wall, mono>>
         \/ UNCHANGED <<lastWall, lastMono, unseen, wall, mono>>
         \/ \E file \in NotifyFiles : Starts(file)
         \/ (Tick \/ \E step \in Steps : ClockSet(step)) /\ UNCHANGED <<lastWall, lastMono, unseen>>
<1> USE DEF clocks, sender, database
<1>1. ASSUME NEW w \in Webhooks, LaneStep(w) \/ ReceiverGets(w)
      PROVE  UNCHANGED <<wall, mono>> /\ (ReadClock \/ UNCHANGED <<lastWall, lastMono, unseen>>)
  BY <1>1 DEF LaneStep, NothingPending, PullIn, NotDue, StartDelivery, Looks, ReceiverGets,
     DeliverySucceeds, AttemptFails, GivesUp, DeliveryCut, RecordFails, Continue
<1>2. CASE EnqueueStep
  BY <1>2 DEF EnqueueStep, NotAnnounced, QueueClear, ReopenUnchanged, QueueRaise, InsertRow,
     WakeAfterQueue, NobodyToWake, EnqueueFails, Wake
<1>3. CASE EngineStep \/ Stop \/ Ends
  BY <1>3 DEF EngineStep, BeginCheck, EndCheck, CloseChanged, CloseRemoved, ConditionClears,
     ConditionRaises, ClearAlert, Stop, Ends
<1>4. CASE Timer
  BY <1>4 DEF Timer, Wake
<1>5. CASE Tick \/ \E step \in Steps : ClockSet(step)
  BY <1>5 DEF Tick, ClockSet
<1> QED
  BY <1>1, <1>2, <1>3, <1>4, <1>5 DEF Next, ProcessStep

LEMMA BornStep ==
  ASSUME SetAhead, IInv, BornInTime, Next
  PROVE  BornInTime'
<1>0. /\ wall \in Int /\ mono \in Int /\ lastWall \in Int /\ lastMono \in Int /\ unseen \in Int
      /\ Jump \in Int /\ IsTable(outbox) /\ IsTable(outbox')
  <2>1. TypeOK /\ TypeOK'
    BY TypeNext DEF IInv
  <2>2. Jump \in Int
    BY <2>1, TableKeeps
  <2> QED
    BY <2>1, <2>2 DEF TypeOK
<1>1. Jump = (wall - lastWall) - (mono - lastMono) /\ Jump' = (wall' - lastWall') - (mono' - lastMono')
  BY DEF Jump
<1>2. /\ lastMono' <= mono' /\ Jump' >= 0
      /\ lastMono' + unseen' >= lastMono + unseen
  <2>1. CASE ReadClock /\ UNCHANGED <<wall, mono>>
    BY <1>0, <1>1, <2>1 DEF ReadClock, BornInTime
  <2>2. CASE UNCHANGED <<lastWall, lastMono, unseen, wall, mono>>
    BY <1>0, <1>1, <2>2 DEF BornInTime
  <2>3. ASSUME NEW file \in NotifyFiles, Starts(file)
        PROVE  lastMono' <= mono' /\ Jump' >= 0 /\ lastMono' + unseen' >= lastMono + unseen
    <3>1. /\ UNCHANGED <<wall, mono>> /\ lastWall' = wall /\ lastMono' = mono
          /\ unseen' = unseen + Jump
      BY <2>3 DEF Starts, clocks
    <3> QED
      BY <1>0, <1>1, <3>1 DEF BornInTime
  <2>4. CASE Tick /\ UNCHANGED <<lastWall, lastMono, unseen>>
    BY <1>0, <1>1, <2>4 DEF Tick, BornInTime
  <2>5. ASSUME NEW step \in Steps, ClockSet(step), UNCHANGED <<lastWall, lastMono, unseen>>
        PROVE  lastMono' <= mono' /\ Jump' >= 0 /\ lastMono' + unseen' >= lastMono + unseen
    BY <1>0, <1>1, <2>5 DEF ClockSet, BornInTime, SetAhead
  <2> QED
    BY <2>1, <2>2, <2>3, <2>4, <2>5, ReadsOrNot
<1>3. ASSUME NEW i \in DOMAIN outbox', outbox'[i].status = "pending"
      PROVE  outbox'[i].born <= lastMono' + unseen'
  <2>1. CASE Was(outbox, outbox', i)
    <3>1. /\ i \in DOMAIN outbox /\ outbox'[i].born = outbox[i].born
          /\ outbox[i].born <= lastMono + unseen
      BY <1>3, <2>1 DEF Was, BornInTime
    <3>2. outbox[i].born \in Int /\ lastMono' \in Int /\ unseen' \in Int
      BY <1>0, <3>1, TypeNext DEF IsTable, Rows, IInv, TypeOK
    <3>3. lastMono + unseen \in Int /\ lastMono' + unseen' \in Int
      BY <1>0, <3>2
    <3>4. PICK m, n : m = lastMono + unseen /\ n = lastMono' + unseen'
      OBVIOUS
    <3>5. m \in Int /\ n \in Int /\ outbox[i].born <= m /\ m <= n
      BY <1>2, <3>1, <3>3, <3>4
    <3>6. outbox[i].born <= n
      BY <3>2, <3>5
    <3> QED
      BY <3>1, <3>4, <3>6
  <2>2. CASE Inserted(i)
    <3>1. outbox'[i].born = lastMono' + unseen' /\ outbox'[i].born \in Int
      BY <1>0, <2>2 DEF Inserted, IsTable, Rows
    <3> QED
      BY <3>1
  <2> QED
    BY <2>1, <2>2, RowsFromStep DEF RowsFrom
<1> QED
  BY <1>2, <1>3 DEF BornInTime

(***************************************************************************)
(* What has seen the head of a queue, and what a step does to it.          *)
(***************************************************************************)
GivenUpStay(w) == \A f \in DOMAIN outbox :
  outbox[f].webhook = w /\ outbox[f].status = "failed" =>
    f \in DOMAIN outbox' /\ outbox'[f].status = "failed"
KeepsOrMoves(i) == outbox'[i] = outbox[i] \/ outbox'[i] = Table[i]

(* now() moves when a row is due with when it was queued. *)
LEMMA TableExcuses ==
  ASSUME TypeOK, NEW i \in DOMAIN outbox, outbox[i].status = "pending"
  PROVE  /\ Table[i].attempts = outbox[i].attempts
         /\ outbox[i].nextAt > outbox[i].createdAt => Table[i].nextAt > Table[i].createdAt
<1>1. outbox[i] \in Rows /\ Jump \in Int
  BY TableKeeps DEF TypeOK, IsTable
<1>2. CASE Shifts
  <2>1. Table[i] = [outbox[i] EXCEPT !.createdAt = @ + Jump, !.nextAt = @ + Jump]
    BY <1>2 DEF Table, ShiftPending
  <2>2. /\ Table[i].createdAt = outbox[i].createdAt + Jump
        /\ Table[i].nextAt = outbox[i].nextAt + Jump
        /\ Table[i].attempts = outbox[i].attempts
    BY <1>1, <2>1 DEF Rows
  <2>3. outbox[i].createdAt \in Int /\ outbox[i].nextAt \in Int
    BY <1>1 DEF Rows
  <2> QED
    BY <1>1, <2>2, <2>3
<1>3. CASE ~Shifts
  BY <1>3 DEF Table
<1> QED
  BY <1>2, <1>3

(* Nothing is queued for now() in the future. *)
LEMMA TableInTime ==
  ASSUME TypeOK, AgeIsElapsed, BornInTime, ReadClock,
         NEW i \in DOMAIN outbox, outbox[i].status = "pending"
  PROVE  Table[i].createdAt <= wall
<1>1. /\ i \in DOMAIN Table /\ Table[i].status = "pending" /\ Table[i] \in Rows
      /\ Table[i].born = outbox[i].born /\ outbox[i].born <= lastMono + unseen
  BY TableKeeps DEF IsTable, BornInTime
<1>2. wall - Table[i].createdAt = lastMono' + unseen' - Table[i].born
  BY <1>1, AgeTable DEF ReadClock
<1>3. Jump \in Int
  BY TableKeeps
<1>4. /\ wall \in Int /\ mono \in Int /\ lastMono \in Int /\ unseen \in Int
      /\ Table[i].createdAt \in Int /\ Table[i].born \in Int
  <2>1. wall \in Int /\ mono \in Int /\ lastMono \in Int /\ unseen \in Int
    BY DEF TypeOK
  <2>2. Table[i].createdAt \in Int /\ Table[i].born \in Int
    BY <1>1 DEF Rows
  <2> QED
    BY <2>1, <2>2
<1>5. lastMono' \in Int /\ unseen' \in Int /\ lastMono' + unseen' >= lastMono + unseen
  <2>1. lastMono' = mono /\ (unseen' = unseen \/ unseen' = unseen + Jump)
    BY DEF ReadClock
  <2>2. lastMono <= mono /\ Jump >= 0
    BY DEF BornInTime
  <2> QED
    BY <1>3, <1>4, <2>1, <2>2
<1>6. PICK m, n : m = lastMono + unseen /\ n = lastMono' + unseen'
  OBVIOUS
<1>7. m \in Int /\ n \in Int /\ Table[i].born <= m /\ m <= n
  <2>1. lastMono + unseen \in Int /\ lastMono' + unseen' \in Int
    BY <1>4, <1>5
  <2>2. m \in Int /\ n \in Int /\ outbox[i].born <= m /\ m <= n
    BY <1>1, <1>5, <1>6, <2>1
  <2> QED
    BY <1>1, <2>2
<1>8. wall - Table[i].createdAt = n - Table[i].born
  BY <1>2, <1>4, <1>5, <1>6
<1> QED
  BY <1>4, <1>7, <1>8

LEMMA ExcusedStays ==
  ASSUME IInv, Next, NEW w, NEW i \in PendingOf(outbox, w), i \in PendingOf(outbox', w),
         KeepsOrMoves(i), GivenUpStay(w), Excused(w, i)
  PROVE  Excused(w, i)'
<1>1. i \in DOMAIN outbox /\ outbox[i].status = "pending" /\ TypeOK
  BY DEF PendingOf, IInv
<1>2. CASE outbox[i].attempts > 0 \/ outbox[i].nextAt > outbox[i].createdAt
  BY <1>1, <1>2, TableExcuses DEF KeepsOrMoves, Excused
<1>3. CASE BehindGivenUp(w, i)
  <2>1. PICK f \in DOMAIN outbox :
          /\ outbox[f].webhook = w /\ outbox[f].status = "failed" /\ f < i
          /\ \A between \in DOMAIN outbox : f < between /\ between < i => outbox[between].webhook # w
    BY <1>3 DEF BehindGivenUp
  <2>2. f \in DOMAIN outbox' /\ outbox'[f].webhook = w /\ outbox'[f].status = "failed"
    BY <2>1, SameItem DEF GivenUpStay
  <2>3. ASSUME NEW between \in DOMAIN outbox', f < between, between < i
        PROVE  outbox'[between].webhook # w
    <3>1. DOMAIN outbox \subseteq Nat /\ DOMAIN outbox' \subseteq Nat
      BY <1>1, TypeNext, IdsAssumption DEF TypeOK, IsTable
    <3>2. ~Inserted(between)
      BY <1>1, <2>3, <3>1 DEF Inserted
    <3>3. Was(outbox, outbox', between)
      BY <3>2, RowsFromStep DEF RowsFrom
    <3> QED
      BY <2>1, <2>3, <3>3 DEF Was
  <2> QED
    BY <2>1, <2>2, <2>3 DEF Excused, BehindGivenUp
<1> QED
  BY <1>2, <1>3 DEF Excused

LEMMA HeadStaysExcused ==
  ASSUME IInv, Next, NEW w, HeadExcused(w), GivenUpStay(w),
         \A i \in PendingOf(outbox', w) :
           /\ i \in PendingOf(outbox, w) /\ KeepsOrMoves(i)
           /\ IsHead(outbox', w, i) => IsHead(outbox, w, i)
  PROVE  HeadExcused(w)'
  BY ExcusedStays DEF HeadExcused

(* The rests of a queue a reopening may withdraw are its last, still. *)
LEMMA EditStays ==
  ASSUME NEW w, EditSeen(w), PendingOf(outbox', w) \subseteq PendingOf(outbox, w),
         Checking' => Checking,
         \A i \in PendingOf(outbox', w) : EditClear(i)' => EditClear(i),
         Checking' => /\ lane'[w].pc = "idle" => lane[w].pc = "idle"
                      /\ lane'[w].pc = "looking" => lane[w].pc \in {"idle", "looking"}
                      /\ lane'[w].pc = "looped" /\ ~lane'[w].again =>
                           \/ lane[w].pc = "looking"
                           \/ lane[w].pc = "looped" /\ ~lane[w].again,
         \/ WakeDue => WakeDue' /\ emit'.todo \subseteq emit.todo
         \/ lane'[w].pc # "idle" /\ (lane'[w].pc = "looped" => lane'[w].again)
  PROVE  EditSeen(w)'
<1> SUFFICES ASSUME Checking', NEW i \in PendingOf(outbox', w), EditClear(i)'
             PROVE  /\ lane'[w].pc = "idle" => WakeDue' /\ w \notin emit'.todo
                    /\ lane'[w].pc \in {"idle", "looking"} => LastOf(w, i)'
                    /\ lane'[w].pc = "looped" /\ ~lane'[w].again => WakeDue' \/ LastOf(w, i)'
  BY DEF EditSeen
<1>1. /\ lane[w].pc = "idle" => WakeDue /\ w \notin emit.todo
      /\ lane[w].pc \in {"idle", "looking"} => LastOf(w, i)
      /\ lane[w].pc = "looped" /\ ~lane[w].again => WakeDue \/ LastOf(w, i)
  BY DEF EditSeen
<1>2. LastOf(w, i) => LastOf(w, i)'
  BY DEF LastOf
<1> QED
  BY <1>1, <1>2

(***************************************************************************)
(* The lanes.                                                              *)
(***************************************************************************)
LEMMA LaneLeaves ==
  ASSUME NEW v \in Webhooks, LaneStep(v) \/ ReceiverGets(v)
  PROVE  UNCHANGED <<alerts, engine, emit, process, configured>>
  BY DEF LaneStep, NothingPending, PullIn, NotDue, StartDelivery, Looks, ReceiverGets,
     DeliverySucceeds, AttemptFails, GivesUp, DeliveryCut, RecordFails, Continue, Resumes,
     database, sender

(* A lane leaves the other queues alone. *)
LEMMA OtherSeen ==
  ASSUME IInv, NEW v \in Webhooks, LaneStep(v) \/ ReceiverGets(v),
         NEW w \in Webhooks, v # w, Seen(w), EditSeen(w)
  PROVE  Seen(w)' /\ EditSeen(w)'
<1>1. Next /\ TypeOK /\ UNCHANGED <<alerts, engine, emit>> /\ lane'[w] = lane[w]
  BY LaneLeaves, OtherLane DEF Next, IInv
<1>2. PendingOf(outbox', w) = PendingOf(outbox, w)
  BY LaneQueues DEF QueuesStay, LaneEnds
<1>3. ASSUME NEW i \in DOMAIN outbox, outbox[i].webhook = w
      PROVE  i \in DOMAIN outbox' /\ KeepsOrMoves(i)
  BY <1>1, <1>3, LaneRows, TableKeeps DEF KeepsOrMoves
<1>4. GivenUpStay(w)
  BY <1>1, <1>3, TableKeeps DEF GivenUpStay, KeepsOrMoves
<1>5. HeadExcused(w) => HeadExcused(w)'
  <2>1. \A i \in PendingOf(outbox', w) :
           /\ i \in PendingOf(outbox, w) /\ KeepsOrMoves(i)
           /\ IsHead(outbox', w, i) => IsHead(outbox, w, i)
    BY <1>2, <1>3 DEF IsHead, PendingOf
  <2> QED
    BY <1>1, <1>4, <2>1, HeadStaysExcused
<1>6. Seen(w)'
  BY <1>1, <1>5 DEF Seen, Settled, WakeDue
<1>7. \A i \in PendingOf(outbox', w) : EditClear(i)' => EditClear(i)
  BY <1>1, <1>2, EditClearSame
<1>8. (WakeDue <=> WakeDue') /\ emit'.todo = emit.todo /\ (Checking' <=> Checking)
  BY <1>1 DEF WakeDue, Checking
<1>9. EditSeen(w)'
  BY <1>1, <1>2, <1>7, <1>8, EditStays
<1> QED
  BY <1>6, <1>9

(* A head that is not due has been put off since it was queued. *)
LEMMA NotDueExcused ==
  ASSUME IInv, AgeIsElapsed, BornInTime, NEW w \in Webhooks, PullIn(w) \/ NotDue(w)
  PROVE  HeadExcused(w)'
<1>0. TypeOK /\ ReadClock /\ wall \in Int
  BY DEF PullIn, NotDue, Looks, IInv, TypeOK
<1>1. PICK id \in PendingOf(Table, w) :
        /\ IsHead(Table, w, id)
        /\ \/ outbox' = SetNextAt(Table, id, wall + MAX_RETRY)
           \/ outbox' = Table /\ Table[id].nextAt > wall
  BY DEF PullIn, NotDue
<1>2. /\ id \in DOMAIN outbox /\ outbox[id].status = "pending" /\ Table[id] \in Rows
      /\ id \in DOMAIN Table /\ IsTable(Table)
  BY <1>0, <1>1, TableKeeps DEF PendingOf, IsTable
<1>3. /\ Table[id].createdAt <= wall /\ Table[id].createdAt \in Int /\ Table[id].nextAt \in Int
  BY <1>0, <1>2, TableInTime DEF Rows
<1>4. outbox'[id].nextAt > outbox'[id].createdAt
  <2>1. CASE outbox' = SetNextAt(Table, id, wall + MAX_RETRY)
    <3>1. outbox'[id].nextAt = wall + MAX_RETRY /\ outbox'[id].createdAt = Table[id].createdAt
      BY <1>2, <2>1 DEF SetNextAt, Update, With, Rows
    <3>2. MAX_RETRY \in Nat \ {0}
      BY TimesAssumption
    <3> QED
      BY <1>0, <1>3, <3>1, <3>2
  <2>2. CASE outbox' = Table /\ Table[id].nextAt > wall
    BY <1>0, <1>3, <2>2
  <2> QED
    BY <1>1, <2>1, <2>2
<1>5. PendingOf(outbox', w) = PendingOf(Table, w)
  BY <1>1, <1>2, AttemptPending
<1>6. ASSUME NEW i \in PendingOf(outbox', w), IsHead(outbox', w, i) PROVE i = id
  <2>1. i \in Nat /\ id \in Nat
    BY <1>0, <1>2, <1>5, RowIds DEF PendingOf
  <2> QED
    BY <1>1, <1>5, <1>6, <2>1 DEF IsHead
<1> QED
  BY <1>4, <1>6 DEF HeadExcused, Excused

(* A head that was tried counts the attempt. *)
LEMMA TriedExcused ==
  ASSUME IInv, NEW w \in Webhooks, AttemptFails(w)
  PROVE  HeadExcused(w)'
<1>0. TypeOK /\ lane[w].pc = "delivering" /\ IsHead(outbox, w, lane[w].id)
  BY DEF AttemptFails, Resumes, IInv, InFlightInv, InFlightIsHead
<1>1. PICK at : outbox' = MarkAttemptFailed(Table, lane[w].id, at)
  BY DEF AttemptFails
<1>2. /\ lane[w].id \in DOMAIN Table /\ IsTable(Table) /\ Table[lane[w].id] \in Rows
      /\ lane[w].id \in Nat
  BY <1>0, LaneRow, TableKeeps DEF IsTable
<1>3. outbox'[lane[w].id].attempts > 0
  <2>1. Table[lane[w].id].attempts \in Nat
    BY <1>2 DEF Rows
  <2>2. outbox'[lane[w].id].attempts = Table[lane[w].id].attempts + 1
    BY <1>1, <1>2 DEF MarkAttemptFailed, Update, With, Rows
  <2> QED
    BY <2>1, <2>2
<1>4. PendingOf(outbox', w) = PendingOf(outbox, w)
  BY <1>0, <1>1, <1>2, AttemptPending, TablePending
<1>5. ASSUME NEW i \in PendingOf(outbox', w), IsHead(outbox', w, i) PROVE i = lane[w].id
  <2>1. i \in Nat
    BY <1>0, <1>4, RowIds DEF PendingOf
  <2> QED
    BY <1>0, <1>2, <1>4, <1>5, <2>1 DEF IsHead
<1> QED
  BY <1>3, <1>5 DEF HeadExcused, Excused

(* What is behind a message given up is right behind it. *)
LEMMA GivenUpExcused ==
  ASSUME IInv, InOrder, NEW w \in Webhooks, GivesUp(w)
  PROVE  HeadExcused(w)'
<1> DEFINE id == lane[w].id
<1>0. TypeOK /\ lane[w].pc = "delivering" /\ IsHead(outbox, w, id) /\ id \in PendingOf(outbox, w)
  BY DEF GivesUp, Resumes, IInv, InFlightInv, InFlightIsHead, IsHead
<1>1. outbox' = MarkGivenUp(Table, id, wall)
  BY DEF GivesUp
<1>2. /\ id \in DOMAIN Table /\ IsTable(Table) /\ Table[id] \in Rows /\ id \in Nat
      /\ outbox[id].webhook = w /\ Table[id].webhook = w /\ DOMAIN Table = DOMAIN outbox
      /\ DOMAIN outbox \subseteq Nat
  BY <1>0, LaneRow, TableKeeps, RowIds DEF IsTable
<1> HIDE DEF id
<1>3. /\ outbox'[id].status = "failed" /\ outbox'[id].webhook = w
      /\ DOMAIN outbox' = DOMAIN outbox
      /\ \A i \in DOMAIN outbox \ {id} : outbox'[i] = Table[i]
  BY <1>1, <1>2 DEF MarkGivenUp, Update, With, Rows
<1>4. PendingOf(outbox', w) = PendingOf(outbox, w) \ {id}
  BY <1>0, <1>1, <1>2, AttemptPending, TablePending
<1>5. ASSUME NEW i \in PendingOf(outbox', w), IsHead(outbox', w, i) PROVE BehindGivenUp(w, i)'
  <2>1. i \in Nat /\ i \in PendingOf(outbox, w) /\ i # id /\ id < i
    <3>1. i \in PendingOf(outbox, w) /\ i # id /\ id <= i
      BY <1>0, <1>4 DEF IsHead
    <3>2. i \in Nat
      BY <1>2, <3>1 DEF PendingOf
    <3> QED
      BY <1>2, <3>1, <3>2
  <2>2. ASSUME NEW between \in DOMAIN outbox', id < between, between < i
        PROVE  outbox'[between].webhook # w
    <3>1. between \in Nat /\ between # id /\ between \in DOMAIN outbox
      BY <1>2, <1>3, <2>2
    <3>2. outbox'[between].webhook = outbox[between].webhook
      BY <1>0, <1>3, <3>1, TableKeeps
    <3>3. ASSUME outbox[between].webhook = w PROVE FALSE
      <4>1. between \in PendingOf(outbox, w)
        BY <1>0, <2>2, <3>1, <3>3 DEF InOrder
      <4>2. i <= between
        BY <1>4, <1>5, <3>1, <4>1 DEF IsHead
      <4> QED
        BY <2>1, <2>2, <3>1, <4>2
    <3> QED
      BY <3>2, <3>3
  <2>3. id \in DOMAIN outbox'
    BY <1>2, <1>3
  <2> QED
    BY <1>3, <2>1, <2>2, <2>3 DEF BehindGivenUp
<1> QED
  BY <1>5 DEF HeadExcused, Excused

(* A lane that ends its turn without another to come has seen the head.     *)
LEMMA OwnSeen ==
  ASSUME NoFailedStatement, IInv, AgeIsElapsed, InOrder, BornInTime, process = "running",
         NEW w \in Webhooks, LaneStep(w) \/ ReceiverGets(w), Seen(w), EditSeen(w)
  PROVE  Seen(w)' /\ EditSeen(w)'
<1> USE DEF clocks, sender, database
<1>0. /\ Next /\ TypeOK /\ w \in DOMAIN lane /\ UNCHANGED <<alerts, engine, emit, process>>
      /\ lane[w] \in Lanes
  BY LaneLeaves DEF Next, IInv, TypeOK
<1>1. /\ WakeDue <=> WakeDue'
      /\ emit'.todo = emit.todo
      /\ Checking' <=> Checking
  BY <1>0 DEF WakeDue, Checking
<1>2. /\ PendingOf(outbox', w) \subseteq PendingOf(outbox, w)
      /\ \A i \in PendingOf(outbox', w) : EditClear(i)' => EditClear(i)
  <2>1. PendingOf(outbox', w) \subseteq PendingOf(outbox, w)
    BY LaneQueues DEF QueuesStay, LaneEnds
  <2> QED
    BY <1>0, <2>1, EditClearSame
<1>3. ASSUME ~Checking PROVE EditSeen(w)'
  BY <1>1, <1>3 DEF EditSeen
<1>4. ASSUME lane[w].pc = "looking", lane'[w].pc = "looped" PROVE EditSeen(w)'
  BY <1>1, <1>2, <1>4, EditStays
<1>5. ASSUME NEW sent \in BOOLEAN, Loops(w, sent)
      PROVE  lane'[w].pc = "looped" /\ lane'[w].sent = sent
  BY <1>0, <1>5 DEF Loops
<1>6. CASE NothingPending(w)
  <2>1. PendingOf(outbox', w) = {} /\ lane[w].pc = "looking" /\ lane'[w].pc = "looped"
    BY <1>5, <1>6 DEF NothingPending, Looks
  <2> QED
    BY <1>4, <2>1 DEF Seen, HeadExcused
<1>7. CASE PullIn(w) \/ NotDue(w)
  <2>1. lane[w].pc = "looking" /\ lane'[w].pc = "looped"
    BY <1>5, <1>7 DEF PullIn, NotDue, Looks
  <2> QED
    BY <1>4, <1>7, <2>1, NotDueExcused DEF Seen
<1>8. CASE StartDelivery(w) \/ ReceiverGets(w)
  <2>1. lane'[w].pc = "delivering"
    BY <1>0, <1>8 DEF StartDelivery, ReceiverGets, Lanes
  <2> QED
    BY <2>1 DEF Seen, Settled, EditSeen
<1>9. CASE DeliverySucceeds(w)
  <2>1. ~Checking /\ lane'[w].pc = "looped" /\ lane'[w].sent
    BY <1>5, <1>9 DEF DeliverySucceeds, Resumes, Quiet
  <2> QED
    BY <1>3, <2>1 DEF Seen, Settled
<1>10. CASE AttemptFails(w) \/ GivesUp(w)
  <2>1. ~Checking
    BY <1>10 DEF AttemptFails, GivesUp, Resumes, Quiet
  <2> QED
    BY <1>3, <1>10, <2>1, TriedExcused, GivenUpExcused DEF Seen
<1>11. CASE DeliveryCut(w) \/ RecordFails(w)
  BY <1>11 DEF DeliveryCut, RecordFails, Resumes, NoFailedStatement
<1>12. CASE Continue(w)
  <2>1. /\ ~Checking /\ emit.pc = "none" /\ lane[w].pc = "looped" /\ UNCHANGED outbox
        /\ lane'[w] = IF lane[w].sent \/ lane[w].again
                      THEN [IdleLane EXCEPT !.pc = "looking"] ELSE IdleLane
    BY <1>0, <1>12 DEF Continue
  <2>2. lane'[w].pc = "looking" \/ (lane'[w].pc = "idle" /\ Settled(w))
    BY <2>1 DEF IdleLane, Settled
  <2>3. HeadExcused(w) => HeadExcused(w)'
    BY <2>1 DEF HeadExcused, Excused, BehindGivenUp
  <2>4. ~WakeDue
    BY <2>1 DEF WakeDue
  <2> QED
    BY <1>3, <2>1, <2>2, <2>3, <2>4 DEF Seen, Settled
<1> QED
  BY <1>6, <1>7, <1>8, <1>9, <1>10, <1>11, <1>12 DEF LaneStep

(***************************************************************************)
(* The enqueuer.                                                           *)
(***************************************************************************)
Turns == NotAnnounced \/ QueueClear \/ ReopenUnchanged \/ QueueRaise \/ NobodyToWake

LEMMA TurnKeeps ==
  ASSUME IInv, Turns
  PROVE  DOMAIN outbox' \subseteq DOMAIN outbox /\ \A w : GivenUpStay(w)
<1> USE DEF clocks, sender, database
<1>0. TypeOK /\ DOMAIN Table = DOMAIN outbox
  BY TableKeeps DEF IInv
<1>1. CASE UNCHANGED outbox
  BY <1>1 DEF GivenUpStay
<1>2. CASE outbox' = Table
  BY <1>0, <1>2, TableKeeps DEF GivenUpStay
<1>3. ASSUME NEW b, NEW left, left = Superseded(b, emit.alert)
      PROVE  /\ DOMAIN left \subseteq DOMAIN outbox
             /\ \A f \in DOMAIN outbox : outbox[f].status # "pending" =>
                  f \in DOMAIN left /\ left[f] = outbox[f]
  BY <1>3 DEF Superseded, DeletePendingClears, Without
<1>4. CASE ReopenUnchanged
  BY <1>3, <1>4 DEF ReopenUnchanged, GivenUpStay
<1>5. CASE QueueRaise
  <2> DEFINE b == CHOOSE b \in ClosedByEdit(emit.alert) : TRUE
             left == IF ClosedByEdit(emit.alert) = {} THEN outbox ELSE Superseded(b, emit.alert)
  <2>1. outbox' = IF Shifts THEN ShiftPending(left, Jump) ELSE left
    BY <1>5 DEF QueueRaise
  <2>2. /\ DOMAIN left \subseteq DOMAIN outbox
        /\ \A f \in DOMAIN outbox : outbox[f].status # "pending" =>
             f \in DOMAIN left /\ left[f] = outbox[f]
    BY <1>3
  <2> HIDE DEF left
  <2>3. /\ DOMAIN outbox' = DOMAIN left
        /\ \A f \in DOMAIN left : left[f].status # "pending" => outbox'[f] = left[f]
    BY <2>1 DEF ShiftPending
  <2> QED
    BY <2>2, <2>3 DEF GivenUpStay
<1> QED
  BY <1>1, <1>2, <1>4, <1>5 DEF Turns, NotAnnounced, QueueClear, NobodyToWake

(* A reopening takes nothing but the end of a queue whose lane rests.       *)
LEMMA TurnSeen ==
  ASSUME IInv, Turns, process = "running", NEW w \in Webhooks, Seen(w), EditSeen(w)
  PROVE  Seen(w)' /\ EditSeen(w)'
<1>0. /\ Next /\ EnqueueStep /\ TypeOK /\ UNCHANGED <<alerts, engine, lane>> /\ ~WakeDue
  <2>1. Next /\ EnqueueStep /\ TypeOK
    BY DEF Next, EnqueueStep, Turns, IInv
  <2>2. UNCHANGED <<alerts, engine, lane>>
    BY DEF Turns, NotAnnounced, QueueClear, ReopenUnchanged, QueueRaise, NobodyToWake, database
  <2>3. ~WakeDue
    BY DEF Turns, NotAnnounced, QueueClear, ReopenUnchanged, QueueRaise, NobodyToWake, Handles,
       WakeDue
  <2> QED
    BY <2>1, <2>2, <2>3
<1>1. Checking' <=> Checking
  BY <1>0 DEF Checking
<1>2. ASSUME NEW i \in PendingOf(outbox', w)
      PROVE  i \in PendingOf(outbox, w) /\ KeepsOrMoves(i)
  <2>1. i \in DOMAIN outbox' /\ i \in DOMAIN outbox /\ i \in Nat
    BY <1>0, TurnKeeps, RowIds DEF PendingOf
  <2>2. Was(outbox, outbox', i)
    BY <2>1, RowIds, RowsFromStep, <1>0 DEF RowsFrom, Inserted
  <2>3. i \in PendingOf(outbox, w)
    BY <2>2 DEF Was, PendingOf
  <2>4. KeepsOrMoves(i)
    BY <1>0, <2>1, <2>3, EnqueueRows DEF PendingOf, KeepsOrMoves
  <2> QED
    BY <2>3, <2>4
<1>3. ASSUME NEW i \in PendingOf(outbox, w), i \notin PendingOf(outbox', w)
      PROVE  EditClear(i) /\ Checking
  <2>1. i \in DOMAIN outbox /\ outbox[i].status = "pending" /\ outbox[i].webhook = w
    BY DEF PendingOf
  <2>2. (EditClear(i) /\ emit.pc = "new") \/ (i \in DOMAIN outbox' /\ KeepsOrMoves(i))
    BY <1>0, <2>1, EnqueueRows DEF KeepsOrMoves
  <2>3. ~(i \in DOMAIN outbox' /\ KeepsOrMoves(i))
    BY <1>0, <1>3, <2>1, TableKeeps DEF PendingOf, KeepsOrMoves
  <2> QED
    BY <2>2, <2>3 DEF IInv, InFlightInv, EventIsOfThisCheck
<1>4. ASSUME Settled(w), NEW i \in PendingOf(outbox', w), IsHead(outbox', w, i)
      PROVE  IsHead(outbox, w, i)
  <2>1. ASSUME NEW j \in PendingOf(outbox, w), j \notin PendingOf(outbox', w) PROVE i <= j
    <3>1. LastOf(w, j)
      BY <1>0, <1>3, <1>4, <2>1 DEF EditSeen, Settled
    <3> QED
      BY <1>2, <3>1 DEF LastOf
  <2> QED
    BY <1>2, <1>4, <2>1 DEF IsHead
<1>5. Seen(w)'
  <2> SUFFICES ASSUME Settled(w)' PROVE HeadExcused(w)'
    BY DEF Seen
  <2>1. Settled(w)
    BY <1>0 DEF Settled
  <2>2. HeadExcused(w)
    BY <1>0, <2>1 DEF Seen
  <2> QED
    BY <1>0, <1>2, <1>4, <2>1, <2>2, TurnKeeps, HeadStaysExcused
<1>6. EditSeen(w)'
  <2>1. \A i \in PendingOf(outbox', w) : EditClear(i)' => EditClear(i)
    BY <1>0, <1>2, EditClearSame
  <2> QED
    BY <1>0, <1>1, <1>2, <2>1, EditStays
<1> QED
  BY <1>5, <1>6

(* A message that was queued is followed by a wake.                         *)
LEMMA InsertSeen ==
  ASSUME IInv, NEW v \in Webhooks, InsertRow(v), NEW w \in Webhooks, Seen(w), EditSeen(w)
  PROVE  Seen(w)' /\ EditSeen(w)'
<1>0. /\ Next /\ TypeOK /\ UNCHANGED <<alerts, engine, lane>>
      /\ NoLooking /\ emit.pc = "inserting" /\ v \in emit.todo
      /\ emit \in [pc: {"none", "new", "inserting"}, type: NotificationEvents, alert: Nat,
                   nextAt: Int, todo: SUBSET Webhooks, queued: BOOLEAN]
      /\ emit' = [emit EXCEPT !.todo = emit.todo \ {v}, !.queued = TRUE]
  BY DEF Next, EnqueueStep, IInv, TypeOK, InsertRow, Inserts
<1>1. WakeDue' /\ emit'.todo = emit.todo \ {v} /\ (Checking' <=> Checking)
  BY <1>0 DEF WakeDue, Checking
<1>2. Seen(w)'
  BY <1>1 DEF Seen
<1>3. PICK n \in Ids : Queues(v, n)
  BY <1>0, InsertQueues
<1>4. \A i \in PendingOf(outbox, w) : i \in PendingOf(outbox', w) /\ (EditClear(i)' <=> EditClear(i))
  BY <1>0, <1>3, EditClearSame DEF Queues
<1>5. ASSUME Checking', NEW i \in PendingOf(outbox', w), EditClear(i)'
      PROVE  /\ lane'[w].pc = "idle" => w \notin emit'.todo
             /\ lane'[w].pc = "idle" => LastOf(w, i)'
  <2>1. lane'[w] = lane[w]
    BY <1>0
  <2>2. CASE w = v
    <3>1. PendingOf(outbox', w) = PendingOf(outbox, w) \cup {n} /\ \A j \in DOMAIN outbox : j < n
      BY <1>3, <2>2 DEF Queues
    <3>2. CASE i = n
      <4>1. \A j \in PendingOf(outbox', w) : j <= n
        <5>1. DOMAIN outbox \subseteq Nat /\ n \in Nat
          BY <1>0, RowIds, IdsAssumption
        <5> QED
          BY <3>1, <5>1 DEF PendingOf
      <4> QED
        BY <1>1, <2>2, <3>2, <4>1 DEF LastOf
    <3>3. CASE i \in PendingOf(outbox, w)
      <4>1. EditClear(i) /\ Checking
        BY <1>1, <1>4, <1>5, <3>3
      <4>2. lane[w].pc # "idle"
        BY <1>0, <2>2, <3>3, <4>1 DEF EditSeen
      <4> QED
        BY <2>1, <4>2
    <3> QED
      BY <3>1, <3>2, <3>3
  <2>3. CASE w # v
    <3>1. PendingOf(outbox', w) = PendingOf(outbox, w)
      BY <1>3, <2>3 DEF Queues
    <3>2. EditClear(i) /\ Checking
      BY <1>1, <1>4, <1>5, <3>1
    <3>3. lane[w].pc = "idle" => LastOf(w, i) /\ w \notin emit.todo
      BY <1>5, <3>1, <3>2 DEF EditSeen
    <3>4. LastOf(w, i) => LastOf(w, i)'
      BY <3>1 DEF LastOf
    <3> QED
      BY <1>1, <2>1, <3>3, <3>4
  <2> QED
    BY <2>2, <2>3
<1>6. lane'[w].pc # "looking"
  BY <1>0 DEF NoLooking
<1> QED
  BY <1>1, <1>2, <1>5, <1>6 DEF EditSeen

(* A wake leaves no lane settled.                                           *)
LEMMA WakeSeen ==
  ASSUME IInv, Next, Wake, UNCHANGED <<alerts, engine>>,
         NEW w \in configured, w \in Webhooks, EditSeen(w)
  PROVE  Seen(w)' /\ EditSeen(w)'
<1>0. TypeOK /\ lane[w] \in Lanes /\ (Checking' <=> Checking)
  BY DEF IInv, TypeOK, Checking
<1>1. lane'[w] = IF lane[w].pc = "idle" THEN [IdleLane EXCEPT !.pc = "looking"]
                 ELSE [lane[w] EXCEPT !.again = TRUE]
  BY DEF Wake, Woken
<1>2. /\ lane[w].pc = "idle" => lane'[w].pc = "looking"
      /\ lane[w].pc # "idle" => lane'[w].pc = lane[w].pc /\ lane'[w].again
  BY <1>0, <1>1 DEF IdleLane, Lanes
<1>3. ~Settled(w)'
  BY <1>2 DEF Settled
<1>4. PendingOf(outbox', w) = PendingOf(outbox, w)
  BY <1>0, WakeQueues DEF QueuesStay
<1>5. \A i \in PendingOf(outbox', w) : EditClear(i)' => EditClear(i)
  BY <1>4, EditClearSame
<1>6. EditSeen(w)'
  <2>1. lane'[w].pc # "idle" /\ (lane'[w].pc = "looped" => lane'[w].again)
    BY <1>2
  <2>2. lane'[w].pc = "looking" => lane[w].pc \in {"idle", "looking"}
    BY <1>2
  <2> QED
    BY <1>0, <1>4, <1>5, <2>1, <2>2, EditStays
<1> QED
  BY <1>3, <1>6 DEF Seen

(***************************************************************************)
(* The engine: what it closes has no clear queued yet.                     *)
(***************************************************************************)
LEMMA EngineSeen ==
  ASSUME IInv, EngineStep, NEW w \in Webhooks, Seen(w), EditSeen(w)
  PROVE  Seen(w)' /\ EditSeen(w)'
<1> USE DEF clocks, sender, database
<1>0. /\ Next /\ UNCHANGED <<outbox, lane>> /\ emit.pc = "none" /\ emit'.pc \in {"none", "new"}
  <2>1. Next
    BY DEF Next
  <2>2. UNCHANGED <<outbox, lane>> /\ emit.pc = "none"
    BY DEF EngineStep, BeginCheck, EndCheck, CloseChanged, CloseRemoved, ConditionClears,
       ConditionRaises, ClearAlert, EngineRuns, Quiet
  <2>3. UNCHANGED emit \/ \E type \in NotificationEvents, a \in AlertIds : Announce(type, a)
    BY DEF EngineStep, BeginCheck, EndCheck, CloseChanged, CloseRemoved, ConditionClears,
       ConditionRaises, ClearAlert, NotificationEvents
  <2>4. emit'.pc \in {"none", "new"}
    BY <2>2, <2>3 DEF Announce
  <2> QED
    BY <2>1, <2>2, <2>4
<1>1. ~WakeDue /\ ~WakeDue' /\ PendingOf(outbox', w) = PendingOf(outbox, w)
  BY <1>0 DEF WakeDue
<1>2. Seen(w)'
  BY <1>0, <1>1 DEF Seen, Settled, HeadExcused, Excused, BehindGivenUp
<1>3. ASSUME Checking', NEW i \in PendingOf(outbox', w), EditClear(i)'
      PROVE  Checking /\ EditClear(i)
  <2>1. /\ i \in DOMAIN outbox /\ outbox' = outbox /\ outbox[i].event = "cleared"
        /\ outbox[i].status = "pending"
        /\ alerts'[outbox[i].alert].clearedBy = "rule_changed"
        /\ alerts'[outbox[i].alert].clearedAt = engine'.t
    BY <1>0, <1>3 DEF EditClear, PendingOf
  <2>2. outbox[i].alert \in DOMAIN alerts /\ alerts[outbox[i].alert].clearedBy # "open"
    BY <2>1 DEF IInv, InFlightInv, ClearsAreOfClosed
  <2>3. alerts'[outbox[i].alert] = alerts[outbox[i].alert]
    BY <1>0, <2>2, ClosedStays
  <2>4. ~BeginCheck
    BY <2>1, <2>2, <2>3 DEF BeginCheck, Stamps
  <2>5. Checking /\ engine'.t = engine.t
    BY <1>0, <1>3, <2>4, CheckGoesOn
  <2> QED
    BY <2>1, <2>3, <2>5 DEF EditClear
<1>4. EditSeen(w)'
  <2> SUFFICES ASSUME Checking', NEW i \in PendingOf(outbox', w), EditClear(i)'
               PROVE  /\ lane'[w].pc # "idle"
                      /\ lane'[w].pc = "looking" => LastOf(w, i)'
                      /\ lane'[w].pc = "looped" /\ ~lane'[w].again => LastOf(w, i)'
    BY DEF EditSeen
  <2>1. LastOf(w, i)' <=> LastOf(w, i)
    BY <1>1 DEF LastOf
  <2> QED
    BY <1>0, <1>1, <1>3, <2>1 DEF EditSeen
<1> QED
  BY <1>2, <1>4

LEMMA NoticedNext ==
  ASSUME SetAhead, NoFailedStatement, IInv, AgeIsElapsed, NoticedInv, [Next]_vars
  PROVE  NoticedInv'
<1> USE DEF clocks, sender, database
<1>0. TypeOK
  BY DEF IInv
<1>1. ASSUME UNCHANGED vars PROVE NoticedInv'
  BY <1>1 DEF vars, NoticedInv, InOrder, BornInTime, Jump, Seen, EditSeen, Settled, WakeDue,
     HeadExcused, Excused, BehindGivenUp, LastOf, Checking, EditClear
<1>2. SUFFICES ASSUME Next, process' = "running", NEW w \in configured'
               PROVE  Seen(w)' /\ EditSeen(w)'
  BY <1>1, InOrderStep, BornStep DEF NoticedInv
<1>3. ASSUME NEW file \in NotifyFiles, Starts(file) PROVE Seen(w)' /\ EditSeen(w)'
  <2>1. w \in file /\ file \subseteq Webhooks
    BY <1>2, <1>3, ConstantsAssumption DEF Starts
  <2>2. lane'[w].pc = "looking"
    BY <1>3, <2>1 DEF Starts, IdleLane
  <2>3. ~Checking'
    BY <1>3 DEF Starts, IInv, InFlightInv, DownIsIdle, Checking, NoCheck
  <2> QED
    BY <2>2, <2>3 DEF Seen, Settled, EditSeen
<1>4. ASSUME \A file \in NotifyFiles : ~Starts(file)
      PROVE  process = "running" /\ configured' = configured
  <2>1. ~Ends
    BY <1>2 DEF Ends
  <2>2. ~(process = "down" /\ (Tick \/ \E step \in Steps : ClockSet(step)))
    BY <1>2 DEF Tick, ClockSet
  <2>3. ProcessGoesOn
    BY <1>0, <1>2, <1>4, <2>1, <2>2, GoesOnOrNot
  <2>4. process' = process
    <3>1. ASSUME NEW v \in Webhooks, LaneStep(v) \/ ReceiverGets(v) PROVE process' = process
      BY <3>1, LaneLeaves
    <3>2. CASE EnqueueStep \/ EngineStep \/ Timer \/ Tick \/ \E step \in Steps : ClockSet(step)
      BY <3>2 DEF EnqueueStep, NotAnnounced, QueueClear, ReopenUnchanged, QueueRaise, InsertRow,
         WakeAfterQueue, NobodyToWake, EnqueueFails, EngineStep, BeginCheck, EndCheck, CloseChanged,
         CloseRemoved, ConditionClears, ConditionRaises, ClearAlert, Timer, Tick, ClockSet
    <3>3. ~Stop
      BY <1>2 DEF Stop
    <3> QED
      BY <1>2, <1>4, <2>1, <3>1, <3>2, <3>3 DEF Next, ProcessStep
  <2> QED
    BY <1>2, <2>3, <2>4 DEF ProcessGoesOn
<1>5. SUFFICES ASSUME process = "running", w \in configured, w \in Webhooks, Seen(w), EditSeen(w),
                      ~Ends, ~Stop, \A file \in NotifyFiles : ~Starts(file)
               PROVE  Seen(w)' /\ EditSeen(w)'
  <2>1. ~Ends /\ ~Stop
    BY <1>2 DEF Ends, Stop
  <2> QED
    BY <1>0, <1>2, <1>3, <1>4, <2>1 DEF NoticedInv, TypeOK
<1>6. ASSUME NEW v \in Webhooks, LaneStep(v) \/ ReceiverGets(v) PROVE Seen(w)' /\ EditSeen(w)'
  BY <1>5, <1>6, OtherSeen, OwnSeen DEF NoticedInv
<1>7. CASE EnqueueStep
  <2>1. CASE Turns
    BY <1>5, <2>1, TurnSeen
  <2>2. ASSUME NEW v \in Webhooks, InsertRow(v) PROVE Seen(w)' /\ EditSeen(w)'
    BY <1>5, <2>2, InsertSeen
  <2>3. CASE WakeAfterQueue
    BY <1>2, <1>5, <2>3, WakeSeen DEF WakeAfterQueue
  <2>4. ~EnqueueFails
    BY DEF EnqueueFails, NoFailedStatement
  <2> QED
    BY <1>7, <2>1, <2>2, <2>3, <2>4 DEF EnqueueStep, Turns
<1>8. CASE EngineStep
  BY <1>5, <1>8, EngineSeen
<1>9. CASE Timer
  BY <1>2, <1>5, <1>9, WakeSeen DEF Timer
<1>10. CASE Tick \/ \E step \in Steps : ClockSet(step)
  <2>1. UNCHANGED <<outbox, lane, emit, engine>> /\ ~Checking
    BY <1>10 DEF Tick, ClockSet, Quiet
  <2> QED
    BY <1>5, <2>1 DEF Seen, Settled, WakeDue, HeadExcused, Excused, BehindGivenUp, EditSeen, Checking
<1> QED
  BY <1>2, <1>5, <1>6, <1>7, <1>8, <1>9, <1>10 DEF Next, ProcessStep

LEMMA NoticedInit == Init => NoticedInv
<1> SUFFICES ASSUME Init PROVE NoticedInv
  OBVIOUS
<1>1. DOMAIN outbox = {}
  BY DEF Init
<1>2. InOrder
  BY <1>1 DEF InOrder
<1>3. BornInTime
  BY <1>1 DEF Init, BornInTime, Jump
<1>4. process # "running"
  BY DEF Init
<1> QED
  BY <1>2, <1>3, <1>4 DEF NoticedInv

(* A new message never waits for the timer behind nothing: when a lane goes  *)
(* idle, the oldest message of its webhook has been tried or put off, or was *)
(* reached by giving up the one before it (sender.ts:213-247).               *)
THEOREM FreshCorrect == ASSUME SetAhead, NoFailedStatement PROVE Spec => []FreshHeadIsNoticed
<1> DEFINE AllInv == IInv /\ AgeIsElapsed /\ NoticedInv
<1>1. Init => AllInv
  BY InFlightInit, NoticedInit DEF Init, AgeIsElapsed
<1>2. AllInv /\ [Next]_vars => AllInv'
  BY InFlightNext, AgeNext, NoticedNext DEF IInv
<1>3. AllInv => FreshHeadIsNoticed
  BY DEF NoticedInv, Seen, Settled, HeadExcused, Excused, WakeDue, Quiet, FreshHeadIsNoticed
<1> HIDE DEF AllInv
<1> QED
  BY <1>1, <1>2, <1>3, PTL DEF Spec

-----------------------------------------------------------------------------
(***************************************************************************)
(* The outbox keeps the promise of FifoOutbox: what each step is to the    *)
(* queues of its webhooks.                                                 *)
(***************************************************************************)
Losers == {w \in Webhooks : \E k \in Keys : <<w, k>> \in missed}

LEMMA Lines ==
  /\ DOMAIN Queued = Webhooks
  /\ \A w \in Webhooks : /\ DOMAIN Queued[w] = PendingOf(outbox, w)
                         /\ \A i \in PendingOf(outbox, w) : Queued[w][i] = Item(i)
  BY DEF Queued, Item

(* What stays in a queue still says the same. *)
LEMMA LinesNext ==
  ASSUME IInv, Next
  PROVE  /\ DOMAIN Queued' = Webhooks
         /\ \A w \in Webhooks :
              /\ DOMAIN Queued'[w] = PendingOf(outbox', w)
              /\ \A i \in PendingOf(outbox', w) \cap PendingOf(outbox, w) :
                   Queued'[w][i] = Item(i)
<1>1. \A w : \A i \in PendingOf(outbox', w) \cap PendingOf(outbox, w) :
        outbox'[i].alert = outbox[i].alert /\ outbox'[i].event = outbox[i].event
  BY SameItem DEF PendingOf
<1>2. Queued' = [w \in Webhooks |->
                   [i \in PendingOf(outbox', w) |-> <<outbox'[i].alert, outbox'[i].event>>]]
  BY DEF Queued
<1> QED
  BY <1>1, <1>2 DEF Item

(* A queue that gets no message is what is left of it. *)
LEMMA LineLeaves ==
  ASSUME IInv, Next, NEW w \in Webhooks, NEW gone,
         PendingOf(outbox', w) = PendingOf(outbox, w) \ gone
  PROVE  Queued'[w] = Fifo!Leave(w, gone)
<1>1. /\ DOMAIN Queued'[w] = PendingOf(outbox, w) \ gone
      /\ \A i \in PendingOf(outbox, w) \ gone : Queued'[w][i] = Item(i)
  BY LinesNext
<1>2. Queued'[w] = [i \in DOMAIN Queued'[w] |-> Queued'[w][i]]
  BY DEF Queued
<1>3. Queued'[w] = [i \in PendingOf(outbox, w) \ gone |-> Item(i)]
  BY <1>1, <1>2
<1>4. Fifo!Leave(w, gone) = [i \in PendingOf(outbox, w) \ gone |-> Item(i)]
  BY Lines DEF Fifo!Leave
<1> QED
  BY <1>3, <1>4

LEMMA LineStays ==
  ASSUME IInv, Next, NEW w \in Webhooks, PendingOf(outbox', w) = PendingOf(outbox, w)
  PROVE  Queued'[w] = Queued[w]
<1>1. Queued'[w] = Fifo!Leave(w, {})
  BY LineLeaves
<1>2. Queued[w] = [i \in DOMAIN Queued[w] |-> Queued[w][i]]
  BY DEF Queued
<1>3. Fifo!Leave(w, {}) = [i \in DOMAIN Queued[w] |-> Queued[w][i]]
  BY DEF Fifo!Leave
<1> QED
  BY <1>1, <1>2, <1>3

LEMMA LinesStay ==
  ASSUME IInv, Next, QueuesStay
  PROVE  Queued' = Queued
<1>1. \A w \in Webhooks : Queued'[w] = Queued[w]
  BY LineStays DEF QueuesStay
<1> QED
  BY <1>1 DEF Queued

(* One queue changes. *)
LEMMA LinesExcept ==
  ASSUME IInv, Next, NEW w \in Webhooks, NEW line, Queued'[w] = line,
         \A v \in Webhooks \ {w} : PendingOf(outbox', v) = PendingOf(outbox, v)
  PROVE  Queued' = [Queued EXCEPT ![w] = line]
<1>1. \A v \in Webhooks : Queued'[v] = IF v = w THEN line ELSE Queued[v]
  BY LineStays
<1>2. Queued' = [v \in Webhooks |-> Queued'[v]]
  BY DEF Queued
<1>3. [Queued EXCEPT ![w] = line] = [v \in Webhooks |-> IF v = w THEN line ELSE Queued[v]]
  BY Lines
<1> QED
  BY <1>1, <1>2, <1>3

(* What a step of a lane does to its queue.                                 *)
LEMMA FirstInLine ==
  ASSUME NEW w \in Webhooks, NEW id, IsHead(outbox, w, id)
  PROVE  id \in DOMAIN Queued[w] /\ Fifo!IsFirst(w, id) /\ Queued[w][id] = Item(id)
  BY Lines DEF IsHead, Fifo!IsFirst

LEMMA FifoTransmits ==
  ASSUME IInv, Next, NEW w \in Webhooks, ReceiverGets(w)
  PROVE  Fifo!Transmit(w)
<1>1. /\ lane[w].pc = "delivering" /\ UNCHANGED <<outbox, missed>>
      /\ received' = [received EXCEPT ![w] = Append(@, <<lane[w].row.alert, lane[w].row.event>>)]
  BY DEF ReceiverGets, database
<1>2. IsHead(outbox, w, lane[w].id) /\ Item(lane[w].id) = <<lane[w].row.alert, lane[w].row.event>>
  BY <1>1 DEF IInv, InFlightInv, InFlightIsHead, Item
<1>3. Queued' = Queued /\ Losers' = Losers
  BY <1>1, LinesStay DEF QueuesStay, Losers
<1>4. received' = [received EXCEPT ![w] = Append(@, Queued[w][lane[w].id])]
  BY <1>1, <1>2, FirstInLine
<1> QED
  BY <1>2, <1>3, <1>4, FirstInLine DEF Fifo!Transmit, Losers

LEMMA FifoAcknowledges ==
  ASSUME IInv, NewsInv, Next, NEW w \in Webhooks, DeliverySucceeds(w)
  PROVE  Fifo!Acknowledge(w)
<1>1. lane[w].pc = "delivering" /\ lane[w].reached /\ UNCHANGED <<received, missed>>
  BY DEF DeliverySucceeds, Resumes
<1>2. IsHead(outbox, w, lane[w].id) /\ Item(lane[w].id) = <<lane[w].row.alert, lane[w].row.event>>
  BY <1>1 DEF IInv, InFlightInv, InFlightIsHead, Item
<1>3. received[w] # << >> /\ received[w][Len(received[w])] = Item(lane[w].id)
  BY <1>1, <1>2 DEF NewsInv, ReachedIsTold, LastIs
<1>4. LaneEnds(w)
  BY LaneQueues DEF LaneStep
<1>5. Queued' = [Queued EXCEPT ![w] = Fifo!Leave(w, {lane[w].id})]
  BY <1>4, LineLeaves, LinesExcept DEF LaneEnds
<1>6. Losers' = Losers
  BY <1>1 DEF Losers
<1> QED
  BY <1>1, <1>2, <1>3, <1>5, <1>6, FirstInLine DEF Fifo!Acknowledge, Losers

LEMMA FifoGivesUp ==
  ASSUME IInv, NewsInv, Next, NEW w \in Webhooks, GivesUp(w)
  PROVE  Fifo!GiveUp(w)
<1>1. /\ lane[w].pc = "delivering" /\ UNCHANGED received
      /\ missed' = missed \cup ({w} \X KeyOf(lane[w].row.alert))
  BY DEF GivesUp, Resumes
<1>2. /\ IsHead(outbox, w, lane[w].id) /\ lane[w].id \in DOMAIN outbox
      /\ outbox[lane[w].id].alert = lane[w].row.alert
  BY <1>1 DEF IInv, InFlightInv, InFlightIsHead, IsHead, PendingOf
<1>3. LaneEnds(w)
  BY LaneQueues DEF LaneStep
<1>4. Queued' = [Queued EXCEPT ![w] = Fifo!Leave(w, {lane[w].id})]
  BY <1>3, LineLeaves, LinesExcept DEF LaneEnds
<1>5. Losers' = Losers \cup {w}
  <2>1. lane[w].row.alert \in DOMAIN alerts
    BY <1>2 DEF NewsInv, RowsOfAlerts
  <2>2. PICK k \in Keys : KeyOf(lane[w].row.alert) = {k}
    BY <2>1 DEF IInv, TypeOK, Alerts, KeyOf
  <2> QED
    BY <1>1, <2>2 DEF Losers
<1> QED
  BY <1>1, <1>2, <1>4, <1>5, FirstInLine DEF Fifo!GiveUp, Losers

Quiesces == UNCHANGED <<Queued, received, Losers>>

LEMMA FifoLane ==
  ASSUME IInv, NewsInv, Next, NEW w \in Webhooks, LaneStep(w) \/ ReceiverGets(w)
  PROVE  Fifo!Transmit(w) \/ Fifo!Acknowledge(w) \/ Fifo!GiveUp(w) \/ Quiesces
<1> USE DEF clocks, sender, database
<1>1. ASSUME LaneStep(w), ~DeliverySucceeds(w), ~GivesUp(w) PROVE Quiesces
  <2>1. UNCHANGED <<received, missed>>
    BY <1>1 DEF LaneStep, NothingPending, PullIn, NotDue, StartDelivery, AttemptFails,
       DeliveryCut, RecordFails, Continue
  <2>2. Queued' = Queued
    BY <1>1, LaneQueues, LinesStay
  <2> QED
    BY <2>1, <2>2 DEF Quiesces, Losers
<1> QED
  BY <1>1, FifoTransmits, FifoAcknowledges, FifoGivesUp

(* What a step of the enqueuer does.                                        *)
LEMMA FifoQueues ==
  ASSUME IInv, Next, NEW w \in Webhooks, InsertRow(w)
  PROVE  \E item \in Fifo!Items : Fifo!Queue(w, item)
<1> DEFINE item == <<emit.alert, emit.type>>
<1>1. UNCHANGED <<received, missed>> /\ emit.pc = "inserting" /\ TypeOK
  BY DEF InsertRow, Inserts, IInv
<1>2. item \in Fifo!Items
  <2>1. emit.alert \in DOMAIN alerts /\ emit.type \in NotificationEvents
    BY <1>1 DEF IInv, InFlightInv, EventIsOfThisCheck, TypeOK
  <2> QED
    BY <1>1, <2>1 DEF TypeOK, Fifo!Items, NotificationEvents
<1>3. PICK n \in Ids : Queues(w, n)
  BY <1>1, InsertQueues
<1>4. \A other \in DOMAIN Queued[w] : other < n
  BY <1>3, Lines DEF Queues, PendingOf
<1>5. Queued'[w] = [i \in DOMAIN Queued[w] \cup {n} |-> IF i = n THEN item ELSE Queued[w][i]]
  <2>1. /\ DOMAIN Queued'[w] = DOMAIN Queued[w] \cup {n}
        /\ \A i \in DOMAIN Queued[w] : Queued'[w][i] = Queued[w][i]
    BY <1>3, Lines, LinesNext DEF Queues
  <2>2. Queued'[w][n] = item
    BY <1>3 DEF Queues, Queued
  <2>3. Queued'[w] = [i \in DOMAIN Queued'[w] |-> Queued'[w][i]]
    BY DEF Queued
  <2>4. n \notin DOMAIN Queued[w]
    BY <1>3, Lines DEF Queues, PendingOf
  <2> HIDE DEF item
  <2> QED
    BY <2>1, <2>2, <2>3, <2>4
<1>6. Queued' = [Queued EXCEPT ![w] =
                   [i \in DOMAIN @ \cup {n} |-> IF i = n THEN item ELSE @[i]]]
  <2> HIDE DEF item
  <2> QED
    BY <1>3, <1>5, LinesExcept DEF Queues
<1>7. Losers' = Losers
  BY <1>1 DEF Losers
<1> HIDE DEF item
<1> QED
  BY <1>1, <1>2, <1>4, <1>6, <1>7 DEF Fifo!Queue, Losers

(* A reopening withdraws a clear that nobody was sent.                     *)
LEMMA FifoWithdraws ==
  ASSUME IInv, NewsInv, ToldInv, Reopens
  PROVE  \/ Quiesces
         \/ \E hooks \in SUBSET Webhooks, item \in Fifo!Items : Fifo!Withdraw(item, hooks)
<1>1. TypeOK /\ Next /\ Checking /\ UNCHANGED <<alerts, received>>
  BY ReopenFacts
<1>2. UNCHANGED missed /\ Losers' = Losers
  BY DEF Reopens, ReopenUnchanged, QueueRaise, Losers
<1>3. CASE QueuesStay
  BY <1>1, <1>2, <1>3, LinesStay DEF Quiesces
<1>4. CASE \E b \in ClosedByEdit(emit.alert) : Withdraws(b)
  <2>1. PICK b \in ClosedByEdit(emit.alert) : Withdraws(b)
    BY <1>4
  <2>2. b \in DOMAIN alerts /\ EditClosed(b)
    BY <2>1, ReopenFacts
  <2> DEFINE item == <<b, "cleared">>
             hooks == {w \in configured : Reaches(w, emit.alert)}
  <2>3. item \in Fifo!Items /\ item[2] = "cleared" /\ hooks \in SUBSET Webhooks
    BY <1>1, <2>2 DEF TypeOK, Fifo!Items
  <2>4. \A w \in hooks : item \notin Fifo!Sent(w)
    <3>1. \A w \in hooks : item \notin Told(w)
      BY <1>1, <2>2, <2>3 DEF ToldInv, EditIsUntold
    <3> QED
      BY <3>1 DEF Told, Fifo!Sent
  <2>5. ASSUME NEW w \in Webhooks
        PROVE  Queued'[w] = IF w \in hooks
                            THEN Fifo!Leave(w, {n \in DOMAIN Queued[w] : Queued[w][n] = item})
                            ELSE Queued[w]
    <3>1. CASE w \in hooks
      <4>1. \A i \in PendingOf(outbox, w) : IsWithdrawn(i, w, b) <=> Queued[w][i] = item
        <5>1. \A i : Item(i) = item <=> outbox[i].alert = b /\ outbox[i].event = "cleared"
          BY DEF Item
        <5> QED
          BY <3>1, <5>1, Lines DEF IsWithdrawn
      <4>2. PendingOf(outbox', w)
              = PendingOf(outbox, w) \ {n \in DOMAIN Queued[w] : Queued[w][n] = item}
        BY <2>1, <4>1, Lines DEF Withdraws
      <4> HIDE DEF item
      <4> QED
        BY <1>1, <3>1, <4>2, LineLeaves
    <3>2. CASE w \notin hooks
      <4>1. PendingOf(outbox', w) = PendingOf(outbox, w)
        BY <2>1, <3>2 DEF Withdraws, IsWithdrawn
      <4> QED
        BY <1>1, <3>2, <4>1, LineStays
    <3> QED
      BY <3>1, <3>2
  <2> HIDE DEF item, hooks
  <2>6. Queued' = [w \in Webhooks |->
                     IF w \in hooks
                     THEN Fifo!Leave(w, {n \in DOMAIN Queued[w] : Queued[w][n] = item})
                     ELSE Queued[w]]
    <3>1. Queued' = [w \in Webhooks |-> Queued'[w]]
      BY DEF Queued
    <3> QED
      BY <2>5, <3>1
  <2>7. Fifo!Withdraw(item, hooks)
    BY <1>1, <1>2, <2>3, <2>4, <2>6 DEF Fifo!Withdraw, Losers
  <2> QED
    BY <2>3, <2>7
<1> QED
  BY <1>1, <1>3, <1>4, ReopenQueues, RaiseQueues DEF Reopens

(* An event that is dropped was about an alert of the table.               *)
LEMMA FifoLoses ==
  ASSUME IInv, Next, EnqueueFails \/ Ends
  PROVE  \E hooks \in SUBSET Webhooks : Fifo!Lose(hooks)
<1>1. UNCHANGED received /\ missed' = missed \cup Lost /\ TypeOK
  BY DEF EnqueueFails, Ends, IInv
<1>2. Queued' = Queued
  BY <1>1, QuietQueues, LinesStay
<1>3. CASE Lost = {}
  <2>1. Losers' = Losers \cup {}
    BY <1>1, <1>3 DEF Losers
  <2> QED
    BY <1>1, <1>2, <2>1 DEF Fifo!Lose, Losers
<1>4. CASE Lost # {}
  <2>1. emit.alert \in DOMAIN alerts /\ Lost = Webhooks \X KeyOf(emit.alert)
    BY <1>4 DEF Lost, IInv, InFlightInv, EventIsOfThisCheck
  <2>2. PICK k \in Keys : KeyOf(emit.alert) = {k}
    BY <1>1, <2>1 DEF TypeOK, Alerts, KeyOf
  <2>3. Losers' = Losers \cup Webhooks
    BY <1>1, <2>1, <2>2 DEF Losers
  <2> QED
    BY <1>1, <1>2, <2>3 DEF Fifo!Lose, Losers
<1> QED
  BY <1>3, <1>4

(* A start forgets the webhooks the notify file no longer names.           *)
LEMMA FifoForgets ==
  ASSUME IInv, NewsInv, Next, NEW file \in NotifyFiles, Starts(file)
  PROVE  \E gone \in SUBSET Webhooks : Fifo!ForgetWebhooks(gone)
<1> DEFINE gone == IF Keys = {} THEN {} ELSE Webhooks \ file
<1>1. UNCHANGED received /\ missed' = missed \cup ((Webhooks \ file) \X Keys) /\ TypeOK
  BY DEF Starts, IInv
<1>2. Losers' = Losers \cup gone
  BY <1>1 DEF Losers
<1>3. ASSUME NEW w \in Webhooks
      PROVE  Queued'[w] = IF w \in gone THEN Fifo!Leave(w, DOMAIN Queued[w]) ELSE Queued[w]
  <2>1. CASE w \in file
    BY <1>1, <2>1, StartQueues, LineStays
  <2>2. CASE w \notin file
    <3>1. PendingOf(outbox', w) = {}
      BY <1>1, <2>2, StartQueues
    <3>2. CASE Keys = {}
      <4>1. DOMAIN alerts = {}
        BY <1>1, <3>2 DEF TypeOK, Alerts
      <4>2. PendingOf(outbox, w) = {}
        BY <4>1 DEF NewsInv, RowsOfAlerts, PendingOf
      <4> QED
        BY <3>1, <3>2, <4>2, LineStays
    <3>3. CASE Keys # {}
      <4>1. PendingOf(outbox', w) = PendingOf(outbox, w) \ DOMAIN Queued[w]
        BY <3>1, Lines
      <4> QED
        BY <2>2, <3>3, <4>1, LineLeaves
    <3> QED
      BY <3>2, <3>3
  <2> QED
    BY <2>1, <2>2
<1>4. gone \in SUBSET Webhooks
  OBVIOUS
<1> HIDE DEF gone
<1>5. Queued' = [w \in Webhooks |->
                   IF w \in gone THEN Fifo!Leave(w, DOMAIN Queued[w]) ELSE Queued[w]]
  <2>1. Queued' = [w \in Webhooks |-> Queued'[w]]
    BY DEF Queued
  <2> QED
    BY <1>3, <2>1
<1> QED
  BY <1>1, <1>2, <1>4, <1>5 DEF Fifo!ForgetWebhooks, Losers

LEMMA FifoStep ==
  ASSUME IInv, NewsInv, ToldInv, [Next]_vars
  PROVE  [Fifo!Next]_<<Queued, received, Losers>>
<1> USE DEF clocks, sender, database
<1>1. ASSUME Next, NEW w \in Webhooks, LaneStep(w) \/ ReceiverGets(w)
      PROVE  Fifo!Next \/ Quiesces
  BY <1>1, FifoLane DEF Fifo!Next
<1>2. ASSUME Next, NEW w \in Webhooks, InsertRow(w) PROVE Fifo!Next
  BY <1>2, FifoQueues DEF Fifo!Next
<1>3. CASE Reopens
  BY <1>3, FifoWithdraws DEF Fifo!Next, Quiesces
<1>4. CASE Next /\ (EnqueueFails \/ Ends)
  BY <1>4, FifoLoses DEF Fifo!Next
<1>5. ASSUME Next, NEW file \in NotifyFiles, Starts(file) PROVE Fifo!Next
  BY <1>5, FifoForgets DEF Fifo!Next
<1>6. ASSUME Next, \/ NotAnnounced \/ QueueClear \/ WakeAfterQueue \/ NobodyToWake
                   \/ EngineStep \/ Stop \/ Timer \/ Tick \/ \E step \in Steps : ClockSet(step)
      PROVE  Quiesces
  <2>1. Queued' = Queued
    BY <1>6, QuietQueues, LinesStay DEF IInv
  <2>2. CASE NotAnnounced \/ QueueClear \/ WakeAfterQueue \/ NobodyToWake
    BY <2>1, <2>2 DEF NotAnnounced, QueueClear, WakeAfterQueue, NobodyToWake, Quiesces, Losers
  <2>3. CASE EngineStep
    <3>1. UNCHANGED <<received, missed>>
      BY <2>3 DEF EngineStep, BeginCheck, EndCheck, CloseChanged, CloseRemoved,
         ConditionClears, ConditionRaises, ClearAlert
    <3> QED
      BY <2>1, <3>1 DEF Quiesces, Losers
  <2>4. CASE Stop \/ Timer \/ Tick \/ \E step \in Steps : ClockSet(step)
    BY <2>1, <2>4 DEF Stop, Timer, Tick, ClockSet, Quiesces, Losers
  <2> QED
    BY <1>6, <2>2, <2>3, <2>4
<1>7. CASE UNCHANGED vars
  <2>1. UNCHANGED <<outbox, received, missed>>
    BY <1>7 DEF vars
  <2> QED
    BY <2>1 DEF Quiesces, Queued, Losers, PendingOf
<1>8. CASE Next
  BY <1>1, <1>2, <1>3, <1>4, <1>5, <1>6, <1>8 DEF Next, EnqueueStep, ProcessStep, Reopens, Quiesces
<1> QED
  BY <1>7, <1>8 DEF Quiesces

(* The outbox, its lanes, the enqueuer and the process implement the queue  *)
(* of FifoOutbox, whatever fails, however the clock is set and whenever the *)
(* process ends (outbox.ts:49-92, sender.ts:46-84, enqueue.ts:59-83).       *)
THEOREM FifoCorrect == Spec => KeepsFifo
<1> DEFINE Inv == IInv /\ NewsInv /\ TellsInv /\ ToldInv
<1>1. Init => Inv
  BY InFlightInit, NewsInit, ToldInit
<1>2. Inv /\ [Next]_vars => Inv'
  BY InFlightNext, NewsNext, ToldNext
<1>3. Init => Fifo!Init
  <2> SUFFICES ASSUME Init PROVE Fifo!Init
    OBVIOUS
  <2>1. DOMAIN outbox = {} /\ missed = {} /\ received = [w \in Webhooks |-> << >>]
    BY DEF Init
  <2>2. Losers = {}
    BY <2>1 DEF Losers
  <2>3. \A w \in Webhooks : PendingOf(outbox, w) = {}
    BY <2>1 DEF PendingOf
  <2>4. Queued \in [Webhooks -> [{} -> Fifo!Items]]
    BY <2>3 DEF Queued
  <2> QED
    BY <2>1, <2>2, <2>4 DEF Fifo!Init, Losers
<1>4. Inv /\ [Next]_vars => [Fifo!Next]_<<Queued, received, Losers>>
  BY FifoStep
<1> QED
  BY <1>1, <1>2, <1>3, <1>4, PTL DEF Spec, KeepsFifo, Fifo!Spec, Fifo!vars, Losers
=============================================================================
