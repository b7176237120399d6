------------------------------- MODULE Outbox -------------------------------
(***************************************************************************)
(* The notifications table of packages/storage and the statements that     *)
(* packages/notify/src/outbox.ts runs on it.  A table is a function from   *)
(* row ids to rows, so an id names one row, as its primary key does.  The  *)
(* rendered payload is the pair of the alert and the event it announces.   *)
(***************************************************************************)
EXTENDS Integers

CONSTANTS
  Webhooks,     \* the webhook ids any notify file may name
  Ids           \* the row ids a table may use

ASSUME IdsAssumption == Ids \subseteq Nat \ {0}

NotificationEvents == {"raised", "cleared"}
Statuses == {"pending", "sent", "failed"}

(* A row, with the columns that decide something.  doneAt is sent_at of a  *)
(* sent row and failed_at of a failed one.  born is history: the elapsed   *)
(* time, as the sender accounts for it, when the row was queued.           *)
Rows == [webhook: Webhooks, alert: Nat, event: NotificationEvents,
         status: Statuses, attempts: Nat, nextAt: Int, createdAt: Int,
         doneAt: Int, born: Int]

IsTable(table) == DOMAIN table \subseteq Ids /\ table \in [DOMAIN table -> Rows]

(* What SQLite picks for an INTEGER PRIMARY KEY: one above the largest id  *)
(* in the table now, so the id of a deleted last row is used again.        *)
IsNextId(table, id) ==
  /\ id \in Ids
  /\ \A other \in DOMAIN table : other < id
  /\ id = 1 \/ id - 1 \in DOMAIN table

With(table, id, row) ==
  [i \in DOMAIN table \cup {id} |-> IF i = id THEN row ELSE table[i]]

Without(table, gone) == [i \in DOMAIN table \ gone |-> table[i]]

PendingOf(table, w) ==
  {i \in DOMAIN table : table[i].webhook = w /\ table[i].status = "pending"}

(* Mutant: headOf without ORDER BY. *)
IsAnyPending(table, w, id) == id \in PendingOf(table, w)

(* headOf: the oldest pending row of the webhook. *)
IsHead(table, w, id) ==
  id \in PendingOf(table, w) /\ \A other \in PendingOf(table, w) : id <= other

(* Mutant: the row is due at once, whatever nextAt says. *)
InsertDueNow(table, id, w, alert, event, nextAt, createdAt, born) ==
  With(table, id, [webhook |-> w, alert |-> alert, event |-> event,
                   status |-> "pending", attempts |-> 0, nextAt |-> createdAt,
                   createdAt |-> createdAt, doneAt |-> 0, born |-> born])

InsertNotification(table, id, w, alert, event, nextAt, createdAt, born) ==
  With(table, id, [webhook |-> w, alert |-> alert, event |-> event,
                   status |-> "pending", attempts |-> 0, nextAt |-> nextAt,
                   createdAt |-> createdAt, doneAt |-> 0, born |-> born])

(* UPDATE ... WHERE id = ?: no row, no change. *)
Update(table, id, row) == IF id \in DOMAIN table THEN With(table, id, row) ELSE table

(* Mutant: an UPDATE without its WHERE id. *)
MarkEverySent(table, id, at) ==
  [i \in DOMAIN table |-> IF table[i].status = "pending"
                          THEN [table[i] EXCEPT !.status = "sent", !.doneAt = at]
                          ELSE table[i]]

MarkSent(table, id, at) ==
  Update(table, id, [table[id] EXCEPT !.status = "sent", !.doneAt = at, !.attempts = @ + 1])

(* Mutant: counts attempts left, from none. *)
MarkAttemptLeft(table, id, nextAt) ==
  Update(table, id, [table[id] EXCEPT !.attempts = @ - 1, !.nextAt = nextAt])

MarkAttemptFailed(table, id, nextAt) ==
  Update(table, id, [table[id] EXCEPT !.attempts = @ + 1, !.nextAt = nextAt])

MarkGivenUp(table, id, at) ==
  Update(table, id, [table[id] EXCEPT !.status = "failed", !.doneAt = at, !.attempts = @ + 1])

SetNextAt(table, id, nextAt) == Update(table, id, [table[id] EXCEPT !.nextAt = nextAt])

DeletePendingClears(table, alert, hooks) ==
  Without(table, {i \in DOMAIN table : /\ table[i].status = "pending"
                                       /\ table[i].event = "cleared"
                                       /\ table[i].alert = alert
                                       /\ table[i].webhook \in hooks})

(* Mutant: moves when a row is due, not when it was queued. *)
ShiftNextAt(table, ms) ==
  [i \in DOMAIN table |-> IF table[i].status = "pending"
                          THEN [table[i] EXCEPT !.nextAt = @ + ms] ELSE table[i]]

ShiftPending(table, ms) ==
  [i \in DOMAIN table |->
     IF table[i].status = "pending"
     THEN [table[i] EXCEPT !.createdAt = @ + ms, !.nextAt = @ + ms]
     ELSE table[i]]

(* Mutant: fails nothing. *)
LeaveRemovedWebhooks(table, keep, at) == table

FailRemovedWebhooks(table, keep, at) ==
  [i \in DOMAIN table |->
     IF table[i].status = "pending" /\ table[i].webhook \notin keep
     THEN [table[i] EXCEPT !.status = "failed", !.doneAt = at]
     ELSE table[i]]

PruneNotifications(table, before) ==
  Without(table, {i \in DOMAIN table : /\ table[i].status \in {"sent", "failed"}
                                       /\ table[i].doneAt < before})
=============================================================================
