# TLA+ models of PiPulse

PiPulse monitors a Raspberry Pi: one Node process polls the hardware, keeps the
readings in SQLite, raises alerts, sends them to webhooks and serves a dashboard;
a command line manages a small certificate authority (CA) for its HTTPS. This
directory holds TLA+ models of it, TLC configurations that check them on small
instances, and TLAPS proofs of what holds for every instance.

All paths are relative to the repository's root. `PROJECT.json` maps each
definition to the lines it stands for, and lists the runs, the hazards (what is
hard to test in this code, at its line), the theorems, and for each checked
property a *mutant*: a plausible bug in a definition under which TLC finds the
property violated.

    tlc -workers 2 -config MCNotifications_deliveries.cfg MCNotifications
    tlapm NotificationsProofs.tla

Contents: 1 inventory, 2 modules, 3 runs, 4 fairness, 5 proofs, 6 where the code
and its documentation differ, 7 limits the properties excuse, 8 what is left out,
9 plan.


## 1. Inventory

### How the parts meet

    collector (scheduler, plugins) --readings--> storage (SQLite)
                                                   ^        |
    housekeeping (roll up, prune) -----------------+        v
    rules (built in, file, saved) ----------------> alert engine --events--> enqueuer
    certificate status ---------------------------------^                      | rows
                                                             notifications table
                                                                   |
    alert engine --events--> live feed --> browsers        delivery lanes --HTTP--> webhooks

    pipulse tls (commands, renew timer) --files--> reloader --> HTTPS server

Storage is synchronous: a check of the alert engine, with the enqueueing it
causes, runs to its end before any other callback. What can come in between is the
end of the process, and a statement that throws. Real concurrency is at the awaits
(deliveries, reads of the hardware, update checks, password checks), between
processes (the TLS commands, the server that reloads their files, browsers) and
between the wall clock and elapsed time: a Pi has no clock chip, so the wall clock
may start anywhere and be set by NTP at any time.

### Components

The last column names the modules; *none* is explained in 8.

| Component (code) | State | Operations | What is hard | What makes it correct | Modules |
| --- | --- | --- | --- | --- | --- |
| Notification outbox, lanes, enqueuer (`packages/notify/src/{outbox,sender,enqueue}.ts`) | the `notifications` table; per webhook a lane (idle, looking, awaiting); the last reading of both clocks | enqueue an event; wake; deliver; record; reschedule; give up; prune; start; stop | rows used by id after an await; edits that withdraw queued rows; wakes that race a lane going idle; the wall clock moving under due times and ages; a kill between a send and its record | order per webhook is kept, a repeat is of the oldest message only; no wake is lost; the receiver ends up knowing how things stand; ages are elapsed time | `Outbox`, `Notifications`, `FifoOutbox`, `NotificationsFifo` |
| Webhook action, templates, notify file (`notify/src/{action,template,config}.ts`) | none | one HTTP request; rendering; parsing | - | pure functions and one request | none |
| Alert evaluation (`alerts/src/evaluate.ts`) | none | decide for a rule and a metric | windows with readings missing at the edges | a gap neither raises nor clears | `AlertEvaluate` |
| Alert engine and store (`alerts/src/{engine,store}.ts`) | the `alerts` table; `since`, the last check, the clock anchor | check; close stale alerts; raise; clear; acknowledge | two clocks, of which one leaps; rules edited while down; one failing rule; a kill between two statements | at most one open alert per rule and metric; open alerts are of rules in force; no flapping; silence is elapsed time; no expiry on a clock in doubt | `AlertEngine` |
| Alert rules and sources (`alerts/src/{rules,source}.ts`) | saved rules in the settings table | merge built-in, file and saved layers; save, disable, remove | a rule put back in force after retention shrank; a start refused for what a browser saved | every rule in force fits retention; the next start is not refused | `RuleSource` |
| CA journal and recovery (`tls/src/ca/{journal,material}.ts`, `tls/src/cli/cmd-{ca,init}.ts`) | `txn.json`, `ca/`, the stages, the backups, four public files | init, new-ca, restore-ca, recover, prune | a kill between any two changes of the disk, recovery included | a change happens at once or not at all; no CA is lost; no key is left lying in a stage; the leaf is served last | `CaJournal`, `CaChange` |
| TLS interprocess lock (`tls/src/ca/lock.ts`) | lock file, breaker turns, heartbeat | take, judge, break a stale lock, beat, release | two breakers; an old listing; a holder in another namespace | one holder at a time | `TlsLock` |
| Issuance clock anchor (`tls/src/ca/clock-anchor.ts`, `tls/src/cli/clock-gate.ts`, `tls/src/settings/clock.ts`) | the anchor file and a candidate | judge the clock | a wrong clock that stays wrong across boots | no certificate dated by a doubted clock; doubt ends | `TlsRenew` |
| Certificate reload and inspection (`tls/src/inspect/*.ts`) | the last two polls, the served material | poll, classify, adopt | files replaced one by one while they are read; chains a client completes in several ways | only whole, no worse material is served, and in the end the new one; what is called valid is | `TlsReload`, `Inspect` |
| TLS commands (`tls/src/cli/*.ts`) | `state.json`, the renewal's status, the ready file | renew, mode, export, status, sidecar | a renewal half done; a switch of mode half done, with servers that start beside it | renewal goes on; a failed switch is put back; HTTP only when asked for | `TlsRenew`, `TlsMode`, `TlsStatus` |
| Certificate issuing, constraints (`tls/src/ca/{issue,constraints,layout}.ts`, `tls/src/common/files.ts`) | a CA's scope | which names a CA permits and a leaf carries; openssl; atomic files | a machine renamed under its CA | a leaf obeys its CA's constraints | `CaScope` |
| Storage (`storage/src/*.ts`) | the database | samples, settings, migrations, vacuum, usage | a migration that must count anew | one transaction each | in those of its users |
| Housekeeping (`storage/src/{rollup,retention}.ts`) | the roll-up tables, its own clock anchor | roll up to 1m, 1h, 1d; prune; choose a resolution | clocks set back or ahead; a time zone that changes; pruning before a roll-up | every reading is counted once at each level; a chart has no holes | `RollUps` |
| Collector (`collector/src/*.ts`) | reads in flight, orphaned reads | poll, time out, stop | reads that never settle or settle late | one read per metric; orphans are bounded; stop drains | `ServerProcess` |
| API runtime (`api/src/{runtime,app,server,config,options}.ts`) | the parts started | start, stop | a start that fails half-way; signals | what was started is stopped, and the database closed last | `ServerProcess` |
| Sessions and sign-in (`api/src/auth*.ts`) | sessions, cookies, failed sign-ins | sign in, out, expire, slide | sign-ins that overlap; the wall clock | guesses are limited; a session in use lasts | `SignIn` |
| Live feed (`api/src/{live-routes,feed}.ts`) | sockets | snapshot, events, heartbeat | an alert between the snapshot and the first event; slow sockets | a client ends up with the server's state | `LiveFeed`, `Readings` |
| Update checks (`api/src/updates*.ts`) | the running check, the last result | check, coalesce | manual and timed checks overlap | an answer is recent; never stuck | `Updates` |
| Settings and metrics routes (`api/src/{settings,metrics,notify}-routes.ts`, `notify-test.ts`) | - | preview and save retention; save rules; history | previews and saves of two tabs; retention against rules in force | only what was typed is saved; nothing is deleted unconfirmed | `RetentionPage`, `RuleSource`, `Readings` |
| Health, TLS status (`api/src/{health*,tls-status,tls-runtime}.ts`) | the status file | derive from the others | the file outlives its server | what is told is true of what is served | `TlsStatus` |
| Web client (`web/src`) | the browser's store | apply snapshots, events, histories; sign in; the Settings page | order of all of them; answers that come late | it shows the server's state | `LiveFeed`, `Readings`, `RetentionPage` |
| Packaging, scripts, e2e, docs | none | - | - | - | none |


## 2. Modules

Most modules have a file's comment on top that says which code they are; here is
what a reader needs to find the code's shape in them again. History variables
(variables no action's guard reads, only properties do) are named where they are
declared.

### Notifications

`Outbox` is the notifications table: one operator per SQL statement of
`outbox.ts`, from a table to a table. A row's payload is the alert and the event
it announces; `born` is history, the elapsed time of its insertion.

`Notifications` is the process around it. Each lane is a little program counter:
*looking* (before the await of `sendNext`), *delivering* (during it), *looped*
(before the `while` of `drain`), *idle*. The actions are the pieces that run
without interruption:

| Code | Actions |
| --- | --- |
| `sender.ts` `sendNext` up to the await | `NothingPending`, `PullIn`, `NotDue`, `StartDelivery` |
| the request and what becomes of its answer | `ReceiverGets`; then `DeliverySucceeds`, `AttemptFails`, `GivesUp`, `DeliveryCut` (aborted by `stop`), `RecordFails` |
| `drain`'s loop, `wake`, the timer | `Continue`, `Wake` (part of its callers), `Timer` |
| `now()` with `shiftPending` | `ReadClock` and `Table`, part of every action that reads the clock; the rows move with a noticed jump (`Shifts`) unless the statement throws (`failing`, settled when the clock is set) |
| `enqueue.ts` | `NotAnnounced`, `QueueClear`, `ReopenUnchanged`, `QueueRaise`, one `InsertRow` per statement, `WakeAfterQueue`, `NobodyToWake`, `EnqueueFails` |
| `startSender`, `stop`, the end of the process | `Starts`, `Stop`, `Ends` |

The alert engine is the environment: in one synchronous run it closes and raises
alerts in any way `engine.ts` can (`BeginCheck` ... `EndCheck`). Guards say who may
run: nothing but the end of the process interrupts a check and its enqueueing
(`Quiet`), and a lane's continuation is a microtask (`NoLooking`).

`FifoOutbox` says what a receiver is promised: messages leave in the order they
were queued, only the oldest is ever repeated, and one leaves the queue by being
received or, for a clear nobody was sent, withdrawn; for all else (one given up, forgotten
with its webhook, or dropped before it got into the queue) the webhook counts as having
`lost` something. `NotificationsFifo` maps the table to that queue, ids to numbers and
`missed` to `lost` (`KeepsFifo`).

### Alerts and rules

`AlertEvaluate` is `evaluate.ts`: the decision *raise*, *clear* or *none* from a
metric's readings. A value is *hot* or *cool*: that is all `atLeast`, `atMost` and
`bitsSet` make of it.

`AlertEngine` is `engine.ts` and `store.ts` with both clocks. A check is
`BeginCheck`, `CloseRemoved` / `CloseChanged` for each stale alert, then one of
`Raises`, `Clears`, `Leaves`, `RuleFails` per rule and metric, then `EndCheck`, or
`CheckFails`. Rules are evaluated in any order, which covers the code's. Around
it: `Reads`, `Housekeeping`, `SavesRules`, `CertificateChanges`, `Acknowledge`,
`Start`, `Crash`, `Tick`, `ClockSet`. `Housekeeping` has a doubt of its own about
the clock; here it is a choice of the time it believes (in `RollUps` it is modelled).
The database may come from a version whose alerts had no hash of their rule (`Alerts0`,
`NoHash`): such an alert closes with its rule or its condition, never for an edit.

`RuleSource` is what decides which rules the engine gets: built in, from the file or
saved, with the checks of `source.ts` and of `settings-routes.ts` in both
directions (a rule against the retention in force, a retention against the rules in
force), at the start and at each save. A rule is how far it looks back.

### Certificates

`CaChange` says what `init`, `new-ca` and `restore-ca` promise: the CA is replaced at
once or not at all, and the one replaced is kept until somebody prunes it.

`CaJournal` is `journal.ts` with the commands that use it. The disk (`ca/`, backups,
stages, public files, `txn.json`) survives; a command is a program counter and the
transaction it holds. Each action is one change of the disk: a rename or an
atomic write is one step, the removal of a folder is several (a folder is
*whole* or has lost files), so `Crash` can fall between any two. `AtomicChange`
refines `CaChange`: the CA in force is the one the next recovery would leave.

`TlsLock` is `lock.ts` access by access: making the file, reading it, listing the
turns, linking, renaming, unlinking, the heartbeat. Files are named after the process that
made them. A process may die or be stopped at any step, and the wall clock leap, ahead or
back, between any two. A command that finds the lock taken judges its holder
(`holderGone`), takes a turn as breaker (it lists the turns, judges the newest and makes
the next, in three steps), judges again, and breaks; a lock moved aside by mistake is put
back. A renewal that finds no folder runs without the lock (`unlocked`). What a command does
between two accesses takes no time, unless it is stopped there.

`TlsRenew` is a run of `cmd-renew.ts`, hour after hour, with `judgeClock` and its anchor
file (`clock-anchor.ts`), the leaf's two writes and `repairPublic`
(`material.ts`). `TlsReload` is the server's side: a poll compares the files' stat with the
last one, a load reads one file after the other, and `replacement.ts` decides
whether what was read replaces what is served. `Inspect` computes the class and
dates of a chain as `inspect.ts` does, beside what a client does with it that may
build any path. `CaScope` computes the names a CA is made with and a leaf gets.
`TlsMode` decides between HTTP and HTTPS: the flag, `state.json`, the marker in the
data folder, the commands that switch and put back, and the sidecar of Docker. A switch
may be refused once the mode is written (`SettingsRead`), its restart may fail, and so may
the write that puts the mode back (`BacksOut`, on a full disk) and the restart after that
(`RestartsAgain`).
`TlsStatus` is what is said of all this: the status file with its boot id, pid
and start time, `pipulse tls status`, `/api/config` and `/api/health`.

### The server and the browser

`RollUps` is `rollup.ts`: minutes from readings, hours from minutes, pieces of local
days from minutes, pruning, the clock it believes, `chooseResolution`, and the
migration that counts an older database anew. A row is its count.

`ServerProcess` is `runtime.ts` with `server.ts` and, in the other role, the collector's
`main.ts`: the parts are started one after another, each may fail, a signal may
come at any await; reads of the scheduler settle, time out or hang.

`SignIn` is `auth.ts`: sign-ins overlap at the await of the password's hash. `Updates` is
`updates.ts`. `LiveFeed` has both ends of the socket: `Accept`, `Heartbeat` and the events
on the server's side, `Receive`, `Retry`, the requests that are in flight and the effects of
`app.tsx` in the browser; channels keep order, as a socket does. `Readings` follows one
metric through the same socket and through the history request into `store.ts`.
`RetentionPage` is the Settings page with its routes: typing, review, box, save and their
answers, beside another tab.

### Compositions for TLC

`MCNotifications` and `MCAlertEngine` hold their instances' values. The other three
put parts beside each other that share nothing: `MCTls` (lock, renew, reload,
mode, inspect, scope), `MCHouse` (rules, counting, sign-in, feed, status, updates,
retention, tiles) and `MCCrashes` (the server's process, the journal). `part` is
chosen in the initial state and never changes, so a behaviour is one of a single part and
the state space is the sum of the parts', not their product. The parts of `MCTls` but
the lock, and those of `MCHouse` but the rules, keep their variables in the same cells
`c1`, `c2`, ...; a cell that a part does not use is `None`.


## 3. Runs

Times are small integers: the constants keep the order of the code's (a retry is
shorter than the longest retry, which is no longer than giving up, and a clock jump
is longer than the distance of two polls), not their size, because the code only
compares sums and differences of times.

| Run | Instance | Shows |
| --- | --- | --- |
| `deliveries` | one webhook for critical alerts, both severities, up to three alerts, a notify file with or without the webhook; lost answers, stops, kills | `KeepsFifo`: order, and repeats of the oldest only. `ReceiverInStep`: with nothing queued, a receiver was last told of the open alert as it is worded now, or that it is over. `UnchangedReopenIsSilent`. `PendingIsServed`: no row waits for a webhook that is gone |
| `lanes` | two webhooks with different thresholds, two alerts, lost answers, fair scheduling | `InFlightIsHead`: nothing touches the row of a message on its way. `FreshHeadIsNoticed`: no lane goes idle over a new message. `DueHeadIsTried`: a due message is tried, whatever another webhook's queue does |
| `clock` | one alert; the clock set twice, by less and more than a jump, both ways; statements that throw, the one that moves the rows too, and kills | `AgeIsElapsed`: the age a give-up is decided by is elapsed time, off by exactly the moves the sender lets go (see 7) |
| `readings` | a threshold rule (for 1, clear after 4) or a silence rule (limit 3); clock 5 behind or right, set once; restarts; raw retention 1, buckets of 2 | `HysteresisHolds`: no flapping. `SilenceIsElapsed`: silence is counted while the engine ran and never over a leap |
| `certificate` | `expired` and `expires` rules and a threshold rule, saved over or removed; no alert at first, or one without a hash; the clock right or 6 ahead; kills, throws, acknowledging | `CertificateOnSoundClock`, `OpenMatchesRules`, `AtMostOneOpen` |
| `crashes` | the journal: four CAs, three backup names, two transaction ids, two kills; the process: the server or the collector, two plugins, at most three reads that hang | `AtomicChange`, `PublicFollows`, `BackupsBounded`, `TidiedAgain`: after any kills, in recovery too, pending changes and stages are cleared up, and recovery never meets two CAs it cannot choose between. `DbClosesLast`, `HangingBounded`, `SignalEnds` |
| `tls` | lock: three commands, all in one PID namespace or one apart, a folder or none, two deaths, a stop and a leap of the clock; renew: a leaf of five hours, nine hours, five mixes of accidents; reload: three certificates, three writes; mode: three commands and three accidents; inspect: six certificates of which two may be odd, chains of up to three and one of four; scope: two host names, a setting, a subnet | `Exclusive`; `NoFutureLeaf`, `RenewedInTime`; `TakenUp`, `NeverForWorse`; `NeverSilentlyHttp`, `FailureRestores`; `ValidIsAccepted`; `LeafInScope` |
| `house` | rules: two built in, one more, two levels, six environments; counting: days that begin within an hour, in two zones, clocks set by more than a jump, five mixes of what may happen; sign-in: two sign-ins at once, a limit of two; feed: one alert, two sockets, two sessions, queues of two; updates: two who ask; status: three certificates and three starts with one pid, a boot, a fault; retention: two levels, two requests, another save; tiles: the clock set twice | `InForceFits`, `StartsAgain`; `CountedOnce`, `WholeSeries`; `GuessesLimited`, `CookieLasts`; `InStep`; `AnswersAreRecent`; `TellsTheTruth`; `SavesWhatWasTyped`; `ShowsThePresent` |
| `gap`, `hangs`, `review`, `stranded` | see 6 | one violation each |

Why the bounds are enough.

* *deliveries*: three alerts of one key make a raise, an edit that closes and reopens
  it with another severity, and a further reopening; two messages received per
  webhook show an overtaking or a repeat. *lanes*: two lanes are enough for one to
  disturb the other. *clock*: two settings of the clock
  can cancel out or add up: ahead by a jump (2) or back by less (1), and back by a jump if
  nobody looks between two of those.
* *readings* lasts four units, longer than the silence limit and than the shortest time
  a threshold alert may stay open; one metric is enough, as rules of two metrics share
  only the clocks. The clock is right, or 5 behind and set right once: `SetAheadOnly` of
  5 holds. Raw readings are kept for less than a rule may look back, so that pruning
  happens (`RawIsKept` does not hold here, which only makes the run's question harder).
  *certificate*: a leap of 6 is beyond the jump believed at once (2) and lasts past the
  time it takes to be believed (3).
* *crashes*: two backups are the limit the code keeps, a third shows an excess; a
  second kill can fall into the recovery from the first. Three reads can hang, be
  refused a fourth, and free a slot.
* *tls*, lock: a lock is broken by mistake only if two breakers and a new holder meet,
  hence three commands; a breaker that dies needs a third to take the next turn. Two
  deaths are a holder's and a breaker's, a stop and a leap come on top. Once something
  `Exclusive` excuses has happened it claims nothing any more, so `MCTls` follows the
  lock no further (`~excused`). Renew: nine hours are one lifetime and the doubt after
  it; a clock is ahead, is doubted, and is set right or booted away within them. Reload:
  a poor one, one that expires and one of later date are one of each verdict. Mode: a
  switch, its failure, a put-back that fails too, and another command. Inspect: with an
  intermediate, a cross-signed one, a root, the one before it and its roll-over there
  are up to three paths; two oddities put one on each of two paths.
* *house*, counting: a clock up to 8 sees days begin at 1 and 5, or at 2 and 7 in the
  other zone, in minutes of one tick and hours of two; three readings are one in each of
  two buckets and one late. Sign-in: the failures counted just before and just after a
  window ends. Feed: two sockets are one that breaks or is refused and one that lives
  after it (*stranded* has three). Status: three leaves are one served, one refused, one
  on disk. Retention: a review that is late needs two requests, and stale pages one save
  by another tab.

Deadlock is checked in the runs of `Notifications`: its timers always come round
again. It is not in the others, where time is bounded or a part can end: a process
that has stopped, a machine whose hours are over, a chain that was inspected.


## 4. Fairness

`Notifications!Fairness`: the rest of a check, an enqueueing in progress and a lane
that is looking or looped run as soon as they can (weak fairness; they are
synchronous code and microtasks). The timer and a delivery's result become
possible only between two such runs, again and again, so they get strong fairness:
Node serves every callback that is ready. That a delivery has a result at all
rests on its timeout (`action.ts`). No fairness for the process ending or starting,
for the clock, for what a receiver answers, or for a check beginning.

`CommandsGoOn` in `MCCrashes`: a command that is not killed goes on, and commands
are run again and again (the renew timer runs one every hour, and recovery comes
first in each). Kills are bounded by `MaxCrashes`, not by fairness.

`ServerProcess!Fairness`: what a start or a stop awaits ends (requests and deliveries
time out, `stop` itself has a time-out). None for reads: a read may hang for
ever, which `SignalEnds` excuses and `hangs` shows to matter.

The parts of `MCTls` and `MCHouse` are checked for safety only. Where the code
promises that something happens in the end, they say by when, with a counter of how
long nothing came in between: `RenewedInTime` (`calm`), `TakenUp` (`good`), `SoonIsSoon`
(`quiet`). That is stronger than liveness, and needs no fairness but the clock's.


## 5. Proofs

Proved by TLAPS for every value of the constants that satisfies the named
assumptions in the modules:

* `NotificationsProofs!TypeCorrect`, `Spec => []TypeOK`. The work is in the table:
  ids stay unique and every statement keeps rows of their type.
* `NotificationsProofs!AgeCorrect`, `Spec => []AgeIsElapsed`. `AgeIsElapsed` with
  `TypeOK` is inductive once stated on the sender's *last reading* of the clocks
  rather than on the clocks: `createdAt` moves by just what a noticed jump adds, and
  `unseen` records the moves the rows do not follow: not noticed, made while no process
  ran, or noticed by a `now()` whose `shiftPending` threw.
* `NotificationsProofs!InFlightCorrect`, `Spec => []InFlightIsHead`. That a row in
  flight is untouched is not inductive: a reopening *deletes* rows, and the table
  uses ids again. The invariant `InFlightInv` adds why it is harmless: a check reads
  one time (`CheckReadsOneTime`), that time is new to the alerts table, what the
  check closes for an edit is queued for later (`EventIsOfThisCheck`,
  `EditClearsWait`), so the only rows a reopening withdraws are of this very check,
  not due yet, and no lane can have picked one up; `ClearsAreOfClosed` and
  `DownIsIdle` close the induction. Each conjunct is a lemma over the steps;
  `RowsFromStep` says where any row of the next table comes from.
* `AlertEngineProofs!TypeCorrect`; `AtMostOneCorrect`, `Spec => []AtMostOneOpen`: only
  a raise opens an alert, and it looks at the table in the same run;
  `OpenMatchesCorrect`, `Spec => []OpenMatchesRules`, with the strengthening that
  during a check nothing is claimed (`MatchInv`). From `AlertsAssumption`: the alerts a
  database starts with have no hash, and one is open per rule and metric. They excuse
  themselves from the version that raised them, not from their rule being in force.
* `AlertEngineProofs!CertificateCorrect`, `Spec => []CertificateOnSoundClock`, from the
  assumption `RightOrLeapt`: the clock is right, or ahead by more than is believed
  at once (small drifts are believed by design; a clock that is behind and then
  leaps is the third divergence of 6). `ClockInv` says that the anchor was set by a
  sound check and where the clock stands against it (`Anchored`), and what that
  makes of the time the engine trusts (`Trusted`).
* `CrashesProofs!HangingCorrect`, `[]HangingBounded`, for any number of
  plugins and any limit (`HangingInv`: nothing reads before the scheduler is started);
  `DbClosesLastCorrect`, `[]DbClosesLast` (`ClosingInv`: what is under way belongs
  to a part that runs or is waited for, `Owned`, and how far the stop has come
  says which those are, `InTurn`).
* `CaJournalProofs`, for any CAs, backup names, transaction ids and number of kills:
  `PublicFilesFollow` (`PublicFollows`), `LeafComesLast` (`LeafLast`), `BackupsStayFew`
  (`BackupsBounded`) and `ChangeIsAtomic`, the refinement: the journalled transaction
  implements `CaChange`, the change in one step. Their invariant `JournalInv` says what is
  on disk at every step of the journal (`Disk`): first the old CA where it was (`Unmoved`,
  `Validated`), then its backup and the new one (`Moved`, `ActiveMoved`, `NewInstalled`,
  `LeafInstalled`), and where a running command stands against the journal (`Command`). A
  kill ends the command and touches no file, so a recovery begins from what `Disk`
  says. `Counted` adds how many backups there are.
  `CrashesProofs!PublicCorrect`, `BackupsCorrect` and `AtomicCorrect` carry three of them to
  the composition with the server's process.
* `TlsLockProofs!ExclusiveCorrect`, `Spec => []Exclusive`, for any number of commands,
  any namespaces, deaths, stops, leaps of the clock at any step, and any number of
  turns, from `LockAssumption`: someone who is watched is watched for at least one
  heartbeat (`OBSERVE`; the code watches for two and 5 s). That holders are not two does
  not follow from itself: what has to be kept is *whose file is at the path* (`Owned`),
  so no breaker may move away the file of somebody who runs. `LockInv` follows a breaker
  back to its judgement: who is judged gone is dead (`JudgedDead`), since a holder that
  is watched and runs beats in every period (`WatchedWell`), and a file not yet written
  is fresh (`Written`); one breaker at a time has the newest turn, numbers only grow,
  and a turn is taken over only from somebody dead, or old, which a running breaker's
  never is, unless the clock leaps while it breaks unseen or just makes its turn, which
  is excused (`TurnsTaken`; a turn judged free is still free when the next is made,
  `FoundFree`). Time passes, and the clock leaps unexcused, only while no file or turn
  has just been made and no breaker is unseen (`TimeMade`). So what is moved aside is
  the file that was matched, and of a dead command (`Aims`). A lock moved away by
  mistake and linked back, which the code provides for, is for the cases that are
  excused. `AloneCorrect` and the theorems after it carry this, and what follows about
  certificates, to the behaviours of `MCTls`.
* `CertificateProofs!RenewedCorrect`, `Renewal!Spec => []RenewedInTime`, from `RenewAssumption`
  (types only). That nothing happened for a while does not by itself say that the clock is
  believed. `RenewInv`: it is no higher than its anchor (`Settled`), or in doubt for as long
  as nothing happened and not yet for as long as a doubt holds (`Doubtful`, `Believed`); an
  anchor of this boot was written while the clock was not too low (`Above`); and a run that
  began in the calm makes a leaf that is in date if one is due (`Renewed`).
* `CertificateProofs!FutureCorrect`, `Renewal!Spec => NoFutureLeaf`, from
  `Apart(errors)`: two errors the clock may show are equal or further apart than is
  tolerated, as small drifts are believed by design; and `AnchorIsWritten`: while the
  anchor cannot be written the clock steps once at most (see 7). `FutureInv`: the anchor
  of a boot whose clock was right once is no higher than that, or than an offset every
  run has seen for `ANCHOR_HOLD` (`Low`, `Sound`), and a doubt on disk is of the offset
  the runs see and no older than they saw it.
* `CertificateProofs!TakenUpCorrect`, `Reload!Spec => []TakenUp`, for any certificates and retry.
  `ReloadInv`: what is better and not served has been noted (`Noted`) or will be at the
  next poll, and the retry runs from no earlier than that (`Nears`). `WorseCorrect`,
  `Reload!Spec => NeverForWorse`, needs no invariant: the code judges what it is about to
  serve in one step. That it never takes an expired one for a valid one is proved whatever
  the clock is worth; one not valid yet it takes only on a clock that is not synchronized.
* `CertificateProofs!HttpCorrect`, `Spec => NeverSilentlyHttp`, and `RestoresCorrect`,
  `Spec => FailureRestores`, of `TlsMode`, for any number of commands and accidents:
  whatever makes a server answer over HTTP (the flag, the mode on record, the mode a
  command is about to record or to put back) was asked for (`HttpAsked`,
  `HttpsAllowed`). `FailureRestores` is about every step that ends a failed switch: if
  the mode could not be put back (`stuck`), what is recorded and served is the mode the
  command wrote, as its message says; if the restart after it fails, the server may be
  down. `ScopeCorrect`, `Scope!Spec => []LeafInScope`, for any machine, settings and
  CAs.
* `CertificateProofs!AcceptedCorrect`, `Inspection!Spec => []ValidIsAccepted`, for any certificates,
  chains and lists of anchors, from `InspectAssumption` (types only). `ClimbedTo` is the
  invariant of the loop of `inspectMaterial`: no anchor is climbed twice, so by counting
  the climb ends (`WayEnds`), at nothing or at a root. If the chain is classed as valid it is a
  root, and every anchor below it was sent; so the chain as far as the last of them, and
  the root, is a path (`Leads`), of which each CA was looked at with no fewer below it
  (`BelowCounted`) and each date but the root's counts. That a client finds this path
  (`PathFound`) is an induction over its prefixes.
* `HouseProofs!InForceCorrect`, `Spec => []InForceFits`. A saved rule runs only while
  it fits, so the invariant (`FittingInv`) is about the rules nothing is saved over:
  they fit as long as the process is up, because a start, a change of retention
  and the removal of a saved rule each look. `StartsAgainCorrect`, `[]StartsAgain`: an
  environment the process once ran in lets it start again, whatever the browser saved
  meanwhile (`RanInv`).
  `AnswersCorrect`, `InStepCorrect`, `SavesWhatWasTypedCorrect`, `GuessesLimitedCorrect`,
  `CookieLastsCorrect`, `TellsTheTruthCorrect`, `ShowsThePresentCorrect`,
  `WholeSeriesCorrect` and `CountedOnceCorrect` carry the results of the next module to `MCHouse`.
* `PagesProofs!FeedCorrect`, `Feed!Spec => []InStep`, for any alerts, sockets, sessions and
  accidents. What the dashboard shows is often behind, so the invariant is that what is shown
  *with the messages still in the socket applied* is what the server has.
* `PagesProofs!SavesCorrect`, `Spec => []SavesWhatWasTyped`: what is edited was
  typed (`Edited \subseteq typed`), and each request keeps what it was sent with
  (`AsTyped`) however late it is served.
* `PagesProofs!RecentCorrect`, `Checking!Spec => []AnswersAreRecent`, for any number of people
  who ask and a gap that is not zero. `RecentInv`: no command outlives its limit, so a
  check at its second command looked no longer ago than its first may take (`InTime`),
  and what is held was looked at no longer before its check ended than both commands
  may take (`Held`).
* `PagesProofs!GuessesCorrect`, `SigningIn!Spec => []GuessesLimited`, for any addresses, limit and
  window. `GuessInv`: the failures an address has on record are its latest guesses
  (`Latest`), and what was dropped is not recent, since the oldest ages first
  (`CountsFresh`). `CookieCorrect`, `Spec => []CookieLasts`: what the server believes of
  the age of a cookie is what the browser has (`Agreed`), but for a lost answer.
* `PagesProofs!ToldCorrect`, `Telling!Spec => []TellsTheTruth`, for any processes, boots,
  commands and faults. `ToldInv`: a status file that names a live process names the server,
  since no process of a boot starts when another did (`Identified`); a server that has seen
  what the files hold by now serves it or says that it could not (`Tried`), and it looks
  within two polls (`Polled`); while the CA on disk is not that of the leaf, a change of it
  is in the journal (`Journalled`). Assumed of the constants only that `None` is no number,
  leaf, server or status.
* `PagesProofs!PresentCorrect`, `Tiles!Spec => []ShowsThePresent`, for any clock, polls,
  sockets that break and histories. `TileInv`: what was pushed into a socket is later the
  further back it is, and its last is the last reading (`InSocket`); from the first sample
  that no history overtook, the sparkline ends no later than the socket begins (`InView`),
  so the last sample read decides what is shown. Every history, and the sparkline it
  is joined with, climbs (`Climbing`); of finitely many stamps there is an ascending
  list (`Ordered`).
* `PagesProofs!SeriesCorrect`, `Charts!Spec => [](WholeSeries /\ LeapsDoNoHarm)`, from
  `RollUpsAssumption`: an hour is whole minutes, a UTC day whole hours, every zone has a
  day that began, and a coarser level is kept no shorter, as `retention.ts` demands. `SeriesInv`:
  the clock less what it was set by only goes on, and a clock that is not believed is read
  back to exactly that (`ClockIs`), so a prune cuts no later than its retention before now;
  a minute is made of readings that are all still raw (`RawKept`), an hour of minutes
  that are all still there (`MinutesKept`), and no row is of a bucket that has not
  closed (`RowsAre`).
* `PagesProofs!CountedCorrect`, `Charts!Spec => []CountedOnce`, from `RollUpsAssumption` and
  `CountingAssumption`: each level is kept longer than the one before by a bucket, hours
  until the local day they are in is over, days for good, and local days begin at whole
  minutes. The built-in retentions are so (2 days, 14 days, a year, forever); the code takes
  equal ones too, and of an hour that is kept no longer than its minutes a part could be
  made again, so for those nothing is proved. `CountInv`: while no reading came late
  for its minute, a reading is raw until its minute is made (`RawWaits`, `RawIsMade`), a
  minute is there until its hour and its day are (`MinutesWait`), an hour that is done at
  least as long as one of its minutes (`MinutesAreMade`), so that a row is made whole,
  replaced by the same or left alone; and the days go on exactly where they stopped
  (`InDays`), whatever the zone. Each case of the migration is shown to hand over so: the kept
  UTC days count the readings before `start` (`WhereDaysStart`), hours are taken up to a
  minute from which every minute is there (`WhereHoursEnd`), and minutes to where the last
  one ends (`WhereMinutesEnd`). A sum over rows is a number of readings (`SumCounts`), by
  finite induction.
* `AlertEngineProofs!SilenceCorrect`, `Spec => []SilenceIsElapsed`, from `SetAheadOnly`: a
  clock that is set is set ahead, by more than three polls and three checks (as by NTP on a
  machine without a battery). `LeapInv`: there was a last leap (`At`); every reading taken
  since is stored under today's clock, or counted in a bucket (`OnRecord`), every stamp
  from before is out of reach of a poll (`StampsSince`), and the engine counts silence
  from the leap on, or will notice it at its next check (`CountedSince`).
* `AlertEngineProofs!HysteresisCorrect`, `Spec => []HysteresisHolds`, from `SetAheadOnly`
  and `RawIsKept`: no rule looks back further than raw readings are kept, which
  `InForceCorrect` proves of the rules in force. `HotKept`: the hot reading that raised an
  open alert is still in the table, stamped at most two polls before the raise, until
  `clearAfter` has passed it by; a leap in between makes a gap that no window spans.
  Without the first assumption a poll at a time stamp already used overwrites the hot
  reading (see 7).
* `NotificationsProofs!ServedCorrect`, `Spec => []PendingIsServed`, by `ServedInv`.
* `NotificationsProofs!ReceiverCorrect`, `Spec => []ReceiverInStep`, the promise of the
  whole outbox, for any alerts, webhooks, failures and restarts, and either way the
  clock is set. `NewsInv` orders what a check does: the open alert of a key is its
  newest (`OpenIsNewest`), an edit closes one alert of a key in a check and closes it
  first (`OneEdit`, `ClosedFirst`), what is announced is the newest (`EventIsNewest`)
  and each reopening is announced once. `TellsInv` is the invariant proper: a receiver
  that missed nothing *knows* how a key stands by the last word it will have heard, the
  newest row of its queue or, with none, the last message received, or is *owed* the
  event at hand. A reopening of an alert that was edited withdraws the clears of the
  edit and may withdraw nothing else, so `FirmTells` says what the queue tells without
  them: that what the edit closed is open.
* `NotificationsProofs!SilentCorrect`, `Spec => []UnchangedReopenIsSilent`, from `SetAhead`:
  the clock is not set back. (If it is, between a raise and an edit, `clearAlert` stamps the
  close with the time of the raise and the enqueuer does not find it; see 6.)
  `SilentInv`: no alert is raised later than now (`AlertsInTime`), a
  receiver told of a close is told of a closed alert, and what an edit closes in this
  check nobody was told (`EditIsUntold`).
* `NotificationsProofs!FreshCorrect`, `Spec => []FreshHeadIsNoticed`, from `SetAhead` and
  `NoFailedStatement`. `NoticedInv`: a queue is served in the order of its times
  (`InOrder`), what waits was queued in the past (`BornInTime`), a lane that rests has
  seen the head of its queue or will be woken for it (`Seen`), and what a reopening may
  withdraw is the last of a queue whose lane rests (`EditSeen`).
* `NotificationsProofs!FifoCorrect`, `Spec => KeepsFifo`, the refinement: every step
  of the sender, the enqueuer, the engine and the process is a step of `FifoOutbox` or leaves
  queues and receivers alone. It rests on three invariants above: a row in flight is the
  first of its queue and untouched (`InFlightInv`), what arrived of a delivery under way
  came last (`ReachedIsTold`, of `NewsInv`), and what an edit closes in this check nobody
  was told (`ToldInv`, which needs nothing of the clock).

Lemmas that induct do so over finite sets only (a least element of a set of rows or
of times; the greatest number up to which something holds, `Upwards`). Two recursive
functions, the climb and the client's paths, are reasoned about so too: `Recursion`
shows that a function with such an equation exists, for as many arguments as are asked.

So every invariant, action property and refinement of the passing runs is stated by a
theorem. Only model-checked: liveness (`DueHeadIsTried`, `TidiedAgain`, `SignalEnds`), which
this prover does not reach.


## 6. Where the code and its documentation differ

Each has a run that finds it:

* `gap`: evaluate.ts:88-89 says that a gap in collection never clears an alert. Whether
  a window is covered is judged by time stamps; after the clock stepped back, old
  readings stamped ahead of it cover the window as time reaches them again.
* `hangs`: api/src/server.ts:33 says "A hung read may still hold the event loop open;
  don't wait on it." A read that outlived its deadline is not in flight any more, so
  `stop` reports that all drained, the server does not exit, and the hung read
  holds the event loop open.
* `review`: docs/configuration.md:40 says *Review changes* shows what a shorter
  retention will delete. The answer of a preview is shown whatever was typed since
  it was asked for, and the box ticked under it confirms the save of the later draft.
* `stranded`: web/src/core/live.ts:50 says that retrying cannot help until someone signs
  in, and the app shows the form. If another tab signs in between the close of the
  socket and the question whether the session is signed in, no form is shown
  and nothing connects again.

Seen with the same models, without a run of their own:

* docs/alerts.md:69 says that editing a rule so that its alert closes and reopens
  unchanged sends nothing. `clearAlert` records the close at `MAX(now, raised_at)`
  (store.ts:144), the reopening is raised at `now`, and the enqueuer looks for a close
  *at* the raise: after the wall clock stepped back below the first raise both are sent.
* engine.ts:113 says a clock that runs ahead is believed once it *stayed there* for
  `CLOCK_ACCEPT_MS`. The engine times how long the clock has been ahead, wherever it
  reads: set right from behind and then ahead, it is believed too early.
* rollup.ts:176-178 says that only what the next level already covers is deleted, so
  nothing is lost. Readings stamped, after the clock stepped back, in minutes already
  rolled up are never counted, and deleted (`late` excuses them).
* With `PIPULSE_TLS=on` and a damaged `state.json` the sidecar never gets ready though the
  server would start (sidecar.ts:36,57); docs/https.md:52 says deleting `state.json`
  returns to the previous behaviour, which an installation that served HTTPS refuses.
* cmd-status.ts:341-360 says a newer certificate is picked up within two minutes also
  when `leaf.crt` is of a renewal that was killed before it wrote `leaf.pem`, and blames an
  old failed renewal after `new-ca` has replaced the certificate.
* web/src/core/store.ts:46 ("never regressing a newer one"): a snapshot that arrives after a newer
  history does, until the next reading.


## 7. Limits the properties excuse

The code has limits that its comments accept, or that follow from its design. Each
property that excuses one says so.

* *Notifications.* A kill between an alert's row and its notifications loses them
  (`missed`); a move of the clock is lost to the ages of rows if it is too small to
  notice, if no process runs, or if `shiftPending` throws, which `now()` logs and does
  not try again (sender.ts:144-160; `unseen`); after a message is given up the next one
  waits for the timer's 5 s (`BehindGivenUp`), and so may one after the clock was set
  back or a database statement failed; an enqueueing that fails half-way leaves its rows
  to the timer.
* *Thresholds.* After the clock is set back a reading may replace the one that raised an
  alert, which then clears at once.
* *Alerts without a hash*, of before migration 6, stay open across edits of their rule
  (engine.ts:146).
* *Lock.* A process stopped, or the clock leaping, between its making a file or a turn and
  writing into it, which age alone judges; a stopped process others cannot see; a leap
  while a breaker others cannot see has its turn (lock.ts:275-277); filesystems without
  hard links (`excused`, `links`).
* *Reload.* On a clock that is not synchronized a certificate that is not valid yet may
  replace one that is (replacement.ts:23-41).
* *Mode.* A mode that cannot be put back stays as the command wrote it, and is served
  (cmd-mode.ts:49-57, 103-108): `FailureRestores` says that and no more then.
* *Renewal.* A clock that drifts by less than the tolerance is followed; `--force` does
  not ask; the clock may step between the verdict and the issue (`run.moved`). While the
  anchor cannot be written, a clock that steps ahead, back and ahead again is believed once
  the first step is old enough: the doubt on disk is of that one. The run has one step then.
* *Inspection.* A trusted certificate that is no CA is not looked at (`AnchorsAreCas`).
  In `CaScope`, `new-ca --name x.<host>` below a host of one label is listed but excluded.
* *Status.* A status file that could not be written (`unpublished`); a `leaf.crt` that is
  not the certificate in `leaf.pem`.
* *Roll-ups.* A wrong clock that is believed (`believed`), or that fell behind (`low`);
  hours must be kept longer than minutes, or an hour already pruned is made again
  from the rest; after a longer retention is saved a chart may begin late
  (`lengthened`); local days may begin within an hour.
* *Rules.* `StartsAgain` is about what was done in the browser. A rules file can itself
  make a start refuse (`FileRefused`): one that disables a certificate's rule does so
  once HTTPS is off, as it then names a rule that does not exist.
* *Sign-in.* A clock that was set (`moved`), an answer that was lost (`lost`). The
  upgrade of `/api/live` uses up the moment a cookie is due though its answer carries
  none, and the heartbeat's look at the session slides it.
* *Browser.* A connection that dies without a word is not noticed by the client; after
  the clock steps, a refill of the history may be refused for the old offset;
  two small steps back can hold a tile twice as long as one, because `latest`
  and the series are compared separately; an edit typed while a save is under way is
  lost with its answer, and "Nothing was saved" is also said when only the answer
  was lost.


## 8. What is left out

* Text of any kind: formatting, parsing of options, files and headers, wording, logs.
* *Notifications*: `status()` and listing queries (they only read); webhook requests,
  templates and the notify file (no state); a statement of pruning or of a retry's new
  time that throws (a throw while a delivery is recorded, or in an enqueueing, is
  modelled). *Alerts*: the notices about the served certificate's alerts; pruning of
  alerts after a year.
* *CA*: a power cut that undoes a rename whose directory was not synced; the temporary
  folders of `issue.ts` that recovery sweeps; the checks of a CA's files; openssl.
  *Lock*: boots between two commands and holders one can see whose start time cannot be
  read; what a renewal that runs without the lock, since it found no folder, does to the
  files an `init` is making (`CaJournal` has one command at a time). *Inspection*: DER,
  extended key usage of intermediates, key strength. *Status*: a damaged status file,
  its permissions, the dates it shows.
* *Storage*: migrations other than the one that counts anew (each creates tables in
  one transaction), vacuum and usage (they read and compact).
* *Collector*: what a plugin reads. *Updates*: how apt's output is parsed; a child of
  apt that is running is not awaited at a stop.
* *Routes and health*: read-only answers; the notify test (one request).
* *Web client*: charts, tables and pages without requests of their own; the rule editor
  (`rules-editor.tsx`), whose effect on the server is `RuleSource`'s. In it, the answer of a
  save that comes after a newer list leaves the old list shown, and a form opened
  before another tab disabled a rule enables it again when it is saved.
* Packaging, scripts, images, the end-to-end tests.
* Atomicity: statements between two awaits are one action where nothing outside the
  process can see between them; a sign-out is one step; the two commands of an update
  check (simulation, policy) are two.


## 9. Plan

Done: every component with state of its own is modelled, wholly or but for what 8
names. Next, most useful first:

1. Compositions: `AlertEngine` with `Notifications` (the environment of the one replaced by
   the other); `TlsRenew` with `TlsReload` over the same files.
2. Extensions: power loss in `CaJournal`; a boot in `TlsLock`; the rule editor beside
   `RuleSource`; vacuum beside a long transaction.
