--------------------------- MODULE ServerProcess ---------------------------
(***************************************************************************)
(* The process of the server (packages/api/src/server.ts, runtime.ts), or  *)
(* of the collector on its own (packages/collector/src/main.ts): what it   *)
(* starts, how a start that fails or a signal stops it, and the reads of   *)
(* the scheduler (packages/collector/src/scheduler.ts), which may hang.    *)
(***************************************************************************)
EXTENDS Integers, FiniteSets, SequencesExt

CONSTANTS
  None, Plugins,
  MAX_ORPHANED_READS

ASSUME ServerProcessAssumption == MAX_ORPHANED_READS \in Nat \ {0}

VARIABLES
  role,                 \* "server" or "collector"
  pc,                   \* "start", "device" and "listen" (awaits of the start), "up",
                        \* "stopping", "idle" (nothing left to do), "ended"
  parts,                \* what was started, and not yet told to stop
  waitsFor,             \* what the stop waits for
  db,                   \* "none", "open", "closed"
  inFlight,             \* the plugins whose read is awaited
  orphans, reported,    \* reads given up that hang; plugins whose limit was reported
  requests, delivering, \* HTTP requests and a webhook's message under way
  shuttingDown, failing, drained, code

process == <<role, pc, parts, waitsFor, db, shuttingDown, failing, drained, code>>
reads == <<inFlight, orphans, reported>>
vars == <<process, reads, requests, delivering>>

First == <<"notifications", "updates">>
Rest == <<"app", "provider", "housekeeping", "scheduler", "alerts">>
OwnParts == <<"housekeeping", "scheduler">>

Exit(with) == pc' = "ended" /\ code' = with

(***************************************************************************)
(* stopParts: timers stop at once, then the three that have work under way *)
(* are waited for, and the database goes last.                             *)
(***************************************************************************)
StopParts(started) ==
  /\ pc' = "stopping" /\ parts' = {}
  /\ waitsFor' = started \cap {"app", "scheduler", "notifications"}
  /\ drained' = TRUE

AppCloses ==
  /\ "app" \in waitsFor /\ requests = 0
  /\ waitsFor' = waitsFor \ {"app"}
  /\ UNCHANGED <<role, pc, parts, db, shuttingDown, failing, drained, code, reads, requests, delivering>>

NotificationsStop ==
  /\ "notifications" \in waitsFor /\ ~delivering
  /\ waitsFor' = waitsFor \ {"notifications"}
  /\ UNCHANGED <<role, pc, parts, db, shuttingDown, failing, drained, code, reads, requests, delivering>>

(* Scheduler.stop: the reads that were in flight, or the time-out. *)
(* Mutant: nothing is waited for. *)
NotAwaited == TRUE
Drained == inFlight = {}
SchedulerStops ==
  /\ "scheduler" \in waitsFor
  /\ \/ Drained /\ UNCHANGED drained
     \/ inFlight # {} /\ drained' = FALSE
  /\ waitsFor' = waitsFor \ {"scheduler"}
  /\ UNCHANGED <<role, pc, parts, db, shuttingDown, failing, code, reads, requests, delivering>>

(* Mutant: only a failed start does not wait for reads. *)
FailedOnly == failing
MustExit == failing \/ ~drained
Closes ==
  /\ pc = "stopping" /\ waitsFor = {}
  /\ db' = "closed"
  /\ IF MustExit THEN Exit(1) ELSE pc' = "idle" /\ UNCHANGED code
  /\ UNCHANGED <<role, parts, waitsFor, shuttingDown, failing, drained, reads, requests, delivering>>

(* An empty event loop ends the process; a read that hangs keeps it going. *)
LoopEnds ==
  /\ pc = "idle" /\ inFlight = {} /\ \A p \in Plugins : orphans[p] = 0
  /\ Exit(0)
  /\ UNCHANGED <<role, parts, waitsFor, db, shuttingDown, failing, drained, reads, requests, delivering>>

(***************************************************************************)
(* startServer: what is started runs until the next await, or throws.      *)
(***************************************************************************)
Fails(started) ==
  /\ failing' = TRUE /\ StopParts(started) /\ UNCHANGED code

Refuses ==
  /\ pc = "start" /\ Exit(1)
  /\ UNCHANGED <<role, parts, waitsFor, db, shuttingDown, failing, drained, reads, requests, delivering>>

OpensDb ==
  /\ pc = "start" /\ role = "server"
  /\ db' = "open"
  /\ \E begun \in Prefixes(First) :
       \/ begun = First /\ pc' = "device" /\ parts' = ToSet(First)
          /\ UNCHANGED <<waitsFor, failing, drained, code>>
       \/ Fails(ToSet(begun))
  /\ UNCHANGED <<role, shuttingDown, reads, requests, delivering>>

(* The scheduler's first polls are part of its start. *)
StartsParts ==
  /\ pc = "device"
  /\ \E begun \in Prefixes(Rest) :
       /\ inFlight' = IF "scheduler" \in ToSet(begun) THEN Plugins ELSE {}
       /\ \/ begun = Rest /\ pc' = "listen" /\ parts' = parts \cup ToSet(Rest)
             /\ UNCHANGED <<waitsFor, failing, drained, code>>
          \/ Fails(parts \cup ToSet(begun))
  /\ UNCHANGED <<role, db, shuttingDown, orphans, reported, requests, delivering>>

Listens ==
  /\ pc = "listen"
  /\ \/ pc' = "up" /\ UNCHANGED <<parts, waitsFor, failing, drained, code>>
     \/ Fails(parts)
  /\ UNCHANGED <<role, db, shuttingDown, reads, requests, delivering>>

CollectorStarts ==
  /\ pc = "start" /\ role = "collector"
  /\ pc' = "up" /\ db' = "open" /\ parts' = ToSet(OwnParts) /\ inFlight' = Plugins
  /\ UNCHANGED <<role, waitsFor, shuttingDown, failing, drained, code, orphans, reported,
                 requests, delivering>>

(* The collector's handlers are there once it has started. *)
Signal ==
  /\ pc # "ended" /\ (role = "collector" => pc # "start")
  /\ IF shuttingDown THEN Exit(1) ELSE UNCHANGED <<pc, code>>
  /\ shuttingDown' = TRUE
  /\ UNCHANGED <<role, parts, waitsFor, db, failing, drained, reads, requests, delivering>>

(* stop(), once the start is done. *)
Stops ==
  /\ pc = "up" /\ shuttingDown
  /\ StopParts(parts)
  /\ UNCHANGED <<role, db, shuttingDown, failing, code, reads, requests, delivering>>

(***************************************************************************)
(* The scheduler.                                                          *)
(***************************************************************************)
(* Mutant: one read more may hang. *)
HangsTooOften(p) == orphans[p] > MAX_ORPHANED_READS
AtLimit(p) == orphans[p] >= MAX_ORPHANED_READS

Polls(p) ==
  /\ "scheduler" \in parts /\ p \notin inFlight
  /\ IF AtLimit(p) THEN reported' = reported \cup {p} /\ UNCHANGED inFlight
                   ELSE inFlight' = inFlight \cup {p} /\ UNCHANGED reported
  /\ UNCHANGED <<process, orphans, requests, delivering>>

(* A value is stored, null skipped, an error reported: the slot is free. *)
Answers(p) ==
  /\ p \in inFlight /\ inFlight' = inFlight \ {p}
  /\ UNCHANGED <<process, orphans, reported, requests, delivering>>

DeadlinePasses(p) ==
  /\ p \in inFlight /\ inFlight' = inFlight \ {p}
  /\ orphans' = [orphans EXCEPT ![p] = @ + 1]
  /\ UNCHANGED <<process, reported, requests, delivering>>

OrphanSettles(p) ==
  /\ orphans[p] > 0
  /\ orphans' = [orphans EXCEPT ![p] = @ - 1] /\ reported' = reported \ {p}
  /\ UNCHANGED <<process, inFlight, requests, delivering>>

Read(p) == Polls(p) \/ Answers(p) \/ DeadlinePasses(p) \/ OrphanSettles(p)

(***************************************************************************)
(* Other work that uses the database.                                      *)
(***************************************************************************)
RequestArrives ==
  /\ pc = "up" /\ "app" \in parts /\ requests = 0 /\ requests' = 1
  /\ UNCHANGED <<process, reads, delivering>>
RequestEnds == requests = 1 /\ requests' = 0 /\ UNCHANGED <<process, reads, delivering>>
DeliveryBegins ==
  /\ "notifications" \in parts /\ ~delivering /\ delivering' = TRUE
  /\ UNCHANGED <<process, reads, requests>>
DeliveryEnds == delivering /\ delivering' = FALSE /\ UNCHANGED <<process, reads, requests>>

Init ==
  /\ role \in {"server", "collector"}
  /\ pc = "start" /\ parts = {} /\ waitsFor = {} /\ db = "none"
  /\ inFlight = {} /\ orphans = [p \in Plugins |-> 0] /\ reported = {}
  /\ requests = 0 /\ delivering = FALSE
  /\ shuttingDown = FALSE /\ failing = FALSE /\ drained = TRUE /\ code = None

Stopping == AppCloses \/ NotificationsStop \/ SchedulerStops \/ Closes \/ LoopEnds \/ Stops
Starting == Refuses \/ OpensDb \/ StartsParts \/ Listens \/ CollectorStarts
Working == RequestArrives \/ RequestEnds \/ DeliveryBegins \/ DeliveryEnds

Live == pc # "ended"
Next ==
  /\ Live
  /\ \/ Starting \/ Stopping \/ Signal \/ Working
     \/ \E p \in Plugins : Read(p)

Spec == Init /\ [][Next]_vars

(* Awaited work ends: a start's awaits, requests, deliveries (they time out), *)
(* the time-out of a stop.  A read need never settle.                         *)
Fairness ==
  /\ WF_vars(Live /\ Starting)
  /\ WF_vars(Live /\ AppCloses) /\ WF_vars(Live /\ NotificationsStop) /\ WF_vars(Live /\ SchedulerStops)
  /\ WF_vars(Live /\ Closes) /\ WF_vars(Live /\ LoopEnds) /\ WF_vars(Live /\ Stops)
  /\ WF_vars(Live /\ RequestEnds) /\ WF_vars(Live /\ DeliveryEnds)
FairSpec == Spec /\ Fairness

(***************************************************************************)
(* Properties.                                                             *)
(***************************************************************************)
(* The database is closed last, after a start that failed half-way too: no   *)
(* request, message or read still needs it, unless a read did not end in     *)
(* time and the process exits (runtime.ts:83-95, 372-374).                   *)
DbClosesLast == db = "closed" =>
  /\ parts = {} /\ requests = 0 /\ ~delivering
  /\ inFlight = {} \/ pc = "ended"

(* However often reads hang, a limited number of them do: one that returns   *)
(* frees one slot (scheduler.ts:151-179).                                    *)
HangingBounded == \A p \in Plugins :
  orphans[p] + (IF p \in inFlight THEN 1 ELSE 0) <= MAX_ORPHANED_READS

(* A signal ends the process, in the middle of its start too, unless a read  *)
(* that was given up still hangs (server.ts:20-36, scheduler.ts:186-201).    *)
Ended == pc = "ended"
SomeHang == \E p \in Plugins : orphans[p] > 0
SignalEnds == shuttingDown ~> Ended \/ SomeHang

(* A signal ends the process: "A hung read may still hold the event loop     *)
(* open; don't wait on it." (server.ts:33)                                   *)
HungReadsAreNotWaitedFor == shuttingDown ~> Ended
=============================================================================
