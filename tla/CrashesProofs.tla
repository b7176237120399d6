--------------------------- MODULE CrashesProofs ---------------------------
(***************************************************************************)
(* What stops half-way, and what must hold of it.  For any plugins and any *)
(* limit on reads that hang: the limit is kept, and nothing that still     *)
(* needs the database is left when it is closed.  For any certificate      *)
(* authorities, backups and kills: a change of the CA happens as a whole.  *)
(* The latter are the theorems of CaJournalProofs, of the commands as they *)
(* run in MCCrashes.                                                       *)
(***************************************************************************)
EXTENDS MCCrashes, TLAPS

Pcs == {"start", "device", "listen", "up", "stopping", "idle", "ended"}
NotStopping == {"start", "device", "listen", "up"}

Typed ==
  /\ pc \in Pcs /\ requests \in {0, 1}
  /\ delivering \in BOOLEAN /\ drained \in BOOLEAN
  /\ inFlight \in SUBSET Plugins
  /\ orphans \in [Plugins -> Nat]

(* Nothing reads before the scheduler is started. *)
NotYet ==
  /\ pc = "start" => parts = {}
  /\ pc \in {"start", "device"} =>
       /\ "scheduler" \notin parts
       /\ inFlight = {} /\ \A p \in Plugins : orphans[p] = 0

HangingInv == Typed /\ NotYet /\ HangingBounded

(* What is under way belongs to a part that runs or is waited for. *)
Owned ==
  /\ requests = 1 => "app" \in parts \cup waitsFor
  /\ delivering => "notifications" \in parts \cup waitsFor
  /\ inFlight # {} => "scheduler" \in parts \cup waitsFor \/ ~drained

(* How far the stop has come says what is left to wait for. *)
InTurn ==
  /\ pc \in NotStopping => waitsFor = {} /\ drained /\ db # "closed"
  /\ pc \in {"stopping", "idle"} => parts = {}
  /\ pc = "stopping" => db # "closed"
  /\ pc = "idle" => waitsFor = {} /\ drained
  /\ db = "closed" => parts = {} /\ waitsFor = {} /\ (drained \/ pc = "ended")

ClosingInv == Typed /\ NotYet /\ Owned /\ InTurn

(* The device is asked for before there is a scheduler. *)
LEMMA StartedParts ==
  /\ ToSet(First) = {"notifications", "updates"}
  /\ ToSet(OwnParts) = {"housekeeping", "scheduler"}
<1>1. First = <<"notifications", "updates">> /\ DOMAIN First = 1 .. 2
  BY DEF First
<1>2. OwnParts = <<"housekeeping", "scheduler">> /\ DOMAIN OwnParts = 1 .. 2
  BY DEF OwnParts
<1> QED
  BY <1>1, <1>2 DEF ToSet

LEMMA InitTyped == Init => Typed
<1> SUFFICES ASSUME Init PROVE Typed
  OBVIOUS
<1>1. pc \in Pcs /\ requests \in {0, 1} /\ inFlight \in SUBSET Plugins
  BY DEF Init, Pcs
<1>2. delivering \in BOOLEAN /\ drained \in BOOLEAN
  BY DEF Init
<1>3. orphans \in [Plugins -> Nat]
  BY DEF Init
<1> QED
  BY <1>1, <1>2, <1>3 DEF Typed

LEMMA TypedStep ==
  ASSUME Typed, [Next]_vars
  PROVE  Typed'
<1>1. CASE Refuses
  BY <1>1 DEF Refuses, Exit, Typed, Pcs, process, reads
<1>2. CASE OpensDb
  BY <1>2 DEF OpensDb, Fails, StopParts, Typed, Pcs, process, reads
<1>3. CASE StartsParts
  BY <1>3 DEF StartsParts, Fails, StopParts, Typed, Pcs, process, reads
<1>4. CASE Listens
  BY <1>4 DEF Listens, Fails, StopParts, Typed, Pcs, process, reads
<1>5. CASE CollectorStarts
  BY <1>5 DEF CollectorStarts, Typed, Pcs, process, reads
<1>6. CASE AppCloses
  BY <1>6 DEF AppCloses, Typed, Pcs, process, reads
<1>7. CASE NotificationsStop
  BY <1>7 DEF NotificationsStop, Typed, Pcs, process, reads
<1>8. CASE SchedulerStops
  BY <1>8 DEF SchedulerStops, Drained, Typed, Pcs, process, reads
<1>9. CASE Closes
  BY <1>9 DEF Closes, Exit, MustExit, Typed, Pcs, process, reads
<1>10. CASE LoopEnds
  BY <1>10 DEF LoopEnds, Exit, Typed, Pcs, process, reads
<1>11. CASE Stops
  BY <1>11 DEF Stops, StopParts, Typed, Pcs, process, reads
<1>12. CASE Signal
  BY <1>12 DEF Signal, Exit, Typed, Pcs, process, reads
<1>13. CASE Working
  BY <1>13 DEF Working, RequestArrives, RequestEnds, DeliveryBegins, DeliveryEnds, Typed, Pcs, process, reads
<1>14. ASSUME NEW p \in Plugins, Read(p) PROVE Typed'
  <2>1. CASE Polls(p)
    BY <2>1 DEF Polls, Typed, Pcs, process, reads
  <2>2. CASE Answers(p)
    BY <2>2 DEF Answers, Typed, Pcs, process, reads
  <2>3. CASE DeadlinePasses(p)
    BY <2>3 DEF DeadlinePasses, Typed, Pcs, process, reads
  <2>4. CASE OrphanSettles(p)
    BY <2>4 DEF OrphanSettles, Typed, Pcs, process, reads
  <2> QED
    BY <1>14, <2>1, <2>2, <2>3, <2>4 DEF Read
<1>15. CASE UNCHANGED vars
  BY <1>15 DEF vars, process, reads, Typed, Pcs
<1> QED
  BY <1>1, <1>2, <1>3, <1>4, <1>5, <1>6, <1>7, <1>8, <1>9, <1>10, <1>11, <1>12, <1>13, <1>14, <1>15 DEF Next, Starting, Stopping

LEMMA NotYetStep ==
  ASSUME Typed, NotYet, [Next]_vars
  PROVE  NotYet'
<1>1. CASE Refuses
  BY <1>1 DEF Refuses, Exit, Typed, NotYet, process, reads
<1>2. CASE OpensDb
  BY <1>2, StartedParts DEF OpensDb, Fails, StopParts, Typed, NotYet, process, reads
<1>3. CASE StartsParts
  BY <1>3 DEF StartsParts, Fails, StopParts, Typed, NotYet, process, reads
<1>4. CASE Listens
  BY <1>4 DEF Listens, Fails, StopParts, Typed, NotYet, process, reads
<1>5. CASE CollectorStarts
  BY <1>5 DEF CollectorStarts, Typed, NotYet, process, reads
<1>6. CASE AppCloses
  BY <1>6 DEF AppCloses, Typed, NotYet, process, reads
<1>7. CASE NotificationsStop
  BY <1>7 DEF NotificationsStop, Typed, NotYet, process, reads
<1>8. CASE SchedulerStops
  BY <1>8 DEF SchedulerStops, Drained, Typed, NotYet, process, reads
<1>9. CASE Closes
  BY <1>9 DEF Closes, Exit, MustExit, Typed, NotYet, process, reads
<1>10. CASE LoopEnds
  BY <1>10 DEF LoopEnds, Exit, Typed, NotYet, process, reads
<1>11. CASE Stops
  BY <1>11 DEF Stops, StopParts, Typed, NotYet, process, reads
<1>12. CASE Signal
  BY <1>12 DEF Signal, Exit, Typed, NotYet, process, reads
<1>13. CASE Working
  BY <1>13 DEF Working, RequestArrives, RequestEnds, DeliveryBegins, DeliveryEnds, Typed, NotYet, process, reads
<1>14. ASSUME NEW p \in Plugins, Read(p) PROVE NotYet'
  <2>1. CASE Polls(p)
    BY <2>1 DEF Polls, Typed, NotYet, process, reads
  <2>2. CASE Answers(p)
    BY <2>2 DEF Answers, Typed, NotYet, process, reads
  <2>3. CASE DeadlinePasses(p)
    BY <2>3 DEF DeadlinePasses, Typed, NotYet, process, reads
  <2>4. CASE OrphanSettles(p)
    BY <2>4 DEF OrphanSettles, Typed, NotYet, process, reads
  <2> QED
    BY <1>14, <2>1, <2>2, <2>3, <2>4 DEF Read
<1>15. CASE UNCHANGED vars
  BY <1>15 DEF vars, process, reads, Typed, NotYet
<1> QED
  BY <1>1, <1>2, <1>3, <1>4, <1>5, <1>6, <1>7, <1>8, <1>9, <1>10, <1>11, <1>12, <1>13, <1>14, <1>15 DEF Next, Starting, Stopping

(* A read begins below the limit, and one that hangs was counted before it did. *)
LEMMA HangingStep ==
  ASSUME HangingInv, [Next]_vars
  PROVE  HangingBounded'
<1>1. CASE Refuses
  BY <1>1 DEF Refuses, Exit, HangingInv, Typed, NotYet, HangingBounded, process, reads
<1>2. CASE OpensDb
  BY <1>2 DEF OpensDb, Fails, StopParts, HangingInv, Typed, NotYet, HangingBounded, process, reads
<1>3. CASE StartsParts
  BY <1>3, ServerProcessAssumption DEF StartsParts, Fails, StopParts, HangingInv, Typed, NotYet, HangingBounded, process, reads
<1>4. CASE Listens
  BY <1>4 DEF Listens, Fails, StopParts, HangingInv, Typed, NotYet, HangingBounded, process, reads
<1>5. CASE CollectorStarts
  BY <1>5, ServerProcessAssumption DEF CollectorStarts, HangingInv, Typed, NotYet, HangingBounded, process, reads
<1>6. CASE AppCloses
  BY <1>6 DEF AppCloses, HangingInv, Typed, NotYet, HangingBounded, process, reads
<1>7. CASE NotificationsStop
  BY <1>7 DEF NotificationsStop, HangingInv, Typed, NotYet, HangingBounded, process, reads
<1>8. CASE SchedulerStops
  BY <1>8 DEF SchedulerStops, Drained, HangingInv, Typed, NotYet, HangingBounded, process, reads
<1>9. CASE Closes
  BY <1>9 DEF Closes, Exit, MustExit, HangingInv, Typed, NotYet, HangingBounded, process, reads
<1>10. CASE LoopEnds
  BY <1>10 DEF LoopEnds, Exit, HangingInv, Typed, NotYet, HangingBounded, process, reads
<1>11. CASE Stops
  BY <1>11 DEF Stops, StopParts, HangingInv, Typed, NotYet, HangingBounded, process, reads
<1>12. CASE Signal
  BY <1>12 DEF Signal, Exit, HangingInv, Typed, NotYet, HangingBounded, process, reads
<1>13. CASE Working
  BY <1>13 DEF Working, RequestArrives, RequestEnds, DeliveryBegins, DeliveryEnds, HangingInv, Typed, NotYet, HangingBounded, process, reads
<1>14. ASSUME NEW p \in Plugins, Read(p) PROVE HangingBounded'
  <2>1. SUFFICES ASSUME NEW q \in Plugins
                 PROVE  orphans'[q] + (IF q \in inFlight' THEN 1 ELSE 0) <= MAX_ORPHANED_READS
    BY DEF HangingBounded
  <2>2. /\ orphans \in [Plugins -> Nat] /\ orphans[q] \in Nat /\ orphans[p] \in Nat
        /\ MAX_ORPHANED_READS \in Nat
        /\ orphans[q] + (IF q \in inFlight THEN 1 ELSE 0) <= MAX_ORPHANED_READS
    BY ServerProcessAssumption DEF HangingInv, Typed, HangingBounded
  <2>3. CASE Polls(p)
    <3>1. CASE q = p
      BY <2>2, <2>3, <3>1 DEF Polls, AtLimit
    <3>2. CASE q # p
      BY <2>2, <2>3, <3>2 DEF Polls
    <3> QED
      BY <3>1, <3>2
  <2>4. CASE Answers(p)
    <3>1. orphans' = orphans /\ inFlight' = inFlight \ {p}
      BY <2>4 DEF Answers
    <3> QED
      BY <2>2, <3>1
  <2>5. CASE DeadlinePasses(p)
    <3>1. p \in inFlight /\ inFlight' = inFlight \ {p} /\ orphans' = [orphans EXCEPT ![p] = orphans[p] + 1]
      BY <2>5 DEF DeadlinePasses
    <3>2. CASE q = p
      BY <2>2, <3>1, <3>2
    <3>3. CASE q # p
      BY <2>2, <3>1, <3>3
    <3> QED
      BY <3>2, <3>3
  <2>6. CASE OrphanSettles(p)
    <3>1. inFlight' = inFlight /\ orphans' = [orphans EXCEPT ![p] = orphans[p] - 1]
      BY <2>6 DEF OrphanSettles
    <3>2. CASE q = p
      BY <2>2, <3>1, <3>2
    <3>3. CASE q # p
      BY <2>2, <3>1, <3>3
    <3> QED
      BY <3>2, <3>3
  <2> QED
    BY <1>14, <2>3, <2>4, <2>5, <2>6 DEF Read
<1>15. CASE UNCHANGED vars
  BY <1>15 DEF vars, process, reads, HangingInv, Typed, NotYet, HangingBounded
<1> QED
  BY <1>1, <1>2, <1>3, <1>4, <1>5, <1>6, <1>7, <1>8, <1>9, <1>10, <1>11, <1>12, <1>13, <1>14, <1>15 DEF Next, Starting, Stopping

(* What a start leaves: its parts run, or those begun are told to stop. *)
LEMMA OpensDbGoes ==
  ASSUME OpensDb
  PROVE  /\ pc = "start" /\ db' = "open" /\ UNCHANGED <<inFlight, requests, delivering>>
         /\ \/ pc' = "device" /\ UNCHANGED <<waitsFor, drained>>
            \/ pc' = "stopping" /\ parts' = {} /\ drained'
<1>1. PICK begun \in Prefixes(First) :
        \/ pc' = "device" /\ UNCHANGED <<waitsFor, drained>>
        \/ Fails(ToSet(begun))
  BY DEF OpensDb
<1> QED
  BY <1>1 DEF OpensDb, Fails, StopParts, reads

LEMMA StartsPartsGoes ==
  ASSUME StartsParts
  PROVE  /\ pc = "device" /\ UNCHANGED <<db, requests, delivering>>
         /\ \E started :
              /\ parts \subseteq started
              /\ inFlight' # {} => "scheduler" \in started
              /\ \/ pc' = "listen" /\ parts' = started /\ UNCHANGED <<waitsFor, drained>>
                 \/ pc' = "stopping" /\ parts' = {} /\ drained'
                    /\ waitsFor' = started \cap {"app", "scheduler", "notifications"}
<1>1. PICK begun \in Prefixes(Rest) :
        /\ inFlight' = IF "scheduler" \in ToSet(begun) THEN Plugins ELSE {}
        /\ \/ begun = Rest /\ pc' = "listen" /\ parts' = parts \cup ToSet(Rest)
              /\ UNCHANGED <<waitsFor, drained>>
           \/ Fails(parts \cup ToSet(begun))
  BY DEF StartsParts
<1> DEFINE started == parts \cup ToSet(begun)
<1>2. parts \subseteq started /\ (inFlight' # {} => "scheduler" \in started)
  BY <1>1
<1>3. \/ pc' = "listen" /\ parts' = started /\ UNCHANGED <<waitsFor, drained>>
      \/ pc' = "stopping" /\ parts' = {} /\ drained'
         /\ waitsFor' = started \cap {"app", "scheduler", "notifications"}
  BY <1>1 DEF Fails, StopParts
<1>4. pc = "device" /\ UNCHANGED <<db, requests, delivering>>
  BY DEF StartsParts
<1> HIDE DEF started
<1> QED
  BY <1>2, <1>3, <1>4

LEMMA OwnedStep ==
  ASSUME ClosingInv, [Next]_vars
  PROVE  Owned'
<1>1. CASE Refuses
  BY <1>1 DEF Refuses, Exit, ClosingInv, Typed, NotYet, Owned, InTurn, NotStopping, process, reads
<1>2. CASE OpensDb
  BY <1>2, StartedParts DEF OpensDb, Fails, StopParts, ClosingInv, Typed, NotYet, Owned, InTurn, NotStopping, process, reads
<1>3. CASE StartsParts
  <2>1. /\ pc = "device" /\ waitsFor = {} /\ UNCHANGED <<requests, delivering>>
        /\ requests = 1 => "app" \in parts
        /\ delivering => "notifications" \in parts
    BY <1>3, StartsPartsGoes DEF ClosingInv, Owned, InTurn, NotStopping
  <2>2. PICK started :
          /\ parts \subseteq started
          /\ inFlight' # {} => "scheduler" \in started
          /\ \/ parts' = started
             \/ waitsFor' = started \cap {"app", "scheduler", "notifications"}
    BY <1>3, StartsPartsGoes
  <2> QED
    BY <2>1, <2>2 DEF Owned
<1>4. CASE Listens
  BY <1>4 DEF Listens, Fails, StopParts, ClosingInv, Typed, NotYet, Owned, InTurn, NotStopping, process, reads
<1>5. CASE CollectorStarts
  <2>1. "scheduler" \in parts' /\ requests # 1 /\ ~delivering
    BY <1>5, StartedParts DEF CollectorStarts, ClosingInv, NotYet, Owned, InTurn, NotStopping
  <2>2. UNCHANGED <<requests, delivering>>
    BY <1>5 DEF CollectorStarts
  <2> QED
    BY <2>1, <2>2 DEF Owned
<1>6. CASE AppCloses
  BY <1>6 DEF AppCloses, ClosingInv, Typed, NotYet, Owned, InTurn, NotStopping, process, reads
<1>7. CASE NotificationsStop
  BY <1>7 DEF NotificationsStop, ClosingInv, Typed, NotYet, Owned, InTurn, NotStopping, process, reads
<1>8. CASE SchedulerStops
  BY <1>8 DEF SchedulerStops, Drained, ClosingInv, Typed, NotYet, Owned, InTurn, NotStopping, process, reads
<1>9. CASE Closes
  BY <1>9 DEF Closes, Exit, MustExit, ClosingInv, Typed, NotYet, Owned, InTurn, NotStopping, process, reads
<1>10. CASE LoopEnds
  BY <1>10 DEF LoopEnds, Exit, ClosingInv, Typed, NotYet, Owned, InTurn, NotStopping, process, reads
<1>11. CASE Stops
  BY <1>11 DEF Stops, StopParts, ClosingInv, Typed, NotYet, Owned, InTurn, NotStopping, process, reads
<1>12. CASE Signal
  BY <1>12 DEF Signal, Exit, ClosingInv, Typed, NotYet, Owned, InTurn, NotStopping, process, reads
<1>13. CASE Working
  BY <1>13 DEF Working, RequestArrives, RequestEnds, DeliveryBegins, DeliveryEnds, ClosingInv, Typed, NotYet, Owned, InTurn, NotStopping, process, reads
<1>14. ASSUME NEW p \in Plugins, Read(p) PROVE Owned'
  <2>1. CASE Polls(p)
    BY <2>1 DEF Polls, ClosingInv, Typed, NotYet, Owned, InTurn, NotStopping, process, reads
  <2>2. CASE Answers(p)
    BY <2>2 DEF Answers, ClosingInv, Typed, NotYet, Owned, InTurn, NotStopping, process, reads
  <2>3. CASE DeadlinePasses(p)
    BY <2>3 DEF DeadlinePasses, ClosingInv, Typed, NotYet, Owned, InTurn, NotStopping, process, reads
  <2>4. CASE OrphanSettles(p)
    BY <2>4 DEF OrphanSettles, ClosingInv, Typed, NotYet, Owned, InTurn, NotStopping, process, reads
  <2> QED
    BY <1>14, <2>1, <2>2, <2>3, <2>4 DEF Read
<1>15. CASE UNCHANGED vars
  BY <1>15 DEF vars, process, reads, ClosingInv, Typed, NotYet, Owned, InTurn, NotStopping
<1> QED
  BY <1>1, <1>2, <1>3, <1>4, <1>5, <1>6, <1>7, <1>8, <1>9, <1>10, <1>11, <1>12, <1>13, <1>14, <1>15 DEF Next, Starting, Stopping

LEMMA InTurnStep ==
  ASSUME ClosingInv, [Next]_vars
  PROVE  InTurn'
<1>1. CASE Refuses
  BY <1>1 DEF Refuses, Exit, ClosingInv, Typed, Pcs, NotYet, Owned, InTurn, NotStopping, process, reads
<1>2. CASE OpensDb
  BY <1>2, OpensDbGoes DEF ClosingInv, InTurn, NotStopping
<1>3. CASE StartsParts
  BY <1>3, StartsPartsGoes DEF ClosingInv, InTurn, NotStopping
<1>4. CASE Listens
  BY <1>4 DEF Listens, Fails, StopParts, ClosingInv, Typed, Pcs, NotYet, Owned, InTurn, NotStopping, process, reads
<1>5. CASE CollectorStarts
  BY <1>5 DEF CollectorStarts, ClosingInv, Typed, Pcs, NotYet, Owned, InTurn, NotStopping, process, reads
<1>6. CASE AppCloses
  BY <1>6 DEF AppCloses, ClosingInv, Typed, Pcs, NotYet, Owned, InTurn, NotStopping, process, reads
<1>7. CASE NotificationsStop
  BY <1>7 DEF NotificationsStop, ClosingInv, Typed, Pcs, NotYet, Owned, InTurn, NotStopping, process, reads
<1>8. CASE SchedulerStops
  BY <1>8 DEF SchedulerStops, Drained, ClosingInv, Typed, Pcs, NotYet, Owned, InTurn, NotStopping, process, reads
<1>9. CASE Closes
  BY <1>9 DEF Closes, Exit, MustExit, ClosingInv, Typed, Pcs, NotYet, Owned, InTurn, NotStopping, process, reads
<1>10. CASE LoopEnds
  BY <1>10 DEF LoopEnds, Exit, ClosingInv, Typed, Pcs, NotYet, Owned, InTurn, NotStopping, process, reads
<1>11. CASE Stops
  BY <1>11 DEF Stops, StopParts, ClosingInv, Typed, Pcs, NotYet, Owned, InTurn, NotStopping, process, reads
<1>12. CASE Signal
  BY <1>12 DEF Signal, Exit, ClosingInv, Typed, Pcs, NotYet, Owned, InTurn, NotStopping, process, reads
<1>13. CASE Working
  BY <1>13 DEF Working, RequestArrives, RequestEnds, DeliveryBegins, DeliveryEnds, ClosingInv, Typed, Pcs, NotYet, Owned, InTurn, NotStopping, process, reads
<1>14. ASSUME NEW p \in Plugins, Read(p) PROVE InTurn'
  <2>1. CASE Polls(p)
    BY <2>1 DEF Polls, ClosingInv, Typed, Pcs, NotYet, Owned, InTurn, NotStopping, process, reads
  <2>2. CASE Answers(p)
    BY <2>2 DEF Answers, ClosingInv, Typed, Pcs, NotYet, Owned, InTurn, NotStopping, process, reads
  <2>3. CASE DeadlinePasses(p)
    BY <2>3 DEF DeadlinePasses, ClosingInv, Typed, Pcs, NotYet, Owned, InTurn, NotStopping, process, reads
  <2>4. CASE OrphanSettles(p)
    BY <2>4 DEF OrphanSettles, ClosingInv, Typed, Pcs, NotYet, Owned, InTurn, NotStopping, process, reads
  <2> QED
    BY <1>14, <2>1, <2>2, <2>3, <2>4 DEF Read
<1>15. CASE UNCHANGED vars
  BY <1>15 DEF vars, process, reads, ClosingInv, Typed, Pcs, NotYet, Owned, InTurn, NotStopping
<1> QED
  BY <1>1, <1>2, <1>3, <1>4, <1>5, <1>6, <1>7, <1>8, <1>9, <1>10, <1>11, <1>12, <1>13, <1>14, <1>15 DEF Next, Starting, Stopping

(***************************************************************************)
(* The server, by itself and as one of the parts of MCCrashes.             *)
(***************************************************************************)
LEMMA InitServer == Init \/ NoServer => HangingInv /\ ClosingInv
<1>1. Init => HangingInv /\ ClosingInv
  BY InitTyped, ServerProcessAssumption
     DEF Init, NotYet, Owned, InTurn, NotStopping, HangingBounded, HangingInv, ClosingInv
<1>2. ASSUME NoServer PROVE HangingInv /\ ClosingInv
  <2>1. \A p \in Plugins : orphans[p] = 0 /\ p \notin inFlight
    BY <1>2 DEF NoServer
  <2>2. Typed
    <3>1. orphans \in [Plugins -> Nat]
      BY <1>2 DEF NoServer
    <3> QED
      BY <1>2, <3>1 DEF NoServer, Typed, Pcs
  <2>3. HangingBounded
    BY <2>1, ServerProcessAssumption DEF HangingBounded
  <2>4. NotYet /\ Owned /\ InTurn
    BY <1>2 DEF NoServer, NotYet, Owned, InTurn, NotStopping
  <2> QED
    BY <2>2, <2>3, <2>4 DEF HangingInv, ClosingInv
<1> QED
  BY <1>1, <1>2

LEMMA HangingNext == HangingInv /\ [Next]_vars => HangingInv'
BY TypedStep, NotYetStep, HangingStep DEF HangingInv

LEMMA ClosingNext == ClosingInv /\ [Next]_vars => ClosingInv'
BY TypedStep, NotYetStep, OwnedStep, InTurnStep DEF ClosingInv

LEMMA Closing == ClosingInv => DbClosesLast
BY DEF ClosingInv, Typed, Owned, InTurn, DbClosesLast

LEMMA ServerSteps == [CrashesNext]_<<part, vars, ca>> => [Next]_vars
BY DEF CrashesNext, ca, vars, process, reads

(***************************************************************************)
(* The theorems.                                                           *)
(***************************************************************************)
(* For every set of plugins and every limit, no plugin has more reads under  *)
(* way or hanging than the limit (scheduler.ts:151-179): what a read adds    *)
(* when it is given up was counted when it began.                            *)
THEOREM HangingCorrect == (Spec \/ CrashesSpec) => []HangingBounded
<1>1. Init \/ CrashesInit => HangingInv
  BY InitServer DEF CrashesInit
<1>2. HangingInv => HangingBounded
  BY DEF HangingInv
<1>3. Spec => []HangingBounded
  BY <1>1, <1>2, HangingNext, PTL DEF Spec
<1>4. CrashesSpec => []HangingBounded
  BY <1>1, <1>2, HangingNext, ServerSteps, PTL DEF CrashesSpec
<1> QED
  BY <1>3, <1>4

(* However the start fails and the signals come, the database is closed when *)
(* no request, message or read needs it, or the process exits at once        *)
(* (runtime.ts:83-95): what is under way belongs to a part that is waited    *)
(* for, and a read that was not waited for makes the process exit.           *)
THEOREM DbClosesLastCorrect == (Spec \/ CrashesSpec) => []DbClosesLast
<1>1. Init \/ CrashesInit => ClosingInv
  BY InitServer DEF CrashesInit
<1>2. Spec => []DbClosesLast
  BY <1>1, Closing, ClosingNext, PTL DEF Spec
<1>3. CrashesSpec => []DbClosesLast
  BY <1>1, Closing, ClosingNext, ServerSteps, PTL DEF CrashesSpec
<1> QED
  BY <1>2, <1>3

(***************************************************************************)
(* The commands: what CaJournalProofs shows of CaJournal's Spec.           *)
(***************************************************************************)
LEMMA PartOfJournal == CrashesSpec => Journal!Spec
<1>1. CrashesInit => Journal!Init
  BY DEF CrashesInit
<1>2. [CrashesNext]_<<part, vars, ca>> => [Journal!Next]_Journal!vars
  BY DEF CrashesNext, ca, Journal!vars, Journal!disk, Journal!command
<1> QED
  BY <1>1, <1>2, PTL DEF CrashesSpec, Journal!Spec

(* Wherever commands and their recoveries are killed: with no change pending *)
(* the public files are all of the CA in ca/, and while one is installed     *)
(* leaf.pem is never of a CA that ca.crt does not show (journal.ts:51,       *)
(* 95-100, 138-142).                                                         *)
THEOREM PublicCorrect ==
  ASSUME Journal!JournalAssumption
  PROVE  CrashesSpec => []PublicFollows
<1>1. Journal!Spec => []Journal!PublicFollows
  BY Journal!PublicFilesFollow
<1>2. Journal!Spec => []Journal!LeafLast
  BY Journal!LeafComesLast
<1>3. Journal!PublicFollows /\ Journal!LeafLast => PublicFollows
  BY DEF PublicFollows
<1> QED
  BY <1>1, <1>2, <1>3, PartOfJournal, PTL

(* However many changes are made, given up and recovered: no more than two   *)
(* backups are left between commands, and one more for each command killed   *)
(* before it pruned (cli/cmd-ca.ts:92-96).                                   *)
THEOREM BackupsCorrect ==
  ASSUME Journal!JournalAssumption
  PROVE  CrashesSpec => []BackupsBounded
<1>1. Journal!Spec => []Journal!BackupsBounded
  BY Journal!BackupsStayFew
<1> QED
  BY <1>1, PartOfJournal, PTL DEF BackupsBounded

(* A change of the CA happens as a whole or not at all: seen through what is *)
(* recovered, the steps of a command, its kills and the recoveries are steps *)
(* of CaChange, or change nothing (journal.ts:158-163).                      *)
THEOREM AtomicCorrect ==
  ASSUME Journal!JournalAssumption
  PROVE  CrashesSpec => AtomicChange
<1>1. Journal!Spec => Journal!AtomicChange
  BY Journal!ChangeIsAtomic
<1> QED
  BY <1>1, PartOfJournal, PTL DEF AtomicChange
=============================================================================
