------------------------------ MODULE Updates ------------------------------
(***************************************************************************)
(* packages/api/src/updates.ts: whether upgrades are waiting, found by     *)
(* simulating apt-get on a timer and when somebody asks.  Checks that are  *)
(* asked for while one runs share it, and a manual one soon after another  *)
(* is answered from it.  What apt prints is abstracted to the time it      *)
(* looked at the packages.                                                 *)
(***************************************************************************)
EXTENDS Integers, FiniteSets

CONSTANTS
  None, Askers,            \* those who press Check now
  TIMEOUT, MANUAL_GAP, FIRST_CHECK, CHECK_INTERVAL,
  MaxTime                  \* bound

UpdatesAssumption ==
  /\ TIMEOUT \in Nat \ {0} /\ MANUAL_GAP \in Nat \ {0}
  /\ FIRST_CHECK \in Nat \ {0} /\ CHECK_INTERVAL \in Nat \ {0}

VARIABLES
  time,        \* of the monotonic clock
  aptPresent,  \* whether apt-get is installed
  view,        \* what it holds: its state, and when apt looked
  running,     \* the check that runs: its step, since when, and when apt looked
  finishedAt,
  first, every,  \* when the timers fire
  asking,      \* those waiting for the check that runs, and since when
  told         \* history: how long before they were asked for the last answers had looked

timers == <<first, every>>
vars == <<time, aptPresent, view, running, finishedAt, timers, asking, told>>

Age(v, at) == IF v.state = "ok" THEN at - v.looked ELSE 0
View(state, looked) == [state |-> state, looked |-> looked]

(* Each command is killed when it overruns. *)
Overrun(at) == running # None /\ at - running.since >= TIMEOUT

Start ==
  /\ first = None /\ every = None
  /\ first' = time + FIRST_CHECK
  /\ UNCHANGED <<time, aptPresent, view, running, finishedAt, every, asking, told>>

Stop ==
  /\ first' = None /\ every' = None
  /\ UNCHANGED <<time, aptPresent, view, running, finishedAt, asking, told>>

Begun == [step |-> "simulate", since |-> time, looked |-> None]

(* check: nothing is begun while a check runs. *)
Checks == running' = IF running # None THEN running ELSE Begun

FirstFires ==
  /\ first # None /\ first = time /\ every = None
  /\ Checks /\ every' = time + CHECK_INTERVAL
  /\ UNCHANGED <<time, aptPresent, view, finishedAt, first, asking, told>>

EveryFires ==
  /\ every = time
  /\ Checks /\ every' = time + CHECK_INTERVAL
  /\ UNCHANGED <<time, aptPresent, view, finishedAt, first, asking, told>>

(* Mutant: the last answer is given however old it is. *)
AnyAnswered == running = None /\ finishedAt # None /\ view.state # "pending"
RecentlyAnswered ==
  /\ running = None /\ finishedAt # None /\ view.state # "pending"
  /\ finishedAt # None => time - finishedAt < MANUAL_GAP

Manual(a) ==
  /\ asking[a] = None
  /\ IF RecentlyAnswered
     THEN told' = {Age(view, time)} /\ UNCHANGED <<running, asking>>
     ELSE Checks /\ asking' = [asking EXCEPT ![a] = time] /\ UNCHANGED told
  /\ UNCHANGED <<time, aptPresent, view, finishedAt, timers>>

(* A check that ends: its view is held, and everyone who waits is told. *)
Ends(v) ==
  /\ view' = v /\ running' = None /\ finishedAt' = time
  /\ told' = {Age(v, asking[a]) : a \in {b \in Askers : asking[b] # None}}
  /\ asking' = [a \in Askers |-> None]
  /\ UNCHANGED <<time, aptPresent, timers>>

(* apt-get -s upgrade looks at the packages, fails, or is not there. *)
Simulate ==
  /\ running # None /\ running.step = "simulate"
  /\ IF ~aptPresent THEN Ends(View("unsupported", None))
     ELSE \/ /\ running' = [step |-> "policy", since |-> time, looked |-> running.since]
             /\ UNCHANGED <<time, aptPresent, view, finishedAt, timers, asking, told>>
          \/ Ends(View("failed", None))

(* apt-cache policy, which may fail. *)
Policy ==
  /\ running # None /\ running.step = "policy" /\ Ends(View("ok", running.looked))

AptChanges ==
  /\ aptPresent' = ~aptPresent /\ running = None
  /\ UNCHANGED <<time, view, running, finishedAt, timers, asking, told>>

(* Timers that are due fire first. *)
Tick ==
  /\ time < MaxTime /\ ~Overrun(time) /\ every # time /\ (first # time \/ every # None)
  /\ time' = time + 1
  /\ UNCHANGED <<aptPresent, view, running, finishedAt, timers, asking, told>>

Init ==
  /\ time = 0 /\ aptPresent \in BOOLEAN
  /\ view = View("pending", None) /\ running = None /\ finishedAt = None
  /\ first = None /\ every = None
  /\ asking = [a \in Askers |-> None] /\ told = {}

Next ==
  \/ \E a \in Askers : Manual(a)
  \/ Start \/ Stop \/ FirstFires \/ EveryFires \/ Simulate \/ Policy \/ AptChanges \/ Tick

Spec == Init /\ [][Next]_vars

(***************************************************************************)
(* Properties.                                                             *)
(***************************************************************************)
(* Whoever presses Check now is told of a look at the packages no older than *)
(* a manual gap and the time two commands may take, whichever check answers  *)
(* (updates.ts:233-247).                                                     *)
AnswersAreRecent == \A age \in told : age < MANUAL_GAP + 2 * TIMEOUT
=============================================================================
