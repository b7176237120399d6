------------------------------- MODULE TlsLock -------------------------------
(***************************************************************************)
(* packages/tls/src/ca/lock.ts: the one lock of the `pipulse tls`          *)
(* commands, a file made with O_EXCL.  A command that finds it taken       *)
(* judges whether the holder is gone, and breaks the lock of one that is:  *)
(* breakers take turns through numbered files, and a lock moved away by    *)
(* mistake is linked back.  Each action is one access to the folder, or a  *)
(* few nobody can come between.  Commands may die or be stopped at any of  *)
(* them.  A process makes one lock file at most, which is named after it.  *)
(***************************************************************************)
EXTENDS Integers, FiniteSets

CONSTANTS
  Processes, None,
  Placements,          \* which PID namespaces they may be in: [Processes -> name]
  HardLinks,           \* what the filesystem may do: a set of BOOLEANs
  REMOTE_STALE, FRESH, OBSERVE, WAIT,   \* in heartbeats
  MaxTurn,             \* bound: breakers' turns
  Budgets              \* bound: how many deaths, stops and clock jumps there may be

Nothing == "nothing"          \* the token of a file that can't be read

LockAssumption ==
  /\ None \notin Processes /\ Nothing \notin Processes /\ HardLinks \subseteq BOOLEAN
  /\ REMOTE_STALE \in Nat /\ FRESH \in Nat /\ OBSERVE \in Nat \ {0} /\ WAIT \in Nat
  /\ MaxTurn \in Nat /\ Budgets \subseteq [deaths : Nat, stalls : Nat, jumps : Nat]

VARIABLES
  placed, links,       \* the namespaces, and whether link() works
  made,                \* there is a folder for the CA
  lock,                \* whose file is at the path
  files,               \* each one's lock file: is it written, how old is its mtime
  copy, aside,         \* the second names a breaker gave the lock
  turns,               \* the turn files, by number (there is no number 0)
  pc, judged, turn,    \* a command: where it stands, what it judged stale, its turn
  watched, waited,     \*   for how long it saw the same heartbeat, and has waited
  stopped,             \* processes that are stopped
  faults,              \* how many may still die or be stopped, and clock jumps
  excused              \* history: see Exclusive

folder == <<made, lock, files, copy, aside, turns>>
command == <<pc, judged, turn, watched, waited>>
world == <<placed, links, stopped, faults, excused>>
vars == <<folder, command, world>>

Old == REMOTE_STALE + 1       \* ages beyond every limit
NoTurn == [owner |-> None, state |-> "gone", old |-> FALSE]
Sees(p, q) == placed[p] = placed[q]
AllSee == \A p, q \in Processes : Sees(p, q)
Alive(p) == pc[p] # "dead"
Runs(p) == pc[p] \notin {"idle", "dead"} /\ p \notin stopped
Token(q) == IF files[q].written THEN q ELSE Nothing

Goes(p, to) == pc' = [pc EXCEPT ![p] = to]
Step(p, from, to) == p \notin stopped /\ pc[p] = from /\ Goes(p, to)
KeepFolder == UNCHANGED folder
KeepCommand == UNCHANGED <<judged, turn, watched, waited>>
KeepWorld == UNCHANGED world

(***************************************************************************)
(* withLock: make the file, or judge who has it.                           *)
(***************************************************************************)
(* A command that may make the folder does.  One that may not (renew, the  *)
(* sidecar's too) and finds none runs fn without the lock: it is no party. *)
Begins(p) ==
  /\ pc[p] = "idle"
  /\ \/ Goes(p, "try") /\ made' = TRUE
     \/ ~made /\ Goes(p, "unlocked") /\ UNCHANGED made
  /\ UNCHANGED <<lock, files, copy, aside, turns>> /\ KeepCommand /\ KeepWorld

Creates(p) ==
  /\ Step(p, "try", "write") /\ lock = None
  /\ lock' = p /\ files' = [files EXCEPT ![p] = [written |-> FALSE, age |-> 0]]
  /\ UNCHANGED <<made, copy, aside, turns>> /\ KeepCommand /\ KeepWorld

Taken(p) ==
  /\ Step(p, "try", "look") /\ lock # None
  /\ KeepFolder /\ KeepCommand /\ KeepWorld

(* The content is written, and fn runs. *)
Writes(p) ==
  /\ Step(p, "write", "holding")
  /\ files' = [files EXCEPT ![p].written = TRUE]
  /\ UNCHANGED <<made, lock, copy, aside, turns>> /\ KeepCommand /\ KeepWorld

Released(p) ==
  /\ Step(p, "look", "try") /\ lock = None
  /\ KeepFolder /\ KeepCommand /\ KeepWorld

(* holderGone, of a holder whose pid means something here. *)
SeenGone(p, q) == files[q].written /\ Sees(p, q) /\ ~Alive(q)
(* Of one in another namespace: no heartbeat for long, and then none while   *)
(* it was watched: a leap of the wall clock makes every heartbeat look old.  *)
LooksGone(q) == files[q].age > REMOTE_STALE
Unseen(p, q) == files[q].written /\ ~Sees(p, q) /\ LooksGone(q)
Watching(p, q) == Unseen(p, q) /\ watched[p].of = q
(* Mutant: an old heartbeat is enough. *)
LooksOld(p, q) == Unseen(p, q)
StoodStill(p, q) == Watching(p, q) /\ watched[p].for >= OBSERVE
UnwrittenTooLong(q) == ~files[q].written /\ files[q].age > FRESH
Gone(p, q) == SeenGone(p, q) \/ StoodStill(p, q) \/ UnwrittenTooLong(q)

NotWatching == [of |-> None, for |-> 0]
Watch(p, q) == IF ~Unseen(p, q) THEN NotWatching
               ELSE IF watched[p].of = q THEN watched[p] ELSE [of |-> q, for |-> 0]

JudgesGone(p) ==
  /\ Step(p, "look", "list") /\ lock # None /\ Gone(p, lock)
  /\ judged' = [judged EXCEPT ![p] = Token(lock)]
  /\ watched' = [watched EXCEPT ![p] = NotWatching]
  /\ KeepFolder /\ UNCHANGED <<turn, waited>> /\ KeepWorld

Waits(p) ==
  /\ lock # None /\ ~Gone(p, lock)
  /\ \/ Step(p, "look", "wait") /\ (waited[p] < WAIT \/ Unseen(p, lock))
     \/ Step(p, "look", "refused") /\ waited[p] >= WAIT /\ ~Unseen(p, lock)
  /\ watched' = [watched EXCEPT ![p] = Watch(p, lock)]
  /\ KeepFolder /\ UNCHANGED <<judged, turn, waited>> /\ KeepWorld

LooksAgain(p) ==
  /\ Step(p, "wait", "try")
  /\ KeepFolder /\ KeepCommand /\ KeepWorld

(***************************************************************************)
(* takeBreakerMutex: breakers take turns, by numbers.                      *)
(***************************************************************************)
Present == {n \in 1 .. MaxTurn : turns[n] # NoTurn}
Newest == IF Present = {} THEN 0 ELSE CHOOSE n \in Present : \A m \in Present : m <= n

ListsTurns(p) ==
  /\ Step(p, "list", "judge")
  /\ turn' = [turn EXCEPT ![p] = Newest]
  /\ KeepFolder /\ UNCHANGED <<judged, watched, waited>> /\ KeepWorld

(* An owner that can be seen is judged by that, any other by age. *)
TurnFree(p, n) ==
  \/ turns[n] = NoTurn \/ turns[n].state = "released"
  \/ turns[n].state = "held" /\ Sees(p, turns[n].owner) /\ ~Alive(turns[n].owner)
  \/ turns[n].old /\ ~(turns[n].state = "held" /\ Sees(p, turns[n].owner))

FindsFree(p) ==
  /\ Step(p, "judge", "create") /\ TurnFree(p, turn[p])
  /\ KeepFolder /\ KeepCommand /\ KeepWorld

Following(p) == turn[p] + 1
TakesTurn(p) ==
  /\ Step(p, "create", "turn")
  /\ Following(p) <= MaxTurn /\ turns[Following(p)] = NoTurn
  /\ turns' = [turns EXCEPT ![Following(p)] = [owner |-> p, state |-> "empty", old |-> FALSE]]
  /\ turn' = [turn EXCEPT ![p] = Following(p)]
  /\ UNCHANGED <<made, lock, files, copy, aside, judged, watched, waited>> /\ KeepWorld

(* Another breaker is at it: not past the wait. *)
Busy(p, from) ==
  /\ \/ Step(p, from, "wait") /\ waited[p] < WAIT
     \/ Step(p, from, "refused") /\ waited[p] >= WAIT
  /\ judged' = [judged EXCEPT ![p] = None] /\ turn' = [turn EXCEPT ![p] = 0]
  /\ UNCHANGED <<watched, waited>> /\ KeepWorld

TurnTaken(p) ==
  /\ \/ ~TurnFree(p, turn[p]) /\ Busy(p, "judge")
     \/ Following(p) <= MaxTurn /\ turns[Following(p)] # NoTurn /\ Busy(p, "create")
  /\ KeepFolder

(* The turn is written and the folder listed again: a higher number means    *)
(* that the first listing was old.                                           *)
Highest(p) == Newest = turn[p]

StepsAside(p) ==
  /\ ~Highest(p) /\ Busy(p, "turn")
  /\ turns' = [turns EXCEPT ![turn[p]] = NoTurn]
  /\ UNCHANGED <<made, lock, files, copy, aside>>

HasTurn(p) ==
  /\ Step(p, "turn", "tidy") /\ Highest(p)
  /\ turns' = [turns EXCEPT ![turn[p]] =
                 IF @ = NoTurn THEN NoTurn ELSE [@ EXCEPT !.state = "held"]]
  /\ UNCHANGED <<made, lock, files, copy, aside>> /\ KeepCommand /\ KeepWorld

(* Lower turns and the copies killed breakers left go. *)
Tidies(p) ==
  /\ Step(p, "tidy", "link")
  /\ turns' = [n \in 0 .. MaxTurn |-> IF n < turn[p] THEN NoTurn ELSE turns[n]]
  /\ copy' = [q \in Processes |-> None] /\ aside' = [q \in Processes |-> None]
  /\ UNCHANGED <<made, lock, files>> /\ KeepCommand /\ KeepWorld

(***************************************************************************)
(* breakJudged, or breakLockByRename where links cannot be made.           *)
(***************************************************************************)
Links(p) ==
  /\ pc[p] = "link" /\ p \notin stopped
  /\ IF lock = None /\ links THEN Goes(p, "end") /\ UNCHANGED copy
     ELSE IF links THEN Goes(p, "match") /\ copy' = [copy EXCEPT ![p] = lock]
     ELSE Goes(p, "rename") /\ UNCHANGED copy
  /\ UNCHANGED <<made, lock, files, aside, turns>> /\ KeepCommand /\ KeepWorld

(* matchesJudgement: a file that can't be read is only stale if it is old. *)
Matches(p, q) ==
  IF q = None THEN judged[p] = Nothing
  ELSE IF files[q].written THEN judged[p] = q
  ELSE judged[p] = Nothing /\ files[q].age > FRESH

Matched(p) ==
  /\ pc[p] = "match" /\ p \notin stopped
  /\ Goes(p, IF Matches(p, copy[p]) THEN "rename" ELSE "end")
  /\ KeepFolder /\ KeepCommand /\ KeepWorld

Renames(p) ==
  /\ pc[p] = "rename" /\ p \notin stopped
  /\ Goes(p, IF lock = None THEN "end" ELSE "compare")
  /\ lock' = None /\ aside' = [aside EXCEPT ![p] = lock]
  /\ UNCHANGED <<made, files, copy, turns>> /\ KeepCommand /\ KeepWorld

(* Moved the wrong one: link it back, unless the path is taken again. *)
Wrong(p) == IF links THEN aside[p] # copy[p] ELSE ~Matches(p, aside[p])

(* One of the names is gone: statSync throws, and the command with it. *)
NamesGone(p) == links /\ (aside[p] = None \/ copy[p] = None)

Compares(p) ==
  /\ Step(p, "compare", IF NamesGone(p) THEN "fail" ELSE "end")
  /\ lock' = IF Wrong(p) /\ ~NamesGone(p) /\ links /\ lock = None THEN aside[p] ELSE lock
  /\ UNCHANGED <<made, files, copy, aside, turns>> /\ KeepCommand /\ KeepWorld

(* The second names go, and the turn is given back in its own file. *)
EndsBreak(p) ==
  /\ \/ Step(p, "end", "try")
     \/ Step(p, "fail", "failed")
  /\ copy' = [copy EXCEPT ![p] = None] /\ aside' = [aside EXCEPT ![p] = None]
  /\ turns' = [n \in 0 .. MaxTurn |-> IF turns[n] # NoTurn /\ turns[n].owner = p
                                      THEN [turns[n] EXCEPT !.state = "released"] ELSE turns[n]]
  /\ judged' = [judged EXCEPT ![p] = None] /\ turn' = [turn EXCEPT ![p] = 0]
  /\ UNCHANGED <<made, lock, files, watched, waited>> /\ KeepWorld

(***************************************************************************)
(* After fn: the file is removed if it is still ours.                      *)
(***************************************************************************)
Returns(p) ==
  /\ \/ Step(p, "holding", "remove") /\ lock = p
     \/ Step(p, "holding", "done") /\ lock # p
  /\ KeepFolder /\ KeepCommand /\ KeepWorld

(* By its name: what is there by now. *)
Removes(p) ==
  /\ Step(p, "remove", "done")
  /\ lock' = None
  /\ UNCHANGED <<made, files, copy, aside, turns>> /\ KeepCommand /\ KeepWorld

(***************************************************************************)
(* Processes and time.  A step of a running command takes no time; a tick  *)
(* is a heartbeat's period, and holders that run and have their file beat. *)
(***************************************************************************)
Ended == {"unlocked", "done", "refused", "failed"}
Dies(p) ==
  /\ Alive(p) /\ pc[p] \notin Ended \cup {"idle"}
  /\ faults.deaths > 0
  /\ Goes(p, "dead") /\ faults' = [faults EXCEPT !.deaths = @ - 1]
  /\ stopped' = stopped \ {p}
  /\ judged' = [judged EXCEPT ![p] = None] /\ turn' = [turn EXCEPT ![p] = 0]
  /\ watched' = [watched EXCEPT ![p] = NotWatching]
  /\ KeepFolder /\ UNCHANGED <<waited, placed, links, excused>>

(* A file of p's that says nothing yet, the lock or a turn, is judged by   *)
(* its age alone.                                                          *)
Unwritten(p) == pc[p] \in {"write", "turn"}

(* History: somebody may take a stopped process for a dead one. *)
IsStopped(p) ==
  /\ Runs(p) /\ pc[p] \notin Ended /\ faults.stalls > 0
  /\ stopped' = stopped \cup {p} /\ faults' = [faults EXCEPT !.stalls = @ - 1]
  /\ excused' = (excused \/ ~AllSee \/ Unwritten(p))
  /\ KeepFolder /\ UNCHANGED <<command, placed, links>>

GoesOn(p) ==
  /\ p \in stopped /\ stopped' = stopped \ {p}
  /\ KeepFolder /\ UNCHANGED <<command, placed, links, faults, excused>>

Resting == Ended \cup {"idle", "try", "look", "wait", "holding", "dead"}
Rest == \A p \in Processes \ stopped : pc[p] \in Resting
Beats(q) == lock = q /\ pc[q] = "holding" /\ q \notin stopped

Tick ==
  /\ Rest
  /\ files' = [q \in Processes |-> [files[q] EXCEPT !.age =
                 IF Beats(q) THEN 0 ELSE IF @ < Old THEN @ + 1 ELSE @]]
  /\ turns' = [n \in 0 .. MaxTurn |-> IF turns[n] = NoTurn THEN NoTurn
                                      ELSE [turns[n] EXCEPT !.old = TRUE]]
  /\ watched' = [p \in Processes |->
       IF watched[p].of = None THEN NotWatching ELSE IF Beats(watched[p].of) THEN NotWatching
       ELSE [watched[p] EXCEPT !.for = IF @ < OBSERVE THEN @ + 1 ELSE @]]
  /\ waited' = [p \in Processes |-> IF pc[p] = "wait" /\ waited[p] < WAIT
                                    THEN waited[p] + 1 ELSE waited[p]]
  /\ UNCHANGED <<made, lock, copy, aside, pc, judged, turn>> /\ KeepWorld

(* NTP sets the wall clock ahead, or back: every file looks old, or new;   *)
(* every turn looks old.  History: what is just being made does too, and   *)
(* the turn of a breaker nobody sees.                                      *)
Breaking == {"tidy", "link", "match", "rename", "compare", "end", "fail"}
ClockJumps ==
  /\ faults.jumps > 0
  /\ faults' = [faults EXCEPT !.jumps = @ - 1]
  /\ \E age \in {0, Old} : files' = [q \in Processes |-> [files[q] EXCEPT !.age = age]]
  /\ turns' = [n \in 0 .. MaxTurn |-> IF turns[n] = NoTurn THEN NoTurn
                                      ELSE [turns[n] EXCEPT !.old = TRUE]]
  /\ excused' = (excused \/ \E p \in Processes : Unwritten(p) \/ (~AllSee /\ pc[p] \in Breaking))
  /\ UNCHANGED <<made, lock, copy, aside, command, placed, links, stopped>>

Init ==
  /\ placed \in Placements /\ links \in HardLinks /\ made \in BOOLEAN
  /\ lock = None /\ files = [p \in Processes |-> [written |-> FALSE, age |-> Old]]
  /\ copy = [p \in Processes |-> None] /\ aside = [p \in Processes |-> None]
  /\ turns = [n \in 0 .. MaxTurn |-> NoTurn]
  /\ pc = [p \in Processes |-> "idle"] /\ judged = [p \in Processes |-> None]
  /\ turn = [p \in Processes |-> 0]
  /\ watched = [p \in Processes |-> NotWatching] /\ waited = [p \in Processes |-> 0]
  /\ stopped = {} /\ faults \in Budgets
  /\ excused = FALSE

Acquire(p) == \/ Creates(p) \/ Taken(p) \/ Writes(p) \/ Released(p) \/ JudgesGone(p)
              \/ Waits(p) \/ LooksAgain(p)
TakeTurn(p) == \/ ListsTurns(p) \/ FindsFree(p) \/ TakesTurn(p) \/ TurnTaken(p) \/ StepsAside(p)
               \/ HasTurn(p) \/ Tidies(p)
Break(p) == Links(p) \/ Matched(p) \/ Renames(p) \/ Compares(p) \/ EndsBreak(p)
Release(p) == Returns(p) \/ Removes(p)
Works(p) == Acquire(p) \/ TakeTurn(p) \/ Break(p) \/ Release(p)

Next ==
  \/ \E p \in Processes : Begins(p) \/ Works(p) \/ Dies(p) \/ IsStopped(p) \/ GoesOn(p)
  \/ Tick \/ ClockJumps

Spec == Init /\ [][Next]_vars

(***************************************************************************)
(* Properties.                                                             *)
(***************************************************************************)
(* Two commands never hold the lock at once: not after a holder died, nor a  *)
(* breaker half-way, nor while a holder or a breaker one can see is stopped, *)
(* nor when the wall clock leaps (lock.ts:175-204, 279-337, 447-478).        *)
(* Excused: a command stopped, or a leap, just as it makes its file or its   *)
(* turn; a stopped command that others cannot see, and a leap while such a   *)
(* one breaks a lock (lock.ts:275-277); filesystems without hard links.  A   *)
(* renewal that found no folder for the CA runs without the lock (413-414),  *)
(* and is not one of the two.                                                *)
Holders == {p \in Processes : pc[p] = "holding"}
Exclusive == links /\ ~excused => Cardinality(Holders) <= 1
=============================================================================
