--------------------------- MODULE TlsLockProofs ---------------------------
(***************************************************************************)
(* For any number of commands, wherever they are, and any deaths, stops    *)
(* and leaps of the clock: no two of them run at once.  What is shown in   *)
(* CertificateProofs of the parts MCTls sets beside the lock is carried    *)
(* over to the behaviours of MCTls at the end.                             *)
(***************************************************************************)
EXTENDS MCTls, FiniteSetTheorems, TLAPS

(***************************************************************************)
(* The inductive invariant.  Whose file is at the path either works under  *)
(* it or died; a command judged gone is dead; one breaker at a time has    *)
(* the newest turn; and what it moves away is the file of a dead command.  *)
(***************************************************************************)
Making == {"write", "holding", "remove"}
Places == {"idle", "unlocked", "try", "look", "list", "judge", "create", "turn", "wait", "refused",
           "done", "failed", "dead"} \cup Making \cup Breaking
Some == Processes \cup {None}
Files == [written : BOOLEAN, age : Nat]
Turns == [owner : Some, state : {"empty", "held", "released", "gone"}, old : BOOLEAN]
Watches == [of : Some, for : Nat]

FolderTyped ==
  /\ lock \in Some /\ files \in [Processes -> Files]
  /\ copy \in [Processes -> Some] /\ aside \in [Processes -> Some]
  /\ turns \in [0 .. MaxTurn -> Turns]
CommandTyped ==
  /\ pc \in [Processes -> Places] /\ judged \in [Processes -> Some \cup {Nothing}]
  /\ turn \in [Processes -> 0 .. MaxTurn]
  /\ watched \in [Processes -> Watches] /\ waited \in [Processes -> Nat]
WorldTyped == stopped \subseteq Processes /\ links \in BOOLEAN /\ excused \in BOOLEAN
TypeInv == FolderTyped /\ CommandTyped /\ WorldTyped

Dead(q) == pc[q] = "dead"
Owned ==
  /\ \A r \in Processes : pc[r] \in Making => lock = r
  /\ \A r \in Processes : lock = r => pc[r] \in Making \/ Dead(r)
Written ==
  \A r \in Processes :
    /\ pc[r] \in {"holding", "remove", "done"} => files[r].written
    /\ pc[r] = "write" => ~files[r].written /\ files[r].age = 0
    /\ Unwritten(r) => r \notin stopped
InTheOpen == stopped # {} => AllSee
JudgedDead == \A p, q \in Processes : judged[p] = q => Dead(q)
WatchedWell ==
  \A p, q \in Processes : watched[p].of = q =>
    /\ ~Sees(p, q) /\ (pc[q] \in Making \/ Dead(q) \/ pc[q] = "done")
    /\ lock = q /\ watched[p].for > 0 => Dead(q)
IsNewest(n) == \/ n = 0 /\ Present = {}
               \/ n \in Present /\ \A m \in Present : m <= n
InTurn(p) ==
  /\ turn[p] <= Newest
  /\ pc[p] = "turn" => /\ turn[p] > 0
                       /\ turn[p] = Newest => turns[turn[p]].owner = p /\ turns[turn[p]].state = "empty"
                       /\ turns[turn[p]].owner = p => ~turns[turn[p]].old
  /\ pc[p] \in Breaking => /\ turn[p] = Newest /\ turn[p] > 0
                           /\ turns[turn[p]].owner = p /\ turns[turn[p]].state = "held"
  /\ pc[p] \in Breaking /\ turns[turn[p]].old => AllSee
(* Who found the newest turn free is right for as long as it is the newest. *)
FoundFree ==
  \A p, r \in Processes :
    pc[p] = "create" /\ turn[p] = Newest /\ pc[r] \in Breaking \cup {"turn"} => turn[r] # Newest
TurnsTaken == IsNewest(Newest) /\ FoundFree /\ \A p \in Processes : InTurn(p)
Aim(p) ==
  /\ pc[p] = "match" => \E q \in Processes : copy[p] = q /\ (lock = q \/ pc[q] = "done")
  /\ pc[p] = "rename" => \E q \in Processes : copy[p] = q /\ lock = q /\ Dead(q)
  /\ pc[p] = "compare" => copy[p] \in Processes /\ aside[p] = copy[p]
  /\ pc[p] # "fail"
Aims == \A p \in Processes : Aim(p)
Safely == Owned /\ Written /\ InTheOpen /\ JudgedDead /\ WatchedWell /\ TurnsTaken /\ Aims
LockInv == links /\ ~excused => TypeInv /\ Safely

(***************************************************************************)
(* The types.                                                              *)
(***************************************************************************)
LEMMA NoTurnTyped == NoTurn \in Turns /\ NotWatching \in Watches
BY DEF NoTurn, Turns, NotWatching, Watches, Some

LEMMA InitTyped == ASSUME LockAssumption, Init PROVE TypeInv
<1>1. 0 \in 0 .. MaxTurn /\ HardLinks \subseteq BOOLEAN
  BY DEF LockAssumption
<1>2. FolderTyped
  <2>1. [written |-> FALSE, age |-> Old] \in Files
    BY DEF LockAssumption, Old, Files
  <2> QED
    BY <2>1, NoTurnTyped DEF Init, FolderTyped, Some
<1>3. CommandTyped
  BY <1>1, NoTurnTyped DEF Init, CommandTyped, Some, Places
<1>4. WorldTyped
  BY <1>1 DEF Init, WorldTyped
<1> QED
  BY <1>2, <1>3, <1>4 DEF TypeInv

LEMMA NewestTyped == ASSUME LockAssumption, IsNewest(Newest) PROVE Newest \in 0 .. MaxTurn
BY DEF LockAssumption, IsNewest, Present

LEMMA AcquireTyped ==
  ASSUME LockAssumption, TypeInv, NEW p \in Processes, Begins(p) \/ Acquire(p)
  PROVE  TypeInv'
<1> USE DEF TypeInv, FolderTyped, CommandTyped, WorldTyped, KeepFolder, KeepCommand, KeepWorld, folder, world,
            Goes, Step, Places
<1>1. CASE Begins(p)
  BY <1>1 DEF Begins
<1>2. CASE Creates(p)
  BY <1>2 DEF Creates, Files, Some, Making
<1>3. CASE Taken(p) \/ Released(p) \/ LooksAgain(p)
  BY <1>3 DEF Taken, Released, LooksAgain
<1>4. CASE Writes(p)
  BY <1>4 DEF Writes, Files, Making
<1>5. CASE JudgesGone(p)
  BY <1>5, NoTurnTyped DEF JudgesGone, Token, Some
<1>6. CASE Waits(p)
  <2>1. Watch(p, lock) \in Watches
    BY <1>6, NoTurnTyped DEF Waits, Watch, Watches, Some
  <2> QED
    BY <1>6, <2>1 DEF Waits
<1> QED
  BY <1>1, <1>2, <1>3, <1>4, <1>5, <1>6 DEF Acquire

LEMMA BusyTyped ==
  ASSUME LockAssumption, CommandTyped, WorldTyped, NEW p \in Processes, NEW from, Busy(p, from)
  PROVE  CommandTyped' /\ WorldTyped'
<1>1. 0 \in 0 .. MaxTurn
  BY DEF LockAssumption
<1>2. judged' \in [Processes -> Some \cup {Nothing}] /\ turn' \in [Processes -> 0 .. MaxTurn]
  BY <1>1 DEF Busy, CommandTyped, Some
<1>3. pc' \in [Processes -> Places]
  BY DEF Busy, CommandTyped, Step, Goes, Places
<1> QED
  BY <1>2, <1>3 DEF Busy, CommandTyped, WorldTyped, KeepWorld, world

LEMMA TakeTurnTyped ==
  ASSUME LockAssumption, TypeInv, TurnsTaken, NEW p \in Processes, TakeTurn(p)
  PROVE  TypeInv'
<1> USE DEF TypeInv, FolderTyped, CommandTyped, WorldTyped, KeepFolder, KeepCommand, KeepWorld, folder, world,
            Goes, Step, Places
<1>0. MaxTurn \in Nat /\ 0 \in 0 .. MaxTurn
  BY DEF LockAssumption
<1>1. CASE ListsTurns(p)
  BY <1>1, NewestTyped DEF ListsTurns, TurnsTaken
<1>2. CASE TakesTurn(p)
  <2>1. Following(p) \in 0 .. MaxTurn
    BY <1>0, <1>2 DEF TakesTurn, Following
  <2>2. [owner |-> p, state |-> "empty", old |-> FALSE] \in Turns
    BY DEF Turns, Some
  <2> QED
    BY <1>2, <2>1, <2>2 DEF TakesTurn
<1>3. CASE TurnTaken(p)
  BY <1>0, <1>3, BusyTyped DEF TurnTaken
<1>4. CASE StepsAside(p)
  BY <1>0, <1>4, NoTurnTyped, BusyTyped DEF StepsAside
<1>5. CASE HasTurn(p)
  <2>1. \A t \in Turns : [t EXCEPT !.state = "held"] \in Turns
    BY DEF Turns
  <2> QED
    BY <1>5, <2>1, NoTurnTyped DEF HasTurn, Breaking
<1>6. CASE Tidies(p)
  BY <1>0, <1>6, NoTurnTyped DEF Tidies, Breaking, Some
<1>7. CASE FindsFree(p)
  BY <1>7 DEF FindsFree
<1> QED
  BY <1>1, <1>2, <1>3, <1>4, <1>5, <1>6, <1>7 DEF TakeTurn

LEMMA BreakTyped ==
  ASSUME LockAssumption, TypeInv, NEW p \in Processes, Break(p)
  PROVE  TypeInv'
<1> USE DEF TypeInv, FolderTyped, CommandTyped, WorldTyped, KeepFolder, KeepCommand, KeepWorld, folder, world,
            Goes, Step, Places, Breaking
<1>1. CASE Links(p)
  BY <1>1 DEF Links
<1>2. CASE Matched(p)
  BY <1>2 DEF Matched
<1>3. CASE Renames(p)
  BY <1>3 DEF Renames, Some
<1>4. CASE Compares(p)
  BY <1>4 DEF Compares
<1>5. CASE EndsBreak(p)
  <2>1. \A t \in Turns : [t EXCEPT !.state = "released"] \in Turns
    BY DEF Turns
  <2>2. turns' \in [0 .. MaxTurn -> Turns]
    BY <1>5, <2>1 DEF EndsBreak
  <2>3. 0 \in 0 .. MaxTurn
    BY DEF LockAssumption
  <2> QED
    BY <1>5, <2>2, <2>3 DEF EndsBreak, Some
<1> QED
  BY <1>1, <1>2, <1>3, <1>4, <1>5 DEF Break

(* What gets older, up to a limit. *)
Older(age, limit) == IF age < limit THEN age + 1 ELSE age

LEMMA Ages ==
  ASSUME LockAssumption
  PROVE  /\ \A f \in Files : [f EXCEPT !.age = 0] \in Files /\ [f EXCEPT !.age = Old] \in Files
         /\ \A f \in Files : [f EXCEPT !.age = Older(@, Old)] \in Files
         /\ \A w \in Watches : [w EXCEPT !.for = Older(@, OBSERVE)] \in Watches
<1>1. Old \in Nat /\ OBSERVE \in Nat
  BY DEF LockAssumption, Old
<1>2. \A n \in Nat : Older(n, Old) \in Nat /\ Older(n, OBSERVE) \in Nat
  BY <1>1 DEF Older
<1> QED
  BY <1>1, <1>2 DEF Files, Watches

LEMMA OthersTyped ==
  ASSUME LockAssumption, TypeInv,
         \/ \E p \in Processes : Release(p) \/ Dies(p) \/ IsStopped(p) \/ GoesOn(p)
         \/ Tick \/ ClockJumps \/ UNCHANGED vars
  PROVE  TypeInv'
<1> USE DEF TypeInv, FolderTyped, CommandTyped, WorldTyped, KeepFolder, KeepCommand, KeepWorld, folder, world,
            command, Goes, Step, Places
<1>1. ASSUME NEW p \in Processes, Release(p) PROVE TypeInv'
  BY <1>1 DEF Release, Returns, Removes, Making, Some
<1>2. ASSUME NEW p \in Processes, Dies(p) PROVE TypeInv'
  <2>1. 0 \in 0 .. MaxTurn
    BY DEF LockAssumption
  <2> QED
    BY <1>2, <2>1, NoTurnTyped DEF Dies, Some
<1>3. ASSUME NEW p \in Processes, IsStopped(p) \/ GoesOn(p) PROVE TypeInv'
  BY <1>3 DEF IsStopped, GoesOn
<1>4. CASE Tick
  <2>1. \A t \in Turns : [t EXCEPT !.old = TRUE] \in Turns
    BY DEF Turns
  <2>2. turns' \in [0 .. MaxTurn -> Turns]
    BY <1>4, <2>1, NoTurnTyped DEF Tick
  <2>3. files' \in [Processes -> Files]
    <3>1. \A q \in Processes : files'[q] = [files[q] EXCEPT !.age = IF Beats(q) THEN 0 ELSE Older(@, Old)]
      BY <1>4 DEF Tick, Older
    <3> QED
      BY <1>4, <3>1, Ages DEF Tick
  <2>4. watched' \in [Processes -> Watches]
    <3>1. \A q \in Processes : \/ watched'[q] = NotWatching
                              \/ watched'[q] = [watched[q] EXCEPT !.for = Older(@, OBSERVE)]
      BY <1>4 DEF Tick, Older
    <3> QED
      BY <1>4, <3>1, Ages, NoTurnTyped DEF Tick
  <2>5. waited' \in [Processes -> Nat]
    BY <1>4 DEF Tick
  <2> QED
    BY <1>4, <2>2, <2>3, <2>4, <2>5 DEF Tick
<1>5. CASE ClockJumps
  <2>1. \A t \in Turns : [t EXCEPT !.old = TRUE] \in Turns
    BY DEF Turns
  <2>2. turns' \in [0 .. MaxTurn -> Turns]
    BY <1>5, <2>1, NoTurnTyped DEF ClockJumps
  <2>3. files' \in [Processes -> Files]
    <3>1. PICK age \in {0, Old} : files' = [q \in Processes |-> [files[q] EXCEPT !.age = age]]
      BY <1>5 DEF ClockJumps
    <3> QED
      BY <3>1, Ages
  <2>4. excused' \in BOOLEAN
    BY <1>5 DEF ClockJumps
  <2>5. UNCHANGED <<lock, copy, aside, pc, judged, turn, watched, waited, links, stopped>>
    BY <1>5 DEF ClockJumps
  <2> QED
    BY <2>2, <2>3, <2>4, <2>5
<1>6. CASE UNCHANGED vars
  BY <1>6 DEF vars
<1> QED
  BY <1>1, <1>2, <1>3, <1>4, <1>5, <1>6

(***************************************************************************)
(* Whose file is at the path.  Whoever has no file there moves on without  *)
(* touching the lock or a file, except a breaker, who moves one away.      *)
(***************************************************************************)
Elsewhere == Places \ (Making \cup {"done", "dead"})
Passes(p) ==
  /\ pc[p] \in Elsewhere
  /\ \E to \in Elsewhere : pc' = [pc EXCEPT ![p] = to] /\ (to = "turn" => p \notin stopped)
  /\ UNCHANGED <<files, placed, links, stopped, excused>>

LEMMA PassesBy ==
  ASSUME NEW p \in Processes, links, Aims,
         Begins(p) \/ Taken(p) \/ Released(p) \/ JudgesGone(p) \/ Waits(p) \/ LooksAgain(p) \/ TakeTurn(p) \/ Break(p)
  PROVE  Passes(p) /\ (lock' = lock \/ Renames(p))
<1> USE DEF KeepFolder, KeepCommand, KeepWorld, folder, world, Goes, Step, Passes, Elsewhere, Places, Making, Breaking
<1>1. CASE Begins(p) \/ Taken(p) \/ Released(p) \/ LooksAgain(p)
  BY <1>1 DEF Begins, Taken, Released, LooksAgain
<1>2. CASE JudgesGone(p) \/ Waits(p)
  BY <1>2 DEF JudgesGone, Waits
<1>3. CASE TakeTurn(p)
  BY <1>3 DEF TakeTurn, ListsTurns, FindsFree, TakesTurn, TurnTaken, StepsAside, HasTurn, Tidies, Busy
<1>4. CASE Links(p) \/ Matched(p)
  BY <1>4 DEF Links, Matched
<1>5. CASE Renames(p)
  BY <1>5 DEF Renames
<1>6. CASE Compares(p)
  <2>1. ~Wrong(p)
    BY <1>6 DEF Compares, Wrong, Aims, Aim
  <2> QED
    BY <1>6, <2>1 DEF Compares
<1>7. CASE EndsBreak(p)
  BY <1>7 DEF EndsBreak
<1> QED
  BY <1>1, <1>2, <1>3, <1>4, <1>5, <1>6, <1>7 DEF Break

(* A breaker moves away the file of a dead command. *)
LEMMA RenamesDead ==
  ASSUME TypeInv, Aims, NEW p \in Processes, Renames(p)
  PROVE  lock' = None /\ lock \in Processes /\ Dead(lock) /\ copy[p] = lock
BY DEF Renames, Aims, Aim

LEMMA PassedOwned ==
  ASSUME LockAssumption, TypeInv, Safely, NEW p \in Processes, Passes(p), lock' = lock \/ Renames(p)
  PROVE  Owned' /\ Written'
<1>1. \A r \in Processes : pc'[r] = pc[r] \/ (pc[r] \in Elsewhere /\ pc'[r] \in Elsewhere)
  BY DEF Passes, TypeInv, CommandTyped
<1>2. Written'
  <2> SUFFICES ASSUME NEW r \in Processes
               PROVE  /\ pc'[r] \in {"holding", "remove", "done"} => files'[r].written
                      /\ pc'[r] = "write" => ~files'[r].written /\ files'[r].age = 0
                      /\ pc'[r] \in {"write", "turn"} => r \notin stopped'
    BY DEF Written, Unwritten
  <2>1. pc'[r] = pc[r] \/ pc'[r] \notin {"write", "holding", "remove", "done"}
    BY <1>1 DEF Elsewhere, Making
  <2>2. pc'[r] = "turn" => pc[r] = "turn" \/ r \notin stopped
    BY DEF Passes, TypeInv, CommandTyped
  <2> QED
    BY <2>1, <2>2 DEF Safely, Written, Unwritten, Passes
<1>3. Owned'
  <2>1. ASSUME NEW r \in Processes, pc'[r] \in Making PROVE lock' = r
    <3>1. pc[r] \in Making /\ ~Dead(r)
      BY <1>1, <2>1 DEF Elsewhere, Making, Dead
    <3>2. lock = r
      BY <3>1 DEF Safely, Owned
    <3> QED
      BY <3>1, <3>2, RenamesDead DEF Safely
  <2>2. ASSUME NEW r \in Processes, lock' = r PROVE pc'[r] \in Making \/ Dead(r)'
    <3>1. lock = r
      BY <2>2, RenamesDead DEF Safely, LockAssumption
    <3>2. pc[r] \in Making \/ pc[r] = "dead"
      BY <3>1 DEF Safely, Owned, Dead
    <3> QED
      BY <1>1, <3>2 DEF Dead, Elsewhere
  <2> QED
    BY <2>1, <2>2 DEF Owned
<1> QED
  BY <1>2, <1>3

LEMMA HoldersOwned ==
  ASSUME LockAssumption, TypeInv, Safely, NEW p \in Processes, Creates(p) \/ Writes(p) \/ Release(p)
  PROVE  Owned' /\ Written'
<1>0. pc \in [Processes -> Places] /\ files \in [Processes -> Files] /\ None \notin Processes
  BY DEF TypeInv, FolderTyped, CommandTyped, LockAssumption
<1> USE DEF Step, Goes, Making, Dead, KeepWorld, world
<1>1. CASE Creates(p)
  <2>1. lock = None /\ lock' = p /\ pc'[p] = "write" /\ p \notin stopped /\ stopped' = stopped
    BY <1>0, <1>1 DEF Creates
  <2>2. \A r \in Processes \ {p} : pc'[r] = pc[r] /\ files'[r] = files[r]
    BY <1>0, <1>1 DEF Creates
  <2>3. files'[p] = [written |-> FALSE, age |-> 0]
    BY <1>0, <1>1 DEF Creates
  <2>4. Owned'
    BY <1>0, <2>1, <2>2 DEF Safely, Owned
  <2>5. Written'
    BY <2>1, <2>2, <2>3 DEF Safely, Written, Unwritten
  <2> QED
    BY <2>4, <2>5
<1>2. CASE Writes(p)
  <2>1. pc[p] = "write" /\ pc'[p] = "holding" /\ lock' = lock /\ stopped' = stopped
    BY <1>0, <1>2 DEF Writes
  <2>2. \A r \in Processes \ {p} : pc'[r] = pc[r] /\ files'[r] = files[r]
    BY <1>0, <1>2 DEF Writes
  <2>3. files'[p].written
    BY <1>0, <1>2 DEF Writes, Files
  <2>4. Owned'
    BY <1>0, <2>1, <2>2 DEF Safely, Owned
  <2>5. Written'
    BY <2>1, <2>2, <2>3 DEF Safely, Written, Unwritten
  <2> QED
    BY <2>4, <2>5
<1>3. CASE Release(p)
  <2>1. /\ pc[p] \in {"holding", "remove"} /\ lock = p /\ files' = files /\ stopped' = stopped
        /\ \/ pc'[p] = "remove" /\ lock' = p
           \/ pc'[p] = "done" /\ lock' = None
    BY <1>0, <1>3 DEF Release, Returns, Removes, KeepFolder, folder, Safely, Owned
  <2>2. \A r \in Processes \ {p} : pc'[r] = pc[r]
    BY <1>0, <1>3 DEF Release, Returns, Removes
  <2>3. Owned'
    BY <1>0, <2>1, <2>2 DEF Safely, Owned
  <2>4. Written'
    BY <2>1, <2>2 DEF Safely, Written, Unwritten
  <2> QED
    BY <2>3, <2>4
<1> QED
  BY <1>1, <1>2, <1>3

LEMMA FaultsOwned ==
  ASSUME LockAssumption, TypeInv, Safely, ~excused', NEW p \in Processes,
         Dies(p) \/ IsStopped(p) \/ GoesOn(p)
  PROVE  Owned' /\ Written'
<1>0. pc \in [Processes -> Places] /\ UNCHANGED <<lock, files>>
  BY DEF TypeInv, CommandTyped, Dies, Ended, IsStopped, GoesOn, KeepFolder, folder
<1> USE DEF Goes, Making, Dead
<1>1. CASE Dies(p)
  <2>1. pc[p] # "done" /\ pc'[p] = "dead" /\ stopped' \subseteq stopped
    BY <1>0, <1>1 DEF Dies, Ended
  <2>2. \A r \in Processes \ {p} : pc'[r] = pc[r]
    BY <1>0, <1>1 DEF Dies
  <2>3. Owned'
    BY <1>0, <2>1, <2>2 DEF Safely, Owned
  <2>4. Written'
    BY <1>0, <2>1, <2>2 DEF Safely, Written, Unwritten
  <2> QED
    BY <2>3, <2>4
<1>2. CASE IsStopped(p)
  <2>1. ~Unwritten(p) /\ stopped' = stopped \cup {p} /\ pc' = pc
    BY <1>2 DEF IsStopped, command
  <2> QED
    BY <1>0, <2>1 DEF Safely, Owned, Written, Unwritten
<1>3. CASE GoesOn(p)
  <2>1. stopped' \subseteq stopped /\ pc' = pc
    BY <1>3 DEF GoesOn, command
  <2> QED
    BY <1>0, <2>1 DEF Safely, Owned, Written, Unwritten
<1> QED
  BY <1>1, <1>2, <1>3

(* Nobody is just making its file or its turn while time passes, and if     *)
(* somebody is when the clock leaps, that excuses what follows.             *)
LEMMA TimeMade ==
  ASSUME Safely, Tick \/ (ClockJumps /\ ~excused')
  PROVE  \A r \in Processes : ~Unwritten(r) /\ (pc[r] \in Breaking => AllSee)
<1>1. CASE Tick
  BY <1>1 DEF Tick, Rest, Resting, Ended, Breaking, Safely, Written, Unwritten, InTheOpen
<1>2. CASE ClockJumps /\ ~excused'
  BY <1>2 DEF ClockJumps
<1> QED
  BY <1>1, <1>2

LEMMA TimeOwned ==
  ASSUME LockAssumption, TypeInv, Safely, Tick \/ (ClockJumps /\ ~excused')
  PROVE  Owned' /\ Written'
<1>1. UNCHANGED <<lock, pc, stopped>>
  BY DEF Tick, ClockJumps, KeepWorld, world, command
<1>2. \A r \in Processes : ~Unwritten(r)
  BY TimeMade
<1>3. \A r \in Processes : files'[r].written = files[r].written
  <2>1. \A f \in Files, n \in Nat : [f EXCEPT !.age = n].written = f.written
    BY DEF Files
  <2>2. \A r \in Processes : files[r] \in Files
    BY DEF TypeInv, FolderTyped
  <2>3. CASE Tick
    <3>1. \A r \in Processes : \E n : files'[r] = [files[r] EXCEPT !.age = n]
      BY <2>3 DEF Tick
    <3> QED
      BY <2>2, <3>1 DEF Files
  <2>4. CASE ClockJumps
    <3>1. \A r \in Processes : \E n : files'[r] = [files[r] EXCEPT !.age = n]
      BY <2>4 DEF ClockJumps
    <3> QED
      BY <2>2, <3>1 DEF Files
  <2> QED
    BY <2>3, <2>4
<1>4. Owned'
  BY <1>1 DEF Safely, Owned, Dead
<1>5. Written'
  BY <1>1, <1>2, <1>3 DEF Safely, Written, Unwritten
<1> QED
  BY <1>4, <1>5

(***************************************************************************)
(* What lasts: death, having made one's file, and having lost the lock.    *)
(***************************************************************************)
Made(q) == pc[q] \in Making \cup {"dead", "done"}
Acts(p) == Begins(p) \/ Works(p) \/ Dies(p) \/ IsStopped(p) \/ GoesOn(p)
Passing(p) == \/ Begins(p) \/ Taken(p) \/ Released(p) \/ JudgesGone(p) \/ Waits(p) \/ LooksAgain(p)
              \/ TakeTurn(p) \/ Break(p)

LEMMA ActsAre ==
  ASSUME NEW p \in Processes, Acts(p)
  PROVE  Passing(p) \/ Creates(p) \/ Writes(p) \/ Release(p) \/ Dies(p) \/ IsStopped(p) \/ GoesOn(p)
BY DEF Acts, Passing, Works, Acquire

LEMMA OwnedStep ==
  ASSUME LockAssumption, TypeInv, Safely, links, ~excused', NEW p \in Processes, Acts(p)
  PROVE  Owned' /\ Written'
BY ActsAre, PassesBy, PassedOwned, HoldersOwned, FaultsOwned DEF Passing, Safely

LEMMA Lasts ==
  ASSUME LockAssumption, TypeInv, Safely, links, NEW p \in Processes, Acts(p), NEW q \in Processes, Made(q)
  PROVE  Made(q)' /\ (Dead(q) => Dead(q)') /\ (lock' = q => lock = q)
<1>0. pc \in [Processes -> Places] /\ None \notin Processes
  BY DEF TypeInv, CommandTyped, LockAssumption
<1> USE DEF Goes, Step, Making, Made, Dead
<1>1. CASE Passing(p)
  <2>1. Passes(p) /\ (lock' = lock \/ Renames(p))
    BY <1>1, PassesBy DEF Passing, Safely
  <2>2. pc'[q] = pc[q]
    BY <1>0, <2>1 DEF Passes, Elsewhere
  <2>3. lock' = q => lock = q
    BY <1>0, <2>1 DEF Renames
  <2> QED
    BY <2>2, <2>3
<1>2. CASE Creates(p) \/ Writes(p)
  BY <1>0, <1>2 DEF Creates, Writes
<1>3. CASE Release(p)
  BY <1>0, <1>3 DEF Release, Returns, Removes, KeepFolder, folder
<1>4. CASE Dies(p) \/ IsStopped(p) \/ GoesOn(p)
  BY <1>0, <1>4 DEF Dies, Ended, IsStopped, GoesOn, KeepFolder, folder, command
<1> QED
  BY <1>1, <1>2, <1>3, <1>4, ActsAre

(***************************************************************************)
(* Who is judged gone is dead: one that can be seen is not running, and    *)
(* one that cannot was watched for a heartbeat and more, which nobody who  *)
(* runs lets pass.                                                         *)
(***************************************************************************)
LEMMA GoneIsDead ==
  ASSUME LockAssumption, TypeInv, Safely, NEW p \in Processes, NEW q \in Processes,
         lock = q, Gone(p, q), Token(q) # Nothing
  PROVE  Dead(q)
<1>1. files[q].written
  BY DEF Token
<1>2. CASE SeenGone(p, q)
  BY <1>2 DEF SeenGone, Alive, Dead
<1>3. CASE StoodStill(p, q)
  <2>1. watched[p].of = q /\ watched[p].for >= OBSERVE
    BY <1>3 DEF StoodStill, Watching
  <2>2. watched[p].for > 0
    BY <2>1 DEF LockAssumption, TypeInv, CommandTyped, Watches
  <2> QED
    BY <2>1, <2>2 DEF Safely, WatchedWell
<1> QED
  BY <1>1, <1>2, <1>3 DEF Gone, UnwrittenTooLong

(* What a command thinks of others changes where it judges or watches.     *)
LEMMA Opinions ==
  ASSUME TypeInv, NEW p \in Processes, Acts(p), NEW r \in Processes
  PROVE  /\ judged'[r] \in {judged[r], None} \/ (JudgesGone(p) /\ r = p)
         /\ watched'[r] \in {watched[r], NotWatching} \/ (Waits(p) /\ r = p)
<1>0. judged \in [Processes -> Some \cup {Nothing}] /\ watched \in [Processes -> Watches]
  BY DEF TypeInv, CommandTyped
<1> USE DEF KeepCommand, command
<1>1. CASE TakeTurn(p)
  BY <1>0, <1>1 DEF TakeTurn, ListsTurns, FindsFree, TakesTurn, TurnTaken, StepsAside, Busy, HasTurn, Tidies
<1>2. CASE Break(p)
  BY <1>0, <1>2 DEF Break, Links, Matched, Renames, Compares, EndsBreak
<1>3. CASE Begins(p) \/ Acquire(p)
  BY <1>0, <1>3 DEF Begins, Acquire, Creates, Taken, Writes, Released, JudgesGone, Waits, LooksAgain
<1>4. CASE Release(p) \/ Dies(p) \/ IsStopped(p) \/ GoesOn(p)
  BY <1>0, <1>4 DEF Release, Returns, Removes, Dies, Ended, IsStopped, GoesOn
<1> QED
  BY <1>1, <1>2, <1>3, <1>4 DEF Acts, Works

LEMMA JudgedStep ==
  ASSUME LockAssumption, TypeInv, Safely, links, NEW p \in Processes, Acts(p)
  PROVE  JudgedDead'
<1> SUFFICES ASSUME NEW r \in Processes, NEW q \in Processes, judged'[r] = q PROVE Dead(q)'
  BY DEF JudgedDead
<1>0. judged \in [Processes -> Some \cup {Nothing}] /\ None \notin Processes /\ Nothing \notin Processes
  BY DEF TypeInv, CommandTyped, LockAssumption
<1>1. CASE JudgesGone(p) /\ r = p
  <2>1. judged'[p] = Token(lock) /\ lock # None /\ Gone(p, lock)
    BY <1>0, <1>1 DEF JudgesGone
  <2>2. lock \in Processes
    BY <2>1 DEF TypeInv, FolderTyped, Some
  <2>3. Token(lock) # Nothing /\ lock = q
    BY <1>0, <1>1, <2>1 DEF Token
  <2>4. Dead(q)
    BY <2>1, <2>2, <2>3, GoneIsDead
  <2> QED
    BY <2>4, Lasts DEF Made, Dead
<1>2. CASE ~(JudgesGone(p) /\ r = p)
  <2>1. judged[r] = q
    BY <1>0, <1>2, Opinions
  <2>2. Dead(q)
    BY <1>0, <2>1 DEF Safely, JudgedDead
  <2> QED
    BY <2>2, Lasts DEF Made, Dead
<1> QED
  BY <1>1, <1>2

(* Who is watched has made its file, and cannot be seen by the watcher.    *)
LEMMA WatchedStep ==
  ASSUME LockAssumption, TypeInv, Safely, links, NEW p \in Processes, Acts(p)
  PROVE  WatchedWell'
<1> SUFFICES ASSUME NEW r \in Processes, NEW q \in Processes, watched'[r].of = q
             PROVE  /\ ~Sees(r, q)' /\ Made(q)'
                    /\ lock' = q /\ watched'[r].for > 0 => Dead(q)'
  BY DEF WatchedWell, Made, Dead, Making
<1>0. /\ None \notin Processes /\ placed' = placed /\ watched \in [Processes -> Watches] /\ lock \in Some
      /\ NotWatching.of = None
  <2>1. placed' = placed
    BY DEF Acts, Works, Begins, Acquire, Creates, Taken, Writes, Released, JudgesGone, Waits, LooksAgain,
           TakeTurn, ListsTurns, FindsFree, TakesTurn, TurnTaken, StepsAside, Busy, HasTurn, Tidies, Break, Links, Matched,
           Renames, Compares, EndsBreak, Release, Returns, Removes, Dies, Ended, IsStopped, GoesOn, KeepWorld, world
  <2> QED
    BY <2>1 DEF TypeInv, FolderTyped, CommandTyped, LockAssumption, NotWatching
<1>1. \A o : Sees(r, o)' <=> Sees(r, o)
  BY <1>0 DEF Sees
<1>2. CASE watched'[r] = watched[r]
  <2>1. ~Sees(r, q) /\ Made(q) /\ (lock = q /\ watched[r].for > 0 => Dead(q))
    BY <1>2 DEF Safely, WatchedWell, Made, Dead
  <2> QED
    BY <1>1, <1>2, <2>1, Lasts
<1>3. CASE Waits(p) /\ r = p /\ watched'[r] # watched[r]
  <2>1. lock \in Processes /\ watched'[r] = Watch(p, lock) /\ lock' = lock
    BY <1>0, <1>3 DEF Waits, Some, KeepFolder, folder
  <2>2. Unseen(p, lock) /\ watched'[r] = [of |-> lock, for |-> 0] /\ q = lock
    BY <1>0, <1>3, <2>1 DEF Watch
  <2>3. ~Sees(r, q) /\ Made(q)
    BY <1>3, <2>1, <2>2 DEF Unseen, Safely, Owned, Made, Dead
  <2> QED
    BY <1>1, <2>2, <2>3, Lasts
<1> QED
  BY <1>0, <1>2, <1>3, Opinions

(***************************************************************************)
(* Turns: the newest number there only grows, and who breaks has it.       *)
(***************************************************************************)
LEMMA Greatest ==
  ASSUME NEW S, S \subseteq Int, NEW n \in S, \A m \in S : m <= n
  PROVE  (CHOOSE k \in S : \A m \in S : m <= k) = n
<1> DEFINE k == CHOOSE k \in S : \A m \in S : m <= k
<1>1. k \in S /\ \A m \in S : m <= k
  OBVIOUS
<1> HIDE DEF k
<1>2. k <= n /\ n <= k /\ k \in Int /\ n \in Int
  BY <1>1
<1>3. k = n
  BY <1>2
<1> QED
  BY <1>3 DEF k

LEMMA NewestNext == ASSUME NEW n, IsNewest(n)' PROVE Newest' = n
<1>1. CASE n \in Present' /\ \A m \in Present' : m <= n
  <2>1. Present' \subseteq Int /\ Present' # {}
    BY <1>1 DEF Present
  <2>2. (CHOOSE k \in Present' : \A m \in Present' : m <= k) = n
    BY <1>1, <2>1, Greatest
  <2> QED
    BY <2>1, <2>2 DEF Newest
<1>2. CASE n = 0 /\ Present' = {}
  BY <1>2 DEF Newest
<1> QED
  BY <1>1, <1>2 DEF IsNewest

LEMMA NewestKept ==
  ASSUME LockAssumption, IsNewest(Newest), Present' \subseteq Present, Newest > 0 => Newest \in Present'
  PROVE  Newest' = Newest /\ IsNewest(Newest)'
<1>0. PICK n \in 0 .. MaxTurn : n = Newest
  BY NewestTyped
<1>1. IsNewest(n)'
  <2>1. IsNewest(n) /\ (n > 0 => n \in Present')
    BY <1>0
  <2>2. CASE n = 0
    <3>1. Present = {}
      BY <2>1, <2>2 DEF IsNewest, Present
    <3>2. Present' = {}
      BY <3>1
    <3> QED
      BY <2>2, <3>2 DEF IsNewest
  <2>3. CASE n # 0
    <3>1. n \in Present' /\ \A m \in Present : m <= n
      BY <1>0, <2>1, <2>3 DEF IsNewest
    <3>2. \A m \in Present' : m <= n
      BY <3>1
    <3> QED
      BY <3>1, <3>2 DEF IsNewest
  <2> QED
    BY <2>2, <2>3
<1>2. Newest' = n
  BY <1>1, NewestNext
<1>3. IsNewest(Newest)'
  BY <1>1, <1>2 DEF IsNewest
<1> QED
  BY <1>0, <1>2, <1>3

(* One whose turn nobody touches keeps it; one that has none is out of it.  *)
LEMMA TurnKept ==
  ASSUME NEW r \in Processes, InTurn(r), pc'[r] = pc[r], turn'[r] = turn[r], placed' = placed, Newest' = Newest,
         turns'[turn[r]].owner = r /\ turns'[turn[r]].old => turns[turn[r]].owner = r /\ turns[turn[r]].old,
         turn[r] = Newest /\ turns[turn[r]].owner = r =>
            turns'[turn[r]].owner = r /\ turns'[turn[r]].state = turns[turn[r]].state
  PROVE  InTurn(r)'
BY DEF InTurn, AllSee, Sees

(* Nobody comes to make a turn, or to break, but who was there.             *)
LEMMA FoundKept ==
  ASSUME FoundFree, Newest' = Newest,
         \A r \in Processes : /\ pc'[r] = "create" => pc[r] = "create" /\ turn'[r] = turn[r]
                              /\ pc'[r] \in Breaking \cup {"turn"} =>
                                   pc[r] \in Breaking \cup {"turn"} /\ turn'[r] = turn[r]
  PROVE  FoundFree'
BY DEF FoundFree

LEMMA TurnOver ==
  ASSUME NEW r \in Processes, pc'[r] \notin Breaking \cup {"turn"}, turn'[r] = 0, Newest' \in Nat
  PROVE  InTurn(r)'
<1>1. turn'[r] <= Newest' /\ pc'[r] # "turn" /\ pc'[r] \notin Breaking
  OBVIOUS
<1> QED
  BY <1>1 DEF InTurn

LEMMA TurnsUnchanged ==
  ASSUME LockAssumption, IsNewest(Newest), turns' = turns
  PROVE  Newest' = Newest /\ IsNewest(Newest)' /\ Newest \in 0 .. MaxTurn
<1>1. Present' = Present
  BY DEF Present
<1> QED
  BY <1>1, NewestTyped, NewestKept DEF IsNewest

(* Who takes no turn, and who comes from one to the next step of it.       *)
Quietly(p) ==
  /\ UNCHANGED <<turns, turn, placed>>
  /\ \E to \in Places : /\ pc' = [pc EXCEPT ![p] = to] /\ (to \in {"create", "turn"} => pc[p] = to)
                        /\ to \in Breaking => pc[p] \in Breaking

LEMMA QuietlyBy ==
  ASSUME TypeInv, NEW p \in Processes,
         \/ Begins(p) \/ Acquire(p) \/ Links(p) \/ Matched(p) \/ Renames(p) \/ Compares(p)
         \/ Release(p) \/ IsStopped(p) \/ GoesOn(p)
  PROVE  Quietly(p)
<1>0. pc \in [Processes -> Places]
  BY DEF TypeInv, CommandTyped
<1> USE DEF Quietly, KeepFolder, KeepCommand, KeepWorld, folder, world, command, Step, Goes, Places, Making, Breaking
<1>1. CASE Begins(p) \/ Creates(p) \/ Taken(p) \/ Writes(p) \/ Released(p) \/ LooksAgain(p)
  BY <1>1 DEF Begins, Creates, Taken, Writes, Released, LooksAgain
<1>2. CASE JudgesGone(p) \/ Waits(p)
  BY <1>2 DEF JudgesGone, Waits
<1>3. CASE Links(p) \/ Matched(p)
  BY <1>3 DEF Links, Matched
<1>4. CASE Renames(p) \/ Compares(p)
  BY <1>4 DEF Renames, Compares
<1>5. CASE Release(p)
  BY <1>5 DEF Release, Returns, Removes
<1>6. CASE IsStopped(p) \/ GoesOn(p)
  <2>1. pc' = [pc EXCEPT ![p] = pc[p]] /\ pc[p] \in Places
    BY <1>0, <1>6 DEF IsStopped, GoesOn
  <2> QED
    BY <1>6, <2>1 DEF IsStopped, GoesOn
<1> QED
  BY <1>1, <1>2, <1>3, <1>4, <1>5, <1>6 DEF Acquire

LEMMA TurnsQuietly ==
  ASSUME LockAssumption, TypeInv, TurnsTaken, NEW p \in Processes, Quietly(p)
  PROVE  TurnsTaken'
<1>1. Newest' = Newest /\ IsNewest(Newest)'
  BY TurnsUnchanged DEF TurnsTaken, Quietly
<1>2. turns' = turns /\ turn' = turn /\ placed' = placed
  BY DEF Quietly
<1>3. \A r \in Processes : /\ pc'[r] \in Breaking => pc[r] \in Breaking
                           /\ pc'[r] = "turn" => pc[r] = "turn"
                           /\ pc'[r] = "create" => pc[r] = "create"
  BY DEF Quietly, TypeInv, CommandTyped
<1>4. FoundFree'
  BY <1>1, <1>2, <1>3, FoundKept DEF TurnsTaken
<1>5. ASSUME NEW r \in Processes PROVE InTurn(r)'
  <2>1. InTurn(r)
    BY DEF TurnsTaken
  <2> QED
    BY <1>1, <1>2, <1>3, <2>1 DEF InTurn, AllSee, Sees
<1> QED
  BY <1>1, <1>4, <1>5 DEF TurnsTaken

LEMMA TurnsListed ==
  ASSUME LockAssumption, TypeInv, TurnsTaken, NEW p \in Processes, ListsTurns(p)
  PROVE  TurnsTaken'
<1>1. turns' = turns /\ placed' = placed /\ turn'[p] = Newest /\ pc'[p] = "judge"
  BY DEF ListsTurns, KeepFolder, folder, KeepWorld, world, TypeInv, CommandTyped, Step, Goes
<1>2. Newest' = Newest /\ IsNewest(Newest)' /\ Newest \in 0 .. MaxTurn
  BY <1>1, TurnsUnchanged DEF TurnsTaken
<1>10. FoundFree'
  BY <1>1, <1>2, FoundKept DEF TurnsTaken, ListsTurns, TypeInv, CommandTyped, Step, Goes, Breaking
<1> SUFFICES ASSUME NEW r \in Processes PROVE InTurn(r)'
  BY <1>2, <1>10 DEF TurnsTaken
<1>3. CASE r = p
  BY <1>1, <1>2, <1>3 DEF InTurn, Breaking
<1>4. CASE r # p
  <2>1. pc'[r] = pc[r] /\ turn'[r] = turn[r]
    BY <1>4 DEF ListsTurns, TypeInv, CommandTyped, Step, Goes
  <2> QED
    BY <1>1, <1>2, <2>1, TurnKept DEF TurnsTaken
<1> QED
  BY <1>3, <1>4

(* An owner that breaks is seen, or its turn is young; one that has just     *)
(* made its turn has a young one that says nothing yet.                      *)
LEMMA TurnsFound ==
  ASSUME LockAssumption, TypeInv, TurnsTaken, NEW p \in Processes, FindsFree(p)
  PROVE  TurnsTaken'
<1>0. pc \in [Processes -> Places]
  BY DEF TypeInv, CommandTyped
<1>1. /\ turns' = turns /\ placed' = placed /\ turn' = turn /\ pc[p] = "judge" /\ pc'[p] = "create"
      /\ TurnFree(p, turn[p])
  BY <1>0 DEF FindsFree, KeepFolder, folder, KeepCommand, KeepWorld, world, Step, Goes
<1>2. Newest' = Newest /\ IsNewest(Newest)' /\ Newest \in 0 .. MaxTurn
  BY <1>1, TurnsUnchanged DEF TurnsTaken
<1>3. \A r \in Processes \ {p} : pc'[r] = pc[r]
  BY <1>0 DEF FindsFree, Step, Goes
<1>4. ASSUME turn[p] = Newest, NEW r \in Processes, pc[r] \in Breaking \cup {"turn"}, turn[r] = Newest
      PROVE  FALSE
  <2>1. /\ turns[Newest].owner = r
        /\ \/ turns[Newest].state = "held" /\ pc[r] \in Breaking /\ (turns[Newest].old => AllSee)
           \/ turns[Newest].state = "empty" /\ ~turns[Newest].old
    BY <1>4 DEF TurnsTaken, InTurn
  <2>2. Alive(r)
    BY <1>4 DEF Alive, Breaking
  <2>3. turns[Newest].old /\ ~(turns[Newest].state = "held" /\ Sees(p, r))
    BY <1>1, <1>4, <2>1, <2>2 DEF TurnFree, NoTurn
  <2> QED
    BY <2>1, <2>3 DEF AllSee
<1>5. FoundFree'
  <2> SUFFICES ASSUME NEW q \in Processes, NEW r \in Processes, pc'[q] = "create", turn'[q] = Newest',
                      pc'[r] \in Breaking \cup {"turn"}, turn'[r] = Newest'
               PROVE  FALSE
    BY DEF FoundFree
  <2>1. r # p /\ pc[r] \in Breaking \cup {"turn"} /\ turn[r] = Newest /\ turn[q] = Newest
    BY <1>1, <1>2, <1>3 DEF Breaking
  <2>2. q = p \/ pc[q] = "create"
    BY <1>3
  <2> QED
    BY <1>4, <2>1, <2>2 DEF TurnsTaken, FoundFree
<1>6. ASSUME NEW r \in Processes PROVE InTurn(r)'
  <2>1. InTurn(r)
    BY DEF TurnsTaken
  <2>2. CASE r = p
    BY <1>1, <1>2, <2>1, <2>2 DEF InTurn, Breaking
  <2>3. CASE r # p
    BY <1>1, <1>2, <1>3, <2>1, <2>3, TurnKept
  <2> QED
    BY <2>2, <2>3
<1> QED
  BY <1>2, <1>5, <1>6 DEF TurnsTaken

LEMMA TurnsGivenUp ==
  ASSUME LockAssumption, TypeInv, TurnsTaken, NEW p \in Processes, TurnTaken(p) \/ Dies(p)
  PROVE  TurnsTaken'
<1>0. pc \in [Processes -> Places] /\ turn \in [Processes -> 0 .. MaxTurn]
  BY DEF TypeInv, CommandTyped
<1>1. turns' = turns /\ placed' = placed /\ turn'[p] = 0 /\ pc'[p] \in {"wait", "refused", "dead"}
  BY <1>0 DEF TurnTaken, Busy, Dies, KeepFolder, folder, KeepWorld, world, Step, Goes
<1>2. Newest' = Newest /\ IsNewest(Newest)' /\ Newest \in 0 .. MaxTurn
  BY <1>1, TurnsUnchanged DEF TurnsTaken
<1>10. FoundFree'
  BY <1>0, <1>1, <1>2, FoundKept DEF TurnsTaken, TurnTaken, Busy, Dies, Step, Goes, Breaking
<1> SUFFICES ASSUME NEW r \in Processes PROVE InTurn(r)'
  BY <1>2, <1>10 DEF TurnsTaken
<1>3. CASE r = p
  BY <1>1, <1>2, <1>3, TurnOver DEF Breaking
<1>4. CASE r # p
  <2>1. pc'[r] = pc[r] /\ turn'[r] = turn[r]
    BY <1>0, <1>4 DEF TurnTaken, Busy, Dies, Step, Goes
  <2> QED
    BY <1>1, <1>2, <2>1, TurnKept DEF TurnsTaken
<1> QED
  BY <1>3, <1>4

(* Who finds that it has not the newest turn takes away another one.       *)
LEMMA TurnsLeft ==
  ASSUME LockAssumption, TypeInv, TurnsTaken, NEW p \in Processes, StepsAside(p)
  PROVE  TurnsTaken'
<1>0. /\ pc \in [Processes -> Places] /\ turn \in [Processes -> 0 .. MaxTurn] /\ turns \in [0 .. MaxTurn -> Turns]
      /\ None \notin Processes
  BY DEF TypeInv, FolderTyped, CommandTyped, LockAssumption
<1>1. placed' = placed /\ turn'[p] = 0 /\ pc'[p] \in {"wait", "refused"} /\ Newest # turn[p]
  BY <1>0 DEF StepsAside, Busy, Highest, KeepWorld, world, Step, Goes
<1>2. \A n \in 0 .. MaxTurn : turns'[n] = IF n = turn[p] THEN NoTurn ELSE turns[n]
  BY <1>0 DEF StepsAside
<1>3. Present' \subseteq Present /\ (Newest > 0 => Newest \in Present')
  <2>1. Newest > 0 => Newest \in Present
    BY DEF TurnsTaken, IsNewest
  <2> QED
    BY <1>1, <1>2, <2>1 DEF Present
<1>4. Newest' = Newest /\ IsNewest(Newest)' /\ Newest \in 0 .. MaxTurn
  BY <1>3, NewestKept, NewestTyped DEF TurnsTaken
<1>10. FoundFree'
  BY <1>0, <1>1, <1>4, FoundKept DEF TurnsTaken, StepsAside, Busy, Step, Goes, Breaking
<1> SUFFICES ASSUME NEW r \in Processes PROVE InTurn(r)'
  BY <1>4, <1>10 DEF TurnsTaken
<1>5. CASE r = p
  BY <1>1, <1>4, <1>5, TurnOver DEF Breaking
<1>6. CASE r # p
  <2>1. pc'[r] = pc[r] /\ turn'[r] = turn[r]
    BY <1>0, <1>6 DEF StepsAside, Busy, Step, Goes
  <2>2. turns'[turn[r]] = IF turn[r] = turn[p] THEN NoTurn ELSE turns[turn[r]]
    BY <1>0, <1>2
  <2>3. turns'[turn[r]].owner = r => turns'[turn[r]] = turns[turn[r]]
    BY <1>0, <2>2 DEF NoTurn
  <2>4. turn[r] = Newest => turns'[turn[r]] = turns[turn[r]]
    BY <1>1, <2>2
  <2> QED
    BY <1>1, <1>4, <2>1, <2>3, <2>4, TurnKept DEF TurnsTaken
<1> QED
  BY <1>5, <1>6

LEMMA TurnsHad ==
  ASSUME LockAssumption, TypeInv, TurnsTaken, NEW p \in Processes, HasTurn(p)
  PROVE  TurnsTaken'
<1>0. pc \in [Processes -> Places] /\ turn \in [Processes -> 0 .. MaxTurn] /\ turns \in [0 .. MaxTurn -> Turns]
  BY DEF TypeInv, FolderTyped, CommandTyped
<1>1. placed' = placed /\ turn' = turn /\ pc[p] = "turn" /\ pc'[p] = "tidy" /\ turn[p] = Newest
  BY <1>0 DEF HasTurn, KeepWorld, world, KeepCommand, Highest, Step, Goes
<1>2. turn[p] > 0 /\ turn[p] \in Present /\ turns[turn[p]].owner = p
  BY <1>1 DEF TurnsTaken, InTurn, IsNewest
<1>3. turns[turn[p]] # NoTurn /\ turns[turn[p]] \in Turns
  BY <1>0, <1>2 DEF Present
<1>4. \A n \in 0 .. MaxTurn : turns'[n] = IF n = turn[p] THEN [turns[n] EXCEPT !.state = "held"] ELSE turns[n]
  BY <1>0, <1>3 DEF HasTurn
<1>5. /\ turns'[turn[p]].state = "held" /\ turns'[turn[p]].owner = p
      /\ turns'[turn[p]].old = turns[turn[p]].old
  BY <1>0, <1>2, <1>3, <1>4 DEF Turns
<1>6. Present' = Present
  <2>1. turns'[turn[p]] # NoTurn
    BY <1>5 DEF NoTurn
  <2>2. ASSUME NEW n \in 1 .. MaxTurn PROVE turns'[n] # NoTurn <=> turns[n] # NoTurn
    <3>1. turns'[n] = IF n = turn[p] THEN [turns[n] EXCEPT !.state = "held"] ELSE turns[n]
      BY <1>4
    <3> QED
      BY <1>3, <2>1, <3>1
  <2> QED
    BY <2>2 DEF Present
<1>7. Newest' = Newest /\ IsNewest(Newest)' /\ Newest \in 0 .. MaxTurn
  BY <1>6, NewestKept, NewestTyped DEF TurnsTaken, IsNewest
<1>10. FoundFree'
  BY <1>0, <1>1, <1>7, FoundKept DEF TurnsTaken, HasTurn, Step, Goes, Breaking
<1> SUFFICES ASSUME NEW r \in Processes PROVE InTurn(r)'
  BY <1>7, <1>10 DEF TurnsTaken
<1>8. CASE r = p
  BY <1>1, <1>2, <1>5, <1>7, <1>8 DEF InTurn, TurnsTaken, AllSee, Sees
<1>9. CASE r # p
  <2>1. pc'[r] = pc[r] /\ turn'[r] = turn[r]
    BY <1>0, <1>1, <1>9 DEF HasTurn, Step, Goes
  <2>2. CASE turn[r] = turn[p]
    <3>1. turns'[turn[r]].owner # r /\ turns[turn[r]].owner # r
      BY <1>2, <1>5, <1>9, <2>2
    <3> QED
      BY <1>1, <1>7, <2>1, <3>1, TurnKept DEF TurnsTaken
  <2>3. CASE turn[r] # turn[p]
    <3>1. turns'[turn[r]] = turns[turn[r]]
      BY <1>0, <1>4, <2>3
    <3> QED
      BY <1>1, <1>7, <2>1, <3>1, TurnKept DEF TurnsTaken
  <2> QED
    BY <2>2, <2>3
<1> QED
  BY <1>8, <1>9

LEMMA TurnsTidied ==
  ASSUME LockAssumption, TypeInv, TurnsTaken, NEW p \in Processes, Tidies(p)
  PROVE  TurnsTaken'
<1>0. /\ pc \in [Processes -> Places] /\ turn \in [Processes -> 0 .. MaxTurn] /\ turns \in [0 .. MaxTurn -> Turns]
      /\ None \notin Processes
  BY DEF TypeInv, FolderTyped, CommandTyped, LockAssumption
<1>1. placed' = placed /\ turn' = turn /\ pc[p] = "tidy" /\ pc'[p] = "link"
  BY <1>0 DEF Tidies, KeepWorld, world, KeepCommand, Step, Goes
<1>2. turn[p] = Newest /\ InTurn(p)
  BY <1>1 DEF TurnsTaken, InTurn, Breaking
<1>3. \A n \in 0 .. MaxTurn : turns'[n] = IF n < turn[p] THEN NoTurn ELSE turns[n]
  BY DEF Tidies
<1>4. Present' \subseteq Present /\ (Newest > 0 => Newest \in Present')
  <2>1. Newest > 0 => Newest \in Present
    BY DEF TurnsTaken, IsNewest
  <2>2. turns'[turn[p]] = turns[turn[p]]
    BY <1>0, <1>3
  <2> QED
    BY <1>2, <1>3, <2>1, <2>2 DEF Present
<1>5. Newest' = Newest /\ IsNewest(Newest)' /\ Newest \in 0 .. MaxTurn
  BY <1>4, NewestKept, NewestTyped DEF TurnsTaken
<1>10. FoundFree'
  BY <1>0, <1>1, <1>5, FoundKept DEF TurnsTaken, Tidies, Step, Goes, Breaking
<1> SUFFICES ASSUME NEW r \in Processes PROVE InTurn(r)'
  BY <1>5, <1>10 DEF TurnsTaken
<1>6. turns'[turn[r]] = IF turn[r] < turn[p] THEN NoTurn ELSE turns[turn[r]]
  BY <1>0, <1>3
<1>7. CASE r = p
  <2>1. turns'[turn[r]] = turns[turn[r]]
    BY <1>0, <1>6, <1>7
  <2> QED
    BY <1>1, <1>2, <1>5, <1>7, <2>1 DEF InTurn, Breaking, AllSee, Sees
<1>8. CASE r # p
  <2>1. pc'[r] = pc[r] /\ turn'[r] = turn[r]
    BY <1>0, <1>1, <1>8 DEF Tidies, Step, Goes
  <2>2. turns'[turn[r]].owner = r => turns'[turn[r]] = turns[turn[r]]
    BY <1>0, <1>6 DEF NoTurn
  <2>3. turn[r] = Newest => turns'[turn[r]] = turns[turn[r]]
    BY <1>0, <1>2, <1>6
  <2> QED
    BY <1>1, <1>5, <2>1, <2>2, <2>3, TurnKept DEF TurnsTaken
<1> QED
  BY <1>7, <1>8

(* A turn is only taken over the newest one of somebody who is through.      *)
LEMMA FollowsFree ==
  ASSUME LockAssumption, TypeInv, TurnsTaken, NEW p \in Processes, TakesTurn(p),
         NEW r \in Processes, pc[r] \in Breaking
  PROVE  Following(p) < Newest
<1>0. turn \in [Processes -> 0 .. MaxTurn] /\ Newest \in 0 .. MaxTurn
  BY NewestTyped DEF TypeInv, CommandTyped, TurnsTaken
<1>1. turn[r] = Newest /\ turn[r] > 0
  BY DEF TurnsTaken, InTurn
<1>2. pc[p] = "create" /\ turns[Following(p)] = NoTurn /\ turn[p] <= Newest
  BY DEF TakesTurn, Step, TurnsTaken, InTurn
<1>3. Newest \in Present
  BY <1>1 DEF TurnsTaken, IsNewest
<1>4. Following(p) # Newest
  BY <1>2, <1>3 DEF Present
<1>5. turn[p] # Newest
  BY <1>1, <1>2 DEF TurnsTaken, FoundFree
<1> QED
  BY <1>0, <1>2, <1>4, <1>5 DEF Following

LEMMA TurnsTakenOn ==
  ASSUME LockAssumption, TypeInv, TurnsTaken, NEW p \in Processes, TakesTurn(p)
  PROVE  TurnsTaken'
<1>0. /\ pc \in [Processes -> Places] /\ turn \in [Processes -> 0 .. MaxTurn] /\ turns \in [0 .. MaxTurn -> Turns]
      /\ None \notin Processes /\ Newest \in 0 .. MaxTurn /\ MaxTurn \in Nat
  BY NewestTyped DEF TypeInv, FolderTyped, CommandTyped, LockAssumption, TurnsTaken
<1> DEFINE mine == [owner |-> p, state |-> "empty", old |-> FALSE]
<1>1. PICK k \in 1 .. MaxTurn : k = Following(p)
  BY <1>0 DEF TakesTurn, Following
<1>2. /\ placed' = placed /\ pc'[p] = "turn" /\ turn'[p] = k /\ turns[k] = NoTurn /\ k <= Newest + 1
      /\ \A n \in 0 .. MaxTurn : turns'[n] = IF n = k THEN mine ELSE turns[n]
  BY <1>0, <1>1 DEF TakesTurn, KeepWorld, world, Step, Goes, Following, TurnsTaken, InTurn
<1>3. mine # NoTurn /\ k # Newest
  <2>1. mine.state # NoTurn.state
    BY DEF NoTurn
  <2>2. Newest > 0 => turns[Newest] # NoTurn
    BY DEF TurnsTaken, IsNewest, Present
  <2> QED
    BY <1>1, <1>2, <2>1, <2>2
<1>4. Present' = Present \cup {k}
  BY <1>1, <1>2, <1>3 DEF Present
<1>5. /\ IsNewest(Newest)' /\ Newest' \in 0 .. MaxTurn /\ k <= Newest' /\ Newest <= Newest'
      /\ Newest' = k \/ Newest' = Newest
  <2>1. PICK n \in 0 .. MaxTurn : n = Newest
    BY <1>0
  <2>2. IsNewest(n)
    BY <2>1 DEF TurnsTaken
  <2>3. CASE k > n
    <3>1. \A m \in Present : m <= n
      BY <2>2 DEF IsNewest
    <3>2. IsNewest(k)'
      BY <1>4, <2>3, <3>1 DEF IsNewest, Present
    <3>3. Newest' = k
      BY <3>2, NewestNext
    <3> QED
      BY <1>1, <2>1, <2>3, <3>2, <3>3 DEF IsNewest
  <2>4. CASE k <= n
    <3>1. n \in Present /\ \A m \in Present : m <= n
      BY <1>1, <2>2, <2>4 DEF IsNewest
    <3>2. IsNewest(n)'
      BY <1>4, <2>4, <3>1 DEF IsNewest
    <3>3. Newest' = n
      BY <3>2, NewestNext
    <3> QED
      BY <1>1, <2>1, <2>4, <3>2, <3>3 DEF IsNewest
  <2> QED
    BY <1>1, <2>3, <2>4
<1>10. FoundFree'
  <2> SUFFICES ASSUME NEW q \in Processes, NEW r \in Processes, pc'[q] = "create", turn'[q] = Newest',
                      pc'[r] \in Breaking \cup {"turn"}, turn'[r] = Newest'
               PROVE  FALSE
    BY DEF FoundFree
  <2>1. \A o \in Processes \ {p} : pc'[o] = pc[o] /\ turn'[o] = turn[o]
    BY <1>0 DEF TakesTurn, Step, Goes
  <2>2. q # p /\ pc[q] = "create" /\ turn[q] = Newest'
    BY <1>2, <2>1
  <2>3. turn[q] <= Newest
    BY DEF TurnsTaken, InTurn
  <2>4. Newest' = Newest
    BY <1>0, <1>5, <2>2, <2>3
  <2>5. r # p
    BY <1>2, <1>3, <2>4
  <2> QED
    BY <2>1, <2>2, <2>4, <2>5 DEF TurnsTaken, FoundFree
<1> SUFFICES ASSUME NEW r \in Processes PROVE InTurn(r)'
  BY <1>5, <1>10 DEF TurnsTaken
<1>6. CASE r = p
  <2>1. turns'[k].owner = p /\ turns'[k].state = "empty" /\ turns'[k].old = FALSE
    BY <1>1, <1>2
  <2> QED
    BY <1>1, <1>2, <1>5, <1>6, <2>1 DEF InTurn, Breaking
<1>7. CASE r # p
  <2>1. pc'[r] = pc[r] /\ turn'[r] = turn[r] /\ turn[r] \in 0 .. MaxTurn /\ InTurn(r)
    BY <1>0, <1>7 DEF TakesTurn, Step, Goes, TurnsTaken
  <2>2. turns'[turn[r]].owner = r => turns'[turn[r]] = turns[turn[r]]
    BY <1>2, <1>7, <2>1
  <2>3. CASE Newest' = Newest
    <3>1. turn[r] = Newest => turns'[turn[r]] = turns[turn[r]]
      BY <1>2, <1>3, <2>1
    <3> QED
      BY <1>2, <2>1, <2>2, <2>3, <3>1, TurnKept
  <2>4. CASE Newest' # Newest
    <3>1. turn[r] < Newest' /\ pc[r] \notin Breaking
      BY <1>0, <1>1, <1>5, <2>1, <2>4, FollowsFree DEF InTurn
    <3> QED
      BY <1>2, <1>5, <2>1, <2>2, <3>1 DEF InTurn, AllSee, Sees
  <2> QED
    BY <2>3, <2>4
<1> QED
  BY <1>6, <1>7

LEMMA TurnsReleased ==
  ASSUME LockAssumption, TypeInv, TurnsTaken, NEW p \in Processes, EndsBreak(p)
  PROVE  TurnsTaken'
<1>0. /\ pc \in [Processes -> Places] /\ turn \in [Processes -> 0 .. MaxTurn] /\ turns \in [0 .. MaxTurn -> Turns]
      /\ None \notin Processes
  BY DEF TypeInv, FolderTyped, CommandTyped, LockAssumption
<1>1. placed' = placed /\ turn'[p] = 0 /\ pc'[p] \in {"try", "failed"}
  BY <1>0 DEF EndsBreak, KeepWorld, world, Step, Goes
<1>2. \A n \in 0 .. MaxTurn : turns'[n] = IF turns[n] # NoTurn /\ turns[n].owner = p
                                          THEN [turns[n] EXCEPT !.state = "released"] ELSE turns[n]
  BY DEF EndsBreak
<1>3. Present' = Present
  <2>1. \A t \in Turns : [t EXCEPT !.state = "released"].state # NoTurn.state
    BY DEF Turns, NoTurn
  <2>2. ASSUME NEW n \in 1 .. MaxTurn PROVE turns'[n] # NoTurn <=> turns[n] # NoTurn
    <3>1. turns[n] \in Turns
      BY <1>0
    <3>2. turns'[n] = IF turns[n] # NoTurn /\ turns[n].owner = p
                       THEN [turns[n] EXCEPT !.state = "released"] ELSE turns[n]
      BY <1>2
    <3> QED
      BY <2>1, <3>1, <3>2
  <2> QED
    BY <2>2 DEF Present
<1>4. Newest' = Newest /\ IsNewest(Newest)' /\ Newest \in 0 .. MaxTurn
  BY <1>3, NewestKept, NewestTyped DEF TurnsTaken, IsNewest
<1>10. FoundFree'
  BY <1>0, <1>1, <1>4, FoundKept DEF TurnsTaken, EndsBreak, Step, Goes, Breaking
<1> SUFFICES ASSUME NEW r \in Processes PROVE InTurn(r)'
  BY <1>4, <1>10 DEF TurnsTaken
<1>5. CASE r = p
  BY <1>1, <1>4, <1>5, TurnOver DEF Breaking
<1>6. CASE r # p
  <2>1. pc'[r] = pc[r] /\ turn'[r] = turn[r]
    BY <1>0, <1>6 DEF EndsBreak, Step, Goes
  <2>2. turns[turn[r]].owner # p => turns'[turn[r]] = turns[turn[r]]
    BY <1>0, <1>2
  <2>3. turns[turn[r]].owner = p => turns'[turn[r]].owner = p
    <3>1. \A t \in Turns : [t EXCEPT !.state = "released"].owner = t.owner
      BY DEF Turns
    <3>2. turn[r] \in 0 .. MaxTurn /\ turns[turn[r]] \in Turns
      BY <1>0
    <3> QED
      BY <1>2, <3>1, <3>2
  <2>4. turns'[turn[r]].owner = r \/ turns[turn[r]].owner = r => turns'[turn[r]] = turns[turn[r]]
    BY <1>6, <2>2, <2>3
  <2>5. InTurn(r) /\ placed' = placed /\ Newest' = Newest
    BY <1>1, <1>4 DEF TurnsTaken
  <2> QED
    BY <2>1, <2>4, <2>5, TurnKept
<1> QED
  BY <1>5, <1>6

(* Turns get old only where everybody in one is seen. *)
LEMMA TurnsAge ==
  ASSUME LockAssumption, TypeInv, Safely, Tick \/ (ClockJumps /\ ~excused')
  PROVE  TurnsTaken'
<1>0. turn \in [Processes -> 0 .. MaxTurn] /\ turns \in [0 .. MaxTurn -> Turns] /\ None \notin Processes
  BY DEF TypeInv, FolderTyped, CommandTyped, LockAssumption
<1>1. UNCHANGED <<placed, pc, turn, stopped>> /\ TurnsTaken
  BY DEF Tick, ClockJumps, KeepWorld, world, command, Safely
<1>2. \A n \in 0 .. MaxTurn : turns'[n] = IF turns[n] = NoTurn THEN NoTurn ELSE [turns[n] EXCEPT !.old = TRUE]
  BY DEF Tick, ClockJumps
<1>3. Present' = Present
  <2>1. \A t \in Turns : [t EXCEPT !.old = TRUE].old # NoTurn.old
    BY DEF Turns, NoTurn
  <2>2. ASSUME NEW n \in 1 .. MaxTurn PROVE turns'[n] # NoTurn <=> turns[n] # NoTurn
    <3>1. turns[n] \in Turns
      BY <1>0
    <3>2. turns'[n] = IF turns[n] = NoTurn THEN NoTurn ELSE [turns[n] EXCEPT !.old = TRUE]
      BY <1>2
    <3> QED
      BY <2>1, <3>1, <3>2
  <2> QED
    BY <2>2 DEF Present
<1>4. Newest' = Newest /\ IsNewest(Newest)'
  BY <1>1, <1>3, NewestKept DEF TurnsTaken, IsNewest
<1>10. FoundFree'
  BY <1>1, <1>4, FoundKept DEF TurnsTaken
<1> SUFFICES ASSUME NEW r \in Processes PROVE InTurn(r)'
  BY <1>4, <1>10 DEF TurnsTaken
<1>5. turns'[turn[r]].owner = turns[turn[r]].owner /\ turns'[turn[r]].state = turns[turn[r]].state
  <2>1. \A t \in Turns : [t EXCEPT !.old = TRUE].owner = t.owner /\ [t EXCEPT !.old = TRUE].state = t.state
    BY DEF Turns
  <2>2. turn[r] \in 0 .. MaxTurn /\ turns[turn[r]] \in Turns
    BY <1>0
  <2> QED
    BY <1>2, <2>1, <2>2
<1>6. pc[r] # "turn" /\ (pc[r] \in Breaking => AllSee)
  BY TimeMade DEF Unwritten
<1>7. InTurn(r)
  BY <1>1 DEF TurnsTaken
<1> QED
  BY <1>1, <1>4, <1>5, <1>6, <1>7 DEF InTurn, AllSee, Sees

LEMMA TurnsStep ==
  ASSUME LockAssumption, TypeInv, TurnsTaken, NEW p \in Processes, Acts(p)
  PROVE  TurnsTaken'
<1>1. CASE TakeTurn(p)
  BY <1>1, TurnsListed, TurnsFound, TurnsTakenOn, TurnsGivenUp, TurnsLeft, TurnsHad, TurnsTidied DEF TakeTurn
<1>2. CASE EndsBreak(p)
  BY <1>2, TurnsReleased
<1>3. CASE Dies(p)
  BY <1>3, TurnsGivenUp
<1>4. CASE \/ Begins(p) \/ Acquire(p) \/ Links(p) \/ Matched(p) \/ Renames(p) \/ Compares(p)
           \/ Release(p) \/ IsStopped(p) \/ GoesOn(p)
  BY <1>4, QuietlyBy, TurnsQuietly
<1> QED
  BY <1>1, <1>2, <1>3, <1>4 DEF Acts, Works, Break

(***************************************************************************)
(* What a breaker is at.  Nobody else is at it too, and the lock of a dead *)
(* command stays until the breaker moves it away.                          *)
(***************************************************************************)
LEMMA OneBreaker ==
  ASSUME TurnsTaken, NEW p \in Processes, NEW r \in Processes, pc[p] \in Breaking, pc[r] \in Breaking
  PROVE  p = r
BY DEF TurnsTaken, InTurn

(* Who breaks nothing leaves the second names alone, and the lock unless it *)
(* makes or removes its own.                                                *)
LEMMA LeavesNames ==
  ASSUME TypeInv, Owned, NEW p \in Processes, Acts(p), pc[p] \notin Breaking
  PROVE  /\ UNCHANGED <<copy, aside>>
         /\ lock' = lock \/ lock = None \/ (lock = p /\ pc'[p] = "done")
<1>0. pc \in [Processes -> Places]
  BY DEF TypeInv, CommandTyped
<1> USE DEF KeepFolder, folder, Step, Goes, Breaking
<1>1. CASE Begins(p) \/ Acquire(p)
  BY <1>1 DEF Begins, Acquire, Creates, Taken, Writes, Released, JudgesGone, Waits, LooksAgain
<1>2. CASE TakeTurn(p)
  BY <1>2 DEF TakeTurn, ListsTurns, FindsFree, TakesTurn, TurnTaken, StepsAside, Busy, HasTurn, Tidies
<1>3. CASE Break(p)
  BY <1>3 DEF Break, Links, Matched, Renames, Compares, EndsBreak
<1>4. CASE Release(p)
  BY <1>0, <1>4 DEF Release, Returns, Removes, Owned, Making
<1>5. CASE Dies(p) \/ IsStopped(p) \/ GoesOn(p)
  BY <1>5 DEF Dies, Ended, IsStopped, GoesOn
<1> QED
  BY <1>1, <1>2, <1>3, <1>4, <1>5 DEF Acts, Works

LEMMA OtherPlaces ==
  ASSUME TypeInv, NEW p \in Processes, Acts(p), NEW r \in Processes
  PROVE  /\ r # p => pc'[r] = pc[r]
         /\ pc[r] \in {"done", "dead"} => pc'[r] = pc[r]
<1>0. pc \in [Processes -> Places]
  BY DEF TypeInv, CommandTyped
<1> USE DEF Step, Goes
<1>1. CASE Begins(p) \/ Acquire(p)
  BY <1>0, <1>1 DEF Begins, Acquire, Creates, Taken, Writes, Released, JudgesGone, Waits, LooksAgain
<1>2. CASE TakeTurn(p)
  BY <1>0, <1>2 DEF TakeTurn, ListsTurns, FindsFree, TakesTurn, TurnTaken, StepsAside, Busy, HasTurn, Tidies
<1>3. CASE Break(p)
  BY <1>0, <1>3 DEF Break, Links, Matched, Renames, Compares, EndsBreak
<1>4. CASE Release(p)
  BY <1>0, <1>4 DEF Release, Returns, Removes
<1>5. CASE Dies(p) \/ IsStopped(p) \/ GoesOn(p)
  BY <1>0, <1>5 DEF Dies, Ended, IsStopped, GoesOn, Alive, command
<1> QED
  BY <1>1, <1>2, <1>3, <1>4, <1>5 DEF Acts, Works

(* The steps of others: the lock a breaker linked may only be removed by   *)
(* its holder, and that of a dead command not at all.                      *)
LEMMA AimKept ==
  ASSUME LockAssumption, TypeInv, Safely, NEW p \in Processes, Acts(p), NEW r \in Processes, r # p
  PROVE  Aim(r)'
<1>1. pc'[r] = pc[r] /\ Aim(r)
  BY OtherPlaces DEF Safely, Aims, Aim
<1>2. CASE pc[r] \notin Breaking
  BY <1>1, <1>2 DEF Aim, Breaking
<1>3. CASE pc[r] \in Breaking
  <2>1. pc[p] \notin Breaking
    BY <1>3, OneBreaker DEF Safely
  <2>2. UNCHANGED <<copy, aside>> /\ (lock' = lock \/ lock = None \/ (lock = p /\ pc'[p] = "done"))
    BY <2>1, LeavesNames DEF Safely
  <2>3. ASSUME pc[r] = "match"
        PROVE  \E q \in Processes : copy'[r] = q /\ (lock' = q \/ pc'[q] = "done")
    <3>1. PICK q \in Processes : copy[r] = q /\ (lock = q \/ pc[q] = "done")
      BY <1>1, <2>3 DEF Aim
    <3>2. lock' = q \/ pc'[q] = "done"
      BY <2>2, <3>1, OtherPlaces DEF LockAssumption
    <3> QED
      BY <2>2, <3>1, <3>2
  <2>4. ASSUME pc[r] = "rename"
        PROVE  \E q \in Processes : copy'[r] = q /\ lock' = q /\ Dead(q)'
    <3>1. PICK q \in Processes : copy[r] = q /\ lock = q /\ Dead(q)
      BY <1>1, <2>4 DEF Aim
    <3>2. lock' = q /\ Dead(q)'
      BY <2>2, <3>1, OtherPlaces DEF LockAssumption, Dead
    <3> QED
      BY <2>2, <3>1, <3>2
  <2> QED
    BY <1>1, <2>2, <2>3, <2>4 DEF Aim
<1> QED
  BY <1>2, <1>3

(* Its own steps: it goes on to move a lock away that it matched.          *)
LEMMA MatchedDead ==
  ASSUME LockAssumption, TypeInv, Safely, NEW p \in Processes, pc[p] = "match", Matches(p, copy[p])
  PROVE  \E q \in Processes : copy[p] = q /\ lock = q /\ Dead(q)
<1>1. PICK q \in Processes : copy[p] = q /\ (lock = q \/ pc[q] = "done")
  BY DEF Safely, Aims, Aim
<1>2. q # None
  BY <1>1 DEF LockAssumption
<1>3. CASE files[q].written
  <2>1. judged[p] = q
    BY <1>1, <1>2, <1>3 DEF Matches
  <2>2. Dead(q)
    BY <2>1 DEF Safely, JudgedDead
  <2> QED
    BY <1>1, <2>2 DEF Dead
<1>4. CASE ~files[q].written
  <2>1. files[q].age > FRESH /\ FRESH \in Nat
    BY <1>1, <1>2, <1>4 DEF Matches, LockAssumption
  <2>2. pc[q] \notin {"holding", "remove", "done"}
    BY <1>4 DEF Safely, Written
  <2>3. pc[q] # "write"
    BY <2>1 DEF Safely, Written
  <2>4. lock = q
    BY <1>1, <2>2
  <2>5. Dead(q)
    BY <2>2, <2>3, <2>4 DEF Safely, Owned, Making
  <2> QED
    BY <1>1, <2>4, <2>5
<1> QED
  BY <1>3, <1>4

LEMMA AimOwn ==
  ASSUME LockAssumption, TypeInv, Safely, links, NEW p \in Processes, Acts(p)
  PROVE  Aim(p)'
<1>0. pc \in [Processes -> Places] /\ copy \in [Processes -> Some] /\ aside \in [Processes -> Some] /\ None \notin Processes
  BY DEF TypeInv, FolderTyped, CommandTyped, LockAssumption
<1> USE DEF Step, Goes, Aim
<1>1. CASE Begins(p) \/ Acquire(p)
  BY <1>0, <1>1 DEF Begins, Acquire, Creates, Taken, Writes, Released, JudgesGone, Waits, LooksAgain
<1>2. CASE TakeTurn(p)
  BY <1>0, <1>2 DEF TakeTurn, ListsTurns, FindsFree, TakesTurn, TurnTaken, StepsAside, Busy, HasTurn, Tidies
<1>3. CASE Links(p)
  <2>1. CASE lock = None
    BY <1>0, <1>3, <2>1 DEF Links
  <2>2. CASE lock # None
    <3>1. pc'[p] = "match" /\ copy'[p] = lock /\ lock' = lock /\ lock \in Processes
      BY <1>0, <1>3, <2>2 DEF Links, TypeInv, FolderTyped, Some
    <3> QED
      BY <3>1
  <2> QED
    BY <2>1, <2>2
<1>4. CASE Matched(p)
  <2>1. UNCHANGED <<copy, lock>> /\ pc[p] = "match"
    BY <1>4 DEF Matched, KeepFolder, folder
  <2>2. CASE Matches(p, copy[p])
    <3>1. PICK q \in Processes : copy[p] = q /\ lock = q /\ Dead(q)
      BY <2>1, <2>2, MatchedDead
    <3>2. pc'[p] = "rename" /\ Dead(q)'
      BY <1>0, <1>4, <2>2, <3>1, OtherPlaces DEF Matched, Dead
    <3> QED
      BY <2>1, <3>1, <3>2
  <2>3. CASE ~Matches(p, copy[p])
    BY <1>0, <1>4, <2>3 DEF Matched
  <2> QED
    BY <2>2, <2>3
<1>5. CASE Renames(p)
  <2>1. lock \in Processes /\ copy[p] = lock
    BY <1>5, RenamesDead DEF Safely
  <2>2. pc'[p] = "compare" /\ aside'[p] = lock /\ copy' = copy
    BY <1>0, <1>5, <2>1 DEF Renames
  <2> QED
    BY <2>1, <2>2
<1>6. CASE Compares(p)
  <2>1. ~NamesGone(p)
    BY <1>0, <1>6 DEF Compares, NamesGone, Safely, Aims, Aim
  <2>2. pc'[p] = "end"
    BY <1>0, <1>6, <2>1 DEF Compares
  <2> QED
    BY <2>2
<1>7. CASE EndsBreak(p)
  BY <1>0, <1>7 DEF EndsBreak
<1>8. CASE Release(p) \/ Dies(p)
  BY <1>0, <1>8 DEF Release, Returns, Removes, Dies
<1>9. CASE IsStopped(p) \/ GoesOn(p)
  <2>1. UNCHANGED <<pc, copy, aside, lock>>
    BY <1>9 DEF IsStopped, GoesOn, KeepFolder, folder, command
  <2>2. Aim(p)
    BY DEF Safely, Aims, Aim
  <2> QED
    BY <2>1, <2>2 DEF Dead
<1> QED
  BY <1>1, <1>2, <1>3, <1>4, <1>5, <1>6, <1>7, <1>8, <1>9 DEF Acts, Works, Break

LEMMA AimsStep ==
  ASSUME LockAssumption, TypeInv, Safely, links, NEW p \in Processes, Acts(p)
  PROVE  Aims'
<1>1. \A r \in Processes : Aim(r)'
  BY AimKept, AimOwn
<1> QED
  BY <1>1 DEF Aims

(***************************************************************************)
(* All of it.  A stopped command excuses nothing only if all can see it.   *)
(***************************************************************************)
LEMMA WorldKept ==
  ASSUME NEW p \in Processes, Acts(p)
  PROVE  /\ UNCHANGED <<placed, links>> /\ (excused => excused')
         /\ stopped' \subseteq stopped \/ excused' \/ AllSee
<1> USE DEF KeepWorld, world
<1>1. CASE Begins(p) \/ Acquire(p)
  BY <1>1 DEF Begins, Acquire, Creates, Taken, Writes, Released, JudgesGone, Waits, LooksAgain
<1>2. CASE TakeTurn(p)
  BY <1>2 DEF TakeTurn, ListsTurns, FindsFree, TakesTurn, TurnTaken, StepsAside, Busy, HasTurn, Tidies
<1>3. CASE Break(p)
  BY <1>3 DEF Break, Links, Matched, Renames, Compares, EndsBreak
<1>4. CASE Release(p)
  BY <1>4 DEF Release, Returns, Removes
<1>5. CASE Dies(p) \/ GoesOn(p)
  BY <1>5 DEF Dies, GoesOn
<1>6. CASE IsStopped(p)
  BY <1>6 DEF IsStopped
<1> QED
  BY <1>1, <1>2, <1>3, <1>4, <1>5, <1>6 DEF Acts, Works

LEMMA ActsSafely ==
  ASSUME LockAssumption, LockInv, NEW p \in Processes, Acts(p)
  PROVE  LockInv'
<1> SUFFICES ASSUME links', ~excused' PROVE TypeInv' /\ Safely'
  BY DEF LockInv
<1>1. links /\ TypeInv /\ Safely
  BY WorldKept DEF LockInv
<1>2. TypeInv'
  <2>1. CASE Begins(p) \/ Acquire(p)
    BY <1>1, <2>1, AcquireTyped
  <2>2. CASE TakeTurn(p)
    BY <1>1, <2>2, TakeTurnTyped DEF Safely
  <2>3. CASE Break(p)
    BY <1>1, <2>3, BreakTyped
  <2>4. CASE Release(p) \/ Dies(p) \/ IsStopped(p) \/ GoesOn(p)
    BY <1>1, <2>4, OthersTyped
  <2> QED
    BY <2>1, <2>2, <2>3, <2>4 DEF Acts, Works
<1>3. InTheOpen'
  <2>1. stopped' # {} => AllSee
    BY <1>1, WorldKept DEF Safely, InTheOpen
  <2>2. AllSee => AllSee'
    BY WorldKept DEF AllSee, Sees
  <2> QED
    BY <2>1, <2>2 DEF InTheOpen
<1>4. Owned' /\ Written'
  BY <1>1, OwnedStep
<1>5. JudgedDead' /\ WatchedWell'
  BY <1>1, JudgedStep, WatchedStep
<1>6. TurnsTaken' /\ Aims'
  BY <1>1, TurnsStep, AimsStep DEF Safely
<1> QED
  BY <1>2, <1>3, <1>4, <1>5, <1>6 DEF Safely

(* Whoever holds the lock and runs beats at every tick: who was seen        *)
(* without a beat for one of them is dead.                                  *)
LEMMA TickWatched ==
  ASSUME LockAssumption, TypeInv, Safely, Tick
  PROVE  WatchedWell'
<1> SUFFICES ASSUME NEW p \in Processes, NEW q \in Processes, watched'[p].of = q
             PROVE  /\ ~Sees(p, q)' /\ Made(q)'
                    /\ lock' = q /\ watched'[p].for > 0 => Dead(q)'
  BY DEF WatchedWell, Made, Dead, Making
<1>0. UNCHANGED <<placed, pc, lock>> /\ Rest /\ None \notin Processes /\ watched[p] \in Watches
  BY DEF Tick, KeepWorld, world, LockAssumption, TypeInv, CommandTyped
<1>1. /\ watched[p].of # None /\ ~Beats(watched[p].of)
      /\ watched'[p] = [watched[p] EXCEPT !.for = IF @ < OBSERVE THEN @ + 1 ELSE @]
  BY <1>0 DEF Tick, NotWatching
<1>2. watched[p].of = q
  BY <1>0, <1>1 DEF Watches
<1>3. ~Sees(p, q) /\ Made(q)
  BY <1>2 DEF Safely, WatchedWell, Made, Dead
<1>4. ASSUME lock = q PROVE Dead(q)
  <2>1. q \notin stopped
    BY <1>3 DEF Safely, InTheOpen, AllSee
  <2>2. pc[q] # "holding"
    BY <1>1, <1>2, <1>4, <2>1 DEF Beats
  <2>3. pc[q] \in Resting
    BY <1>0, <2>1 DEF Rest
  <2> QED
    BY <1>4, <2>2, <2>3 DEF Safely, Owned, Making, Resting, Ended
<1> QED
  BY <1>0, <1>3, <1>4 DEF Sees, Made, Dead

LEMMA TimeSafely ==
  ASSUME LockAssumption, LockInv, Tick \/ ClockJumps
  PROVE  LockInv'
<1> SUFFICES ASSUME links', ~excused' PROVE TypeInv' /\ Safely'
  BY DEF LockInv
<1>0. UNCHANGED <<placed, links, stopped, pc, lock, copy, aside, judged, turn>>
  BY DEF Tick, ClockJumps, KeepWorld, world, command
<1>1. links /\ TypeInv /\ Safely
  <2>1. CASE Tick
    BY <2>1 DEF Tick, KeepWorld, world, LockInv
  <2>2. CASE ClockJumps
    <3>1. ~excused
      BY <2>2 DEF ClockJumps
    <3> QED
      BY <1>0, <3>1 DEF LockInv
  <2> QED
    BY <2>1, <2>2
<1>2. TypeInv'
  BY <1>1, OthersTyped
<1>3. Owned' /\ Written'
  BY <1>1, TimeOwned
<1>4. InTheOpen' /\ JudgedDead' /\ Aims'
  BY <1>0, <1>1 DEF Safely, InTheOpen, JudgedDead, Aims, Aim, Dead, AllSee, Sees
<1>5. WatchedWell'
  <2>1. CASE ClockJumps
    BY <1>0, <1>1, <2>1 DEF ClockJumps, command, Safely, WatchedWell, Dead, Sees
  <2> QED
    BY <1>1, <2>1, TickWatched
<1>6. TurnsTaken'
  BY <1>1, TurnsAge
<1> QED
  BY <1>2, <1>3, <1>4, <1>5, <1>6 DEF Safely

LEMMA InitSafely == ASSUME LockAssumption, Init PROVE LockInv
<1>1. TypeInv
  BY InitTyped
<1>2. /\ None \notin Processes /\ lock = None /\ stopped = {}
      /\ \A p \in Processes : /\ pc[p] = "idle" /\ judged[p] = None /\ watched[p].of = None /\ turn[p] = 0
  BY DEF Init, LockAssumption, NotWatching
<1>3. Present = {} /\ Newest = 0
  BY DEF Init, Present, Newest
<1>4. TurnsTaken
  BY <1>2, <1>3 DEF TurnsTaken, FoundFree, IsNewest, InTurn, Breaking
<1>5. Owned /\ Written /\ InTheOpen /\ JudgedDead /\ WatchedWell /\ Aims
  BY <1>2 DEF Owned, Written, InTheOpen, JudgedDead, WatchedWell, Aims, Aim, Making, Unwritten
<1> QED
  BY <1>1, <1>4, <1>5 DEF LockInv, Safely

LEMMA StaysSafe == ASSUME LockAssumption, LockInv, [Next]_vars PROVE LockInv'
<1>1. ASSUME NEW p \in Processes, Acts(p) PROVE LockInv'
  BY <1>1, ActsSafely
<1>2. CASE Tick \/ ClockJumps
  BY <1>2, TimeSafely
<1>3. CASE UNCHANGED vars
  <2>1. UNCHANGED <<lock, files, copy, aside, turns, pc, judged, turn, watched, waited>>
    BY <1>3 DEF vars, folder, command
  <2>2. UNCHANGED <<placed, links, stopped, faults, excused>>
    BY <1>3 DEF vars, world
  <2>3. Newest' = Newest /\ Present' = Present
    BY <2>1 DEF Newest, Present
  <2>4. TypeInv => TypeInv'
    BY <2>1, <2>2 DEF TypeInv, FolderTyped, CommandTyped, WorldTyped
  <2>5. TurnsTaken => TurnsTaken'
    BY <2>1, <2>2, <2>3 DEF TurnsTaken, FoundFree, InTurn, IsNewest, AllSee, Sees
  <2>6. /\ Owned /\ Written /\ InTheOpen => Owned' /\ Written' /\ InTheOpen'
        /\ JudgedDead /\ WatchedWell /\ Aims => JudgedDead' /\ WatchedWell' /\ Aims'
    BY <2>1, <2>2 DEF Owned, Written, Unwritten, InTheOpen, JudgedDead, WatchedWell, Aims, Aim, Dead, AllSee, Sees
  <2> QED
    BY <2>2, <2>4, <2>5, <2>6 DEF LockInv, Safely
<1> QED
  BY <1>1, <1>2, <1>3 DEF Next, Acts

(* Two commands that took the lock never run at once, however many there   *)
(* are, however often they die or are stopped and the clock leaps, but for *)
(* the moments Exclusive excuses (lock.ts:175-204, 279-337, 447-478):      *)
(* whoever runs made the file that is at the path.                         *)
THEOREM ExclusiveCorrect == ASSUME LockAssumption PROVE Spec => []Exclusive
<1>1. LockInv => Exclusive
  <2> SUFFICES ASSUME LockInv, links, ~excused PROVE Cardinality(Holders) <= 1
    BY DEF Exclusive
  <2>1. Holders \subseteq {lock}
    BY DEF LockInv, Safely, Owned, Making, Holders
  <2>2. IsFiniteSet({lock}) /\ Cardinality({lock}) = 1
    BY FS_Singleton
  <2> QED
    BY <2>1, <2>2, FS_Subset, FS_CardinalityType
<1>2. Init => LockInv
  BY InitSafely
<1>3. LockInv /\ [Next]_vars => LockInv'
  BY StaysSafe
<1> QED
  BY <1>1, <1>2, <1>3, PTL DEF Spec

(***************************************************************************)
(* The parts MCTls sets one beside the other: a behaviour stays with the   *)
(* part it began with.                                                     *)
(***************************************************************************)
(* The lock: no two commands run at once.                                    *)
THEOREM AloneCorrect == TlsSpec => []Exclusive
<1>1. TlsInit /\ part = "lock" => Init
  BY DEF TlsInit
<1>2. part = "lock" /\ [TlsNext]_<<vars, part, cells>> => (part = "lock")' /\ [Next]_vars
  BY DEF TlsNext, Is
<1>3. TlsInit /\ ~(part = "lock") => ~links
  BY DEF TlsInit, NoLock
<1>4. ~(part = "lock") /\ ~links /\ [TlsNext]_<<vars, part, cells>> => ~(part = "lock")' /\ ~links'
  BY DEF TlsNext, Is, vars, world
<1>5. Spec => []Exclusive
  BY ExclusiveCorrect, LockingAssumption
<1>6. ~links => Exclusive
  BY DEF Exclusive
<1> QED
  BY <1>1, <1>2, <1>3, <1>4, <1>5, <1>6, PTL DEF TlsSpec, Spec

(* Renewal: undisturbed, it leaves a leaf that is in date.                   *)
THEOREM RenewedInTimeCorrect == TlsSpec => []RenewedInTime
<1>1. TlsInit /\ part = "renew" => Certs!Renewal!Init
  BY DEF TlsInit
<1>2. part = "renew" /\ [TlsNext]_<<vars, part, cells>> =>
        (part = "renew")' /\ [Certs!Renewal!Next]_(Certs!Renewal!vars)
  BY DEF TlsNext, Is, cells, Certs!Renewal!vars, Certs!Renewal!clock, Certs!Renewal!files, Certs!Renewal!history
<1>3. ~(part = "renew") /\ [TlsNext]_<<vars, part, cells>> => ~(part = "renew")'
  BY DEF TlsNext, Is
<1>4. Certs!Renewal!Spec => []Certs!Renewal!RenewedInTime
  BY Certs!RenewedCorrect, RenewingAssumption
<1> QED
  BY <1>1, <1>2, <1>3, <1>4, PTL DEF TlsSpec, Certs!Renewal!Spec, RenewedInTime

(* Renewal: no leaf is dated ahead of a clock that was right once.  The      *)
(* errors the clock can have are three hours apart.                          *)
THEOREM NoFutureLeafCorrect == TlsSpec => NoFutureLeaf
<1> DEFINE errors == {n \in Int : n % 3 = 0}
<1>1. TlsInit /\ part = "renew" => Certs!Renewal!Init
  BY DEF TlsInit
<1>2. part = "renew" /\ [TlsNext]_<<vars, part, cells>> =>
        (part = "renew")' /\ [Certs!Renewal!Next]_(Certs!Renewal!vars)
  BY DEF TlsNext, Is, cells, Certs!Renewal!vars, Certs!Renewal!clock, Certs!Renewal!files, Certs!Renewal!history
<1>3. ~(part = "renew") /\ [TlsNext]_<<vars, part, cells>> => ~(part = "renew")'
  BY DEF TlsNext, Is
<1>4. Certs!Apart(errors)
  <2>1. \A a, b \in errors : b - a <= 1 => b <= a
    OBVIOUS
  <2>2. \A a \in errors, by \in {-3, 3} : a + by \in errors
    OBVIOUS
  <2> QED
    BY <2>1, <2>2 DEF Certs!Apart
<1>5. Certs!Renewal!Spec => Certs!Renewal!NoFutureLeaf
  BY <1>4, Certs!FutureCorrect, RenewingAssumption
<1>6. [Certs!Renewal!DatedSoundly]_(Certs!Renewal!vars) => Certs!Renewal!DatedSoundly
  BY DEF Certs!Renewal!DatedSoundly, Certs!Renewal!WritesCrt, Certs!Renewal!vars
<1> QED
  BY <1>1, <1>2, <1>3, <1>5, <1>6, PTL DEF TlsSpec, Certs!Renewal!Spec, Certs!Renewal!NoFutureLeaf, NoFutureLeaf

(* Reload: a good certificate on disk is served before long.                 *)
THEOREM TakenUpThroughout == TlsSpec => []TakenUp
<1>1. TlsInit /\ part = "reload" => Certs!Reload!Init
  BY DEF TlsInit
<1>2. part = "reload" /\ [TlsNext]_<<vars, part, cells>> =>
        (part = "reload")' /\ [Certs!Reload!Next]_(Certs!Reload!vars)
  BY DEF TlsNext, Is, cells, Certs!Reload!vars, Certs!Reload!clock, Certs!Reload!disk, Certs!Reload!reloader
<1>3. ~(part = "reload") /\ [TlsNext]_<<vars, part, cells>> => ~(part = "reload")'
  BY DEF TlsNext, Is
<1>4. Certs!Reload!Spec => []Certs!Reload!TakenUp
  BY Certs!TakenUpCorrect, ReloadingAssumption
<1> QED
  BY <1>1, <1>2, <1>3, <1>4, PTL DEF TlsSpec, Certs!Reload!Spec, TakenUp

(* Reload: a valid certificate is never replaced by one that has expired,    *)
(* and by one not valid yet only while the clock is not synced.              *)
THEOREM NeverForWorseCorrect == TlsSpec => NeverForWorse
<1>1. TlsInit /\ part = "reload" => Certs!Reload!Init
  BY DEF TlsInit
<1>2. part = "reload" /\ [TlsNext]_<<vars, part, cells>> =>
        (part = "reload")' /\ [Certs!Reload!Next]_(Certs!Reload!vars)
  BY DEF TlsNext, Is, cells, Certs!Reload!vars, Certs!Reload!clock, Certs!Reload!disk, Certs!Reload!reloader
<1>3. ~(part = "reload") /\ [TlsNext]_<<vars, part, cells>> => ~(part = "reload")'
  BY DEF TlsNext, Is
<1>4. Certs!Reload!Spec => Certs!Reload!NeverForWorse
  BY Certs!WorseCorrect
<1>5. [Certs!Reload!NoWorse]_(Certs!Reload!vars) => Certs!Reload!NoWorse
  BY DEF Certs!Reload!NoWorse, Certs!Reload!vars
<1> QED
  BY <1>1, <1>2, <1>3, <1>4, <1>5, PTL DEF TlsSpec, Certs!Reload!Spec, Certs!Reload!NeverForWorse, NeverForWorse

(* A chain that is classed as valid a client accepts (inspect.ts:182-256).   *)
THEOREM ValidIsAcceptedCorrect == TlsSpec => []ValidIsAccepted
<1>1. TlsInit /\ part = "inspect" => Certs!Inspection!Init
  BY DEF TlsInit
<1>2. part = "inspect" /\ [TlsNext]_<<vars, part, cells>> =>
        (part = "inspect")' /\ [Certs!Inspection!Next]_(Certs!Inspection!vars)
  BY DEF TlsNext, Is, cells, Certs!Inspection!vars
<1>3. ~(part = "inspect") /\ [TlsNext]_<<vars, part, cells>> => ~(part = "inspect")'
  BY DEF TlsNext, Is
<1>4. Certs!Inspection!Spec => []Certs!Inspection!ValidIsAccepted
  BY Certs!AcceptedCorrect, InspectingAssumption
<1> QED
  BY <1>1, <1>2, <1>3, <1>4, PTL DEF TlsSpec, Certs!Inspection!Spec, ValidIsAccepted

(* The names of a certificate: its clients accept them.                      *)
THEOREM LeafInScopeCorrect == TlsSpec => []LeafInScope
<1>1. TlsInit /\ part = "scope" => Certs!Scope!Init
  BY DEF TlsInit
<1>2. part = "scope" /\ [TlsNext]_<<vars, part, cells>> =>
        (part = "scope")' /\ [Certs!Scope!Next]_(Certs!Scope!vars)
  BY DEF TlsNext, Is, cells, Certs!Scope!vars, Certs!Scope!machine
<1>3. ~(part = "scope") /\ [TlsNext]_<<vars, part, cells>> => ~(part = "scope")'
  BY DEF TlsNext, Is
<1>4. Certs!Scope!Spec => []Certs!Scope!LeafInScope
  BY Certs!ScopeCorrect
<1> QED
  BY <1>1, <1>2, <1>3, <1>4, PTL DEF TlsSpec, Certs!Scope!Spec, LeafInScope

(* HTTP or HTTPS: HTTP comes back only when it is asked for.                 *)
THEOREM NeverSilentlyHttpCorrect == TlsSpec => NeverSilentlyHttp
<1>1. TlsInit /\ part = "mode" => Certs!Init
  BY DEF TlsInit
<1>2. part = "mode" /\ [TlsNext]_<<vars, part, cells>> => (part = "mode")' /\ [Certs!Next]_(Certs!vars)
  BY DEF TlsNext, Is, cells, Certs!vars, Certs!fixed, Certs!folder, Certs!data, Certs!running, Certs!bounds,
         Certs!history
<1>3. ~(part = "mode") /\ [TlsNext]_<<vars, part, cells>> => ~(part = "mode")'
  BY DEF TlsNext, Is
<1>4. Certs!Spec => Certs!NeverSilentlyHttp
  BY Certs!HttpCorrect, SwitchingAssumption
<1>5. [Certs!AskedForHttp]_(Certs!vars) => Certs!AskedForHttp
  BY DEF Certs!AskedForHttp, Certs!vars
<1> QED
  BY <1>1, <1>2, <1>3, <1>4, <1>5, PTL DEF TlsSpec, Certs!Spec, Certs!NeverSilentlyHttp, NeverSilentlyHttp

(* A switch that fails is put back, but for what putting it back and the     *)
(* restart after it fail to do.                                              *)
THEOREM FailureRestoresCorrect == TlsSpec => FailureRestores
<1>1. TlsInit /\ part = "mode" => Certs!Init
  BY DEF TlsInit
<1>2. part = "mode" /\ [TlsNext]_<<vars, part, cells>> => (part = "mode")' /\ [Certs!Next]_(Certs!vars)
  BY DEF TlsNext, Is, cells, Certs!vars, Certs!fixed, Certs!folder, Certs!data, Certs!running, Certs!bounds,
         Certs!history
<1>3. ~(part = "mode") /\ [TlsNext]_<<vars, part, cells>> => ~(part = "mode")'
  BY DEF TlsNext, Is
<1>4. Certs!Spec => Certs!FailureRestores
  BY Certs!RestoresCorrect
<1>5. [Certs!Restores]_(Certs!vars) => Certs!Restores
  BY DEF Certs!Restores, Certs!RestartsAgain, Certs!vars, Certs!running
<1> QED
  BY <1>1, <1>2, <1>3, <1>4, <1>5, PTL DEF TlsSpec, Certs!Spec, Certs!FailureRestores, FailureRestores
=============================================================================
