------------------------------- MODULE TlsRenew -------------------------------
(***************************************************************************)
(* packages/tls/src/cli/cmd-renew.ts and ca/clock-anchor.ts: the hourly    *)
(* renewal of the generated certificate, on a machine whose clock may be   *)
(* wrong, step, or be reset by a boot.  A run may be killed between two    *)
(* writes.  Runs are alone (TlsLock) and the CA is whole (CaJournal).      *)
(* A tick is the hour between two runs of the timer.                       *)
(***************************************************************************)
EXTENDS Integers, FiniteSetsExt

CONSTANTS
  None,
  ANCHOR_TOLERANCE, ANCHOR_HOLD, RENEW_BEFORE, IPV6_RENEW_AFTER, CLOCK_FLOOR,
  Lifetime, CaEnd,          \* of a leaf; when the CA expires, by a right clock
  Steps,                    \* by how much the clock steps
  Budgets,                  \* bounds: which accidents a behaviour may have
  MaxTime                   \* bound

RenewAssumption ==
  /\ ANCHOR_TOLERANCE \in Nat /\ ANCHOR_HOLD \in Nat /\ RENEW_BEFORE \in Nat /\ Lifetime \in Nat \ {0}
  /\ CLOCK_FLOOR \in Int /\ CaEnd \in Int /\ Steps \subseteq Int
  /\ LET Candidates == [offset : Int, uptime : Int]
     IN None \notin Int \cup Candidates \cup [boot : Int, offset : Int, candidate : Candidates \cup {None}]
                    \cup [made : Int, from : Int, to : Int, ok : BOOLEAN]
  /\ None # "v4"
  /\ Budgets \subseteq [kills : Nat, steps : Nat, boots : Nat, addresses : Nat, losses : Nat, forced : Nat,
                       unwritten : BOOLEAN]

VARIABLES
  time, ahead,        \* elapsed time; the wall clock is ahead of it
  boot, signal,       \* when this boot was; timesyncd says "synchronized"
  anchor,             \* clock-anchor.json
  leaf, leafCrt,      \* leaf.pem, and the certificate in leaf.crt
  lacks,              \* what the leaf lacks: "v4", a default-route address or a name; "v6"
  pc, run,            \* the renewal that runs
  left, timer,        \* bounds: accidents left; the timer has fired in this tick
  calm, seen, known   \* history: see the properties

clock == <<time, ahead, boot, signal>>
files == <<anchor, leaf, leafCrt, lacks>>
history == <<calm, seen, known>>
vars == <<clock, files, pc, run, left, timer, history>>

Now == time + ahead
Uptime == time - boot
Offset == Now - Uptime

(* readClock: a clock that reads before the first release is not synced. *)
Synced == signal /\ Now >= CLOCK_FLOOR

Refused == [made |-> 0, from |-> 0, to |-> 0, ok |-> FALSE]

(***************************************************************************)
(* clock-anchor.ts: judgeClock.                                            *)
(***************************************************************************)
Near(a, b) == a - b <= ANCHOR_TOLERANCE /\ b - a <= ANCHOR_TOLERANCE
Fresh == [boot |-> boot, offset |-> Offset, candidate |-> None]
Doubted == [offset |-> Offset, uptime |-> Uptime]
FirstOfBoot == IF anchor = None THEN TRUE ELSE anchor.boot # boot

Held ==
  IF anchor.candidate = None THEN None
  ELSE IF Near(Offset, anchor.candidate.offset) THEN Uptime - anchor.candidate.uptime ELSE None

(* Mutant: a step is believed at the run after it was first seen. *)
SeenTwice ==
  CASE FirstOfBoot -> [ok |-> TRUE, next |-> Fresh]
    [] ~FirstOfBoot /\ Offset - anchor.offset <= ANCHOR_TOLERANCE -> [ok |-> TRUE, next |-> Fresh]
    [] ~FirstOfBoot /\ Offset - anchor.offset > ANCHOR_TOLERANCE ->
         IF anchor.candidate # None THEN [ok |-> TRUE, next |-> Fresh]
         ELSE [ok |-> FALSE, next |-> [anchor EXCEPT !.candidate = Doubted]]
(* A change too small for a write is kept as no change. *)
Verdict ==
  CASE FirstOfBoot -> [ok |-> TRUE, next |-> Fresh]
    [] ~FirstOfBoot /\ Offset - anchor.offset <= ANCHOR_TOLERANCE -> [ok |-> TRUE, next |-> Fresh]
    [] ~FirstOfBoot /\ Offset - anchor.offset > ANCHOR_TOLERANCE ->
         CASE Held = None -> [ok |-> FALSE, next |-> [anchor EXCEPT !.candidate = Doubted]]
           [] Held # None /\ Held >= ANCHOR_HOLD -> [ok |-> TRUE, next |-> Fresh]
           [] OTHER -> [ok |-> FALSE, next |-> anchor]

(***************************************************************************)
(* cmd-renew.ts: renewDue.                                                 *)
(***************************************************************************)
Capped == leaf.to >= CaEnd

(* Mutant: a leaf dated in the future is not due. *)
DueInDate ==
  \/ leaf = None \/ ~leaf.ok \/ Now >= CaEnd
  \/ ~Capped /\ leaf.to - Now <= RENEW_BEFORE
  \/ lacks = "v4"
Due ==
  \/ leaf = None \/ ~leaf.ok \/ leaf.from > Now \/ Now >= CaEnd
  \/ ~Capped /\ leaf.to - Now <= RENEW_BEFORE
  \/ lacks = "v4"
  \/ lacks = "v6" /\ Now - leaf.from >= IPV6_RENEW_AFTER

(***************************************************************************)
(* renew().                                                                *)
(***************************************************************************)
Idle == [forced |-> FALSE, moved |-> FALSE, missed |-> FALSE, made |-> None]
Ends == pc' = "idle" /\ run' = Idle

(* repairPublic: leaf.crt is the certificate of leaf.pem. *)
Repaired == IF leaf = None THEN leafCrt ELSE leaf.made

(* History: since when every run of this boot saw this offset; the highest  *)
(* one that was seen for ANCHOR_HOLD, and that none was below since; an     *)
(* anchor was written in this boot while the clock was right.               *)
Watches ==
  LET again == seen.boot = boot /\ Near(Offset, seen.offset)
      since == IF again THEN seen.since ELSE time
      lowest == IF seen.boot = boot /\ seen.held < Offset THEN seen.held ELSE Offset
  IN seen' = [boot |-> boot, offset |-> IF again THEN seen.offset ELSE Offset, since |-> since,
              held |-> IF time - since >= ANCHOR_HOLD THEN Offset ELSE lowest]

(* The run reads the clock before anything else and judges it; an anchor   *)
(* that cannot be written is only warned of.  While the clock is not       *)
(* synchronized, or is in doubt, a certificate that is due waits.          *)
Begins(forced) ==
  /\ pc = "idle" /\ (forced => left.forced > 0)
  /\ left' = IF forced THEN [left EXCEPT !.forced = @ - 1] ELSE left
  /\ leafCrt' = Repaired /\ timer' = TRUE
  /\ IF ~Synced THEN UNCHANGED <<anchor, pc, run, seen, known, calm>>
     ELSE /\ Watches
          /\ \/ /\ anchor' = Verdict.next
                /\ known' = (known \/ Near(ahead, 0)) /\ UNCHANGED calm
             \/ /\ left.unwritten /\ UNCHANGED <<anchor, known>> /\ calm' = 0
          /\ IF forced \/ (Due /\ Verdict.ok)
             THEN pc' = "issue" /\ run' = [Idle EXCEPT !.forced = forced]
             ELSE UNCHANGED <<pc, run>>
  /\ UNCHANGED <<clock, leaf, lacks>>

(* issueLeaf: by the clock and addresses as they are now, and no later than *)
(* the CA.                                                                  *)
Made == [made |-> time + 1, from |-> Now, to |-> IF Now + Lifetime < CaEnd THEN Now + Lifetime ELSE CaEnd,
         ok |-> TRUE]

(* A leaf of an expired CA cannot be made. *)
IssueFails ==
  /\ pc = "issue" /\ Made.to <= Now /\ Ends
  /\ UNCHANGED <<clock, files, left, timer, history>>

(* writeLeaf: leaf.crt first. *)
WritesCrt ==
  /\ pc = "issue" /\ Made.to > Now
  /\ leafCrt' = Made.made /\ run' = [run EXCEPT !.made = Made] /\ pc' = "install"
  /\ UNCHANGED <<clock, anchor, leaf, lacks, left, timer, history>>

WritesBundle ==
  /\ pc = "install"
  /\ leaf' = run.made /\ lacks' = (IF run.missed THEN lacks ELSE None) /\ Ends
  /\ UNCHANGED <<clock, anchor, leafCrt, left, timer, history>>

Killed ==
  /\ pc # "idle" /\ left.kills > 0 /\ left' = [left EXCEPT !.kills = @ - 1]
  /\ Ends /\ calm' = 0
  /\ UNCHANGED <<clock, files, timer, seen, known>>

(***************************************************************************)
(* The machine.                                                            *)
(***************************************************************************)
(* The timer fires once in a tick, and a run takes no longer than that. *)
Tick ==
  /\ timer /\ pc = "idle" /\ time < MaxTime
  /\ time' = time + 1 /\ timer' = FALSE /\ calm' = calm + 1
  /\ UNCHANGED <<ahead, boot, signal, files, pc, run, left, seen, known>>

ClockSteps ==
  /\ left.steps > 0 /\ left' = [left EXCEPT !.steps = @ - 1]
  /\ \E by \in Steps : ahead' = ahead + by
  /\ run' = [run EXCEPT !.moved = pc # "idle"] /\ calm' = 0
  /\ UNCHANGED <<time, boot, signal, files, pc, timer, seen, known>>

(* Synchronized, or no longer. *)
SignalChanges ==
  /\ left.boots > 0 /\ left' = [left EXCEPT !.boots = @ - 1]
  /\ signal' = ~signal /\ calm' = 0
  /\ UNCHANGED <<time, ahead, boot, files, pc, run, timer, seen, known>>

(* A boot kills a run, and starts from any clock, not synchronized. *)
Boots ==
  /\ left.boots > 0 /\ left' = [left EXCEPT !.boots = @ - 1] /\ boot < time
  /\ boot' = time /\ \E by \in Steps \cup {0} : ahead' = ahead + by
  /\ signal' \in BOOLEAN
  /\ known' = FALSE /\ calm' = 0 /\ Ends
  /\ UNCHANGED <<time, files, timer, seen>>

AddressChanges ==
  /\ left.addresses > 0 /\ left' = [left EXCEPT !.addresses = @ - 1]
  /\ lacks' \in {"v4", "v6"} /\ calm' = 0
  /\ run' = [run EXCEPT !.missed = pc = "install"]
  /\ UNCHANGED <<clock, anchor, leaf, leafCrt, pc, timer, seen, known>>

(* Edited or copied by hand. *)
FileLost ==
  /\ left.losses > 0 /\ left' = [left EXCEPT !.losses = @ - 1]
  /\ \/ anchor' = None /\ known' = FALSE /\ UNCHANGED leaf
     \/ leaf' \in {None, Refused} /\ UNCHANGED <<anchor, known>>
  /\ calm' = 0
  /\ UNCHANGED <<clock, leafCrt, lacks, pc, run, timer, seen>>

(* init has made the first leaf on a right clock. *)
Init ==
  /\ time = 0 /\ ahead = 0 /\ boot = 0 /\ signal = TRUE
  /\ anchor = None /\ leaf = [made |-> 1, from |-> 0, to |-> Lifetime, ok |-> TRUE] /\ leafCrt = 1
  /\ lacks = None /\ pc = "idle" /\ run = Idle /\ timer = FALSE
  /\ left \in Budgets
  /\ calm = 0 /\ seen = [boot |-> 0, offset |-> 0, since |-> 0, held |-> 0] /\ known = FALSE

Next ==
  \/ \E forced \in BOOLEAN : Begins(forced)
  \/ IssueFails \/ WritesCrt \/ WritesBundle \/ Killed
  \/ Tick \/ ClockSteps \/ SignalChanges \/ Boots \/ AddressChanges \/ FileLost

Spec == Init /\ [][Next]_vars

(***************************************************************************)
(* Properties.                                                             *)
(***************************************************************************)
(* Once the clock has been right at a run of this boot, a step ahead dates   *)
(* no certificate unless every run has seen it for ANCHOR_HOLD; a step back  *)
(* is followed (clock-anchor.ts:6-14).  Not when renewal is forced, nor when *)
(* the clock steps between the verdict and the issue.                        *)
DatedSoundly ==
  WritesCrt /\ known /\ ~run.forced /\ ~run.moved => ahead <= ANCHOR_TOLERANCE \/ Offset <= seen.held
NoFutureLeaf == [][DatedSoundly]_vars

(* When nothing has happened for ANCHOR_HOLD and two more runs, the leaf on  *)
(* disk is in date by the machine's clock, covers its addresses, and leaf.crt *)
(* shows it: no doubt, date in the future, kill or boot stops renewal for    *)
(* good (cmd-renew.ts:44-83, material.ts:401-432).                           *)
RenewedInTime ==
  calm >= ANCHOR_HOLD + 2 /\ pc = "idle" /\ timer /\ Synced /\ Now < CaEnd =>
    /\ leaf # None /\ leaf.ok /\ leaf.from <= Now /\ Now < leaf.to
    /\ lacks # "v4" /\ leafCrt = leaf.made
=============================================================================
