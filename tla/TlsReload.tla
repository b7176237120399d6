------------------------------- MODULE TlsReload -------------------------------
(***************************************************************************)
(* packages/tls/src/inspect/reload.ts and replacement.ts, and the start    *)
(* around them (packages/api/src/tls-runtime.ts): the server takes up a    *)
(* replaced certificate from two files that another process writes one     *)
(* after the other: an operator's certificate and its key, or the          *)
(* generated leaf.pem and the ca.crt above it.  A tick is a poll's period. *)
(***************************************************************************)
EXTENDS Integers

CONSTANTS
  None,
  Generations,        \* what the files may hold: [rank, from, to, key]
  RETRY,
  Steps,              \* by how much the clock is set
  MaxTime, MaxWrites, MaxSets  \* bounds

ReloadAssumption == RETRY \in Nat

VARIABLES
  operator, requireValid,  \* whose files; PIPULSE_TLS_REQUIRE_VALID_CERT
  time, ahead, synced,     \* elapsed time; the wall clock's error; timesyncd's signal
  files,                   \* the generation each of the two files holds
  signature,               \* their stat: how often each was written
  pc, read,                \* a load in progress: what it has read
  active,                  \* the certificate being served
  activeSignature, pending, failing, lastAttempt,
  sets, polled,            \* bounds: settings of the clock; the poll of this tick is done
  good                     \* history: for how long the files have been better than what is served

disk == <<files, signature>>
clock == <<time, ahead, synced>>
reloader == <<activeSignature, pending, failing, lastAttempt>>
vars == <<operator, requireValid, clock, disk, pc, read, active, reloader, sets, polled, good>>

Half == 0   \* a file copied half-way
Now == time + ahead

(***************************************************************************)
(* loadCertificate: refused (None), or what may be served.  The files were *)
(* read one after the other.                                               *)
(***************************************************************************)
Load(f) ==
  IF f[1] = Half \/ f[2] = Half THEN None
  ELSE IF operator
  THEN IF Generations[f[1]].key # Generations[f[2]].key THEN None
       ELSE [serves |-> f[1], rank |-> Generations[f[1]].rank,
             from |-> Generations[f[1]].from, to |-> Generations[f[1]].to]
  ELSE [serves |-> f[1],  \* a leaf that is not of this CA leads nowhere
        rank |-> IF Generations[f[1]].key = Generations[f[2]].key THEN Generations[f[1]].rank ELSE 2,
        from |-> Generations[f[1]].from, to |-> Generations[f[1]].to]

Validity(c) ==
  CASE Now < c.from -> "not-yet-valid"
    [] Now >= c.to -> "expired"
    [] OTHER -> "valid"

(* loadServingCertificate. *)
StartAccepts(c) ==
  requireValid => /\ Validity(c) # "expired"
                  /\ Validity(c) = "not-yet-valid" => ~synced

(* Mutant: a setting that does not ask for a valid certificate takes any. *)
NotAsked(c) == StartAccepts(c)
(* checkReplacement. *)
ReplacementAccepted(c) ==
  /\ Validity(c) = "expired" => Validity(active) = "expired" /\ ~requireValid
  /\ Validity(c) = "not-yet-valid" /\ synced => ~requireValid /\ Validity(active) # "valid"

ReplacesExpired(c) == Now >= active.to /\ Validity(c) = "valid" /\ c.rank > 0

(***************************************************************************)
(* startReloader.                                                          *)
(***************************************************************************)
(* What was refused is tried again now and then: it may have been the clock. *)
TriesAgain == failing /\ time - lastAttempt >= RETRY

Poll ==
  /\ pc = "up" /\ ~polled /\ polled' = TRUE
  /\ IF signature = activeSignature
     THEN /\ pending' = None /\ UNCHANGED activeSignature
          /\ pc' = IF TriesAgain THEN "load" ELSE "up"
     ELSE IF signature # pending
     THEN pending' = signature /\ UNCHANGED <<activeSignature, pc>>
     ELSE activeSignature' = signature /\ pending' = None /\ pc' = "load"
  /\ UNCHANGED <<operator, requireValid, clock, disk, read, active, failing, lastAttempt, sets, good>>

ReadsFirst ==
  /\ pc \in {"load", "start-load"} /\ pc' = IF pc = "load" THEN "loading" ELSE "starting"
  /\ read' = files[1]
  /\ UNCHANGED <<operator, requireValid, clock, disk, active, reloader, sets, polled, good>>

Candidate == Load(<<read, files[2]>>)
Takes(c) ==
  IF c = None THEN FALSE
  ELSE \/ c.serves = active.serves   \* only what it is trusted by may have changed
       \/ (ReplacesExpired(c) \/ c.rank >= active.rank) /\ ReplacementAccepted(c)

TryReload ==
  /\ pc = "loading" /\ pc' = "up"
  /\ lastAttempt' = time
  /\ failing' = ~Takes(Candidate)
  /\ active' = IF Takes(Candidate) THEN Candidate ELSE active
  /\ read' = Half
  /\ UNCHANGED <<operator, requireValid, clock, disk, activeSignature, pending, sets, polled, good>>

(***************************************************************************)
(* The start: the signature first.                                         *)
(***************************************************************************)
(* Mutant: the signature is read with the reloader, after the load. *)
SignatureLater == pc = "starting"
SignatureRead == pc = "start"

Starts ==
  /\ pc = "start" /\ pc' = "start-load"
  /\ activeSignature' = IF SignatureRead THEN signature ELSE activeSignature
  /\ UNCHANGED <<operator, requireValid, clock, disk, read, active, pending, failing, lastAttempt,
                 sets, polled, good>>

Started ==
  /\ pc = "starting"
  /\ active' = Candidate /\ read' = Half /\ polled' = TRUE
  /\ activeSignature' = IF SignatureRead THEN signature ELSE activeSignature
  /\ pc' = IF Candidate = None THEN "down" ELSE IF StartAccepts(Candidate) THEN "up" ELSE "down"
  /\ UNCHANGED <<operator, requireValid, clock, disk, pending, failing, lastAttempt, sets, good>>

(***************************************************************************)
(* The files, the clock.                                                   *)
(***************************************************************************)
(* Better than what is served: in date, and its class is no worse, or what *)
(* is served has expired.                                                  *)
Better ==
  LET c == Load(files) IN
  IF c = None \/ pc # "up" \/ active = None THEN FALSE
  ELSE Validity(c) = "valid" /\ (c.rank >= active.rank \/ (Validity(active) = "expired" /\ c.rank > 0))

(* An operator copies, piece by piece; a generated file is replaced at once. *)
Write(f) ==
  /\ signature[1] + signature[2] < MaxWrites
  /\ \E g \in DOMAIN Generations \cup (IF operator THEN {Half} ELSE {}) :
       g # files[f] /\ files' = [files EXCEPT ![f] = g]
  /\ signature' = [signature EXCEPT ![f] = @ + 1]
  /\ good' = 0
  /\ UNCHANGED <<operator, requireValid, clock, pc, read, active, reloader, sets, polled>>

Tick ==
  /\ time < MaxTime /\ pc \in {"up", "down"} /\ (pc = "up" => polled)
  /\ time' = time + 1 /\ polled' = FALSE
  /\ good' = IF Better THEN good + 1 ELSE 0
  /\ UNCHANGED <<operator, requireValid, ahead, synced, disk, pc, read, active, reloader, sets>>

ClockSet ==
  /\ sets < MaxSets /\ sets' = sets + 1
  /\ \E by \in Steps : ahead' = ahead + by
  /\ synced' \in BOOLEAN
  /\ good' = 0
  /\ UNCHANGED <<operator, requireValid, time, disk, pc, read, active, reloader, polled>>

Init ==
  /\ operator \in BOOLEAN /\ requireValid \in BOOLEAN
  /\ time = 0 /\ ahead = 0 /\ synced \in BOOLEAN
  /\ files = <<1, 1>> /\ signature = <<0, 0>>
  /\ pc = "start" /\ read = Half /\ active = None
  /\ activeSignature = None /\ pending = None /\ failing = FALSE /\ lastAttempt = -RETRY
  /\ sets = 0 /\ polled = FALSE /\ good = 0

Next ==
  \/ Starts \/ ReadsFirst \/ Started \/ Poll \/ TryReload
  \/ \E f \in {1, 2} : Write(f)
  \/ Tick \/ ClockSet

Spec == Init /\ [][Next]_vars

(***************************************************************************)
(* Properties.                                                             *)
(***************************************************************************)
(* A certificate that has been there and better than what is served for two  *)
(* polls and a retry is served, however its files were written and whatever  *)
(* was refused before (reload.ts:26-34, 145-162; tls-runtime.ts:30-36).      *)
TakenUp == pc = "up" /\ polled /\ good > RETRY + 2 => active.serves = files[1]

(* A reload serves nothing that a start would refuse.  One that is valid is  *)
(* never replaced by one that has expired, whatever the clock is worth, and  *)
(* by one that is not valid yet only while the clock is not synced           *)
(* (replacement.ts:4-8, 23-41).                                              *)
NoWorse ==
  pc = "loading" /\ pc' = "up" /\ active'.serves # active.serves =>
    /\ StartAccepts(active')
    /\ Validity(active) = "valid" => /\ Validity(active') # "expired"
                                     /\ Validity(active') = "not-yet-valid" => ~synced
NeverForWorse == [][NoWorse]_vars
=============================================================================
