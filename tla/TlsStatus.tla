------------------------------ MODULE TlsStatus ------------------------------
(***************************************************************************)
(* What is told of a running server: its status file                       *)
(* (api/src/tls-runtime.ts, tls/src/ca/runtime-status.ts), `pipulse tls    *)
(* status` (cli/cmd-status.ts), and what /api/config and /api/health say   *)
(* of its certificate (api/src/tls-status.ts), while the server ends,      *)
(* starts and reloads and commands replace the files it serves.  A leaf is *)
(* its number, its CA and whether a reload refuses it; the commands run    *)
(* one at a time (TlsLock).                                                *)
(***************************************************************************)
EXTENDS Naturals

CONSTANTS
  None,
  Pids,
  MaxLeaves, MaxStarts, MaxBoots, MaxFaults   \* bounds

StatusAssumption ==
  LET Leaves == [id : Nat, ca : Nat, bad : BOOLEAN]
      Told == {"ok", "failing"}
  IN None \notin Nat \cup Leaves
             \cup [pid : Pids, start : Nat, boot : Nat, cert : Nat, reload : Told]
             \cup [pid : Pids, start : Nat, up : BOOLEAN, cert : Nat, ca : Nat \cup {None},
                   seen : Nat, pending : Nat \cup {None}, reload : Told]

VARIABLES
  boot, ticks, process,   \* the boot id; when a process started last; who holds each pid
  server,                 \* the server: its identity, what it serves, its reloader
  file,                   \* /run/pipulse/tls-status.json
  caCrt, meta, crt, pem,  \* the public files
  renewal,                \* renew-status.json
  pc, kind, leaf,         \* a command; the leaf it installs, which a journal keeps
  written,                \* the files' signature: how often pem and caCrt were written
  made, starts, boots, faults,  \* bounds
  unpublished, quiet      \* history: a status was not written; polls since a file was

machine == <<boot, ticks, process>>
files == <<caCrt, meta, crt, pem, written>>
command == <<renewal, pc, kind, leaf, made>>
bounds == <<starts, boots, faults>>
vars == <<machine, server, file, files, command, bounds, unpublished, quiet>>

Fault == faults < MaxFaults /\ faults' = faults + 1 /\ UNCHANGED <<starts, boots>>

(***************************************************************************)
(* The server.                                                             *)
(***************************************************************************)
Report(s) == [pid |-> s.pid, start |-> s.start, boot |-> boot, cert |-> s.cert, reload |-> s.reload]

(* publish(): a write that fails only warns. *)
Publishes(s) ==
  \/ file' = Report(s) /\ unpublished' = FALSE /\ UNCHANGED bounds
  \/ Fault /\ unpublished' = TRUE /\ UNCHANGED file

(* A process starts under a pid that is free: the server, or another one. *)
Spawns(pid) ==
  /\ starts < MaxStarts /\ starts' = starts + 1 /\ process[pid] = None
  /\ ticks' = ticks + 1 /\ process' = [process EXCEPT ![pid] = ticks + 1]
  /\ UNCHANGED <<boot, boots, faults>>

(* The certificate is loaded, then the server listens, then it publishes. *)
ServerStarts(pid) ==
  /\ server = None /\ caCrt = pem.ca /\ Spawns(pid)
  /\ server' = [pid |-> pid, start |-> ticks + 1, up |-> FALSE, cert |-> pem.id, ca |-> pem.ca,
                seen |-> written, pending |-> None, reload |-> "ok"]
  /\ UNCHANGED <<file, files, command, unpublished, quiet>>

Listens ==
  /\ server # None /\ ~server.up
  /\ server' = [server EXCEPT !.up = TRUE] /\ Publishes(server)
  /\ UNCHANGED <<machine, files, command, quiet>>

(* The status file stays when the process is gone. *)
Exits(pid) ==
  /\ process[pid] # None /\ process' = [process EXCEPT ![pid] = None]
  /\ server' = IF server = None THEN None ELSE IF server.pid = pid THEN None ELSE server
  /\ UNCHANGED <<boot, ticks, file, files, command, bounds, unpublished, quiet>>

(* tryReload: the served leaf may only change what it is trusted by. *)
Taken(s) ==
  IF caCrt # pem.ca
  THEN {[s EXCEPT !.reload = "failing"]}
       \cup (IF s.cert = pem.id THEN {[s EXCEPT !.ca = None, !.reload = "ok"]} ELSE {})
  ELSE IF s.cert # pem.id /\ pem.bad THEN {[s EXCEPT !.reload = "failing"]}
  ELSE {[s EXCEPT !.cert = pem.id, !.ca = pem.ca, !.reload = "ok"]}

(* A change must look the same on two polls; what was refused is tried again. *)
Tries == server.seen # written /\ server.pending = written
Poll ==
  /\ server # None /\ server.up
  /\ quiet' = IF quiet < 2 THEN quiet + 1 ELSE quiet
  /\ IF Tries
     THEN /\ server' \in Taken([server EXCEPT !.seen = written, !.pending = None])
          /\ Publishes(server')
     ELSE /\ server' = [server EXCEPT !.pending = IF @ = written \/ server.seen = written THEN None ELSE written]
          /\ UNCHANGED <<file, bounds, unpublished>>
  /\ UNCHANGED <<machine, files, command>>

Retries ==
  /\ server # None /\ server.up /\ server.reload = "failing" /\ server.seen = written
  /\ server' \in Taken([server EXCEPT !.pending = None]) /\ Publishes(server')
  /\ UNCHANGED <<machine, files, command, quiet>>

(***************************************************************************)
(* renew, and the commands that replace the CA: its public files are       *)
(* installed in order from a journal, the bundle last.                     *)
(***************************************************************************)
Writes == written' = written + 1 /\ quiet' = 0

(* renew completes an interrupted change first, and copies leaf.crt from    *)
(* leaf.pem; it may have nothing to do, wait for the clock, or fail.        *)
Renew ==
  /\ pc = "idle" /\ leaf = None /\ kind' = "renew"
  /\ crt' = pem /\ UNCHANGED <<caCrt, meta, pem, written, quiet>>
  /\ \/ renewal' \in {"not-due", "waiting-clock", "failed"} /\ UNCHANGED <<pc, leaf, made>>
     \/ /\ made < MaxLeaves /\ made' = made + 1 /\ pc' = "leaf.crt" /\ UNCHANGED renewal
        /\ leaf' \in [id : {made + 1}, ca : {caCrt}, bad : BOOLEAN]
  /\ UNCHANGED <<machine, server, file, bounds, unpublished>>

ReplaceCa ==
  /\ pc = "idle" /\ leaf = None /\ made < MaxLeaves /\ made' = made + 1
  /\ kind' = "new-ca" /\ pc' = "ca.crt"
  /\ leaf' = [id |-> made + 1, ca |-> made + 1, bad |-> FALSE]
  /\ UNCHANGED <<machine, server, file, files, renewal, bounds, unpublished, quiet>>

Recovers ==
  /\ pc = "idle" /\ leaf # None /\ pc' = "ca.crt"
  /\ UNCHANGED <<machine, server, file, files, renewal, kind, leaf, made, bounds, unpublished, quiet>>

InstallsCa ==
  /\ \/ pc = "ca.crt" /\ pc' = "ca-meta.json" /\ caCrt' = leaf.ca /\ UNCHANGED meta
        /\ IF caCrt = leaf.ca THEN UNCHANGED <<written, quiet>> ELSE Writes
     \/ pc = "ca-meta.json" /\ pc' = "leaf.crt" /\ meta' = leaf.ca /\ UNCHANGED <<caCrt, written, quiet>>
  /\ UNCHANGED <<machine, server, file, crt, pem, renewal, kind, leaf, made, bounds, unpublished>>

InstallsLeaf ==
  /\ \/ pc = "leaf.crt" /\ pc' = "leaf.pem" /\ crt' = leaf
        /\ UNCHANGED <<pem, written, renewal, leaf, quiet>>
     \/ pc = "leaf.pem" /\ pc' = "idle" /\ pem' = leaf /\ leaf' = None /\ Writes /\ UNCHANGED crt
        /\ renewal' = IF kind = "renew" THEN "renewed" ELSE renewal
  /\ UNCHANGED <<machine, server, file, caCrt, meta, kind, made, bounds, unpublished>>

(* A write throws, or the command is killed: a renewal forgets its leaf, a  *)
(* change of the CA has it in the journal.                                  *)
Stops ==
  /\ pc # "idle" /\ pc' = "idle" /\ Fault
  /\ leaf' = IF kind = "renew" THEN None ELSE leaf
  /\ renewal' \in {renewal} \cup (IF kind = "renew" THEN {"failed"} ELSE {})
  /\ UNCHANGED <<machine, server, file, files, kind, made, unpublished, quiet>>

(***************************************************************************)
(* The machine.                                                            *)
(***************************************************************************)
OtherStarts(pid) == Spawns(pid) /\ UNCHANGED <<server, file, files, command, unpublished, quiet>>

(* Process times start again with the boot; the folder may outlive it. *)
Boots ==
  /\ pc = "idle" /\ boots < MaxBoots /\ boots' = boots + 1
  /\ boot' = boot + 1 /\ ticks' = 0 /\ process' = [p \in Pids |-> None]
  /\ server' = None /\ file' \in {file, None}
  /\ UNCHANGED <<files, command, starts, faults, unpublished, quiet>>

Init ==
  /\ boot = 1 /\ ticks = 0 /\ process = [p \in Pids |-> None]
  /\ server = None /\ file = None
  /\ caCrt = 1 /\ meta = 1 /\ crt = [id |-> 1, ca |-> 1, bad |-> FALSE] /\ pem = crt
  /\ renewal = None /\ pc = "idle" /\ kind = None /\ leaf = None /\ written = 0
  /\ made = 1 /\ starts = 0 /\ boots = 0 /\ faults = 0
  /\ unpublished = FALSE /\ quiet = 0

Next ==
  \/ \E pid \in Pids : ServerStarts(pid) \/ OtherStarts(pid) \/ Exits(pid)
  \/ Listens \/ Poll \/ Retries
  \/ Renew \/ ReplaceCa \/ Recovers \/ InstallsCa \/ InstallsLeaf \/ Stops
  \/ Boots

Spec == Init /\ [][Next]_vars

(***************************************************************************)
(* What is told.                                                           *)
(***************************************************************************)
(* readRuntimeStatus.  The mutant trusts whatever process holds the pid. *)
PidOnly(f) == process[f.pid] # None
SameProcess(f) == f.boot = boot /\ process[f.pid] = f.start
Active == IF file = None THEN None ELSE IF SameProcess(file) THEN file ELSE None

(* collectStatus, with leafInfo: what `pipulse tls status` reads. *)
LeafShown == crt.id
Status == [active |-> Active, leaf |-> LeafShown, renewal |-> renewal]

(* formatStatus: leaf.crt is not what is served; why, or for how long. *)
NewerOnDisk(s) == IF s.active = None THEN FALSE ELSE s.active.cert # s.leaf
SaysSoon(s) == NewerOnDisk(s) /\ (NewerOnDisk(s) => s.active.reload = "ok") /\ s.renewal # "failed"

(* readGeneratedExtras and tlsView: the CA's facts are given only when they  *)
(* are of what is served.  A renewal that waits for the clock is not yet due. *)
Extras == [meta |-> meta, failing |-> renewal = "failed"]
CaShown(extras) == IF extras.meta = server.ca THEN extras.meta ELSE None
View == [cert |-> server.cert, ca |-> CaShown(Extras), reload |-> server.reload, failing |-> Extras.failing]

(* healthBody, of a certificate in date. *)
Degraded(view) == view.reload # "ok" \/ view.failing

(* A status of a running server is of the server that runs, and of what it  *)
(* serves (runtime-status.ts:24,206-213).                                   *)
RunningIsTrue ==
  Active # None /\ ~unpublished => IF server = None THEN FALSE ELSE Active = Report(server)

(* What the server is said to pick up within two minutes, two polls, it has *)
(* picked up after two, unless leaf.crt is of a command that was cut short  *)
(* (cmd-status.ts:341-360).                                                 *)
SoonIsSoon == SaysSoon(Status) /\ ~unpublished /\ crt = pem => quiet < 2

(* The CA that is shown signed what is served ("never a scope it doesn't    *)
(* have", tls-status.ts:133); and a change of the CA that is complete and   *)
(* taken up is shown.                                                       *)
ScopeIsServed ==
  server # None =>
    /\ View.ca # None => View.ca = server.ca
    /\ leaf = None /\ meta = pem.ca /\ server.cert = pem.id /\ quiet = 2 => View.ca = meta

(* Health without a problem after two polls is of the certificate on disk. *)
HealthyIsCurrent ==
  server # None /\ quiet = 2 => Degraded(View) \/ View.cert = pem.id

TellsTheTruth == RunningIsTrue /\ SoonIsSoon /\ ScopeIsServed /\ HealthyIsCurrent
=============================================================================
