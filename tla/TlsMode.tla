------------------------------- MODULE TlsMode -------------------------------
(***************************************************************************)
(* Plain HTTP or HTTPS: what the server starts as (settings/config.ts,     *)
(* api/tls-runtime.ts), who decides it (cli/cmd-init.ts --mode auto, run   *)
(* by the installer and by Docker's sidecar; cli/cmd-mode.ts enable and    *)
(* disable), and how a switch that fails is put back.  Commands run one    *)
(* at a time (TlsLock) and may be killed anywhere; the server starts and   *)
(* stops on its own.  A file is replaced at once, and a CA is made by a    *)
(* transaction (CaJournal), so either is one step.                         *)
(***************************************************************************)
EXTENDS Naturals

CONSTANTS
  None,
  MaxCommands, MaxAccidents   \* bounds: commands; kills, losses, failures, edits

ModeAssumption == None \notin {"on", "off", "odd", "https", "legacy-http", "damaged"}

VARIABLES
  operator, container,  \* an operator's certificate is set; inside Docker
  flag,                 \* PIPULSE_TLS; "odd": a value that is neither on nor off
  state,                \* state.json
  ca, cert,             \* the CA; the leaf, or the operator's certificate
  db, marker,           \* the data folder: the database, tls-installed
  server,               \* what it serves; "listening": HTTPS, the marker not written yet
  ready,                \* the sidecar's ready file
  pc, command,          \* the command that runs
  commands, accidents,  \* bounds
  mayHttp, held         \* history: see the properties

folder == <<state, ca, cert>>
data == <<db, marker>>
fixed == <<operator, container>>
running == <<pc, command>>
bounds == <<commands, accidents>>
history == <<mayHttp, held>>
vars == <<fixed, flag, folder, data, server, ready, running, bounds, history>>

Transport(mode) == IF mode = "legacy-http" THEN "http" ELSE "https"

(***************************************************************************)
(* readTlsConfig, with RELEASE_DEFAULT = 'refuse'.                         *)
(***************************************************************************)
Resolved(mode) ==
  CASE flag = "on" -> "https"
    [] flag = "off" -> "http"
    [] flag = None /\ mode \in {"https", "legacy-http"} -> Transport(mode)
    [] flag = None /\ mode = None -> IF operator THEN "https" ELSE "refuse"
    [] flag = "odd" \/ (flag = None /\ mode = "damaged") -> "refuse"

(* loadServingCertificate: what must not be served stops the start, an     *)
(* expired certificate only warns.                                         *)
Loads == cert \in {"good", "expired"}
StartsAs(mode) ==
  CASE Resolved(mode) = "http" -> "http"
    [] Resolved(mode) = "https" /\ Loads -> "listening"
    [] OTHER -> "down"

(* startServer opens the database before it listens. *)
Started(mode) == server' = StartsAs(mode) /\ db' = (db \/ StartsAs(mode) # "down")

ServerStarts ==
  /\ server = "down" /\ StartsAs(state) # "down" /\ (container => ready)
  /\ Started(state)
  /\ UNCHANGED <<fixed, flag, folder, marker, ready, running, bounds, history>>

(* writeTlsMarker, once it listens. *)
WritesMarker ==
  /\ server = "listening" /\ server' = "https" /\ marker' = TRUE
  /\ UNCHANGED <<fixed, flag, folder, db, ready, running, bounds, history>>

Accident == accidents < MaxAccidents /\ accidents' = accidents + 1
ServerStops ==
  /\ server # "down" /\ Accident /\ server' = "down"
  /\ UNCHANGED <<fixed, flag, folder, data, ready, running, commands, history>>

(***************************************************************************)
(* cmd-init.ts: init --mode auto, and the sidecar around it.               *)
(***************************************************************************)
Idle == [kind |-> None, to |-> None, previous |-> None, ok |-> FALSE]
Ends == pc' = "idle" /\ command' = Idle

(* The mutant forgets that the data was served over HTTPS. *)
AnyUpgrade(first) == IF ~first \/ db THEN "legacy-http" ELSE "https"
Decided(first) == IF (~first \/ db) /\ ~marker THEN "legacy-http" ELSE "https"

(* An init that may write; the sidecar takes its ready file away first. *)
InitBegins(kind, first) ==
  /\ pc = "idle" /\ commands < MaxCommands /\ commands' = commands + 1
  /\ kind = "sidecar" => container /\ first
  /\ ready' = (ready /\ kind # "sidecar")
  /\ \/ state = "damaged" /\ pc' = "decided" /\ command' = [Idle EXCEPT !.kind = kind]
     \/ /\ state # "damaged" /\ flag = "off"
        /\ pc' = "record"
        /\ command' = [Idle EXCEPT !.kind = kind, !.to = IF state = None THEN "legacy-http" ELSE None,
                                   !.ok = TRUE]
     \/ /\ state # "damaged" /\ flag # "off"
        /\ pc' = "material"
        /\ command' = [Idle EXCEPT !.kind = kind, !.to = IF state = None THEN Decided(first) ELSE None]
  /\ mayHttp' = (mayHttp \/ (command'.to = "legacy-http" /\ ~marker))
  /\ UNCHANGED <<fixed, flag, folder, data, server, accidents, held>>

(* material(): a CA when there is none, a leaf when it does not serve.  It *)
(* fails on a CA with files missing, and for want of openssl or a clock.   *)
MaterialMade ==
  /\ pc = "material" /\ (operator \/ ca # "partial")
  /\ IF operator THEN UNCHANGED <<ca, cert>> ELSE ca' = "whole" /\ cert' = "good"
  /\ pc' = "record" /\ command' = [command EXCEPT !.ok = TRUE]
  /\ UNCHANGED <<fixed, flag, state, data, server, ready, bounds, history>>

MaterialFails ==
  /\ pc = "material" /\ ~operator /\ (ca = "whole" => cert # "good")
  /\ pc' = IF command.to = "https" THEN "decided" ELSE "record"
  /\ UNCHANGED <<fixed, flag, folder, data, server, ready, command, bounds, history>>

(* The mode is recorded when the command was to choose it.  A failure has  *)
(* not kept an upgrade from its HTTP, and has recorded no HTTPS.           *)
Records ==
  /\ pc = "record" /\ pc' = "decided"
  /\ state' = IF command.to = None THEN state ELSE command.to
  /\ mayHttp' = (mayHttp /\ command.to # "https")
  /\ command' = [command EXCEPT !.ok = command.ok \/ command.to = "legacy-http"]
  /\ UNCHANGED <<fixed, flag, ca, cert, data, server, ready, bounds, held>>

InitEnds ==
  /\ pc = "decided" /\ command.kind = "init" /\ Ends
  /\ UNCHANGED <<fixed, flag, folder, data, server, ready, bounds, history>>

(* servable(): the recorded mode can be served. *)
Servable ==
  \/ state = "legacy-http"
  \/ state = "https" /\ ca # "none" /\ Loads

SidecarReady ==
  /\ pc = "decided" /\ command.kind = "sidecar" /\ pc' = "up"
  /\ ready' = (command.ok \/ flag = "off" \/ Servable)
  /\ UNCHANGED <<fixed, flag, folder, data, server, command, bounds, history>>

SidecarRenews ==
  /\ pc = "up" /\ Ends
  /\ UNCHANGED <<fixed, flag, folder, data, server, ready, bounds, history>>

(***************************************************************************)
(* cmd-mode.ts: enable and disable.                                        *)
(***************************************************************************)
Recorded == IF state = "damaged" THEN None ELSE state

(* Refused while PIPULSE_TLS says otherwise, and for a certificate browsers *)
(* would refuse; nothing to do when HTTPS is on and healthy.                *)
Enable ==
  /\ pc = "idle" /\ commands < MaxCommands /\ commands' = commands + 1
  /\ flag # "off" /\ cert = "good" /\ (operator \/ ca = "whole")
  /\ ~(state = "https" /\ Resolved(state) = "https" /\ server = "https")
  /\ pc' = "confirm"
  /\ command' = [Idle EXCEPT !.kind = "switch", !.to = "https", !.previous = Recorded]
  /\ UNCHANGED <<fixed, flag, folder, data, server, ready, accidents, history>>

Disable ==
  /\ pc = "idle" /\ commands < MaxCommands /\ commands' = commands + 1
  /\ flag # "on"
  /\ pc' = "confirm"
  /\ command' = [Idle EXCEPT !.kind = "switch", !.to = "legacy-http", !.previous = Recorded]
  /\ UNCHANGED <<fixed, flag, folder, data, server, ready, accidents, history>>

(* switchMode writes the mode. *)
WritesMode ==
  /\ pc = "confirm" /\ pc' = "resolve"
  /\ state' = command.to
  /\ mayHttp' = (mayHttp \/ command.to = "legacy-http")
  /\ held' = [mode |-> command.previous, server |-> server, stuck |-> FALSE]
  /\ UNCHANGED <<fixed, flag, ca, cert, data, server, ready, command, bounds>>

(* It is not switched to when the settings still say otherwise; in a        *)
(* container there is no more to do.                                        *)
SettingsRead ==
  /\ pc = "resolve"
  /\ \/ Resolved(state) # Transport(command.to) /\ pc' = "refused" /\ UNCHANGED command
     \/ Resolved(state) = Transport(command.to) /\ container /\ Ends
     \/ Resolved(state) = Transport(command.to) /\ ~container /\ pc' = "restart" /\ UNCHANGED command
  /\ UNCHANGED <<fixed, flag, folder, data, server, ready, bounds, history>>

Declined ==
  /\ pc = "confirm" /\ Ends
  /\ UNCHANGED <<fixed, flag, folder, data, server, ready, bounds, history>>

Restarts ==
  /\ pc = "restart" /\ pc' = "health" /\ Started(state)
  /\ UNCHANGED <<fixed, flag, folder, marker, ready, command, bounds, history>>

(* systemctl fails when the server does not start, or before it stops it. *)
RestartFails ==
  /\ pc = "restart" /\ pc' = "back" /\ Accident
  /\ server' \in {server, "down"}
  /\ UNCHANGED <<fixed, flag, folder, data, ready, command, commands, history>>

(* waitHealthy: the server answers as the mode says, with a certificate    *)
(* clients take; an operator's that cannot be verified here is kept.       *)
Healthy(mode) ==
  /\ server = Transport(mode)
  /\ server = "https" => cert = "good" \/ operator

SwitchSucceeds ==
  /\ pc = "health" /\ Healthy(command.to) /\ Ends
  /\ mayHttp' = (mayHttp /\ command.to # "https")
  /\ UNCHANGED <<fixed, flag, folder, data, server, ready, bounds, held>>

(* Not healthy, or not healthy in time. *)
SwitchFails ==
  /\ pc = "health" /\ (Healthy(command.to) => Accident)
  /\ ~Healthy(command.to) => UNCHANGED accidents
  /\ pc' = "back"
  /\ UNCHANGED <<fixed, flag, folder, data, server, ready, command, commands, history>>

(* The mutant leaves the file when there was none. *)
LeftThere == IF command.previous = None THEN state ELSE command.previous
PutBack == command.previous

(* tryPutBack: a full disk keeps what the command wrote, and the switch     *)
(* goes on backing out.                                                     *)
BacksOut ==
  /\ pc \in {"back", "refused"} /\ pc' = IF pc = "back" THEN "again" ELSE "failed"
  /\ \/ state' = PutBack /\ UNCHANGED <<held, accidents>>
     \/ Accident /\ UNCHANGED state /\ held' = [held EXCEPT !.stuck = TRUE]
  /\ UNCHANGED <<fixed, flag, ca, cert, data, server, ready, command, commands, mayHttp>>

RestartsAgain ==
  /\ pc = "again" /\ pc' = "failed"
  /\ \/ Started(state) /\ UNCHANGED accidents
     \/ Accident /\ server' \in {server, "down"} /\ UNCHANGED db
  /\ UNCHANGED <<fixed, flag, folder, marker, ready, command, commands, history>>

SwitchEnds ==
  /\ pc = "failed" /\ Ends
  /\ UNCHANGED <<fixed, flag, folder, data, server, ready, bounds, history>>

(***************************************************************************)
(* What happens to an install.                                             *)
(***************************************************************************)
Killed ==
  /\ pc \notin {"idle", "up"} /\ Accident /\ Ends
  /\ UNCHANGED <<fixed, flag, folder, data, server, ready, commands, history>>

(* The TLS folder is lost; not in the instant before the marker is written. *)
FolderLost ==
  /\ server # "listening" /\ pc = "idle" /\ Accident
  /\ state' = None /\ ca' = "none" /\ cert' = IF operator THEN cert ELSE "none"
  /\ UNCHANGED <<fixed, flag, data, server, ready, running, commands, history>>

FileDamaged ==
  /\ Accident
  /\ \/ state # None /\ state' = "damaged" /\ UNCHANGED <<ca, cert>>
     \/ ca = "whole" /\ ca' = "partial" /\ UNCHANGED <<state, cert>>
     \/ cert = "good" /\ cert' \in {"expired", "broken"} /\ UNCHANGED <<state, ca>>
  /\ pc = "idle"
  /\ UNCHANGED <<fixed, flag, data, server, ready, running, commands, history>>

(* A container sees pipulse.env only when it starts. *)
SettingEdited ==
  /\ pc = "idle" /\ Accident /\ flag' \in {None, "on", "off", "odd"} \ {flag}
  /\ mayHttp' = (mayHttp \/ flag' = "off")
  /\ UNCHANGED <<fixed, folder, data, server, ready, running, commands, held>>

(* A fresh machine; one with data from before HTTPS; one that served it    *)
(* with the operator's certificate by PIPULSE_TLS=on.                      *)
Init ==
  /\ operator \in BOOLEAN /\ container \in BOOLEAN
  /\ db \in BOOLEAN /\ flag \in {None, "on"} /\ (flag = "on" => operator /\ db)
  /\ state = None /\ ca = "none" /\ cert = IF operator THEN "good" ELSE "none"
  /\ marker = FALSE /\ server = "down" /\ ready = FALSE
  /\ pc = "idle" /\ command = Idle /\ commands = 0 /\ accidents = 0
  /\ mayHttp = db /\ held = [mode |-> None, server |-> "down", stuck |-> FALSE]

Next ==
  \/ ServerStarts \/ WritesMarker \/ ServerStops
  \/ \E first \in BOOLEAN : InitBegins("init", first) \/ InitBegins("sidecar", first)
  \/ MaterialMade \/ MaterialFails \/ Records \/ InitEnds \/ SidecarReady \/ SidecarRenews
  \/ Enable \/ Disable \/ WritesMode \/ Declined \/ SettingsRead \/ Restarts \/ RestartFails
  \/ SwitchSucceeds \/ SwitchFails \/ BacksOut \/ RestartsAgain \/ SwitchEnds
  \/ Killed \/ FolderLost \/ FileDamaged \/ SettingEdited

Spec == Init /\ [][Next]_vars

(***************************************************************************)
(* Properties.                                                             *)
(***************************************************************************)
(* Data that was served over HTTPS is not served over HTTP until somebody    *)
(* asks for it, whatever is lost, damaged or killed (cmd-init.ts:53-56).     *)
AskedForHttp == server # "http" /\ server' = "http" /\ marker => mayHttp
NeverSilentlyHttp == [][AskedForHttp]_vars

(* A switch that fails leaves the mode that was recorded, refused or not     *)
(* healthy, and a server that serves as before if it can: unless putting it  *)
(* back fails, when the mode that the command wrote is what is recorded and  *)
(* served, or the restart after it does (cmd-mode.ts:43-131).                *)
CanServe(mode, transport) == Resolved(mode) = transport /\ (transport = "https" => Loads)
ServesAgain(was) ==
  /\ was = "http" /\ CanServe(state', "http") => server' = "http"
  /\ was \in {"listening", "https"} /\ CanServe(state', "https") => server' = "listening"
Restores ==
  pc # "failed" /\ pc' = "failed" =>
    /\ state' = IF held'.stuck THEN command.to ELSE held.mode
    /\ pc = "again" /\ accidents' = accidents =>
         ServesAgain(IF held.stuck THEN Transport(command.to) ELSE held.server)
FailureRestores == [][Restores]_vars
=============================================================================
