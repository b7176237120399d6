-------------------------- MODULE CertificateProofs --------------------------
(***************************************************************************)
(* What the certificate side promises, part by part.  HTTP or HTTPS, for   *)
(* any number of commands and accidents: HTTP comes back only when it is   *)
(* asked for, and a switch that fails is put back.  The names of a         *)
(* certificate, for any machine and any CAs: its clients accept them.      *)
(* A reload, for any certificates and any clock: it serves a better one    *)
(* before long, and never a worse one.  Renewal, for any clock and any     *)
(* accidents: it comes in time, and dates nothing ahead.  A chain that is  *)
(* classed as valid, whatever certificates there are: a client accepts it. *)
(***************************************************************************)
EXTENDS TlsMode, SequenceTheorems, FiniteSetTheorems, WellFoundedInduction, TLAPS

CONSTANTS Local, Localhost, Hosts, Settings, Asked, Lans, Addresses, Loopback
VARIABLES host, setting, addresses, authority, replaced, names
Scope == INSTANCE CaScope WITH ca <- authority, backup <- replaced, leaf <- names

CONSTANTS Generations, RETRY, Steps, MaxTime, MaxWrites, MaxSets
VARIABLES requireValid, time, ahead, synced, files, signature, loader, read, active,
          activeSignature, pending, failing, lastAttempt, sets, polled, good
Reload == INSTANCE TlsReload WITH pc <- loader

CONSTANTS ANCHOR_TOLERANCE, ANCHOR_HOLD, RENEW_BEFORE, IPV6_RENEW_AFTER, CLOCK_FLOOR, Lifetime, CaEnd,
          Leaps, Budgets, Horizon
VARIABLES boot, signal, anchor, leaf, leafCrt, lacks, renewer, run, left, timer, calm, seen, known
Renewal == INSTANCE TlsRenew WITH Steps <- Leaps, MaxTime <- Horizon, pc <- renewer

CONSTANTS Worlds, Chains, AnchorLists, PrivateKeys
VARIABLES certs, chain, anchors, key, result
Inspection == INSTANCE Inspect

(***************************************************************************)
(* Whatever makes the server answer over HTTP was asked for: the flag, the *)
(* mode on record, the mode a command is about to record or to put back.   *)
(* HTTPS is recorded, and the wish for HTTP forgotten, only while the flag *)
(* does not say HTTP.                                                      *)
(***************************************************************************)
Choosing == {"material", "record"}
Switching == {"resolve", "restart", "health", "back", "refused"}
Modes == {None, "https", "legacy-http"}
Commands == [kind : {None, "init", "sidecar", "switch"}, to : Modes, previous : Modes, ok : BOOLEAN]
HttpAsked ==
  /\ flag = "off" \/ state = "legacy-http" => mayHttp
  /\ command.to = "legacy-http" /\ pc \in Choosing => mayHttp
  /\ command.previous = "legacy-http" => mayHttp
HttpsAllowed ==
  /\ pc \in {"idle", "decided", "up"} \cup Choosing => command.previous = None
  /\ pc = "idle" => command.to = None
  /\ command.to = "https" => flag # "off"
  /\ pc \in {"resolve", "restart", "health"} => state = command.to
ModeTyped ==
  /\ command \in Commands /\ state \in Modes \cup {"damaged"} /\ flag \in {None, "on", "off", "odd"}
  /\ mayHttp \in BOOLEAN
HttpInv == ModeTyped /\ HttpAsked /\ HttpsAllowed

LEMMA IdleTyped == Idle \in Commands
BY DEF Idle, Commands, Modes

LEMMA InitAsked == ASSUME ModeAssumption, Init PROVE HttpInv
BY IdleTyped DEF ModeAssumption, Init, HttpInv, ModeTyped, HttpAsked, HttpsAllowed, Modes, Idle, Choosing

(* A command that ends forgets what it was to do.                            *)
LEMMA EndAsked ==
  ASSUME ModeAssumption, HttpInv, Ends, flag' = flag, state' = state, mayHttp' \in BOOLEAN,
         mayHttp => mayHttp' \/ (flag # "off" /\ state # "legacy-http")
  PROVE  HttpInv'
<1>1. command' = Idle /\ pc' = "idle" /\ Idle \in Commands
  BY IdleTyped DEF Ends
<1> QED
  BY <1>1 DEF Idle, HttpInv, ModeTyped, HttpAsked, HttpsAllowed, ModeAssumption

(* init and the sidecar.                                                     *)
LEMMA InitAsks ==
  ASSUME ModeAssumption, HttpInv, NEW kind \in {"init", "sidecar"}, NEW first \in BOOLEAN, InitBegins(kind, first)
  PROVE  HttpInv'
<1>1. command' \in Commands /\ command'.previous = None /\ state' = state /\ flag' = flag
  BY DEF InitBegins, Idle, Commands, Modes, Decided, HttpInv, ModeTyped, folder
<1>2. mayHttp' = (mayHttp \/ (command'.to = "legacy-http" /\ ~marker))
  BY DEF InitBegins
<1>3. pc' \in {"decided", "record", "material"}
  BY DEF InitBegins
<1>4. command'.to = "https" => flag # "off"
  BY DEF InitBegins, Idle, ModeAssumption
<1>5. command'.to = "legacy-http" => flag = "off" \/ ~marker
  BY DEF InitBegins, Idle, ModeAssumption, Decided
<1> QED
  BY <1>1, <1>2, <1>3, <1>4, <1>5 DEF HttpInv, ModeTyped, HttpAsked, HttpsAllowed, ModeAssumption, Modes, Choosing

LEMMA ChoiceAsked ==
  ASSUME ModeAssumption, HttpInv,
         MaterialMade \/ MaterialFails \/ Records \/ InitEnds \/ SidecarReady \/ SidecarRenews
  PROVE  HttpInv'
<1> USE DEF HttpInv, ModeTyped, HttpAsked, HttpsAllowed, ModeAssumption, Modes, Choosing
<1>1. CASE MaterialMade
  BY <1>1 DEF MaterialMade, Commands, history
<1>2. CASE MaterialFails
  BY <1>2 DEF MaterialFails, folder, history
<1>3. CASE Records
  BY <1>3 DEF Records, Commands
<1>4. CASE InitEnds \/ SidecarRenews
  <2>1. Ends /\ UNCHANGED <<flag, state, mayHttp>>
    BY <1>4 DEF InitEnds, SidecarRenews, folder, history
  <2> QED
    BY <2>1, EndAsked
<1>5. CASE SidecarReady
  <2>1. pc = "decided" /\ pc' = "up" /\ UNCHANGED <<flag, state, command, mayHttp>>
    BY <1>5 DEF SidecarReady, folder, history
  <2> QED
    BY <2>1
<1> QED
  BY <1>1, <1>2, <1>3, <1>4, <1>5

(* enable and disable.                                                       *)
LEMMA SwitchAsked ==
  ASSUME ModeAssumption, HttpInv,
         Enable \/ Disable \/ WritesMode \/ Declined \/ SettingsRead \/ Restarts \/ RestartFails
           \/ SwitchSucceeds \/ SwitchFails \/ BacksOut \/ RestartsAgain \/ SwitchEnds
  PROVE  HttpInv'
<1> USE DEF HttpInv, ModeTyped, HttpAsked, HttpsAllowed, ModeAssumption, Modes, Choosing
<1>1. CASE Enable \/ Disable
  BY <1>1 DEF Enable, Disable, Idle, Commands, Recorded, folder, history
<1>2. CASE WritesMode
  BY <1>2 DEF WritesMode, Commands
<1>8. CASE SettingsRead
  <2>1. UNCHANGED <<flag, state, mayHttp>>
    BY <1>8 DEF SettingsRead, folder, history
  <2>2. CASE Ends
    BY <2>1, <2>2, EndAsked
  <2>3. CASE pc = "resolve" /\ pc' \in {"refused", "restart"} /\ UNCHANGED command
    BY <2>1, <2>3
  <2> QED
    BY <1>8, <2>2, <2>3 DEF SettingsRead
<1>3. CASE Restarts \/ RestartFails
  <2>1. pc = "restart" /\ pc' \in {"health", "back"} /\ UNCHANGED <<flag, state, command, mayHttp>>
    BY <1>3 DEF Restarts, RestartFails, folder, history
  <2> QED
    BY <1>3, <2>1
<1>7. CASE SwitchFails \/ RestartsAgain
  BY <1>7 DEF SwitchFails, RestartsAgain, folder, history
<1>4. CASE SwitchSucceeds
  BY <1>4, EndAsked DEF SwitchSucceeds, folder
<1>5. CASE BacksOut
  <2>1. state' \in {state, command.previous} /\ pc' \in {"again", "failed"}
    BY <1>5 DEF BacksOut, PutBack
  <2>2. UNCHANGED <<flag, command, mayHttp>>
    BY <1>5 DEF BacksOut
  <2> QED
    BY <2>1, <2>2 DEF Commands
<1>6. CASE Declined \/ SwitchEnds
  BY <1>6, EndAsked DEF Declined, SwitchEnds, folder, history
<1> QED
  BY <1>1, <1>2, <1>3, <1>4, <1>5, <1>6, <1>7, <1>8

LEMMA HttpStep == ASSUME ModeAssumption, HttpInv, [Next]_vars PROVE HttpInv'
<1> USE DEF HttpInv, ModeTyped, HttpAsked, HttpsAllowed, ModeAssumption, Modes, Choosing
<1>1. CASE ServerStarts \/ WritesMarker \/ ServerStops
  BY <1>1 DEF ServerStarts, WritesMarker, ServerStops, folder, history, running
<1>2. CASE \E first \in BOOLEAN : InitBegins("init", first) \/ InitBegins("sidecar", first)
  BY <1>2, InitAsks
<1>3. CASE Killed
  BY <1>3, EndAsked DEF Killed, folder, history
<1>5. CASE FolderLost \/ FileDamaged
  BY <1>5 DEF FolderLost, FileDamaged, history, running
<1>6. CASE SettingEdited
  BY <1>6 DEF SettingEdited, folder, running
<1>4. CASE UNCHANGED vars
  BY <1>4 DEF vars, folder, history, running
<1> QED
  BY <1>1, <1>2, <1>3, <1>4, <1>5, <1>6, ChoiceAsked, SwitchAsked DEF Next

(* Data that was served over HTTPS is not served over HTTP until somebody    *)
(* asks for it (cmd-init.ts:53-56).                                          *)
THEOREM HttpCorrect == ASSUME ModeAssumption PROVE Spec => NeverSilentlyHttp
<1>1. HttpInv /\ [Next]_vars => AskedForHttp
  <2> SUFFICES ASSUME HttpInv, [Next]_vars, server # "http", server' = "http" PROVE mayHttp
    BY DEF AskedForHttp
  <2>1. StartsAs(state) = "http"
    <3>1. CASE ServerStarts \/ WritesMarker \/ ServerStops
      BY <3>1 DEF ServerStarts, WritesMarker, ServerStops, Started
    <3>2. CASE Restarts \/ RestartFails \/ RestartsAgain
      BY <3>2 DEF Restarts, RestartFails, RestartsAgain, Started
    <3>3. ~UNCHANGED server
      OBVIOUS
    <3>4. CASE \E first \in BOOLEAN : InitBegins("init", first) \/ InitBegins("sidecar", first)
      BY <3>3, <3>4 DEF InitBegins
    <3>5. CASE MaterialMade \/ MaterialFails \/ Records \/ InitEnds \/ SidecarReady \/ SidecarRenews
      BY <3>3, <3>5 DEF MaterialMade, MaterialFails, Records, InitEnds, SidecarReady, SidecarRenews
    <3>6. CASE Enable \/ Disable \/ WritesMode \/ Declined \/ SettingsRead
      BY <3>3, <3>6 DEF Enable, Disable, WritesMode, Declined, SettingsRead
    <3>7. CASE SwitchSucceeds \/ SwitchFails \/ BacksOut \/ SwitchEnds
      BY <3>3, <3>7 DEF SwitchSucceeds, SwitchFails, BacksOut, SwitchEnds
    <3>8. CASE Killed \/ FolderLost \/ FileDamaged \/ SettingEdited \/ UNCHANGED vars
      BY <3>3, <3>8 DEF Killed, FolderLost, FileDamaged, SettingEdited, vars
    <3> QED
      BY <3>1, <3>2, <3>4, <3>5, <3>6, <3>7, <3>8 DEF Next
  <2>2. Resolved(state) = "http"
    BY <2>1 DEF StartsAs
  <2>3. flag = "off" \/ state = "legacy-http"
    BY <2>2 DEF Resolved, Transport, HttpInv, ModeTyped, Modes, ModeAssumption
  <2> QED
    BY <2>3 DEF HttpInv, HttpAsked
<1> QED
  BY <1>1, InitAsked, HttpStep, PTL DEF Spec, NeverSilentlyHttp

(***************************************************************************)
(* A switch that is being put back knows what was recorded before it.      *)
(***************************************************************************)
BackInv ==
  /\ pc \in {"again"} \cup Switching => held.mode = command.previous
  /\ pc \in Switching => state = command.to /\ ~held.stuck
  /\ pc = "again" => state = IF held.stuck THEN command.to ELSE held.mode

LEMMA BackStep == ASSUME BackInv, [Next]_vars PROVE BackInv'
<1> USE DEF BackInv, Switching
<1>1. CASE UNCHANGED <<pc, command, state, held>>
  BY <1>1
<1>2. CASE pc' \notin {"again"} \cup Switching
  BY <1>2
<1>3. CASE WritesMode
  BY <1>3 DEF WritesMode
<1>4. CASE BacksOut
  <2>1. CASE pc = "refused"
    BY <1>2, <1>4, <2>1 DEF BacksOut
  <2>2. CASE pc = "back" /\ state' = PutBack /\ UNCHANGED held
    BY <1>4, <2>2 DEF BacksOut, PutBack
  <2>3. CASE pc = "back" /\ UNCHANGED state /\ held' = [held EXCEPT !.stuck = TRUE]
    <3>1. held'.mode = held.mode /\ (held'.stuck \/ held' = held)
      BY <2>3
    <3> QED
      BY <1>4, <2>3, <3>1 DEF BacksOut
  <2> QED
    BY <1>4, <2>1, <2>2, <2>3 DEF BacksOut
<1>5. CASE pc \in Switching /\ pc' \in Switching /\ UNCHANGED <<command, state, held>>
  BY <1>5
<1>6. CASE ServerStarts \/ WritesMarker \/ ServerStops
  <2>1. UNCHANGED <<pc, command, state, held>>
    BY <1>6 DEF ServerStarts, WritesMarker, ServerStops, folder, history, running
  <2> QED
    BY <1>1, <2>1
<1>7. CASE \E first \in BOOLEAN : InitBegins("init", first) \/ InitBegins("sidecar", first)
  BY <1>2, <1>7 DEF InitBegins
<1>8. CASE MaterialMade \/ MaterialFails \/ Records \/ InitEnds \/ SidecarReady \/ SidecarRenews
  BY <1>2, <1>8 DEF MaterialMade, MaterialFails, Records, InitEnds, SidecarReady, SidecarRenews, Ends
<1>9. CASE Enable \/ Disable \/ Declined \/ SwitchSucceeds \/ RestartsAgain \/ SwitchEnds \/ Killed
  BY <1>2, <1>9 DEF Enable, Disable, Declined, SwitchSucceeds, RestartsAgain, SwitchEnds, Killed, Ends
<1>10. CASE SettingsRead \/ Restarts \/ RestartFails \/ SwitchFails
  <2>1. CASE pc' = "idle"
    BY <1>2, <2>1
  <2>2. CASE pc' # "idle"
    <3>1. pc \in Switching /\ pc' \in Switching
      BY <1>10, <2>2 DEF SettingsRead, Ends, Restarts, RestartFails, SwitchFails
    <3>2. UNCHANGED <<command, state, held>>
      BY <1>10, <2>2 DEF SettingsRead, Ends, Restarts, RestartFails, SwitchFails, folder, history
    <3> QED
      BY <1>5, <3>1, <3>2
  <2> QED
    BY <2>1, <2>2
<1>11. CASE FolderLost \/ FileDamaged \/ SettingEdited
  <2>1. pc' = "idle"
    BY <1>11 DEF FolderLost, FileDamaged, SettingEdited, running
  <2> QED
    BY <1>2, <2>1
<1>12. CASE UNCHANGED vars
  BY <1>1, <1>12 DEF vars, folder, history, running
<1> QED
  BY <1>3, <1>4, <1>6, <1>7, <1>8, <1>9, <1>10, <1>11, <1>12 DEF Next

(* Accidents are counted one by one, and a switch keeps what was before it   *)
(* in the same fields.                                                       *)
SwitchTyped == accidents \in Nat /\ DOMAIN held = {"mode", "server", "stuck"}

LEMMA TypedStep == ASSUME SwitchTyped, [Next]_vars PROVE SwitchTyped'
<1> USE DEF SwitchTyped
<1>1. CASE Accident /\ UNCHANGED held
  BY <1>1 DEF Accident
<1>2. CASE UNCHANGED <<accidents, held>>
  BY <1>2
<1>3. CASE ServerStarts \/ WritesMarker
  BY <1>2, <1>3 DEF ServerStarts, WritesMarker, bounds, history
<1>4. CASE \E first \in BOOLEAN : InitBegins("init", first) \/ InitBegins("sidecar", first)
  <2>1. UNCHANGED <<accidents, held>>
    BY <1>4 DEF InitBegins
  <2> QED
    BY <1>2, <2>1
<1>5. CASE MaterialMade \/ MaterialFails \/ Records \/ InitEnds \/ SidecarReady \/ SidecarRenews
  BY <1>2, <1>5 DEF MaterialMade, MaterialFails, Records, InitEnds, SidecarReady, SidecarRenews, bounds, history
<1>6. CASE Enable \/ Disable \/ Declined \/ SettingsRead \/ Restarts \/ SwitchSucceeds \/ SwitchEnds
  BY <1>2, <1>6 DEF Enable, Disable, Declined, SettingsRead, Restarts, SwitchSucceeds, SwitchEnds, bounds, history
<1>7. CASE WritesMode
  BY <1>7 DEF WritesMode, bounds
<1>8. CASE BacksOut
  <2>1. CASE UNCHANGED <<held, accidents>>
    BY <2>1
  <2>2. CASE Accident /\ held' = [held EXCEPT !.stuck = TRUE]
    BY <2>2 DEF Accident
  <2> QED
    BY <1>8, <2>1, <2>2 DEF BacksOut
<1>9. CASE ServerStops \/ RestartFails \/ SwitchFails \/ RestartsAgain
  BY <1>1, <1>2, <1>9 DEF ServerStops, RestartFails, SwitchFails, RestartsAgain, history
<1>10. CASE Killed \/ FolderLost \/ FileDamaged \/ SettingEdited
  BY <1>1, <1>10 DEF Killed, FolderLost, FileDamaged, SettingEdited, history
<1>11. CASE UNCHANGED vars
  BY <1>2, <1>11 DEF vars, bounds, history
<1> QED
  BY <1>3, <1>4, <1>5, <1>6, <1>7, <1>8, <1>9, <1>10, <1>11 DEF Next

(* A switch that fails leaves the mode that was recorded, and a server that  *)
(* serves as before if it can, but for what the put-back and the restart     *)
(* after it fail to do (cmd-mode.ts:43-131).                                 *)
THEOREM RestoresCorrect == Spec => FailureRestores
<1>1. Init => BackInv /\ SwitchTyped
  BY DEF Init, BackInv, Switching, SwitchTyped
<1>2. BackInv /\ SwitchTyped /\ [Next]_vars => Restores
  <2> SUFFICES ASSUME BackInv, SwitchTyped, [Next]_vars, pc # "failed", pc' = "failed" PROVE Restores
    BY DEF Restores
  <2>1. CASE BacksOut
    <3>1. pc = "refused" /\ state = command.to /\ ~held.stuck /\ held.mode = command.previous
      BY <2>1 DEF BacksOut, BackInv, Switching
    <3>2. CASE state' = PutBack /\ UNCHANGED held
      BY <3>1, <3>2 DEF PutBack, Restores
    <3>3. CASE UNCHANGED state /\ held' = [held EXCEPT !.stuck = TRUE]
      <4>1. held'.stuck
        BY <3>3 DEF SwitchTyped
      <4> QED
        BY <3>1, <3>3, <4>1 DEF Restores
    <3> QED
      BY <2>1, <3>2, <3>3 DEF BacksOut
  <2>2. CASE RestartsAgain
    <3>1. state' = IF held'.stuck THEN command.to ELSE held.mode
      BY <2>2 DEF RestartsAgain, BackInv, folder, history
    <3>2. accidents' = accidents =>
            ServesAgain(IF held.stuck THEN Transport(command.to) ELSE held.server)
      <4>1. accidents' = accidents => Started(state) /\ state' = state
        BY <2>2 DEF RestartsAgain, Accident, SwitchTyped, folder
      <4> QED
        BY <4>1 DEF Started, StartsAs, CanServe, ServesAgain
    <3> QED
      BY <3>1, <3>2 DEF Restores
  <2>3. CASE \E first \in BOOLEAN : InitBegins("init", first) \/ InitBegins("sidecar", first)
    BY <2>3 DEF InitBegins
  <2>4. CASE pc' # "failed" \/ pc' = pc
    BY <2>4
  <2>5. CASE ServerStarts \/ WritesMarker \/ ServerStops \/ FolderLost \/ FileDamaged \/ SettingEdited \/ UNCHANGED vars
    BY <2>4, <2>5 DEF ServerStarts, WritesMarker, ServerStops, FolderLost, FileDamaged, SettingEdited, vars, running
  <2>6. CASE MaterialMade \/ MaterialFails \/ Records \/ InitEnds \/ SidecarReady \/ SidecarRenews \/ Killed
    BY <2>4, <2>6 DEF MaterialMade, MaterialFails, Records, InitEnds, SidecarReady, SidecarRenews, Killed, Ends
  <2>7. CASE Enable \/ Disable \/ WritesMode \/ Declined \/ SettingsRead \/ Restarts \/ RestartFails
    BY <2>4, <2>7 DEF Enable, Disable, WritesMode, Declined, SettingsRead, Restarts, RestartFails, Ends
  <2>8. CASE SwitchSucceeds \/ SwitchFails \/ SwitchEnds
    BY <2>4, <2>8 DEF SwitchSucceeds, SwitchFails, SwitchEnds, Ends
  <2> QED
    BY <2>1, <2>2, <2>3, <2>5, <2>6, <2>7, <2>8 DEF Next
<1> QED
  BY <1>1, <1>2, BackStep, TypedStep, PTL DEF Spec, FailureRestores

(***************************************************************************)
(* The names of a certificate stay within its CA, whatever the machine is  *)
(* called by then: they change only with the certificate, which is made    *)
(* again whenever the CA changes.                                          *)
(***************************************************************************)
Within(c, n) == (\A d \in n.dns : Scope!CoversName(c, d)) /\ \A a \in n.ip : Scope!CoversAddress(c, a)

LEMMA LeafWithin == ASSUME NEW c PROVE Within(c, Scope!LeafNames(c))
BY DEF Within, Scope!LeafNames, Scope!CoversAddress

(* Every client accepts every name of a certificate (constraints.ts:287-304, *)
(* 425-476).                                                                 *)
THEOREM ScopeCorrect == Scope!Spec => []Scope!LeafInScope
<1> DEFINE ScopeInv == authority # None => Within(authority, names)
<1>1. Scope!Init => ScopeInv
  BY DEF Scope!Init
<1>2. ScopeInv /\ [Scope!Next]_(Scope!vars) => ScopeInv'
  <2> SUFFICES ASSUME ScopeInv, [Scope!Next]_(Scope!vars) PROVE ScopeInv'
    OBVIOUS
  <2>1. CASE UNCHANGED <<authority, names>>
    BY <2>1 DEF Within, Scope!CoversName, Scope!CoversAddress
  <2>2. CASE names' = Scope!LeafNames(authority')
    BY <2>2, LeafWithin
  <2>3. CASE \E subnets \in SUBSET DOMAIN Lans : Scope!Material(subnets)
    BY <2>2, <2>3 DEF Scope!Material, Scope!Issues
  <2>4. CASE \E asked \in {{}} \cup {{n} : n \in Asked}, drop \in BOOLEAN,
                requested \in {None} \cup {{s} : s \in DOMAIN Lans} \cup {{}} :
               Scope!NewCa(asked, drop, requested)
    BY <2>2, <2>4 DEF Scope!NewCa, Scope!Issues
  <2>5. CASE Scope!RestoreCa
    BY <2>2, <2>5 DEF Scope!RestoreCa, Scope!Issues
  <2>6. CASE Scope!Renew
    BY <2>2, <2>6 DEF Scope!Renew, Scope!Issues
  <2>7. CASE Scope!MachineChanges
    BY <2>1, <2>7 DEF Scope!MachineChanges
  <2>8. CASE UNCHANGED Scope!vars
    BY <2>1, <2>8 DEF Scope!vars
  <2> QED
    BY <2>3, <2>4, <2>5, <2>6, <2>7, <2>8 DEF Scope!Next
<1>3. ScopeInv => Scope!LeafInScope
  BY DEF Within, Scope!LeafInScope, Scope!Violates, Scope!Permits, Scope!CoversName, Scope!CoversAddress,
         Scope!Below
<1> QED
  BY <1>1, <1>2, <1>3, PTL DEF Scope!Spec

(***************************************************************************)
(* A reload takes only what checkReplacement accepts.                      *)
(***************************************************************************)
(* It serves nothing a start would refuse, for a valid certificate none that *)
(* has expired, and one not valid yet only while the clock is not synced     *)
(* (replacement.ts:4-8, 23-41).                                              *)
THEOREM WorseCorrect == Reload!Spec => Reload!NeverForWorse
<1>1. [Reload!Next]_(Reload!vars) => Reload!NoWorse
  <2> SUFFICES ASSUME [Reload!Next]_(Reload!vars), loader = "loading", loader' = "up",
                      active'.serves # active.serves
               PROVE  /\ Reload!StartAccepts(active')
                      /\ Reload!Validity(active) = "valid" =>
                           /\ Reload!Validity(active') # "expired"
                           /\ Reload!Validity(active') = "not-yet-valid" => ~synced
    BY DEF Reload!NoWorse
  <2>1. Reload!TryReload
    BY DEF Reload!Next, Reload!vars, Reload!Starts, Reload!ReadsFirst, Reload!Started, Reload!Poll,
           Reload!Write, Reload!Tick, Reload!ClockSet
  <2>2. Reload!ReplacementAccepted(active')
    BY <2>1 DEF Reload!TryReload, Reload!Takes
  <2> QED
    BY <2>2 DEF Reload!ReplacementAccepted, Reload!StartAccepts
<1> QED
  BY <1>1, PTL DEF Reload!Spec, Reload!NeverForWorse

(***************************************************************************)
(* Files that are better than what is served are not left alone: a load    *)
(* that ends after the signature was noted has read them as they are, so   *)
(* it takes them or fails; and what is better is not refused.  Until then  *)
(* each poll brings a load nearer, by the two looks at a signature or by   *)
(* the time since the last attempt.                                        *)
(***************************************************************************)
Noted == signature = activeSignature
Taken == Noted /\ active # None /\ active = Reload!Load(files)

Nears ==
  \/ ~Noted /\ good = 1 /\ (polled => pending = signature)
  \/ ~Noted /\ good = 2 /\ pending = signature /\ ~polled
  \/ Noted /\ failing /\ lastAttempt <= time - good /\ (polled => time - lastAttempt < RETRY)
       /\ (good = 1 \/ time - 1 - lastAttempt < RETRY)
  \/ Noted /\ failing /\ polled /\ ~Reload!Better /\ good <= RETRY + 2

Up == {"up", "load", "loading"}
ReloadTyped ==
  /\ loader \in {"start", "start-load", "starting", "down"} \cup Up
  /\ time \in Nat /\ good \in Nat /\ lastAttempt \in Int /\ lastAttempt <= time
  /\ signature \in [1 .. 2 -> Nat]
Behind ==
  loader # "start" => /\ activeSignature \in [1 .. 2 -> Nat]
                      /\ \A f \in 1 .. 2 : activeSignature[f] <= signature[f]
Serves == /\ loader \in Up => active # None
          /\ loader \in {"load", "loading"} => polled
          /\ loader \notin Up => good = 0
Reads ==
  /\ loader \in {"starting", "loading"} /\ Noted => read = files[1]
  /\ loader = "up" /\ Noted => Taken \/ failing
  /\ loader \in {"load", "loading"} /\ good > 0 /\ ~Taken => Noted /\ good <= RETRY + 2
  /\ loader = "up" /\ good > 0 /\ ~Taken => Nears
ReloadInv == ReloadTyped /\ Behind /\ Serves /\ Reads

LEMMA LoadsAgain ==
  ASSUME ReloadInv, Taken PROVE Reload!Takes(Reload!Load(files))
BY DEF Taken, Reload!Takes

(* What was noted is behind what has been written since.                     *)
LEMMA WriteNotes ==
  ASSUME ReloadInv, loader # "start", NEW f \in {1, 2}, signature' = [signature EXCEPT ![f] = @ + 1],
         UNCHANGED activeSignature
  PROVE  /\ ~Noted' /\ signature' \in [1 .. 2 -> Nat]
         /\ \A h \in 1 .. 2 : activeSignature[h] <= signature'[h]
BY DEF ReloadInv, ReloadTyped, Behind, Noted

LEMMA InitReload == ASSUME Reload!ReloadAssumption, Reload!Init PROVE ReloadInv
BY DEF Reload!ReloadAssumption, Reload!Init, ReloadInv, ReloadTyped, Behind, Serves, Reads, Up

LEMMA WriteReload == ASSUME Reload!ReloadAssumption, ReloadInv, NEW f \in {1, 2}, Reload!Write(f) PROVE ReloadInv'
<1>1. /\ signature' = [signature EXCEPT ![f] = @ + 1] /\ good' = 0
      /\ UNCHANGED <<time, loader, read, active, activeSignature, failing, lastAttempt, polled>>
  BY DEF Reload!Write, Reload!clock, Reload!reloader
<1>2. signature' \in [1 .. 2 -> Nat]
  BY <1>1 DEF ReloadInv, ReloadTyped
<1>3. CASE loader = "start"
  BY <1>1, <1>2, <1>3 DEF ReloadInv, ReloadTyped, Behind, Serves, Reads, Up
<1>4. CASE loader # "start"
  <2>1. ~Noted' /\ \A h \in 1 .. 2 : activeSignature[h] <= signature'[h]
    BY <1>1, <1>4, WriteNotes
  <2> QED
    BY <1>1, <1>2, <1>4, <2>1 DEF ReloadInv, ReloadTyped, Behind, Serves, Reads, Up
<1> QED
  BY <1>3, <1>4

LEMMA PollReload == ASSUME Reload!ReloadAssumption, ReloadInv, Reload!Poll PROVE ReloadInv'
<1>1. /\ loader = "up" /\ ~polled /\ polled'
      /\ UNCHANGED <<operator, time, files, signature, read, active, failing, lastAttempt, good>>
  BY DEF Reload!Poll, Reload!clock, Reload!disk
<1>2. CASE Noted
  <2>1. activeSignature' = activeSignature /\ loader' = IF Reload!TriesAgain THEN "load" ELSE "up"
    BY <1>2 DEF Reload!Poll, Noted
  <2>2. Noted' /\ Taken' = Taken
    BY <1>1, <1>2, <2>1 DEF Noted, Taken, Reload!Load
  <2>3. good > 0 /\ ~Taken =>
          /\ failing /\ lastAttempt <= time - good /\ good <= RETRY + 2
          /\ good = 1 \/ time - 1 - lastAttempt < RETRY
    BY <1>1, <1>2 DEF ReloadInv, ReloadTyped, Reads, Nears, Reload!ReloadAssumption
  <2>4. CASE Reload!TriesAgain
    BY <1>1, <2>1, <2>2, <2>3, <2>4 DEF ReloadInv, ReloadTyped, Behind, Serves, Reads, Up
  <2>5. CASE ~Reload!TriesAgain
    <3>1. loader' = "up" /\ (failing => time - lastAttempt < RETRY)
      BY <2>1, <2>5 DEF Reload!TriesAgain, ReloadInv, ReloadTyped, Reload!ReloadAssumption
    <3>2. good' > 0 /\ ~Taken' => Nears'
      BY <1>1, <2>2, <2>3, <3>1 DEF Nears
    <3> QED
      BY <1>1, <1>2, <2>1, <2>2, <3>1, <3>2 DEF ReloadInv, ReloadTyped, Behind, Serves, Reads, Up
  <2> QED
    BY <2>4, <2>5
<1>3. CASE ~Noted /\ signature # pending
  <2>1. pending' = signature /\ activeSignature' = activeSignature /\ loader' = "up" /\ ~Noted'
    BY <1>1, <1>3 DEF Reload!Poll, Noted
  <2>2. good > 0 => good = 1
    BY <1>1, <1>3 DEF ReloadInv, Reads, Nears, Taken
  <2> QED
    BY <1>1, <2>1, <2>2 DEF ReloadInv, ReloadTyped, Behind, Serves, Reads, Up, Nears
<1>4. CASE ~Noted /\ signature = pending
  <2>1. activeSignature' = signature /\ loader' = "load" /\ Noted'
    BY <1>1, <1>4 DEF Reload!Poll, Noted
  <2>2. good > 0 => good <= RETRY + 2
    BY <1>1, <1>4 DEF ReloadInv, Reads, Nears, Taken, Reload!ReloadAssumption
  <2> QED
    BY <1>1, <2>1, <2>2 DEF ReloadInv, ReloadTyped, Behind, Serves, Reads, Up
<1> QED
  BY <1>2, <1>3, <1>4

LEMMA ReadsReload == ASSUME Reload!ReloadAssumption, ReloadInv, Reload!ReadsFirst PROVE ReloadInv'
<1>1. /\ (loader = "load" /\ loader' = "loading") \/ (loader = "start-load" /\ loader' = "starting")
      /\ read' = files[1]
      /\ UNCHANGED <<operator, time, files, signature, active, activeSignature, pending, failing,
                     lastAttempt, good, polled>>
  BY DEF Reload!ReadsFirst, Reload!clock, Reload!disk, Reload!reloader
<1>2. Noted' = Noted /\ Taken' = Taken
  BY <1>1 DEF Noted, Taken, Reload!Load
<1> QED
  BY <1>1, <1>2 DEF ReloadInv, ReloadTyped, Behind, Serves, Reads, Up

LEMMA TriesReload == ASSUME Reload!ReloadAssumption, ReloadInv, Reload!TryReload PROVE ReloadInv'
<1> DEFINE takes == Reload!Takes(Reload!Candidate)
<1>1. /\ loader = "loading" /\ loader' = "up" /\ lastAttempt' = time /\ failing' = ~takes
      /\ active' = IF takes THEN Reload!Candidate ELSE active
      /\ UNCHANGED <<operator, requireValid, synced, time, files, signature, activeSignature, good, polled>>
      /\ Reload!Now' = Reload!Now
  BY DEF Reload!TryReload, Reload!clock, Reload!disk, Reload!Now
<1>2. takes => Reload!Candidate # None
  BY DEF Reload!Takes
<1>3. ASSUME Noted PROVE Reload!Candidate = Reload!Load(files)
  BY <1>1, <1>3 DEF ReloadInv, Reads, Reload!Candidate, Reload!Load
<1>4. Noted' = Noted /\ active' # None /\ Reload!Load(files)' = Reload!Load(files)
  BY <1>1, <1>2 DEF Noted, ReloadInv, Serves, Up, Reload!Load
<1>5. ASSUME Noted, takes PROVE Taken'
  BY <1>1, <1>3, <1>4, <1>5 DEF Taken
<1>6. ASSUME Noted, ~takes PROVE ~Reload!Better' /\ ~Taken
  <2>1. ~Reload!Takes(Reload!Load(files)) /\ active' = active
    BY <1>1, <1>3, <1>6
  <2>2. ~Taken
    BY <2>1, LoadsAgain
  <2>3. ~Reload!Better'
    BY <1>1, <1>4, <2>1
       DEF Reload!Better, Reload!Takes, Reload!Validity, Reload!ReplacementAccepted, Reload!ReplacesExpired
  <2> QED
    BY <2>2, <2>3
<1>7. loader' = "up" /\ Noted' => Taken' \/ failing'
  BY <1>1, <1>4, <1>5
<1>8. ASSUME good' > 0, ~Taken' PROVE Nears'
  <2>1. Noted /\ ~takes /\ good <= RETRY + 2
    BY <1>1, <1>4, <1>5, <1>6, <1>8 DEF ReloadInv, Reads, Taken
  <2> QED
    BY <1>1, <1>4, <1>6, <2>1 DEF Nears, ReloadInv, Serves
<1> QED
  BY <1>1, <1>4, <1>7, <1>8 DEF ReloadInv, ReloadTyped, Behind, Serves, Reads, Up

LEMMA StartReload == ASSUME Reload!ReloadAssumption, ReloadInv, Reload!Starts \/ Reload!Started PROVE ReloadInv'
<1>1. CASE Reload!Starts
  BY <1>1 DEF Reload!Starts, Reload!SignatureRead, Reload!clock, Reload!disk, ReloadInv, ReloadTyped, Behind, Serves,
              Reads, Up
<1>2. CASE Reload!Started
  <2>1. /\ loader = "starting" /\ active' = Reload!Candidate /\ polled' /\ activeSignature' = activeSignature
        /\ loader' \in {"up", "down"} /\ (loader' = "up" => Reload!Candidate # None)
        /\ UNCHANGED <<operator, time, files, signature, failing, lastAttempt, good>>
    BY <1>2 DEF Reload!Started, Reload!SignatureRead, Reload!clock, Reload!disk
  <2>2. good = 0
    BY <2>1 DEF ReloadInv, Serves, Up
  <2>3. loader' = "up" /\ Noted' => Taken'
    BY <2>1 DEF ReloadInv, Reads, Noted, Taken, Reload!Candidate, Reload!Load
  <2> QED
    BY <2>1, <2>2, <2>3 DEF ReloadInv, ReloadTyped, Behind, Serves, Reads, Up
<1> QED
  BY <1>1, <1>2

LEMMA ClockReload == ASSUME Reload!ReloadAssumption, ReloadInv, Reload!Tick \/ Reload!ClockSet PROVE ReloadInv'
<1>1. UNCHANGED <<operator, files, signature, loader, read, active, activeSignature, pending, failing, lastAttempt>>
  BY DEF Reload!Tick, Reload!ClockSet, Reload!disk, Reload!reloader
<1>2. Noted' = Noted /\ Taken' = Taken
  BY <1>1 DEF Noted, Taken, Reload!Load
<1>3. CASE Reload!ClockSet
  BY <1>1, <1>2, <1>3 DEF Reload!ClockSet, ReloadInv, ReloadTyped, Behind, Serves, Reads, Up
<1>4. CASE Reload!Tick
  <2>1. /\ loader \in {"up", "down"} /\ (loader = "up" => polled) /\ time' = time + 1 /\ ~polled'
        /\ good' = IF Reload!Better THEN good + 1 ELSE 0
    BY <1>4 DEF Reload!Tick
  <2>2. Reload!Better => loader = "up"
    BY DEF Reload!Better
  <2>3. ASSUME loader = "up", good' > 0, ~Taken' PROVE Nears'
    <3>1. polled /\ ~Taken /\ Reload!Better /\ good' = good + 1
      BY <1>2, <2>1, <2>3
    <3>2. CASE good = 0
      BY <1>1, <1>2, <2>1, <2>3, <3>1, <3>2 DEF ReloadInv, ReloadTyped, Reads, Nears
    <3>3. CASE good > 0
      BY <1>1, <1>2, <2>1, <2>3, <3>1, <3>3 DEF ReloadInv, ReloadTyped, Reads, Nears
    <3> QED
      BY <3>2, <3>3 DEF ReloadInv, ReloadTyped
  <2> QED
    BY <1>1, <1>2, <2>1, <2>2, <2>3 DEF ReloadInv, ReloadTyped, Behind, Serves, Reads, Up
<1> QED
  BY <1>3, <1>4

LEMMA ReloadStep == ASSUME Reload!ReloadAssumption, ReloadInv, [Reload!Next]_(Reload!vars) PROVE ReloadInv'
<1>1. CASE UNCHANGED Reload!vars
  <2>1. /\ UNCHANGED <<operator, Reload!clock, Reload!disk, Reload!reloader>>
        /\ UNCHANGED <<loader, read, active, polled, good>>
    BY <1>1 DEF Reload!vars
  <2>2. Noted' = Noted /\ Taken' = Taken /\ Reload!Better' = Reload!Better
    BY <2>1 DEF Reload!clock, Reload!disk, Reload!reloader, Noted, Taken, Reload!Load, Reload!Better,
                Reload!Validity, Reload!Now
  <2>3. Nears' = Nears
    BY <2>1, <2>2 DEF Reload!clock, Reload!disk, Reload!reloader, Nears
  <2> QED
    BY <2>1, <2>2, <2>3 DEF Reload!clock, Reload!disk, Reload!reloader, ReloadInv, ReloadTyped, Behind, Serves,
                            Reads, Up
<1> QED
  BY <1>1, WriteReload, PollReload, ReadsReload, TriesReload, StartReload, ClockReload DEF Reload!Next

(* A certificate that has been there and better than what is served for two  *)
(* polls and a retry is served (reload.ts:26-34, 145-162).                   *)
THEOREM TakenUpCorrect == ASSUME Reload!ReloadAssumption PROVE Reload!Spec => []Reload!TakenUp
<1>1. ReloadInv => Reload!TakenUp
  <2> SUFFICES ASSUME ReloadInv, loader = "up", polled, good > RETRY + 2 PROVE active.serves = files[1]
    BY DEF Reload!TakenUp
  <2>1. Taken
    BY DEF ReloadInv, ReloadTyped, Reads, Nears, Reload!ReloadAssumption
  <2> QED
    BY <2>1 DEF Taken, Reload!Load
<1> QED
  BY <1>1, InitReload, ReloadStep, PTL DEF Reload!Spec

(***************************************************************************)
(* After nothing has happened for a while the clock is believed: it is not *)
(* ahead of its anchor, or it is in doubt for as long as nothing happened, *)
(* and not for as long as that takes.                                      *)
(***************************************************************************)
Candidates == [offset : Int, uptime : Int] \cup {None}
Anchors == [boot : Int, offset : Int, candidate : Candidates]
Certificates == [made : Int, from : Int, to : Int, ok : BOOLEAN]
Runs == [forced : BOOLEAN, moved : BOOLEAN, missed : BOOLEAN, made : Certificates \cup {None}]
RenewTyped ==
  /\ time \in Nat /\ ahead \in Int /\ boot \in Nat /\ boot <= time /\ signal \in BOOLEAN
  /\ anchor \in Anchors \cup {None} /\ leaf \in Certificates \cup {None}
  /\ renewer \in {"idle", "issue", "install"} /\ timer \in BOOLEAN /\ calm \in Nat
  /\ run \in Runs /\ (renewer = "install" => run.made \in Certificates)

OfThisBoot == anchor # None /\ (anchor # None => anchor.boot = boot)
Before == anchor # None => anchor.boot <= boot
(* An anchor of this boot was written at a clock that was not too low, and   *)
(* what it doubts it has seen.                                               *)
Above ==
  OfThisBoot => /\ anchor.offset + Renewal!Uptime >= CLOCK_FLOOR
                /\ anchor.candidate # None => anchor.candidate.uptime <= Renewal!Uptime

Settled == OfThisBoot => Renewal!Offset - anchor.offset <= ANCHOR_TOLERANCE
Doubtful ==
  /\ OfThisBoot /\ anchor.candidate # None
  /\ Renewal!Near(Renewal!Offset, anchor.candidate.offset)
  /\ LET for == Renewal!Uptime - anchor.candidate.uptime
         judged == IF timer THEN for ELSE for - 1
     IN for >= calm - 1 /\ (judged < ANCHOR_HOLD \/ judged = 0)
Believed == signal /\ calm > 0 /\ (timer \/ calm > 1) => Settled \/ Doubtful

(* A run that began in calm makes a leaf that is in date, if one is due.     *)
InDate(l) == l.ok /\ l.from <= Renewal!Now /\ Renewal!Now < l.to
Unhurried == calm > 0 /\ renewer # "idle" => ~run.missed
Renewed ==
  calm >= ANCHOR_HOLD + 2 /\ timer /\ Renewal!Synced /\ Renewal!Now < CaEnd =>
    /\ renewer = "install" => InDate(run.made) /\ leafCrt = run.made.made
    /\ renewer = "idle" => leaf # None /\ InDate(leaf) /\ lacks # "v4" /\ leafCrt = leaf.made
RenewInv == RenewTyped /\ Before /\ Above /\ Believed /\ Unhurried /\ Renewed

LEMMA ClockTyped ==
  ASSUME RenewTyped
  PROVE  /\ Renewal!Now = time + ahead /\ Renewal!Uptime = time - boot /\ Renewal!Offset = ahead + boot
         /\ Renewal!Now \in Int /\ Renewal!Uptime \in Nat /\ Renewal!Offset \in Int
BY DEF RenewTyped, Renewal!Now, Renewal!Uptime, Renewal!Offset

LEMMA AnchorsAre == ASSUME Renewal!RenewAssumption PROVE None \notin Anchors
BY DEF Renewal!RenewAssumption, Anchors, Candidates

LEMMA IdleRun == Renewal!Idle \in Runs
BY DEF Renewal!Idle, Runs

LEMMA InitRenew == ASSUME Renewal!RenewAssumption, Renewal!Init PROVE RenewInv
<1>1. leaf \in Certificates
  BY DEF Renewal!RenewAssumption, Renewal!Init, Certificates
<1>2. RenewTyped
  <2>1. /\ time = 0 /\ ahead = 0 /\ boot = 0 /\ calm = 0 /\ anchor = None /\ renewer = "idle"
        /\ signal \in BOOLEAN /\ timer \in BOOLEAN /\ run \in Runs
    BY IdleRun DEF Renewal!Init
  <2> QED
    BY <1>1, <2>1 DEF RenewTyped
<1>3. Before /\ Above /\ Believed /\ Unhurried
  BY DEF Renewal!Init, OfThisBoot, Before, Above, Believed, Unhurried
<1>4. Renewed
  BY DEF Renewal!RenewAssumption, Renewal!Init, Renewed
<1> QED
  BY <1>2, <1>3, <1>4 DEF RenewInv

(* The verdict of a run, and what it leaves of the anchor.                   *)
Holds ==
  /\ OfThisBoot /\ anchor.candidate # None /\ Renewal!Near(Renewal!Offset, anchor.candidate.offset)
  /\ Renewal!Uptime - anchor.candidate.uptime >= ANCHOR_HOLD
Judged ==
  \/ /\ Renewal!Verdict = [ok |-> TRUE, next |-> Renewal!Fresh]
     /\ ~OfThisBoot \/ Settled \/ Holds
  \/ /\ Renewal!Verdict = [ok |-> FALSE, next |-> [anchor EXCEPT !.candidate = Renewal!Doubted]]
     /\ OfThisBoot /\ ~Settled /\ ~Doubtful
  \/ /\ Renewal!Verdict = [ok |-> FALSE, next |-> anchor]
     /\ OfThisBoot /\ ~Settled /\ anchor.candidate # None
     /\ Renewal!Near(Renewal!Offset, anchor.candidate.offset)
     /\ Renewal!Uptime - anchor.candidate.uptime < ANCHOR_HOLD

LEMMA Judges ==
  ASSUME Renewal!RenewAssumption, RenewInv
  PROVE  Judged
<1>1. CASE ~OfThisBoot \/ Settled
  <2>1. Renewal!FirstOfBoot \/ (~Renewal!FirstOfBoot /\ Renewal!Offset - anchor.offset <= ANCHOR_TOLERANCE)
    BY <1>1 DEF OfThisBoot, Settled, Renewal!FirstOfBoot
  <2>2. Renewal!Verdict = [ok |-> TRUE, next |-> Renewal!Fresh]
    <3>1. CASE Renewal!FirstOfBoot
      BY <3>1 DEF Renewal!Verdict
    <3>2. CASE ~Renewal!FirstOfBoot /\ Renewal!Offset - anchor.offset <= ANCHOR_TOLERANCE
      <4>1. ~(Renewal!Offset - anchor.offset > ANCHOR_TOLERANCE)
        BY <3>2, ClockTyped DEF Renewal!FirstOfBoot, RenewInv, RenewTyped, Anchors, Renewal!RenewAssumption
      <4> QED
        BY <3>2, <4>1 DEF Renewal!Verdict
    <3> QED
      BY <2>1, <3>1, <3>2
  <2> QED
    BY <1>1, <2>2 DEF Judged
<1>2. CASE OfThisBoot /\ ~Settled
  <2>1. /\ ~Renewal!FirstOfBoot /\ Renewal!Offset - anchor.offset > ANCHOR_TOLERANCE /\ anchor \in Anchors
        /\ ~(Renewal!Offset - anchor.offset <= ANCHOR_TOLERANCE)
    BY <1>2, ClockTyped DEF OfThisBoot, Settled, Renewal!FirstOfBoot, RenewInv, RenewTyped, Anchors,
       Renewal!RenewAssumption
  <2> DEFINE near == anchor.candidate # None /\ Renewal!Near(Renewal!Offset, anchor.candidate.offset)
  <2>2. ASSUME ~near PROVE Renewal!Held = None /\ ~Doubtful
    BY <2>2 DEF Renewal!Held, Doubtful
  <2>3. ASSUME near PROVE Renewal!Held = Renewal!Uptime - anchor.candidate.uptime /\ Renewal!Held # None
                          /\ Renewal!Held \in Int
    BY <2>1, <2>3, ClockTyped DEF Renewal!Held, Anchors, Candidates, Renewal!RenewAssumption, RenewInv
  <2>4. CASE ~near
    BY <1>2, <2>1, <2>2, <2>4 DEF Renewal!Verdict, Judged
  <2>5. CASE near /\ Renewal!Held >= ANCHOR_HOLD
    BY <1>2, <2>1, <2>3, <2>5 DEF Renewal!Verdict, Judged, Holds
  <2>6. CASE near /\ ~(Renewal!Held >= ANCHOR_HOLD)
    BY <1>2, <2>1, <2>3, <2>6 DEF Renewal!Verdict, Judged, Renewal!RenewAssumption
  <2> QED
    BY <2>4, <2>5, <2>6
<1> QED
  BY <1>1, <1>2 DEF Settled

(* An anchor that was written follows the clock; in calm the clock is then   *)
(* believed, or as long in doubt as it may be.                               *)
LEMMA AnchorKept ==
  ASSUME Renewal!RenewAssumption, RenewInv, Renewal!Synced, UNCHANGED <<time, ahead, boot, signal, calm>>, timer' = TRUE,
         anchor' = Renewal!Verdict.next
  PROVE  anchor' \in Anchors /\ Before' /\ Above' /\ Believed'
<1> USE DEF Renewal!RenewAssumption
<1>0. UNCHANGED <<Renewal!Now, Renewal!Uptime, Renewal!Offset>>
  BY DEF Renewal!Now, Renewal!Uptime, Renewal!Offset
<1>1. CASE anchor' = Renewal!Fresh
  <2>1. anchor' = [boot |-> boot, offset |-> Renewal!Offset, candidate |-> None] /\ anchor' \in Anchors
    BY <1>1, ClockTyped DEF Renewal!Fresh, Anchors, Candidates, RenewInv, RenewTyped
  <2>2. Renewal!Offset + Renewal!Uptime >= CLOCK_FLOOR
    BY ClockTyped DEF RenewInv, RenewTyped, Renewal!Synced
  <2> QED
    BY <1>0, <2>1, <2>2, ClockTyped DEF RenewInv, RenewTyped, Before, Above, OfThisBoot, Believed, Settled
<1>2. CASE /\ anchor' = [anchor EXCEPT !.candidate = Renewal!Doubted]
           /\ OfThisBoot /\ ~Settled /\ ~Doubtful
  <2>1. anchor \in Anchors /\ Renewal!Doubted = [offset |-> Renewal!Offset, uptime |-> Renewal!Uptime]
    BY <1>2 DEF OfThisBoot, Renewal!Doubted, RenewInv, RenewTyped
  <2>2. /\ anchor' \in Anchors /\ anchor'.boot = anchor.boot /\ anchor'.offset = anchor.offset
        /\ anchor'.candidate = Renewal!Doubted /\ anchor'.candidate # None
    BY <1>2, <2>1, ClockTyped DEF Anchors, Candidates, RenewInv
  <2>3. Before' /\ Above'
    BY <1>0, <1>2, <2>1, <2>2, ClockTyped DEF RenewInv, RenewTyped, Before, Above, OfThisBoot
  <2>4. calm > 0 => calm = 1 \/ ~signal
    BY <1>2 DEF RenewInv, RenewTyped, Believed
  <2>5. ASSUME calm = 1 PROVE Doubtful'
    <3>1. OfThisBoot' /\ anchor'.candidate.offset = Renewal!Offset' /\ anchor'.candidate.uptime = Renewal!Uptime'
      BY <1>0, <1>2, <2>1, <2>2, AnchorsAre DEF OfThisBoot, RenewInv, RenewTyped
    <3>2. Renewal!Near(Renewal!Offset, anchor.candidate.offset)'
      BY <1>0, <3>1, ClockTyped DEF Renewal!Near, RenewInv
    <3>3. Renewal!Uptime' - anchor'.candidate.uptime = 0 /\ calm' = 1
      BY <1>0, <2>5, <3>1, ClockTyped DEF RenewInv
    <3> QED
      BY <2>2, <3>1, <3>2, <3>3 DEF Doubtful
  <2> QED
    BY <2>2, <2>3, <2>4, <2>5 DEF Believed, RenewInv, RenewTyped
<1>3. CASE /\ anchor' = anchor
           /\ OfThisBoot /\ ~Settled /\ anchor.candidate # None
           /\ Renewal!Near(Renewal!Offset, anchor.candidate.offset)
           /\ Renewal!Uptime - anchor.candidate.uptime < ANCHOR_HOLD
  <2>1. anchor \in Anchors /\ Before' /\ Above'
    BY <1>0, <1>3 DEF OfThisBoot, RenewInv, RenewTyped, Before, Above
  <2>2. anchor.candidate.uptime \in Int /\ anchor.candidate.uptime <= Renewal!Uptime
    BY <1>3, <2>1 DEF Anchors, Candidates, RenewInv, Above
  <2>3. signal /\ calm > 0 => Renewal!Uptime - anchor.candidate.uptime >= calm - 1
    BY <1>3, <2>2, ClockTyped DEF RenewInv, RenewTyped, Believed, Doubtful
  <2>4. signal /\ calm > 0 => Doubtful'
    BY <1>0, <1>3, <2>3 DEF Doubtful, OfThisBoot, Renewal!Near
  <2> QED
    BY <1>3, <2>1, <2>4 DEF Believed
<1> QED
  BY <1>1, <1>2, <1>3, Judges DEF Judged

LEMMA CalmBelieved ==
  ASSUME Renewal!RenewAssumption, RenewInv, Renewal!Synced, calm >= ANCHOR_HOLD + 2
  PROVE  Renewal!Verdict.ok
<1> USE DEF Renewal!RenewAssumption
<1>1. signal /\ calm > 1
  BY DEF Renewal!Synced, RenewInv, RenewTyped
<1>2. CASE Settled
  BY <1>2, Judges DEF Judged
<1>3. CASE Doubtful /\ ~Settled
  <2>1. anchor.candidate.uptime \in Int
    BY <1>3 DEF Doubtful, OfThisBoot, RenewInv, RenewTyped, Anchors, Candidates
  <2>2. ~(Renewal!Uptime - anchor.candidate.uptime < ANCHOR_HOLD)
    BY <1>1, <1>3, <2>1, ClockTyped DEF Doubtful, RenewInv, RenewTyped
  <2> QED
    BY <1>3, <2>2, Judges DEF Judged
<1>4. Settled \/ Doubtful
  BY <1>1 DEF RenewInv, RenewTyped, Believed
<1> QED
  BY <1>2, <1>3, <1>4

LEMMA BeginsRenew ==
  ASSUME Renewal!RenewAssumption, RenewInv, NEW forced \in BOOLEAN, Renewal!Begins(forced) PROVE RenewInv'
<1> USE DEF Renewal!RenewAssumption
<1>1. /\ renewer = "idle" /\ timer' = TRUE /\ leafCrt' = Renewal!Repaired
      /\ UNCHANGED <<time, ahead, boot, signal, leaf, lacks>>
      /\ UNCHANGED <<Renewal!Now, Renewal!Uptime, Renewal!Offset, Renewal!Synced>>
  BY DEF Renewal!Begins, Renewal!clock, Renewal!Now, Renewal!Uptime, Renewal!Offset, Renewal!Synced
<1>2. CASE ~Renewal!Synced
  <2>1. UNCHANGED <<anchor, renewer, run, calm>>
    BY <1>2 DEF Renewal!Begins
  <2>2. RenewTyped' /\ Before' /\ Above' /\ Unhurried'
    BY <1>1, <2>1 DEF RenewInv, RenewTyped, Before, Above, OfThisBoot, Unhurried
  <2>3. signal /\ OfThisBoot => Renewal!Offset - anchor.offset <= 0
    BY <1>2, ClockTyped DEF RenewInv, RenewTyped, Above, OfThisBoot, Anchors, Renewal!Synced
  <2>4. Believed'
    BY <1>1, <2>1, <2>3, ClockTyped DEF Believed, Settled, OfThisBoot, RenewInv, RenewTyped, Anchors
  <2> QED
    BY <1>1, <1>2, <2>2, <2>4 DEF RenewInv, Renewed
<1>3. CASE Renewal!Synced
  <2>1. \/ anchor' = Renewal!Verdict.next /\ calm' = calm
        \/ anchor' = anchor /\ calm' = 0
    BY <1>3 DEF Renewal!Begins
  <2>2. \/ (forced \/ (Renewal!Due /\ Renewal!Verdict.ok)) /\ renewer' = "issue"
             /\ run' = [Renewal!Idle EXCEPT !.forced = forced]
        \/ ~(Renewal!Due /\ Renewal!Verdict.ok) /\ renewer' = "idle" /\ run' = run
    BY <1>1, <1>3 DEF Renewal!Begins
  <2>3. anchor' \in Anchors \cup {None} /\ Before' /\ Above' /\ Believed' /\ calm' \in Nat
    <3>1. CASE anchor' = Renewal!Verdict.next /\ calm' = calm
      BY <1>1, <1>3, <3>1, AnchorKept DEF RenewInv, RenewTyped
    <3>2. CASE anchor' = anchor /\ calm' = 0
      BY <1>1, <3>2 DEF RenewInv, RenewTyped, Before, Above, OfThisBoot, Believed
    <3> QED
      BY <2>1, <3>1, <3>2
  <2>4. RenewTyped' /\ Unhurried'
    <3>1. run' \in Runs
      BY <2>2, IdleRun DEF Runs, RenewInv, RenewTyped
    <3> QED
      BY <1>1, <2>2, <2>3, <3>1 DEF RenewInv, RenewTyped, Unhurried, Renewal!Idle
  <2>5. ASSUME calm' >= ANCHOR_HOLD + 2, renewer' = "idle", Renewal!Now < CaEnd
        PROVE  leaf # None /\ InDate(leaf) /\ lacks # "v4" /\ leafCrt' = leaf.made
    <3>1. calm >= ANCHOR_HOLD + 2
      BY <2>1, <2>5
    <3>2. ~Renewal!Due
      BY <1>3, <2>2, <2>5, <3>1, CalmBelieved
    <3>3. leaf # None /\ leaf.ok /\ leaf \in Certificates /\ ~(leaf.from > Renewal!Now) /\ lacks # "v4"
      BY <3>2 DEF Renewal!Due, RenewInv, RenewTyped
    <3>4. leaf.to > Renewal!Now
      BY <2>5, <3>2, <3>3, ClockTyped DEF Renewal!Due, Renewal!Capped, Certificates, RenewInv
    <3> QED
      BY <1>1, <3>3, <3>4, ClockTyped DEF InDate, Certificates, Renewal!Repaired, RenewInv
  <2>6. Renewed'
    BY <1>1, <2>2, <2>5 DEF Renewed, InDate
  <2> QED
    BY <2>3, <2>4, <2>6 DEF RenewInv
<1> QED
  BY <1>2, <1>3

(* What leaves the clock and the anchor alone, and does not disturb the calm. *)
LEMMA SameClock ==
  ASSUME RenewInv, UNCHANGED <<time, ahead, boot, signal, anchor, timer, calm>>
  PROVE  /\ Before' /\ Above' /\ Believed'
         /\ UNCHANGED <<Renewal!Now, Renewal!Synced>>
BY DEF RenewInv, Before, Above, Believed, Settled, Doubtful, OfThisBoot, Renewal!Near, Renewal!Now, Renewal!Uptime,
       Renewal!Offset, Renewal!Synced

LEMMA IssueRenew ==
  ASSUME Renewal!RenewAssumption, RenewInv,
         Renewal!IssueFails \/ Renewal!WritesCrt \/ Renewal!WritesBundle
  PROVE  RenewInv'
<1> USE DEF Renewal!RenewAssumption
<1>1. UNCHANGED <<time, ahead, boot, signal, anchor, timer, calm>>
  BY DEF Renewal!IssueFails, Renewal!WritesCrt, Renewal!WritesBundle, Renewal!clock, Renewal!files, Renewal!history
<1>2. Before' /\ Above' /\ Believed' /\ UNCHANGED <<Renewal!Now, Renewal!Synced>>
  BY <1>1, SameClock
<1>3. Renewal!Now \in Int /\ Renewal!Made \in Certificates
  BY ClockTyped DEF RenewInv, RenewTyped, Renewal!Made, Certificates
<1>4. CASE Renewal!IssueFails
  <2>1. renewer = "issue" /\ Renewal!Made.to <= Renewal!Now /\ renewer' = "idle" /\ run' = Renewal!Idle
          /\ UNCHANGED <<leaf, leafCrt, lacks>>
    BY <1>4 DEF Renewal!IssueFails, Renewal!Ends, Renewal!files
  <2>2. ~(Renewal!Now < CaEnd)
    BY <1>3, <2>1 DEF Renewal!Made
  <2>3. RenewTyped' /\ Unhurried' /\ Renewed'
    BY <1>1, <1>2, <2>1, <2>2, IdleRun DEF RenewInv, RenewTyped, Unhurried, Renewed
  <2> QED
    BY <1>2, <2>3 DEF RenewInv
<1>5. CASE Renewal!WritesCrt
  <2>1. renewer = "issue" /\ Renewal!Made.to > Renewal!Now /\ renewer' = "install" /\ leafCrt' = Renewal!Made.made
          /\ run' = [run EXCEPT !.made = Renewal!Made] /\ UNCHANGED <<leaf, lacks>>
    BY <1>5 DEF Renewal!WritesCrt
  <2>2. run' \in Runs /\ run'.made = Renewal!Made /\ run'.missed = run.missed
    BY <1>3, <2>1 DEF Runs, RenewInv, RenewTyped
  <2>3. Renewal!Made.ok /\ Renewal!Made.from <= Renewal!Now
    BY <1>3 DEF Renewal!Made
  <2>4. RenewTyped' /\ Unhurried'
    BY <1>1, <1>3, <2>1, <2>2 DEF RenewInv, RenewTyped, Unhurried
  <2>5. Renewed'
    BY <1>2, <1>3, <2>1, <2>2, <2>3 DEF Renewed, InDate
  <2> QED
    BY <1>2, <2>4, <2>5 DEF RenewInv
<1>6. CASE Renewal!WritesBundle
  <2>1. /\ renewer = "install" /\ leaf' = run.made /\ lacks' = (IF run.missed THEN lacks ELSE None)
        /\ renewer' = "idle" /\ run' = Renewal!Idle /\ leafCrt' = leafCrt
    BY <1>6 DEF Renewal!WritesBundle, Renewal!Ends
  <2>2. RenewTyped' /\ Unhurried'
    BY <1>1, <2>1, IdleRun DEF RenewInv, RenewTyped, Unhurried
  <2>3. leaf' \in Certificates /\ leaf' # None
    BY <2>1 DEF RenewInv, RenewTyped, Certificates
  <2>4. ASSUME calm >= ANCHOR_HOLD + 2 PROVE lacks' # "v4"
    BY <2>1, <2>4 DEF RenewInv, RenewTyped, Unhurried
  <2>5. Renewed'
    BY <1>1, <1>2, <2>1, <2>3, <2>4 DEF Renewed, InDate, RenewInv
  <2> QED
    BY <1>2, <2>2, <2>5 DEF RenewInv
<1> QED
  BY <1>4, <1>5, <1>6

(* An accident begins the calm again: what it leaves behind is of its type.  *)
LEMMA AccidentRenew ==
  ASSUME Renewal!RenewAssumption, RenewInv,
         Renewal!Killed \/ Renewal!ClockSteps \/ Renewal!SignalChanges \/ Renewal!Boots
           \/ Renewal!AddressChanges \/ Renewal!FileLost
  PROVE  RenewInv'
<1> USE DEF Renewal!RenewAssumption
<1>1. calm' = 0 /\ timer' = timer /\ time' = time
  BY DEF Renewal!Killed, Renewal!ClockSteps, Renewal!SignalChanges, Renewal!Boots, Renewal!AddressChanges,
         Renewal!FileLost, Renewal!clock
<1>2. Believed' /\ Unhurried' /\ Renewed'
  BY <1>1 DEF Believed, Unhurried, Renewed
<1>3. /\ ahead' \in Int /\ signal' \in BOOLEAN
      /\ leaf' \in Certificates \cup {None}
      /\ anchor' = anchor \/ anchor' = None
      /\ boot' = boot \/ (boot' = time /\ boot < time)
  <2> USE DEF RenewInv, RenewTyped
  <2>1. CASE Renewal!Killed \/ Renewal!AddressChanges
    BY <2>1 DEF Renewal!Killed, Renewal!AddressChanges, Renewal!clock, Renewal!files
  <2>2. CASE Renewal!ClockSteps
    BY <2>2 DEF Renewal!ClockSteps, Renewal!files
  <2>5. CASE Renewal!SignalChanges
    <3>1. UNCHANGED <<ahead, boot, leaf, anchor>> /\ signal' \in BOOLEAN
      BY <2>5 DEF Renewal!SignalChanges, Renewal!files
    <3> QED
      BY <3>1
  <2>3. CASE Renewal!Boots
    BY <2>3 DEF Renewal!Boots, Renewal!files
  <2>4. CASE Renewal!FileLost
    <3>1. Renewal!Refused \in Certificates
      BY DEF Renewal!Refused, Certificates
    <3>2. UNCHANGED <<ahead, boot, signal>> /\ (leaf' = leaf \/ leaf' \in {None, Renewal!Refused})
          /\ (anchor' = anchor \/ anchor' = None)
      BY <2>4 DEF Renewal!FileLost, Renewal!clock
    <3> QED
      BY <3>1, <3>2
  <2> QED
    BY <2>1, <2>2, <2>3, <2>4, <2>5
<1>4. /\ renewer' \in {"idle", "issue", "install"} /\ run' \in Runs
      /\ (renewer' = "install" => run'.made \in Certificates)
  <2> USE DEF RenewInv, RenewTyped
  <2>1. CASE Renewal!Killed \/ Renewal!Boots
    BY <2>1, IdleRun DEF Renewal!Killed, Renewal!Boots, Renewal!Ends
  <2>2. CASE Renewal!ClockSteps \/ Renewal!AddressChanges
    BY <2>2 DEF Renewal!ClockSteps, Renewal!AddressChanges, Runs
  <2>4. CASE Renewal!SignalChanges \/ Renewal!FileLost
    BY <2>4 DEF Renewal!SignalChanges, Renewal!FileLost
  <2> QED
    BY <2>1, <2>2, <2>4
<1>5. RenewTyped'
  BY <1>1, <1>3, <1>4 DEF RenewInv, RenewTyped
<1>6. Before'
  BY <1>1, <1>3 DEF RenewInv, RenewTyped, Before, Anchors
<1>7. Above'
  <2>1. CASE boot' = boot
    BY <1>1, <1>3, <2>1 DEF RenewInv, Above, OfThisBoot, Renewal!Uptime
  <2>2. CASE boot' = time /\ boot < time
    BY <1>3, <2>2 DEF RenewInv, RenewTyped, Before, Above, OfThisBoot, Anchors
  <2> QED
    BY <1>3, <2>1, <2>2
<1> QED
  BY <1>2, <1>4, <1>5, <1>6, <1>7 DEF RenewInv

LEMMA TickRenew == ASSUME Renewal!RenewAssumption, RenewInv, Renewal!Tick PROVE RenewInv'
<1> USE DEF Renewal!RenewAssumption
<1>1. /\ timer /\ renewer = "idle" /\ time' = time + 1 /\ timer' = FALSE /\ calm' = calm + 1
      /\ UNCHANGED <<ahead, boot, signal, anchor, leaf, leafCrt, lacks, renewer, run>>
  BY DEF Renewal!Tick, Renewal!files
<1>2. Renewal!Uptime' = Renewal!Uptime + 1 /\ Renewal!Offset' = Renewal!Offset
  BY <1>1 DEF RenewInv, RenewTyped, Renewal!Uptime, Renewal!Offset, Renewal!Now
<1>3. RenewTyped' /\ Before' /\ Unhurried' /\ Renewed'
  <2>1. ~timer' /\ timer' \in BOOLEAN
    BY <1>1
  <2>2. time' \in Nat /\ calm' \in Nat /\ boot' <= time'
    BY <1>1 DEF RenewInv, RenewTyped
  <2> QED
    BY <1>1, <2>1, <2>2 DEF RenewInv, RenewTyped, Before, Unhurried, Renewed
<1>4. Above'
  BY <1>1, <1>2, ClockTyped DEF RenewInv, RenewTyped, Above, OfThisBoot, Anchors, Candidates
<1>5. Settled => Settled'
  BY <1>1, <1>2 DEF Settled, OfThisBoot
<1>6. ASSUME Doubtful PROVE Doubtful'
  <2>1. anchor.candidate.uptime \in Int
    BY <1>6 DEF Doubtful, OfThisBoot, RenewInv, RenewTyped, Anchors, Candidates
  <2> QED
    BY <1>1, <1>2, <1>6, <2>1, ClockTyped DEF Doubtful, OfThisBoot, Renewal!Near, RenewInv, RenewTyped
<1>7. Believed'
  BY <1>1, <1>5, <1>6 DEF Believed, RenewInv, RenewTyped
<1> QED
  BY <1>3, <1>4, <1>7 DEF RenewInv

LEMMA RenewStep ==
  ASSUME Renewal!RenewAssumption, RenewInv, [Renewal!Next]_(Renewal!vars) PROVE RenewInv'
<1>1. CASE UNCHANGED Renewal!vars
  <2>1. UNCHANGED <<time, ahead, boot, signal, anchor, timer, calm, leaf, leafCrt, lacks, renewer, run>>
    BY <1>1 DEF Renewal!vars, Renewal!clock, Renewal!files, Renewal!history
  <2> QED
    BY <2>1, SameClock DEF RenewInv, RenewTyped, Unhurried, Renewed, InDate
<1> QED
  BY <1>1, BeginsRenew, IssueRenew, AccidentRenew, TickRenew DEF Renewal!Next

(* When nothing has happened for a while the leaf on disk is in date, covers *)
(* the machine's addresses, and leaf.crt shows it (cmd-renew.ts:44-83).      *)
THEOREM RenewedCorrect == ASSUME Renewal!RenewAssumption PROVE Renewal!Spec => []Renewal!RenewedInTime
<1>1. RenewInv => Renewal!RenewedInTime
  BY DEF RenewInv, Renewed, InDate, Renewal!RenewedInTime
<1> QED
  BY <1>1, InitRenew, RenewStep, PTL DEF Renewal!Spec

(***************************************************************************)
(* Two errors the clock may show are the same or further apart than is     *)
(* tolerated (small drifts are believed by design).  Then the anchor of a  *)
(* boot whose clock was right once is no higher than that, or than what    *)
(* every run has seen for ANCHOR_HOLD.  An anchor that cannot be written   *)
(* is only warned of: then the clock may step once, and the machine stays  *)
(* up.  (Were it to step ahead, back and ahead again while nothing can be  *)
(* written, the doubt on disk would be of the first time.)                 *)
(***************************************************************************)
Apart(errors) ==
  /\ errors \subseteq Int /\ 0 \in errors
  /\ \A a, b \in errors : b - a <= ANCHOR_TOLERANCE => b <= a
  /\ \A a \in errors, by \in Leaps : a + by \in errors
AnchorIsWritten == \A b \in Budgets : b.unwritten => b.steps <= 1 /\ b.boots = 0

Left == [kills : Nat, steps : Nat, boots : Nat, addresses : Nat, losses : Nat, forced : Nat, unwritten : BOOLEAN]
SeenTyped ==
  /\ seen \in [boot : Nat, offset : Int, since : Nat, held : Int] /\ known \in BOOLEAN
  /\ seen.since <= time /\ seen.boot <= boot
Strays(errors) ==
  /\ left \in Left /\ SeenTyped /\ ahead \in errors
  /\ seen.boot = boot => seen.offset - boot \in errors
Low(offset) == offset <= boot \/ offset <= seen.held
Sound(errors) ==
  /\ known => OfThisBoot /\ Low(anchor.offset)
  /\ OfThisBoot =>
       /\ seen.boot = boot /\ anchor.offset - boot \in errors
       /\ anchor.candidate # None => /\ seen.offset = anchor.candidate.offset
                                     /\ seen.since <= boot + anchor.candidate.uptime
  /\ renewer = "issue" /\ known /\ ~run.forced /\ ~run.moved => Low(Renewal!Offset)
Steady ==
  left.unwritten =>
    /\ left.boots = 0 /\ left.steps <= 1 /\ (left.steps = 1 => ahead = 0)
    /\ OfThisBoot =>
         /\ anchor.offset <= boot \/ anchor.offset <= Renewal!Offset
         /\ left.steps = 1 => anchor.offset = boot /\ anchor.candidate = None
         /\ anchor.candidate # None => anchor.candidate.offset = Renewal!Offset
FutureInv(errors) == Strays(errors) /\ Sound(errors) /\ Steady

LEMMA InitFuture ==
  ASSUME Renewal!RenewAssumption, AnchorIsWritten, NEW errors, Apart(errors), Renewal!Init
  PROVE  FutureInv(errors)
<1>1. left \in Left /\ (left.unwritten => left.steps <= 1 /\ left.boots = 0)
  BY DEF Renewal!RenewAssumption, AnchorIsWritten, Renewal!Init, Left
<1>2. /\ seen = [boot |-> 0, offset |-> 0, since |-> 0, held |-> 0] /\ time = 0 /\ boot = 0 /\ ahead = 0
      /\ ~known /\ known \in BOOLEAN /\ anchor = None /\ renewer = "idle"
  BY DEF Renewal!Init
<1>3. SeenTyped /\ seen.boot = boot /\ seen.offset - boot = 0
  BY <1>2 DEF SeenTyped
<1> QED
  BY <1>1, <1>2, <1>3 DEF FutureInv, Strays, Sound, Steady, Apart, OfThisBoot

(* Offsets that are near are the same.                                       *)
LEMMA NearIsSame ==
  ASSUME Renewal!RenewAssumption, RenewInv, NEW errors, Apart(errors), Strays(errors),
         NEW offset \in Int, offset - boot \in errors, Renewal!Near(Renewal!Offset, offset)
  PROVE  offset = Renewal!Offset
<1>1. Renewal!Offset = ahead + boot /\ ahead \in errors /\ ahead \in Int /\ boot \in Nat
  BY ClockTyped DEF RenewInv, RenewTyped, Strays
<1>2. PICK e \in errors : e = offset - boot
  OBVIOUS
<1>3. ahead - e <= ANCHOR_TOLERANCE /\ e - ahead <= ANCHOR_TOLERANCE /\ e \in Int
  BY <1>1, <1>2 DEF Renewal!Near, Apart, Renewal!RenewAssumption
<1>4. e = ahead
  BY <1>1, <1>2, <1>3 DEF Apart
<1> QED
  BY <1>1, <1>2, <1>4

(* What a run sees.                                                          *)
LEMMA WatchSees ==
  ASSUME Renewal!RenewAssumption, RenewInv, NEW errors, Apart(errors), Strays(errors), Renewal!Watches
  PROVE  /\ seen' \in [boot : Nat, offset : Int, since : Nat, held : Int] /\ seen'.since <= time
         /\ seen'.boot = boot /\ seen'.offset = Renewal!Offset /\ seen'.held <= Renewal!Offset
         /\ seen.boot = boot /\ seen.offset = Renewal!Offset => seen'.since = seen.since
         /\ time - seen'.since >= ANCHOR_HOLD => seen'.held = Renewal!Offset
         /\ seen.boot = boot => \A x \in Int : x <= Renewal!Offset /\ x <= seen.held => x <= seen'.held
<1> DEFINE again == seen.boot = boot /\ Renewal!Near(Renewal!Offset, seen.offset)
           since == IF again THEN seen.since ELSE time
           lowest == IF seen.boot = boot /\ seen.held < Renewal!Offset THEN seen.held ELSE Renewal!Offset
           held2 == IF time - since >= ANCHOR_HOLD THEN Renewal!Offset ELSE lowest
<1>1. /\ seen' = [boot |-> boot, offset |-> IF again THEN seen.offset ELSE Renewal!Offset, since |-> since,
                  held |-> held2]
  BY DEF Renewal!Watches
<1>2. seen.boot \in Nat /\ seen.offset \in Int /\ seen.since \in Nat /\ seen.held \in Int /\ seen.since <= time
  BY DEF Strays, SeenTyped
<1>3. Renewal!Offset = ahead + boot /\ Renewal!Offset \in Int /\ ahead \in errors /\ boot \in Nat /\ time \in Nat
  BY ClockTyped DEF RenewInv, RenewTyped, Strays
<1>4. again => seen.offset = Renewal!Offset
  BY <1>2, NearIsSame DEF Strays
<1>5. since \in Nat /\ since <= time /\ lowest \in Int /\ lowest <= Renewal!Offset
  BY <1>2, <1>3
<1>6. held2 \in Int /\ held2 <= Renewal!Offset /\ (time - since >= ANCHOR_HOLD => held2 = Renewal!Offset)
  BY <1>3, <1>5
<1>7. seen.boot = boot /\ seen.offset = Renewal!Offset => again
  BY <1>3 DEF Renewal!Near, Renewal!RenewAssumption
<1>8. ASSUME seen.boot = boot, NEW x \in Int, x <= Renewal!Offset, x <= seen.held PROVE x <= held2
  BY <1>2, <1>3, <1>8
<1> HIDE DEF again, since, lowest, held2
<1>9. seen'.boot = boot /\ seen'.since = since /\ seen'.held = held2 /\ seen'.offset = Renewal!Offset
  BY <1>1, <1>4
<1>10. seen' \in [boot : Nat, offset : Int, since : Nat, held : Int]
  BY <1>1, <1>3, <1>4, <1>5, <1>6
<1>11. again => since = seen.since
  BY DEF since
<1> QED
  BY <1>5, <1>6, <1>7, <1>8, <1>9, <1>10, <1>11

(* A run that the clock is believed in, and one that it is doubted in.       *)
LEMMA JudgedSoundly ==
  ASSUME Renewal!RenewAssumption, RenewInv, NEW errors, Apart(errors), Strays(errors), Sound(errors),
         Renewal!Synced, Renewal!Watches, NEW next, next = Renewal!Verdict.next,
         NEW trusted, trusted => known \/ Renewal!Near(ahead, 0)
  PROVE  /\ next \in Anchors /\ next.boot = boot /\ next.offset - boot \in errors
         /\ trusted => next.offset <= boot \/ next.offset <= seen'.held
         /\ Renewal!Verdict.ok /\ trusted => Renewal!Offset <= boot \/ Renewal!Offset <= seen'.held
         /\ next.candidate # None => /\ seen'.offset = next.candidate.offset
                                        /\ seen'.since <= boot + next.candidate.uptime
<1> USE DEF Renewal!RenewAssumption
<1>1. Renewal!Offset = ahead + boot /\ Renewal!Offset \in Int /\ ahead \in errors /\ boot \in Nat /\ time \in Nat
      /\ Renewal!Uptime = time - boot /\ ahead \in Int
  BY ClockTyped DEF RenewInv, RenewTyped, Strays, Renewal!Uptime
<1>2. Renewal!Near(ahead, 0) => ahead = 0
  BY <1>1 DEF Apart, Renewal!Near
<1>3. /\ seen'.boot = boot /\ seen'.offset = Renewal!Offset /\ seen'.held \in Int /\ seen'.since \in Int
      /\ seen'.since <= time
      /\ (seen.boot = boot /\ seen.offset = Renewal!Offset => seen'.since = seen.since)
      /\ (time - seen'.since >= ANCHOR_HOLD => seen'.held = Renewal!Offset)
      /\ (seen.boot = boot => \A x \in Int : x <= Renewal!Offset /\ x <= seen.held => x <= seen'.held)
  BY WatchSees
<1>4. ahead = 0 => Renewal!Offset <= boot
  BY <1>1
<1>5. seen.held \in Int /\ seen.offset \in Int /\ seen.since \in Int
  BY DEF Strays, SeenTyped
<1>6. OfThisBoot => /\ anchor \in Anchors /\ anchor # None /\ anchor.offset \in Int /\ seen.boot = boot
                    /\ anchor.offset - boot \in errors
  BY DEF Sound, OfThisBoot, RenewInv, RenewTyped, Anchors
<1>7. CASE next = Renewal!Fresh /\ (~OfThisBoot \/ Settled \/ Holds)
  <2>1. /\ next \in Anchors /\ next.boot = boot /\ next.offset = Renewal!Offset
        /\ next.candidate = None
    BY <1>1, <1>7, AnchorsAre DEF Renewal!Fresh, Anchors, Candidates
  <2>2. Renewal!Offset - boot = ahead
    BY <1>1
  <2>3. ASSUME trusted PROVE Renewal!Offset <= boot \/ Renewal!Offset <= seen'.held
    <3>1. CASE ~known \/ ~OfThisBoot
      BY <1>2, <1>4, <2>3, <3>1 DEF Sound
    <3>2. CASE known /\ OfThisBoot /\ Settled
      <4>1. PICK a \in errors : a = anchor.offset - boot
        BY <1>6, <3>2
      <4>2. ahead <= a
        BY <1>1, <1>6, <3>2, <4>1 DEF Settled, Apart
      <4>3. Renewal!Offset <= anchor.offset
        BY <1>1, <1>6, <3>2, <4>1, <4>2
      <4>4. anchor.offset <= boot \/ anchor.offset <= seen.held
        BY <3>2 DEF Sound, Low
      <4>5. CASE anchor.offset <= boot
        BY <1>1, <1>6, <3>2, <4>3, <4>5
      <4>6. CASE anchor.offset <= seen.held
        <5>1. Renewal!Offset <= seen.held /\ Renewal!Offset <= Renewal!Offset
          BY <1>1, <1>5, <1>6, <3>2, <4>3, <4>6
        <5> QED
          BY <1>1, <1>3, <1>6, <3>2, <5>1
      <4> QED
        BY <4>4, <4>5, <4>6
    <3>3. CASE known /\ OfThisBoot /\ Holds
      <4>1. /\ anchor.candidate # None /\ Renewal!Near(Renewal!Offset, anchor.candidate.offset)
            /\ Renewal!Uptime - anchor.candidate.uptime >= ANCHOR_HOLD /\ anchor.candidate.uptime \in Int
            /\ seen.offset = anchor.candidate.offset /\ seen.since <= boot + anchor.candidate.uptime
        BY <1>6, <3>3 DEF Holds, Sound, Anchors, Candidates
      <4>2. seen.offset = Renewal!Offset
        BY <1>1, <1>5, <1>6, <3>3, <4>1, NearIsSame DEF Strays
      <4>3. time - seen'.since >= ANCHOR_HOLD
        BY <1>1, <1>3, <1>5, <1>6, <3>3, <4>1, <4>2
      <4> QED
        BY <1>1, <1>3, <4>3
    <3> QED
      BY <1>7, <3>1, <3>2, <3>3
  <2> QED
    BY <1>1, <2>1, <2>2, <2>3
<1>8. ASSUME OfThisBoot, ~Settled
      PROVE  trusted => anchor.offset <= boot \/ anchor.offset <= seen'.held
  <2>1. anchor.offset < Renewal!Offset
    BY <1>1, <1>6, <1>8 DEF Settled
  <2>2. CASE ahead = 0
    BY <1>1, <1>6, <1>8, <2>1, <2>2
  <2>3. CASE known
    <3>1. anchor.offset <= boot \/ anchor.offset <= seen.held
      BY <2>3 DEF Sound, Low
    <3>2. CASE anchor.offset <= seen.held
      <4>1. anchor.offset <= Renewal!Offset
        BY <1>1, <1>6, <1>8, <2>1
      <4> QED
        BY <1>3, <1>6, <1>8, <3>2, <4>1
    <3> QED
      BY <3>1, <3>2
  <2> QED
    BY <1>2, <2>2, <2>3
<1>9. CASE /\ Renewal!Verdict.ok = FALSE /\ next = [anchor EXCEPT !.candidate = Renewal!Doubted]
           /\ OfThisBoot /\ ~Settled
  <2>1. next \in Anchors /\ next.boot = boot /\ next.offset = anchor.offset /\ next.candidate = Renewal!Doubted
    <3>1. Renewal!Doubted \in Candidates
      BY <1>1 DEF Renewal!Doubted, Candidates, RenewInv, RenewTyped
    <3>2. next \in Anchors
      BY <1>6, <1>9, <3>1 DEF Anchors
    <3> QED
      BY <1>6, <1>9, <3>2, AnchorsAre DEF OfThisBoot, Anchors
  <2>2. Renewal!Doubted.offset = Renewal!Offset /\ Renewal!Doubted.uptime = time - boot
    BY <1>1 DEF Renewal!Doubted
  <2> QED
    BY <1>1, <1>3, <1>6, <1>8, <1>9, <2>1, <2>2
<1>10. CASE /\ Renewal!Verdict.ok = FALSE /\ next = anchor /\ OfThisBoot /\ ~Settled /\ anchor.candidate # None
            /\ Renewal!Near(Renewal!Offset, anchor.candidate.offset)
  <2>1. seen.offset = anchor.candidate.offset /\ seen.since <= boot + anchor.candidate.uptime
    BY <1>6, <1>10 DEF Sound
  <2>2. seen.offset = Renewal!Offset
    BY <1>1, <1>5, <1>6, <1>10, <2>1, NearIsSame DEF Strays
  <2>3. seen'.offset = anchor.candidate.offset /\ seen'.since <= boot + anchor.candidate.uptime
    BY <1>3, <1>6, <1>10, <2>1, <2>2
  <2> QED
    BY <1>6, <1>8, <1>10, <2>3 DEF OfThisBoot
<1> QED
  <2>1. \/ Renewal!Verdict.next = Renewal!Fresh /\ (~OfThisBoot \/ Settled \/ Holds)
        \/ /\ Renewal!Verdict.ok = FALSE /\ Renewal!Verdict.next = [anchor EXCEPT !.candidate = Renewal!Doubted]
           /\ OfThisBoot /\ ~Settled
        \/ /\ Renewal!Verdict.ok = FALSE /\ Renewal!Verdict.next = anchor /\ OfThisBoot /\ ~Settled
           /\ anchor.candidate # None /\ Renewal!Near(Renewal!Offset, anchor.candidate.offset)
    BY Judges DEF Judged
  <2> QED
    BY <1>7, <1>9, <1>10, <2>1

LEMMA BeginsFuture ==
  ASSUME Renewal!RenewAssumption, RenewInv, NEW errors, Apart(errors), FutureInv(errors),
         NEW forced \in BOOLEAN, Renewal!Begins(forced)
  PROVE  FutureInv(errors)'
<1> USE DEF Renewal!RenewAssumption
<1>1. /\ renewer = "idle" /\ left' = (IF forced THEN [left EXCEPT !.forced = @ - 1] ELSE left)
      /\ (forced => left.forced > 0)
      /\ UNCHANGED <<time, ahead, boot, signal>>
      /\ Renewal!Offset' = Renewal!Offset
  BY DEF Renewal!Begins, Renewal!clock, Renewal!Offset, Renewal!Uptime, Renewal!Now
<1>2. left' \in Left /\ left'.unwritten = left.unwritten /\ left'.steps = left.steps /\ left'.boots = left.boots
  BY <1>1 DEF FutureInv, Strays, Left
<1>3. CASE ~Renewal!Synced
  <2>1. UNCHANGED <<anchor, renewer, seen, known>>
    BY <1>3 DEF Renewal!Begins
  <2> QED
    BY <1>1, <1>2, <2>1 DEF FutureInv, Strays, SeenTyped, Sound, Steady, Low, OfThisBoot
<1>4. CASE Renewal!Synced
  <2>1. /\ Renewal!Watches
        /\ \/ anchor' = Renewal!Verdict.next /\ known' = (known \/ Renewal!Near(ahead, 0))
           \/ left.unwritten /\ UNCHANGED <<anchor, known>>
        /\ \/ renewer' = "issue" /\ run' = [Renewal!Idle EXCEPT !.forced = forced]
                /\ (forced \/ Renewal!Verdict.ok)
           \/ renewer' = "idle"
    BY <1>1, <1>4 DEF Renewal!Begins
  <2>2. /\ seen' \in [boot : Nat, offset : Int, since : Nat, held : Int] /\ seen'.since <= time
        /\ seen'.boot = boot /\ seen'.offset = Renewal!Offset
    BY <2>1, WatchSees DEF FutureInv
  <2>3. Strays(errors)'
    <3>1. known' \in BOOLEAN
      BY <2>1 DEF FutureInv, Strays, SeenTyped
    <3>2. Renewal!Offset - boot = ahead
      BY ClockTyped DEF RenewInv, RenewTyped
    <3>3. boot \in Nat
      BY DEF RenewInv, RenewTyped
    <3> QED
      BY <1>1, <1>2, <2>2, <3>1, <3>2, <3>3 DEF FutureInv, Strays, SeenTyped
  <2>5. renewer' = "issue" => run'.forced = forced /\ (forced \/ Renewal!Verdict.ok)
    BY <2>1 DEF Renewal!Idle
  <2>4. CASE anchor' = Renewal!Verdict.next /\ known' = (known \/ Renewal!Near(ahead, 0))
    <3>1. /\ anchor' \in Anchors /\ anchor'.boot = boot /\ anchor'.offset - boot \in errors
          /\ known' => anchor'.offset <= boot \/ anchor'.offset <= seen'.held
          /\ Renewal!Verdict.ok /\ known' => Renewal!Offset <= boot \/ Renewal!Offset <= seen'.held
          /\ anchor'.candidate # None => /\ seen'.offset = anchor'.candidate.offset
                                         /\ seen'.since <= boot + anchor'.candidate.uptime
      BY <1>4, <2>1, <2>4, JudgedSoundly DEF FutureInv
    <3>2. anchor' # None
      BY <3>1, AnchorsAre
    <3>3. boot' = boot /\ (known' => OfThisBoot' /\ Low(anchor.offset)')
      BY <1>1, <3>1, <3>2 DEF OfThisBoot, Low
    <3>4. /\ seen'.boot = boot' /\ anchor'.offset - boot' \in errors
          /\ anchor'.candidate # None => /\ seen'.offset = anchor'.candidate.offset
                                         /\ seen'.since <= boot' + anchor'.candidate.uptime
      BY <2>2, <3>1, <3>3
    <3>5. renewer' = "issue" /\ known' /\ ~run'.forced /\ ~run'.moved => Low(Renewal!Offset)'
      BY <1>1, <2>5, <3>1, <3>3 DEF Low
    <3>6. Sound(errors)'
      BY <3>3, <3>4, <3>5 DEF Sound
    <3>7. Steady'
      <4> SUFFICES ASSUME left.unwritten
                   PROVE  /\ left.boots = 0 /\ left.steps <= 1 /\ (left.steps = 1 => ahead = 0)
                          /\ anchor'.offset <= boot \/ anchor'.offset <= Renewal!Offset
                          /\ left.steps = 1 => anchor'.offset = boot /\ anchor'.candidate = None
                          /\ anchor'.candidate # None => anchor'.candidate.offset = Renewal!Offset
        BY <1>1, <1>2 DEF Steady
      <4>1. left.boots = 0 /\ left.steps <= 1 /\ (left.steps = 1 => ahead = 0)
        BY DEF FutureInv, Steady
      <4>2. anchor'.candidate # None => anchor'.candidate.offset = Renewal!Offset
        BY <2>2, <3>1
      <4>3. Renewal!Offset = ahead + boot /\ ahead \in Int /\ boot \in Nat
        BY ClockTyped DEF RenewInv, RenewTyped
      <4>4. CASE Renewal!Verdict.next = Renewal!Fresh
        BY <1>1, <2>4, <4>1, <4>2, <4>3, <4>4 DEF Renewal!Fresh
      <4>5. CASE OfThisBoot /\ ~Settled /\ Renewal!Verdict.next.offset = anchor.offset
        <5>1. left.steps # 1
          BY <4>1, <4>3, <4>5 DEF FutureInv, Steady, Settled, Renewal!RenewAssumption
        <5> QED
          BY <2>4, <4>1, <4>2, <4>5, <5>1 DEF FutureInv, Steady
      <4>6. CASE OfThisBoot /\ ~Settled /\ Renewal!Verdict.next = [anchor EXCEPT !.candidate = Renewal!Doubted]
        <5>1. Renewal!Verdict.next.offset = anchor.offset
          BY <4>6 DEF OfThisBoot, RenewInv, RenewTyped, Anchors
        <5> QED
          BY <4>5, <4>6, <5>1
      <4>7. \/ Renewal!Verdict.next = Renewal!Fresh
            \/ OfThisBoot /\ ~Settled /\ Renewal!Verdict.next = anchor
            \/ OfThisBoot /\ ~Settled /\ Renewal!Verdict.next = [anchor EXCEPT !.candidate = Renewal!Doubted]
        BY Judges DEF Judged
      <4> QED
        BY <4>4, <4>5, <4>6, <4>7
    <3> QED
      BY <2>3, <3>6, <3>7 DEF FutureInv
  <2>6. CASE left.unwritten /\ UNCHANGED <<anchor, known>>
    <3>1. Steady'
      BY <1>1, <1>2, <2>6 DEF FutureInv, Steady, OfThisBoot
    <3>2. /\ (seen.boot = boot /\ seen.offset = Renewal!Offset => seen'.since = seen.since)
          /\ (seen.boot = boot => \A x \in Int : x <= Renewal!Offset /\ x <= seen.held => x <= seen'.held)
      BY <2>1, WatchSees DEF FutureInv
    <3>3. OfThisBoot => /\ seen.boot = boot /\ anchor.offset \in Int /\ anchor.offset - boot \in errors
                        /\ anchor.offset <= boot \/ anchor.offset <= Renewal!Offset
      BY <2>6 DEF FutureInv, Sound, Steady, OfThisBoot, RenewInv, RenewTyped, Anchors
    <3>4. known' => OfThisBoot' /\ Low(anchor.offset)'
      <4>1. known => OfThisBoot /\ (anchor.offset <= boot \/ anchor.offset <= seen.held)
        BY DEF FutureInv, Sound, Low
      <4>2. known => OfThisBoot /\ (anchor.offset <= boot \/ anchor.offset <= seen'.held)
        BY <3>2, <3>3, <4>1
      <4> QED
        BY <1>1, <2>6, <4>2 DEF Low, OfThisBoot
    <3>5. OfThisBoot' => /\ seen'.boot = boot' /\ anchor'.offset - boot' \in errors
                         /\ anchor'.candidate # None => /\ seen'.offset = anchor'.candidate.offset
                                                        /\ seen'.since <= boot' + anchor'.candidate.uptime
      <4>1. OfThisBoot' => OfThisBoot
        BY <1>1, <2>6 DEF OfThisBoot
      <4>2. OfThisBoot /\ anchor.candidate # None =>
              /\ seen.offset = anchor.candidate.offset /\ seen.since <= boot + anchor.candidate.uptime
              /\ anchor.candidate.offset = Renewal!Offset
        BY <2>6 DEF FutureInv, Sound, Steady
      <4> QED
        BY <1>1, <2>2, <2>6, <3>2, <3>3, <4>1, <4>2
    <3>6. known => (Renewal!Verdict.ok => Renewal!Offset <= boot \/ Renewal!Offset <= seen'.held)
      BY <1>4, <2>1, JudgedSoundly DEF FutureInv
    <3>7. renewer' = "issue" /\ known' /\ ~run'.forced /\ ~run'.moved => Low(Renewal!Offset)'
      BY <1>1, <2>5, <2>6, <3>6 DEF Low
    <3> QED
      BY <2>3, <3>1, <3>4, <3>5, <3>7 DEF FutureInv, Sound
  <2> QED
    BY <2>1, <2>4, <2>6
<1> QED
  BY <1>3, <1>4

(* No run is in progress but the one that issues, or its clock has moved.    *)
LEMMA AccidentFuture ==
  ASSUME Renewal!RenewAssumption, RenewInv, NEW errors, Apart(errors), FutureInv(errors),
         Renewal!Killed \/ Renewal!ClockSteps \/ Renewal!SignalChanges \/ Renewal!Boots
           \/ Renewal!AddressChanges \/ Renewal!FileLost
  PROVE  FutureInv(errors)'
<1> USE DEF Renewal!RenewAssumption
<1>1. /\ left \in Left /\ seen \in [boot : Nat, offset : Int, since : Nat, held : Int] /\ known \in BOOLEAN
      /\ seen.since <= time /\ seen.boot <= boot /\ ahead \in errors /\ boot \in Nat /\ time \in Nat
  BY DEF FutureInv, Strays, SeenTyped, RenewInv, RenewTyped
<1>2. time' = time /\ seen' = seen
  BY DEF Renewal!Killed, Renewal!ClockSteps, Renewal!SignalChanges, Renewal!Boots, Renewal!AddressChanges,
         Renewal!FileLost, Renewal!clock, Renewal!files
<1>3. left' \in Left /\ left'.unwritten = left.unwritten
  <2>1. CASE Renewal!Killed
    BY <1>1, <2>1 DEF Renewal!Killed, Left
  <2>2. CASE Renewal!ClockSteps
    BY <1>1, <2>2 DEF Renewal!ClockSteps, Left
  <2>3. CASE Renewal!SignalChanges
    BY <1>1, <2>3 DEF Renewal!SignalChanges, Left
  <2>4. CASE Renewal!Boots
    BY <1>1, <2>4 DEF Renewal!Boots, Left
  <2>5. CASE Renewal!AddressChanges
    BY <1>1, <2>5 DEF Renewal!AddressChanges, Left
  <2>6. CASE Renewal!FileLost
    BY <1>1, <2>6 DEF Renewal!FileLost, Left
  <2> QED
    BY <2>1, <2>2, <2>3, <2>4, <2>5, <2>6
<1>4. /\ ahead' \in errors
      /\ (boot' = boot \/ (boot' = time /\ boot < time /\ ~known'))
      /\ (known' => known) /\ known' \in BOOLEAN
  <2>1. CASE Renewal!ClockSteps
    <3>1. PICK by \in Leaps : ahead' = ahead + by
      BY <2>1 DEF Renewal!ClockSteps
    <3>2. boot' = boot /\ known' = known /\ left.steps > 0
      BY <2>1 DEF Renewal!ClockSteps
    <3>3. ahead + by \in errors
      BY <1>1 DEF Apart
    <3> QED
      <4>1. (known' => known) /\ known' \in BOOLEAN
        BY <1>1, <3>2, Zenon
      <4> QED
        BY <1>1, <3>1, <3>2, <3>3, <4>1
  <2>2. CASE Renewal!Boots
    <3>1. PICK by \in Leaps \cup {0} : ahead' = ahead + by
      BY <2>2 DEF Renewal!Boots
    <3>2. ahead + by \in errors
      <4>1. ahead + 0 = ahead
        BY <1>1 DEF Apart
      <4>2. CASE by \in Leaps
        BY <1>1, <4>2 DEF Apart
      <4>3. CASE by = 0
        BY <1>1, <4>1, <4>3
      <4> QED
        BY <4>2, <4>3
    <3>3. ~known' /\ known' \in BOOLEAN /\ boot' = time /\ boot < time /\ left.boots > 0
      BY <2>2 DEF Renewal!Boots
    <3> QED
      BY <1>1, <3>1, <3>2, <3>3
  <2>3. CASE Renewal!Killed \/ Renewal!SignalChanges \/ Renewal!AddressChanges
    <3>1. ahead' = ahead /\ boot' = boot /\ known' = known
      BY <2>3 DEF Renewal!Killed, Renewal!SignalChanges, Renewal!AddressChanges, Renewal!clock
    <3>2. (known' => known) /\ known' \in BOOLEAN
      BY <1>1, <3>1, Zenon
    <3> QED
      BY <1>1, <3>1, <3>2
  <2>4. CASE Renewal!FileLost
    <3>1. UNCHANGED <<ahead, boot>>
      BY <2>4 DEF Renewal!FileLost, Renewal!clock
    <3>2. known' = known \/ known' = FALSE
      BY <2>4 DEF Renewal!FileLost
    <3>3. (known' => known) /\ known' \in BOOLEAN
      <4>1. CASE known' = known
        BY <1>1, <4>1, Zenon
      <4>2. CASE known' = FALSE
        BY <4>2, Zenon
      <4> QED
        BY <3>2, <4>1, <4>2
    <3> QED
      BY <1>1, <3>1, <3>3
  <2> QED
    BY <2>1, <2>2, <2>3, <2>4
<1>5. Strays(errors)'
  <2>1. seen.boot = boot' => boot' = boot
    BY <1>1, <1>4
  <2>2. seen.boot <= boot'
    BY <1>1, <1>4
  <2> QED
    BY <1>1, <1>2, <1>3, <1>4, <2>1, <2>2 DEF FutureInv, Strays, SeenTyped
<1>6. ASSUME Sound(errors) PROVE Sound(errors)'
  <2>1. anchor' = anchor \/ (anchor' = None /\ ~known' /\ boot' = boot)
    BY DEF Renewal!Killed, Renewal!ClockSteps, Renewal!SignalChanges, Renewal!Boots, Renewal!AddressChanges,
           Renewal!FileLost, Renewal!clock, Renewal!files
  <2>2. OfThisBoot' => OfThisBoot /\ anchor' = anchor /\ boot' = boot
    <3>1. anchor # None => anchor.boot \in Int /\ anchor.boot <= boot
      BY DEF RenewInv, RenewTyped, Before, Anchors
    <3> QED
      BY <1>1, <1>4, <2>1, <3>1 DEF OfThisBoot
  <2>3. known' => OfThisBoot' /\ Low(anchor.offset)'
    <3>1. known' => known /\ anchor' = anchor /\ boot' = boot
      BY <1>4, <2>1
    <3> QED
      BY <1>2, <1>6, <3>1 DEF Sound, OfThisBoot, Low
  <2>4. OfThisBoot' => /\ seen'.boot = boot' /\ anchor'.offset - boot' \in errors
                       /\ anchor'.candidate # None => /\ seen'.offset = anchor'.candidate.offset
                                                      /\ seen'.since <= boot' + anchor'.candidate.uptime
    BY <1>2, <1>6, <2>2 DEF Sound
  <2>5. renewer' = "issue" /\ known' /\ ~run'.forced /\ ~run'.moved => Low(Renewal!Offset)'
    <3>1. CASE Renewal!Killed \/ Renewal!Boots
      BY <3>1 DEF Renewal!Killed, Renewal!Boots, Renewal!Ends
    <3>2. CASE Renewal!ClockSteps
      <4>1. renewer' = renewer /\ (renewer # "idle" => run'.moved)
        BY <3>2 DEF Renewal!ClockSteps, RenewInv, RenewTyped, Runs
      <4> QED
        BY <4>1
    <3>3. CASE Renewal!SignalChanges \/ Renewal!AddressChanges \/ Renewal!FileLost
      <4>1. UNCHANGED <<ahead, boot, renewer>> /\ run'.forced = run.forced /\ run'.moved = run.moved
        BY <3>3 DEF Renewal!SignalChanges, Renewal!AddressChanges, Renewal!FileLost, Renewal!clock, RenewInv,
                    RenewTyped, Runs
      <4>2. Renewal!Offset' = Renewal!Offset
        BY <1>2, <4>1 DEF Renewal!Offset, Renewal!Now, Renewal!Uptime
      <4> QED
        BY <1>2, <1>4, <1>6, <4>1, <4>2 DEF Sound, Low
    <3> QED
      BY <3>1, <3>2, <3>3
  <2> QED
    BY <2>3, <2>4, <2>5 DEF Sound
<1>7. ASSUME Steady PROVE Steady'
  <2> SUFFICES ASSUME left.unwritten PROVE Steady'
    BY <1>3 DEF Steady
  <2>1. left.boots = 0 /\ left.steps <= 1 /\ left.steps \in Nat
    BY <1>1, <1>7 DEF Steady, Left
  <2>2. ~Renewal!Boots /\ ~Renewal!SignalChanges
    BY <2>1 DEF Renewal!Boots, Renewal!SignalChanges
  <2>3. CASE Renewal!ClockSteps
    <3>1. left.steps = 1 /\ left'.steps = 0 /\ left'.boots = 0
      BY <1>1, <2>1, <2>3 DEF Renewal!ClockSteps, Left
    <3>2. UNCHANGED <<anchor, boot>>
      BY <2>3 DEF Renewal!ClockSteps, Renewal!files
    <3>3. OfThisBoot => anchor.offset = boot /\ anchor.candidate = None
      BY <1>7, <3>1 DEF Steady
    <3> QED
      BY <1>1, <3>1, <3>2, <3>3 DEF Steady, OfThisBoot
  <2>4. CASE Renewal!Killed \/ Renewal!AddressChanges \/ Renewal!FileLost
    <3>1. left'.steps = left.steps /\ left'.boots = left.boots
      BY <1>1, <2>4 DEF Renewal!Killed, Renewal!AddressChanges, Renewal!FileLost, Left
    <3>2. UNCHANGED <<ahead, boot>> /\ (anchor' = anchor \/ anchor' = None)
      BY <2>4 DEF Renewal!Killed, Renewal!AddressChanges, Renewal!FileLost, Renewal!clock, Renewal!files
    <3>3. Renewal!Offset' = Renewal!Offset
      BY <1>2, <3>2 DEF Renewal!Offset, Renewal!Now, Renewal!Uptime
    <3> QED
      BY <1>7, <3>1, <3>2, <3>3 DEF Steady, OfThisBoot
  <2> QED
    BY <2>2, <2>3, <2>4
<1> QED
  BY <1>5, <1>6, <1>7 DEF FutureInv

LEMMA FutureStep ==
  ASSUME Renewal!RenewAssumption, RenewInv, NEW errors, Apart(errors), FutureInv(errors),
         [Renewal!Next]_(Renewal!vars)
  PROVE  FutureInv(errors)'
<1>1. CASE \/ Renewal!IssueFails \/ Renewal!WritesCrt \/ Renewal!WritesBundle
           \/ Renewal!Tick \/ UNCHANGED Renewal!vars
  <2>1. /\ UNCHANGED <<ahead, boot, anchor, left, seen, known>>
        /\ (time' = time \/ time' = time + 1)
        /\ ((renewer' = renewer /\ run' = run) \/ renewer' # "issue")
    BY <1>1 DEF Renewal!IssueFails, Renewal!WritesCrt, Renewal!WritesBundle, Renewal!Tick, Renewal!Ends,
                Renewal!vars, Renewal!clock, Renewal!files, Renewal!history
  <2>2. seen.since \in Int /\ time \in Int
    BY DEF FutureInv, Strays, SeenTyped, RenewInv, RenewTyped
  <2>3. Strays(errors)'
    BY <2>1, <2>2 DEF FutureInv, Strays, SeenTyped
  <2>4. Renewal!Offset' = Renewal!Offset
    BY <2>1, <2>2 DEF RenewInv, RenewTyped, Renewal!Offset, Renewal!Now, Renewal!Uptime
  <2>5. ASSUME Sound(errors) PROVE Sound(errors)'
    BY <2>1, <2>4, <2>5 DEF Sound, Low, OfThisBoot
  <2> QED
    BY <2>1, <2>3, <2>4, <2>5 DEF FutureInv, Steady, OfThisBoot
<1> QED
  BY <1>1, BeginsFuture, AccidentFuture DEF Renewal!Next

(* No leaf is dated ahead of a clock that was right once in this boot, unless *)
(* every run has seen that clock for ANCHOR_HOLD (clock-anchor.ts:6-14).      *)
THEOREM FutureCorrect ==
  ASSUME Renewal!RenewAssumption, AnchorIsWritten, NEW errors, Apart(errors)
  PROVE  Renewal!Spec => Renewal!NoFutureLeaf
<1>1. ASSUME RenewInv, FutureInv(errors) PROVE Renewal!DatedSoundly
  <2>1. SUFFICES ASSUME Renewal!WritesCrt, known, ~run.forced, ~run.moved
                 PROVE  ahead <= ANCHOR_TOLERANCE \/ Renewal!Offset <= seen.held
    BY DEF Renewal!DatedSoundly
  <2>2. renewer = "issue"
    BY <2>1 DEF Renewal!WritesCrt
  <2>3. Renewal!Offset = ahead + boot /\ ahead \in Int /\ boot \in Int /\ ANCHOR_TOLERANCE \in Nat
    BY <1>1, ClockTyped DEF RenewInv, RenewTyped, Renewal!RenewAssumption
  <2>4. Low(Renewal!Offset)
    BY <1>1, <2>1, <2>2 DEF FutureInv, Sound
  <2> QED
    BY <2>3, <2>4 DEF Low
<1> QED
  BY <1>1, InitRenew, RenewStep, InitFuture, FutureStep, PTL DEF Renewal!Spec, Renewal!NoFutureLeaf

-----------------------------------------------------------------------------
(***************************************************************************)
(* A chain.  Where it is classed as valid, it is a path to a root: as far  *)
(* as the last anchor climbed to, all of which were sent, and the root.    *)
(***************************************************************************)
Names == DOMAIN certs
Given == certs \in Worlds /\ chain \in Chains /\ anchors \in AnchorLists
Listed == {anchors[i] : i \in 1 .. Len(anchors)}
Sent == {chain[i] : i \in 1 .. Len(chain)}
(* How far the climb has come in n steps. *)
Ways == [climbed : Seq(Names), issuers : Seq(Names), root : Names \cup {None}]
ClimbedTo(way, n) ==
  /\ way \in Ways /\ way.root \in Listed \cup {None}
  /\ \A i, j \in 1 .. Len(way.climbed) : way.climbed[i] = way.climbed[j] => i = j
  /\ \A i \in 1 .. Len(way.climbed) : way.climbed[i] \in Listed /\ way.climbed[i] # way.root
  /\ Len(way.climbed) = 0 => way.root = Inspection!Anchor
  /\ Len(way.climbed) > 0 /\ way.root # None =>
       Inspection!IssuedBy(way.climbed[Len(way.climbed)], way.root)
  /\ Inspection!Climbs(way.root) => Len(way.climbed) = n
  /\ Len(way.issuers) >= Len(chain) - 1 /\ \A i \in 1 .. Len(chain) - 1 : way.issuers[i] = chain[i + 1]

LEMMA GivenTyped ==
  ASSUME Inspection!InspectAssumption, Given
  PROVE  /\ None \notin Names /\ chain \in Seq(Names) /\ Len(chain) \in Nat \ {0} /\ chain # <<>>
         /\ anchors \in Seq(Names) /\ Len(anchors) \in Nat
         /\ \A c \in Names :
              certs[c].from \in Int /\ certs[c].to \in Int /\ certs[c].pathLength \in Nat \cup {None}
         /\ Listed \subseteq Names /\ Sent \subseteq Names
<1>1. /\ None \notin Names /\ chain \in Seq(Names) /\ chain # <<>> /\ anchors \in Seq(Names)
      /\ \A c \in Names :
           certs[c].from \in Int /\ certs[c].to \in Int /\ certs[c].pathLength \in Nat \cup {None}
  BY DEF Inspection!InspectAssumption, Given, Names
<1>2. Len(chain) \in Nat \ {0} /\ Len(anchors) \in Nat
  BY <1>1, EmptySeq
<1>3. Listed \subseteq Names /\ Sent \subseteq Names
  BY <1>1, ElementOfSeq DEF Listed, Sent
<1> QED
  BY <1>1, <1>2, <1>3

(* Of finitely many sets one holds no other. *)
LEMMA SmallestSet ==
  ASSUME NEW S, NEW F, F \subseteq FiniteSubsetsOf(S), F # {}
  PROVE  \E U \in F : \A V \in F : ~(V \subseteq U /\ V # U)
<1>1. PICK U \in F : \A V \in F : ~(<<V, U>> \in StrictSubsetOrdering(S))
  BY FS_StrictSubsetOrderingWellFounded, WFMin
<1>2. \A V \in F : V \in SUBSET S
  BY DEF FiniteSubsetsOf
<1>3. ASSUME NEW V \in F, V \subseteq U, V # U PROVE FALSE
  <2>1. <<V, U>> \in StrictSubsetOrdering(S)
    BY <1>2, <1>3 DEF StrictSubsetOrdering
  <2> QED
    BY <1>1, <2>1
<1> QED
  BY <1>3

LEMMA Greatest ==
  ASSUME NEW S \in SUBSET Int, IsFiniteSet(S), S # {} PROVE \E m \in S : \A k \in S : k <= m
<1> DEFINE Larger(a) == {b \in S : a < b}
           F == {Larger(a) : a \in S}
<1>1. \A a \in S : Larger(a) \in FiniteSubsetsOf(S)
  <2> TAKE a \in S
  <2>1. Larger(a) \in SUBSET S
    OBVIOUS
  <2> QED
    BY <2>1, FS_Subset DEF FiniteSubsetsOf
<1>2. F \subseteq FiniteSubsetsOf(S) /\ F # {}
  BY <1>1
<1> HIDE DEF F
<1>3. PICK U \in F : \A V \in F : ~(V \subseteq U /\ V # U)
  BY <1>2, SmallestSet
<1>4. PICK m \in S : U = Larger(m)
  BY <1>3 DEF F
<1>5. ASSUME NEW k \in S, m < k PROVE FALSE
  <2>1. Larger(k) \in F
    BY DEF F
  <2>2. k \in Larger(m) /\ k \notin Larger(k)
    BY <1>5
  <2>3. ASSUME NEW b \in Larger(k) PROVE b \in Larger(m)
    <3>1. b \in Int /\ k \in Int /\ m \in Int
      OBVIOUS
    <3> QED
      BY <1>5, <3>1
  <2> QED
    BY <1>3, <1>4, <2>1, <2>2, <2>3
<1> QED
  BY <1>5

(* What holds at b and goes on to hold. *)
LEMMA Upwards ==
  ASSUME NEW b \in Int, NEW N \in Int, NEW S, b \in S, \A n \in b .. N - 1 : n \in S => n + 1 \in S
  PROVE  \A n \in b .. N : n \in S
<1> SUFFICES ASSUME NEW n \in b .. N, n \notin S PROVE FALSE
  OBVIOUS
<1> DEFINE G == {m \in b .. n : \A k \in b .. m : k \in S}
<1>1. b \in G
  OBVIOUS
<1>2. G \in SUBSET Int /\ G # {}
  BY <1>1
<1>3. IsFiniteSet(G)
  BY FS_Interval, FS_Subset
<1>4. PICK m \in G : \A k \in G : k <= m
  <2> HIDE DEF G
  <2> QED
    BY <1>2, <1>3, Greatest
<1>5. m < n /\ m + 1 \in S
  OBVIOUS
<1>6. m + 1 \in G
  BY <1>5
<1> QED
  BY <1>4, <1>6

(* A function by recursion, from b up to N. *)
Recurs(f, D, x, next, b, N) ==
  f \in [b .. N -> D] /\ f[b] = x /\ \A n \in b + 1 .. N : f[n] = next[f[n - 1]]
LEMMA Recursion ==
  ASSUME NEW D, NEW x \in D, NEW next \in [D -> D], NEW b \in Int, NEW N \in Int, b <= N
  PROVE  \E f : Recurs(f, D, x, next, b, N)
<1> DEFINE Upto(m, f) == Recurs(f, D, x, next, b, m)
<1>1. \E f : Upto(b, f)
  <2>1. Upto(b, [n \in b .. b |-> x])
    BY DEF Recurs
  <2> HIDE DEF Upto
  <2> QED
    BY <2>1
<1>2. ASSUME NEW m \in b .. N - 1, NEW f, Upto(m, f) PROVE \E g : Upto(m + 1, g)
  <2> DEFINE g == [n \in b .. m + 1 |-> IF n = m + 1 THEN next[f[m]] ELSE f[n]]
  <2>1. g \in [b .. m + 1 -> D] /\ g[b] = x
    BY <1>2 DEF Recurs
  <2>2. ASSUME NEW n \in b + 1 .. m + 1 PROVE g[n] = next[g[n - 1]]
    <3>1. n \in b .. m + 1 /\ n - 1 \in b .. m + 1 /\ n - 1 # m + 1 /\ g[n - 1] = f[n - 1]
      OBVIOUS
    <3>2. CASE n = m + 1
      BY <3>1, <3>2
    <3>3. CASE n # m + 1
      <4>1. n \in b + 1 .. m /\ g[n] = f[n]
        BY <3>1, <3>3
      <4> QED
        BY <1>2, <3>1, <4>1 DEF Recurs
    <3> QED
      BY <3>2, <3>3
  <2>3. Upto(m + 1, g)
    <3> HIDE DEF g
    <3> QED
      BY <2>1, <2>2 DEF Recurs
  <2> HIDE DEF Upto, g
  <2> QED
    BY <2>3
<1> HIDE DEF Upto
<1> DEFINE S == {m \in b .. N : \E f : Upto(m, f)}
<1>3. N \in S
  <2> HIDE DEF S
  <2>1. b \in S /\ \A m \in b .. N - 1 : m \in S => m + 1 \in S
    BY <1>1, <1>2 DEF S
  <2>2. \A m \in b .. N : m \in S
    BY <2>1, Upwards
  <2> QED
    BY <2>2
<1> QED
  BY <1>3 DEF Upto

LEMMA LeastAndGreatest ==
  ASSUME NEW S \in SUBSET Int, IsFiniteSet(S), S # {}
  PROVE  /\ Inspection!Max(S) \in S /\ \A k \in S : k <= Inspection!Max(S)
         /\ Inspection!Min(S) \in S /\ \A k \in S : Inspection!Min(S) <= k
<1> DEFINE T == {0 - k : k \in S}
<1>1. PICK m \in S : \A k \in S : k <= m
  BY Greatest
<1>2. \A k \in S : m >= k
  BY <1>1
<1>3. Inspection!Max(S) \in S /\ \A k \in S : Inspection!Max(S) >= k
  BY <1>2 DEF Inspection!Max
<1>4. T \in SUBSET Int /\ T # {} /\ IsFiniteSet(T)
  <2>1. [k \in S |-> 0 - k] \in Surjection(S, T)
    BY DEF Surjection
  <2> QED
    BY <2>1, FS_Surjection
<1>5. PICK n \in T : \A k \in T : k <= n
  <2> HIDE DEF T
  <2> QED
    BY <1>4, Greatest
<1>6. PICK l \in S : n = 0 - l
  OBVIOUS
<1>7. \A k \in S : 0 - k <= 0 - l
  BY <1>5, <1>6
<1>8. \A k \in S : l <= k
  BY <1>7
<1>9. Inspection!Min(S) \in S /\ \A k \in S : Inspection!Min(S) <= k
  BY <1>8 DEF Inspection!Min
<1> QED
  BY <1>3, <1>9

LEMMA FirstListed ==
  ASSUME Inspection!InspectAssumption, Given, NEW S
  PROVE  Inspection!FirstOf(S) = None \/ (Inspection!FirstOf(S) \in S /\ Inspection!FirstOf(S) \in Listed)
<1> DEFINE at == {i \in DOMAIN anchors : anchors[i] \in S}
<1>1. DOMAIN anchors = 1 .. Len(anchors) /\ Len(anchors) \in Nat
  BY GivenTyped, LenProperties
<1>2. CASE at = {}
  BY <1>2 DEF Inspection!FirstOf
<1>3. CASE at # {}
  <2>1. at \in SUBSET Int /\ IsFiniteSet(at)
    <3>1. at \in SUBSET (1 .. Len(anchors)) /\ IsFiniteSet(1 .. Len(anchors))
      BY <1>1, FS_Interval
    <3>2. at \in SUBSET Int
      BY <1>1
    <3> HIDE DEF at
    <3> QED
      BY <3>1, <3>2, FS_Subset
  <2>2. Inspection!Min(at) \in at
    <3> HIDE DEF at
    <3> QED
      BY <1>3, <2>1, LeastAndGreatest
  <2>3. Inspection!FirstOf(S) = anchors[Inspection!Min(at)]
    BY <1>3 DEF Inspection!FirstOf
  <2> QED
    BY <1>1, <2>2, <2>3 DEF Listed
<1> QED
  BY <1>2, <1>3

LEMMA AnchorIs ==
  ASSUME Inspection!InspectAssumption, Given
  PROVE  /\ Inspection!Anchor \in Listed \cup {None}
         /\ Inspection!Anchor # None =>
              Inspection!Anchor = Inspection!Top \/ Inspection!ChecksIssued(Inspection!Top, Inspection!Anchor)
<1> DEFINE byName == {a \in Inspection!ToSet(anchors) : Inspection!ChecksIssued(Inspection!Top, a)}
           verified == {a \in byName : Inspection!Verifies(Inspection!Top, a)}
<1>1. Inspection!Contains(anchors, Inspection!Top) => Inspection!Top \in Listed
  BY DEF Inspection!Contains, Listed
<1>2. \A a \in byName : Inspection!ChecksIssued(Inspection!Top, a)
  OBVIOUS
<1>3. verified \subseteq byName
  OBVIOUS
<1>4. Inspection!Anchor = IF Inspection!Contains(anchors, Inspection!Top) THEN Inspection!Top
        ELSE IF verified # {} THEN Inspection!FirstOf(verified) ELSE Inspection!FirstOf(byName)
  BY DEF Inspection!Anchor
<1>5. /\ Inspection!FirstOf(verified) = None
            \/ (Inspection!FirstOf(verified) \in verified /\ Inspection!FirstOf(verified) \in Listed)
      /\ Inspection!FirstOf(byName) = None
            \/ (Inspection!FirstOf(byName) \in byName /\ Inspection!FirstOf(byName) \in Listed)
  <2> HIDE DEF byName, verified
  <2> QED
    BY FirstListed
<1> HIDE DEF byName, verified
<1> QED
  BY <1>1, <1>2, <1>3, <1>4, <1>5

(* One more step of the climb. *)
LEMMA Climbing ==
  ASSUME Inspection!InspectAssumption, Given, NEW n \in Nat, NEW way, ClimbedTo(way, n)
  PROVE  ClimbedTo(IF Inspection!Climbs(way.root) THEN Inspection!Above(way) ELSE way, n + 1)
<1>1. CASE ~Inspection!Climbs(way.root)
  BY <1>1 DEF ClimbedTo
<1>2. CASE Inspection!Climbs(way.root)
  <2> DEFINE higher == Append(way.climbed, way.root)
             above == {a \in Inspection!ToSet(anchors) :
                         ~Inspection!Contains(higher, a) /\ Inspection!IssuedBy(way.root, a)}
             root == Inspection!FirstOf(above)
             issuers == Inspection!With(way.issuers, way.root)
  <2>1. /\ way \in Ways /\ way.root \in Listed /\ way.root \in Names /\ way.climbed \in Seq(Names)
        /\ way.issuers \in Seq(Names) /\ Len(way.climbed) = n
    BY <1>2, GivenTyped DEF ClimbedTo, Ways, Inspection!Climbs
  <2>2. Inspection!Above(way) = [climbed |-> higher, issuers |-> issuers, root |-> root]
    BY DEF Inspection!Above
  <2>3. /\ higher \in Seq(Names) /\ Len(higher) = n + 1 /\ higher[n + 1] = way.root
        /\ \A i \in 1 .. n : higher[i] = way.climbed[i]
    BY <2>1, AppendProperties
  <2>4. /\ issuers \in Seq(Names) /\ Len(issuers) >= Len(chain) - 1
        /\ \A i \in 1 .. Len(chain) - 1 : issuers[i] = chain[i + 1]
    <3>1. Len(way.issuers) \in Nat /\ Len(chain) \in Nat
      BY <2>1, GivenTyped
    <3>2. /\ Append(way.issuers, way.root) \in Seq(Names)
          /\ Len(Append(way.issuers, way.root)) = Len(way.issuers) + 1
          /\ \A i \in 1 .. Len(way.issuers) : Append(way.issuers, way.root)[i] = way.issuers[i]
      BY <2>1, AppendProperties
    <3>3. issuers = way.issuers \/ issuers = Append(way.issuers, way.root)
      BY DEF Inspection!With
    <3>4. /\ Len(way.issuers) >= Len(chain) - 1
          /\ \A i \in 1 .. Len(chain) - 1 : way.issuers[i] = chain[i + 1] /\ i \in 1 .. Len(way.issuers)
      BY <3>1 DEF ClimbedTo
    <3> HIDE DEF issuers
    <3>5. CASE issuers = way.issuers
      BY <2>1, <3>4, <3>5
    <3>6. CASE issuers = Append(way.issuers, way.root)
      <4>1. \A i \in 1 .. Len(chain) - 1 : issuers[i] = chain[i + 1]
        BY <3>2, <3>4, <3>6
      <4>2. Len(issuers) >= Len(chain) - 1
        BY <3>1, <3>2, <3>4, <3>6
      <4> QED
        BY <3>2, <3>6, <4>1, <4>2
    <3> QED
      BY <3>3, <3>5, <3>6
  <2>5. root = None \/ (root \in above /\ root \in Listed)
    <3> HIDE DEF above
    <3> QED
      BY FirstListed
  <2>6. root # None =>
          Inspection!IssuedBy(way.root, root) /\ \A i \in 1 .. n + 1 : higher[i] # root
    BY <2>3, <2>5 DEF Inspection!Contains
  <2>7. \A i \in 1 .. n + 1 : higher[i] \in Listed /\ higher[i] # None
    BY <2>1, <2>3, GivenTyped DEF ClimbedTo
  <2>8. \A i, j \in 1 .. n + 1 : higher[i] = higher[j] => i = j
    <3>1. \A i \in 1 .. n + 1 : i \in 1 .. n \/ i = n + 1
      OBVIOUS
    <3> HIDE DEF higher
    <3> QED
      BY <2>1, <2>3, <3>1 DEF ClimbedTo
  <2>9. root \in Listed \cup {None} /\ root \in Names \cup {None}
    BY <2>5, GivenTyped
  <2> HIDE DEF higher, issuers, root
  <2> QED
    BY <1>2, <2>2, <2>3, <2>4, <2>6, <2>7, <2>8, <2>9 DEF ClimbedTo, Ways
<1> QED
  BY <1>1, <1>2

LEMMA ClimbBegins ==
  ASSUME Inspection!InspectAssumption, Given
  PROVE  ClimbedTo([climbed |-> <<>>, issuers |-> Tail(chain), root |-> Inspection!Anchor], 0)
<1>1. Tail(chain) \in Seq(Names) /\ Len(Tail(chain)) = Len(chain) - 1
      /\ \A i \in 1 .. Len(chain) - 1 : Tail(chain)[i] = chain[i + 1]
  BY GivenTyped, HeadTailProperties
<1>2. Inspection!Anchor \in Listed \cup {None} /\ Inspection!Anchor \in Names \cup {None}
  BY AnchorIs, GivenTyped
<1>3. <<>> \in Seq(Names) /\ Len(<<>>) = 0
  OBVIOUS
<1>4. Len(chain) \in Nat
  BY GivenTyped
<1> QED
  BY <1>1, <1>2, <1>3, <1>4 DEF ClimbedTo, Ways

(* The climb, up to as many steps as there are anchors and one. *)
LEMMA WayClimbed ==
  ASSUME Inspection!InspectAssumption, Given
  PROVE  ClimbedTo(Inspection!Way, Len(anchors) + 1)
<1> DEFINE N == Len(anchors) + 1
           start == [climbed |-> <<>>, issuers |-> Tail(chain), root |-> Inspection!Anchor]
           Step(w) == IF Inspection!Climbs(w.root) THEN Inspection!Above(w) ELSE w
           IsClimb(g) == g = [n \in 0 .. N |-> IF n = 0 THEN start ELSE Step(g[n - 1])]
           Climb == CHOOSE g : IsClimb(g)
<1>1. N \in Nat /\ N > 0
  BY GivenTyped
<1>2. Inspection!Way = Climb[N]
  BY DEF Inspection!Way
<1> DEFINE D == {w \in Ways : \E n \in Nat : ClimbedTo(w, n)}
<1>3. \A w \in D : Step(w) \in D
  <2> TAKE w \in D
  <2>1. PICK n \in Nat : ClimbedTo(w, n)
    OBVIOUS
  <2>2. ClimbedTo(Step(w), n + 1)
    BY <2>1, Climbing
  <2> HIDE DEF Step
  <2> QED
    BY <2>2 DEF ClimbedTo
<1>4. start \in D /\ ClimbedTo(start, 0)
  BY ClimbBegins DEF ClimbedTo
<1> HIDE DEF Step, start, D, N
<1> DEFINE next == [w \in D |-> Step(w)]
<1>5. PICK f : Recurs(f, D, start, next, 0, N)
  <2>1. next \in [D -> D]
    BY <1>3
  <2>2. 0 \in Int /\ N \in Int /\ 0 <= N
    BY <1>1
  <2>3. start \in D
    BY <1>4
  <2> HIDE DEF next
  <2> QED
    BY <2>1, <2>2, <2>3, Recursion
<1>6. f \in [0 .. N -> D] /\ f[0] = start /\ \A n \in 0 + 1 .. N : f[n] = next[f[n - 1]]
  BY <1>5 DEF Recurs
<1>7. IsClimb(f)
  <2>1. \A n \in 0 .. N : f[n] = IF n = 0 THEN start ELSE Step(f[n - 1])
    <3> TAKE n \in 0 .. N
    <3>1. CASE n = 0
      BY <1>6, <3>1
    <3>2. CASE n # 0
      <4>1. n \in 0 + 1 .. N /\ n - 1 \in 0 .. N
        BY <1>1, <3>2
      <4>2. f[n - 1] \in D
        BY <1>6, <4>1
      <4> QED
        BY <1>6, <3>2, <4>1, <4>2
    <3> QED
      BY <3>1, <3>2
  <2> QED
    BY <1>6, <2>1
<1>8. IsClimb(Climb)
  <2> HIDE DEF IsClimb
  <2> QED
    BY <1>7
<1>9. Climb[0] = start /\ \A n \in 1 .. N : Climb[n] = Step(Climb[n - 1])
  <2> HIDE DEF Climb
  <2> QED
    BY <1>1, <1>8
<1> HIDE DEF Climb, IsClimb
<1>10. \A n \in 0 .. N : n \in {m \in 0 .. N : ClimbedTo(Climb[m], m)}
  <2> DEFINE S == {m \in 0 .. N : ClimbedTo(Climb[m], m)}
  <2>1. 0 \in S
    BY <1>1, <1>4, <1>9
  <2>2. ASSUME NEW n \in 0 .. N - 1, n \in S PROVE n + 1 \in S
    <3>1. n \in Nat /\ n + 1 \in 1 .. N /\ ClimbedTo(Climb[n], n) /\ (n + 1) - 1 = n
      BY <1>1, <2>2
    <3>2. ClimbedTo(Step(Climb[n]), n + 1)
      BY <3>1, Climbing DEF Step
    <3> QED
      BY <1>1, <1>9, <3>1, <3>2
  <2> HIDE DEF S
  <2>3. \A n \in 0 .. N : n \in S
    BY <1>1, <2>1, <2>2, Upwards
  <2> QED
    BY <2>3 DEF S
<1> QED
  BY <1>1, <1>2, <1>10 DEF N

(* No anchor is climbed twice, so the climb has come to its end. *)
LEMMA WayEnds ==
  ASSUME Inspection!InspectAssumption, Given
  PROVE  ~Inspection!Climbs(Inspection!Way.root)
<1> SUFFICES ASSUME Inspection!Climbs(Inspection!Way.root) PROVE FALSE
  OBVIOUS
<1> DEFINE L == Len(anchors)
           climbed == Inspection!Way.climbed
<1>1. L \in Nat /\ anchors \in Seq(Names)
  BY GivenTyped
<1>2. IsFiniteSet(Listed) /\ Cardinality(Listed) <= L
  <2>1. [i \in 1 .. L |-> anchors[i]] \in Surjection(1 .. L, Listed)
    BY DEF Surjection, Listed
  <2>2. IsFiniteSet(1 .. L) /\ Cardinality(1 .. L) = L
    <3> HIDE DEF L
    <3>1. 1 \in Int /\ L \in Int
      BY <1>1
    <3>2. IsFiniteSet(1 .. L) /\ Cardinality(1 .. L) = IF 1 > L THEN 0 ELSE L - 1 + 1
      BY <3>1, FS_Interval
    <3> QED
      BY <1>1, <3>2
  <2> HIDE DEF L
  <2> QED
    BY <2>1, <2>2, FS_Surjection
<1>3. climbed \in Seq(Names) /\ Len(climbed) = L + 1
  BY WayClimbed DEF ClimbedTo, Ways
<1>4. Cardinality(1 .. L + 1) <= Cardinality(Listed)
  <2>1. \A i, j \in 1 .. L + 1 : climbed[i] = climbed[j] => i = j
    BY <1>3, WayClimbed DEF ClimbedTo
  <2>2. \A i \in 1 .. L + 1 : climbed[i] \in Listed
    BY <1>3, WayClimbed DEF ClimbedTo
  <2>3. [i \in 1 .. L + 1 |-> climbed[i]] \in Injection(1 .. L + 1, Listed)
    <3> HIDE DEF climbed, L
    <3> QED
      BY <2>1, <2>2 DEF Injection, IsInjective
  <2> HIDE DEF L, climbed
  <2> QED
    BY <1>2, <2>3, FS_Injection
<1>5. Cardinality(1 .. L + 1) = L + 1
  BY <1>1, FS_Interval
<1> HIDE DEF L
<1>6. Cardinality(Listed) \in Nat
  BY <1>2, FS_CardinalityType
<1> QED
  BY <1>1, <1>2, <1>4, <1>5, <1>6

(* The CAs above the leaf: those sent, and the root. *)
LEMMA IssuersAre ==
  ASSUME Inspection!InspectAssumption, Given, Inspection!Way.root # None
  PROVE  /\ Inspection!Issuers \in Seq(Names) /\ Len(Inspection!Issuers) \in Nat
         /\ Len(Inspection!Issuers) >= Len(chain) - 1
         /\ \A i \in 1 .. Len(chain) - 1 : Inspection!Issuers[i] = chain[i + 1]
         /\ Inspection!Way.root \notin Sent =>
               /\ Len(Inspection!Issuers) >= Len(chain)
               /\ Inspection!Issuers[Len(Inspection!Issuers)] = Inspection!Way.root
<1>1. PICK way : way = Inspection!Way
  OBVIOUS
<1>2. /\ way.issuers \in Seq(Names) /\ way.root \in Names /\ Len(way.issuers) >= Len(chain) - 1
      /\ \A i \in 1 .. Len(chain) - 1 : way.issuers[i] = chain[i + 1]
  BY <1>1, WayClimbed DEF ClimbedTo, Ways
<1>3. Len(way.issuers) \in Nat /\ Len(chain) \in Nat
  BY <1>2, GivenTyped
<1>4. Inspection!Issuers = IF Inspection!Contains(chain, way.root) THEN way.issuers ELSE Append(way.issuers, way.root)
  BY <1>1 DEF Inspection!Issuers, Inspection!With
<1>5. Inspection!Contains(chain, way.root) <=> way.root \in Sent
  BY DEF Inspection!Contains, Sent
<1>6. CASE way.root \in Sent
  BY <1>1, <1>2, <1>3, <1>4, <1>5, <1>6
<1>7. CASE way.root \notin Sent
  <2>1. PICK longer : longer = Append(way.issuers, way.root)
    OBVIOUS
  <2>2. /\ longer \in Seq(Names) /\ Len(longer) = Len(way.issuers) + 1 /\ longer[Len(way.issuers) + 1] = way.root
        /\ \A i \in 1 .. Len(way.issuers) : longer[i] = way.issuers[i]
    BY <1>2, <2>1, AppendProperties
  <2>3. \A i \in 1 .. Len(chain) - 1 : longer[i] = chain[i + 1]
    <3> TAKE i \in 1 .. Len(chain) - 1
    <3>1. i \in 1 .. Len(way.issuers)
      BY <1>2, <1>3
    <3> QED
      BY <1>2, <2>2, <3>1
  <2> QED
    BY <1>1, <1>2, <1>3, <1>4, <1>5, <1>7, <2>1, <2>2, <2>3
<1> QED
  BY <1>6, <1>7

(* What was found to be valid. *)
LEMMA ValidMeans ==
  ASSUME Inspection!InspectAssumption, Given, Inspection!Class(Inspection!Reasons) = "valid"
  PROVE  /\ Inspection!Anchor # None /\ Inspection!Way.root # None
         /\ \A i \in 1 .. Len(Inspection!Way.climbed) : Inspection!Way.climbed[i] \in Sent
         /\ \A i \in DOMAIN Inspection!Issuers :
              LET limit == certs[Inspection!Issuers[i]].pathLength
              IN  limit = None \/ ~(Inspection!Between(i) > limit)
         /\ \A i \in DOMAIN Inspection!Issuers : ~certs[Inspection!Issuers[i]].forbids
         /\ certs[Inspection!Leaf].covers /\ certs[Inspection!Leaf].serverAuth
<1> DEFINE R == Inspection!Reasons
<1>1. /\ "untrusted" \notin R /\ "path-length" \notin R /\ "name-constraint" \notin R
      /\ "no-server-auth" \notin R /\ "san-missing" \notin R /\ "incomplete-chain" \notin R
  <2> HIDE DEF R
  <2>1. Inspection!Class(R) = "valid"
    BY DEF R
  <2> QED
    BY <2>1 DEF Inspection!Class
<1>2. Inspection!ChainReasons \subseteq R
  BY DEF Inspection!Reasons
<1>3. Inspection!Anchor # None
  BY <1>1, <1>2 DEF Inspection!ChainReasons
<1>4. Inspection!Way.root # None /\ Inspection!ToSet(Inspection!Way.climbed) \subseteq Inspection!ToSet(chain)
  BY <1>1, <1>2, <1>3 DEF Inspection!ChainReasons
<1>5. \A i \in 1 .. Len(Inspection!Way.climbed) : Inspection!Way.climbed[i] \in Sent
  <2>1. DOMAIN Inspection!Way.climbed = 1 .. Len(Inspection!Way.climbed)
    BY WayClimbed, LenProperties DEF ClimbedTo, Ways
  <2>2. DOMAIN chain = 1 .. Len(chain)
    BY GivenTyped, LenProperties
  <2> QED
    BY <1>4, <2>1, <2>2 DEF Inspection!ToSet, Sent
<1>6. \A i \in DOMAIN Inspection!Issuers :
        LET limit == certs[Inspection!Issuers[i]].pathLength
        IN  limit = None \/ ~(Inspection!Between(i) > limit)
  BY <1>1 DEF Inspection!Reasons
<1>7. \A c \in Inspection!ToSet(Inspection!Issuers) : ~certs[c].forbids
  BY <1>1 DEF Inspection!Reasons
<1>8. certs[Inspection!Leaf].covers
  BY <1>1 DEF Inspection!Reasons
<1>9. certs[Inspection!Leaf].serverAuth
  BY <1>1 DEF Inspection!Reasons
<1> QED
  BY <1>3, <1>4, <1>5, <1>6, <1>7, <1>8, <1>9 DEF Inspection!ToSet

(* A path to a root, which a client may build. *)
IsPath(path) ==
  /\ path \in Seq(Names) /\ Len(path) > 0 /\ path[1] = Inspection!Leaf
  /\ \A i \in 1 .. Len(path) : path[i] \in Inspection!ToSet(chain) \cup Inspection!Roots
  /\ \A i, j \in 1 .. Len(path) : path[i] = path[j] => i = j
  /\ \A i \in 1 .. Len(path) - 1 : Inspection!IssuedBy(path[i], path[i + 1])
  /\ path[Len(path)] \in Inspection!Roots

(* The chain as far as the last anchor climbed to, and the root. *)
Leads(path, k) ==
  /\ path \in Seq(Names) /\ k \in 1 .. Len(chain) + 1 /\ Len(path) = k /\ path[k] = Inspection!Way.root
  /\ \A i \in 1 .. k - 1 : path[i] = chain[i] /\ chain[i] # Inspection!Way.root
  /\ \/ k <= Len(chain) /\ chain[k] = Inspection!Way.root
     \/ k >= 2 /\ Inspection!Way.root \notin Sent /\ Inspection!IssuedBy(chain[k - 1], Inspection!Way.root)

LEMMA ChainLeads ==
  ASSUME Inspection!InspectAssumption, Given, ~Inspection!Refused, Inspection!Class(Inspection!Reasons) = "valid"
  PROVE  \E path, k : Leads(path, k)
<1>1. PICK root \in Names : root = Inspection!Way.root
  BY ValidMeans, WayClimbed DEF ClimbedTo, Ways
<1>2. PICK L \in Nat \ {0} : L = Len(chain)
  BY GivenTyped
<1>3. chain \in Seq(Names)
  BY GivenTyped
<1>4. CASE root \in Sent
  <2>1. PICK k \in 1 .. L : chain[k] = root
    BY <1>2, <1>4 DEF Sent
  <2>2. PICK path : path = SubSeq(chain, 1, k)
    OBVIOUS
  <2>3. path \in Seq(Names) /\ Len(path) = k /\ \A i \in 1 .. k : path[i] = chain[i]
    <3>1. \A i \in 1 .. k : chain[i] \in Names
      BY <1>2, <1>3, ElementOfSeq
    <3> QED
      BY <2>2, <3>1, SubSeqProperties
  <2>4. \A i \in 1 .. k - 1 : chain[i] # chain[k]
    <3>1. \A i, j \in 1 .. L : chain[i] = chain[j] => i = j
      BY <1>2, <1>3, LenProperties DEF Inspection!Refused, Inspection!IsInjective
    <3> QED
      BY <3>1
  <2>5. Leads(path, k)
    BY <1>1, <1>2, <2>1, <2>3, <2>4 DEF Leads
  <2> QED
    BY <2>5
<1>5. CASE root \notin Sent
  <2>1. PICK j \in 1 .. L : Inspection!IssuedBy(chain[j], root)
    <3>1. CASE Len(Inspection!Way.climbed) = 0
      <4>1. root = Inspection!Anchor /\ root # None
        BY <1>1, <3>1, ValidMeans, WayClimbed DEF ClimbedTo
      <4>2. Inspection!Top = chain[L] /\ Inspection!Top \in Sent
        BY <1>2 DEF Inspection!Top, Inspection!Last, Sent
      <4>3. root # Inspection!Top
        BY <1>5, <4>2
      <4>4. Inspection!ChecksIssued(Inspection!Top, root)
        BY <4>1, <4>3, AnchorIs
      <4>5. Inspection!Verifies(Inspection!Top, root)
        BY <4>1, <4>3 DEF Inspection!Refused
      <4> QED
        BY <4>2, <4>4, <4>5 DEF Inspection!IssuedBy
    <3>2. CASE Len(Inspection!Way.climbed) # 0
      <4>1. PICK n : n = Len(Inspection!Way.climbed)
        OBVIOUS
      <4>2. n \in Nat /\ n > 0
        BY <3>2, <4>1, WayClimbed DEF ClimbedTo, Ways
      <4>3. Inspection!IssuedBy(Inspection!Way.climbed[n], root)
        BY <1>1, <4>1, <4>2, ValidMeans, WayClimbed DEF ClimbedTo
      <4>4. Inspection!Way.climbed[n] \in Sent
        BY <4>1, <4>2, ValidMeans
      <4> QED
        BY <1>2, <4>3, <4>4 DEF Sent
    <3> QED
      BY <3>1, <3>2
  <2>2. PICK below : below = SubSeq(chain, 1, j)
    OBVIOUS
  <2>3. below \in Seq(Names) /\ Len(below) = j /\ \A i \in 1 .. j : below[i] = chain[i]
    <3>1. \A i \in 1 .. j : chain[i] \in Names
      BY <1>2, <1>3, ElementOfSeq
    <3> QED
      BY <2>2, <3>1, SubSeqProperties
  <2>4. PICK path : path = Append(below, root)
    OBVIOUS
  <2>5. path \in Seq(Names) /\ Len(path) = j + 1 /\ path[j + 1] = root /\ \A i \in 1 .. j : path[i] = chain[i]
    BY <2>3, <2>4, AppendProperties
  <2>6. \A i \in 1 .. j : chain[i] # root
    BY <1>2, <1>5 DEF Sent
  <2>7. Leads(path, j + 1)
    BY <1>1, <1>2, <1>5, <2>1, <2>5, <2>6 DEF Leads
  <2> QED
    BY <2>7
<1> QED
  BY <1>4, <1>5

LEMMA LedPath ==
  ASSUME Inspection!InspectAssumption, Given, ~Inspection!Refused,
         Inspection!Class(Inspection!Reasons) = "valid", NEW path, NEW k, Leads(path, k)
  PROVE  IsPath(path)
<1>1. PICK root \in Names : root = Inspection!Way.root
  BY ValidMeans, WayClimbed DEF ClimbedTo, Ways
<1>2. PICK L \in Nat \ {0} : L = Len(chain)
  BY GivenTyped
<1>3. /\ path \in Seq(Names) /\ k \in 1 .. L + 1 /\ Len(path) = k /\ path[k] = root
      /\ \A i \in 1 .. k - 1 : path[i] = chain[i] /\ chain[i] # root
      /\ \/ k <= L /\ chain[k] = root
         \/ k >= 2 /\ Inspection!IssuedBy(chain[k - 1], root)
  BY <1>1, <1>2 DEF Leads
<1>4. /\ chain \in Seq(Names) /\ DOMAIN chain = 1 .. L
      /\ DOMAIN anchors = 1 .. Len(anchors)
  BY <1>2, GivenTyped, LenProperties
<1>5. root \in Inspection!Roots
  <2>1. root \in Listed /\ root # None
    BY <1>1, WayClimbed, ValidMeans DEF ClimbedTo
  <2>2. Inspection!SelfIssued(root)
    BY <1>1, <2>1, WayEnds DEF Inspection!Climbs
  <2> QED
    BY <1>4, <2>1, <2>2 DEF Inspection!Roots, Inspection!ToSet, Listed
<1>6. \A i \in 1 .. L : chain[i] \in Inspection!ToSet(chain)
  BY <1>4 DEF Inspection!ToSet
<1>7. \A i, j \in 1 .. L : chain[i] = chain[j] => i = j
  BY <1>4 DEF Inspection!Refused, Inspection!IsInjective
<1>8. \A i \in 1 .. L - 1 : Inspection!IssuedBy(chain[i], chain[i + 1])
  BY <1>2 DEF Inspection!Refused
<1>9. Inspection!Leaf = chain[1]
  BY <1>2, <1>4 DEF Inspection!Leaf
<1>10. path[1] = Inspection!Leaf
  <2>1. CASE k = 1
    BY <1>3, <1>9, <2>1
  <2>2. CASE k # 1
    BY <1>3, <1>9, <2>2
  <2> QED
    BY <2>1, <2>2
<1>11. \A i \in 1 .. k - 1 : i \in 1 .. L
  BY <1>2, <1>3
<1>12. \A i \in 1 .. k : path[i] \in Inspection!ToSet(chain) \cup Inspection!Roots
  <2> TAKE i \in 1 .. k
  <2>1. CASE i = k
    BY <1>3, <1>5, <2>1
  <2>2. CASE i # k
    <3>1. i \in 1 .. k - 1
      BY <1>3, <2>2
    <3> QED
      BY <1>3, <1>6, <1>11, <3>1
  <2> QED
    BY <2>1, <2>2
<1>13. ASSUME NEW i \in 1 .. k, NEW j \in 1 .. k, path[i] = path[j] PROVE i = j
  <2>1. \A l \in 1 .. k : l = k \/ l \in 1 .. k - 1
    BY <1>3
  <2>2. CASE i \in 1 .. k - 1 /\ j \in 1 .. k - 1
    BY <1>3, <1>7, <1>11, <1>13, <2>2
  <2> QED
    BY <1>3, <1>13, <2>1, <2>2
<1>14. ASSUME NEW i \in 1 .. k - 1 PROVE Inspection!IssuedBy(path[i], path[i + 1])
  <2>1. path[i] = chain[i]
    BY <1>3
  <2>2. CASE i = k - 1
    <3>1. k \in Int /\ path[i + 1] = root
      BY <1>3, <2>2
    <3>2. CASE k <= L /\ chain[k] = root
      <4>1. i \in 1 .. L - 1 /\ i + 1 = k
        BY <1>2, <1>3, <2>2, <3>2
      <4> QED
        BY <1>8, <2>1, <3>1, <3>2, <4>1
    <3>3. CASE Inspection!IssuedBy(chain[k - 1], root)
      BY <2>1, <2>2, <3>1, <3>3
    <3> QED
      BY <1>3, <3>2, <3>3
  <2>3. CASE i # k - 1
    <3>1. i + 1 \in 1 .. k - 1 /\ i \in 1 .. L - 1
      BY <1>2, <1>3, <2>3
    <3> QED
      BY <1>3, <1>8, <2>1, <3>1
  <2> QED
    BY <2>2, <2>3
<1> QED
  BY <1>3, <1>5, <1>10, <1>12, <1>13, <1>14 DEF IsPath

(* As many CAs below on the path as below in what was inspected. *)
LEMMA BelowCounted ==
  ASSUME Inspection!InspectAssumption, Given, NEW m \in Nat, NEW i \in Nat, i - 1 <= m, NEW path,
         \A j \in 2 .. i - 1 : path[j] = Inspection!Issuers[j - 1]
  PROVE  LET below == Inspection!Cardinality({j \in 2 .. i - 1 : ~Inspection!SelfIssued(path[j])})
         IN  below \in Nat /\ Inspection!Between(m) \in Nat /\ below <= Inspection!Between(m)
<1> DEFINE S == {j \in 2 .. i - 1 : ~Inspection!SelfIssued(path[j])}
           T == {j \in 1 .. m - 1 : ~Inspection!SelfIssued(Inspection!Issuers[j])}
<1>1. \A U : Inspection!Cardinality(U) = Cardinality(U)
  BY DEF Inspection!Cardinality, Inspection!IsFiniteSet, Cardinality, IsFiniteSet
<1>2. Inspection!Between(m) = Cardinality(T)
  BY <1>1 DEF Inspection!Between
<1>3. IsFiniteSet(T)
  <2>1. T \in SUBSET (1 .. m - 1) /\ IsFiniteSet(1 .. m - 1)
    BY FS_Interval
  <2> HIDE DEF T
  <2> QED
    BY <2>1, FS_Subset
<1>4. [j \in S |-> j - 1] \in Injection(S, T)
  <2>1. \A j \in S : j - 1 \in T
    <3> TAKE j \in S
    <3>1. j \in 2 .. i - 1 /\ j - 1 \in 1 .. m - 1
      OBVIOUS
    <3> QED
      BY <3>1
  <2>2. \A j, l \in S : j - 1 = l - 1 => j = l
    OBVIOUS
  <2> HIDE DEF S, T
  <2> QED
    BY <2>1, <2>2 DEF Injection, IsInjective
<1> HIDE DEF S, T
<1>5. IsFiniteSet(S) /\ Cardinality(S) <= Cardinality(T)
  BY <1>3, <1>4, FS_Injection
<1>6. Cardinality(S) \in Nat /\ Cardinality(T) \in Nat
  BY <1>3, <1>5, FS_CardinalityType
<1>7. Inspection!Cardinality(S) = Cardinality(S)
  BY <1>1
<1> QED
  BY <1>2, <1>5, <1>6, <1>7 DEF S

(* While it is said to be in date, whatever has its dates checked is. *)
LEMMA DatedInDate ==
  ASSUME Inspection!InspectAssumption, Given,
         NEW t \in Inspection!Max({certs[c].from : c \in Inspection!Dated})
                      .. Inspection!Min({certs[c].to : c \in Inspection!Dated}) - 1
  PROVE  \A c \in Inspection!Dated : Inspection!InDate(c, t)
<1> DEFINE L == Len(chain)
           n == Len(Inspection!Way.climbed)
           D == Inspection!Dated
           Climbed == {Inspection!Way.climbed[i] : i \in 1 .. n}
           From == {certs[c].from : c \in D}
           To == {certs[c].to : c \in D}
<1>1. /\ L \in Nat \ {0} /\ DOMAIN chain = 1 .. L /\ chain \in Seq(Names)
      /\ n \in Nat /\ DOMAIN Inspection!Way.climbed = 1 .. n /\ Inspection!Way.climbed \in Seq(Names)
  BY GivenTyped, WayClimbed, LenProperties DEF ClimbedTo, Ways
<1>2. IsFiniteSet(Sent) /\ IsFiniteSet(Climbed)
  <2>1. [i \in 1 .. L |-> chain[i]] \in Surjection(1 .. L, Sent)
    BY DEF Surjection, Sent
  <2>2. [i \in 1 .. n |-> Inspection!Way.climbed[i]] \in Surjection(1 .. n, Climbed)
    BY DEF Surjection
  <2> HIDE DEF Climbed, L, n
  <2>3. IsFiniteSet(1 .. L) /\ IsFiniteSet(1 .. n)
    <3>1. L \in Int /\ n \in Int
      BY <1>1
    <3> QED
      BY <3>1, FS_Interval
  <2> QED
    BY <2>1, <2>2, <2>3, FS_Surjection
<1>3. D \in SUBSET (Sent \cup Climbed) /\ D # {}
  <2>1. Inspection!Leaf \in Sent
    BY <1>1 DEF Inspection!Leaf, Sent
  <2> QED
    BY <1>1, <2>1 DEF Inspection!Dated, Inspection!ToSet, Sent
<1>4. IsFiniteSet(D)
  <2>1. IsFiniteSet(Sent \cup Climbed)
    BY <1>2, FS_Union
  <2> HIDE DEF D, Climbed
  <2> QED
    BY <1>3, <2>1, FS_Subset
<1>5. D \subseteq Names
  BY <1>1, <1>3, GivenTyped, ElementOfSeq
<1>6. \A c \in D : certs[c].from \in Int /\ certs[c].to \in Int
  BY <1>5, GivenTyped
<1> HIDE DEF D
<1>7. From \in SUBSET Int /\ From # {} /\ IsFiniteSet(From)
  <2>1. [c \in D |-> certs[c].from] \in Surjection(D, From)
    BY DEF Surjection
  <2>2. IsFiniteSet(From)
    BY <1>4, <2>1, FS_Surjection
  <2> QED
    BY <1>3, <1>6, <2>2
<1>8. To \in SUBSET Int /\ To # {} /\ IsFiniteSet(To)
  <2>1. [c \in D |-> certs[c].to] \in Surjection(D, To)
    BY DEF Surjection
  <2>2. IsFiniteSet(To)
    BY <1>4, <2>1, FS_Surjection
  <2> QED
    BY <1>3, <1>6, <2>2
<1>9. t \in Inspection!Max(From) .. Inspection!Min(To) - 1
  BY DEF D
<1>10. /\ Inspection!Max(From) \in Int /\ \A k \in From : k <= Inspection!Max(From)
       /\ Inspection!Min(To) \in Int /\ \A k \in To : Inspection!Min(To) <= k
  <2> HIDE DEF From, To
  <2> QED
    BY <1>7, <1>8, LeastAndGreatest
<1>11. ASSUME NEW c \in D PROVE Inspection!InDate(c, t)
  <2>1. certs[c].from <= Inspection!Max(From) /\ Inspection!Min(To) <= certs[c].to
    BY <1>10
  <2> HIDE DEF From, To
  <2> QED
    BY <1>6, <1>9, <1>10, <2>1 DEF Inspection!InDate
<1> QED
  BY <1>11 DEF D

LEMMA LedHolds ==
  ASSUME Inspection!InspectAssumption, Given, ~Inspection!Refused, Inspection!AnchorsAreCas,
         Inspection!Class(Inspection!Reasons) = "valid", NEW path, NEW k, Leads(path, k),
         NEW t, \A c \in Inspection!Dated : Inspection!InDate(c, t)
  PROVE  Inspection!Holds(path, t)
<1>1. PICK root \in Names : root = Inspection!Way.root
  BY ValidMeans, WayClimbed DEF ClimbedTo, Ways
<1>2. PICK L \in Nat \ {0} : L = Len(chain)
  BY GivenTyped
<1>3. /\ k \in 1 .. L + 1 /\ Len(path) = k /\ path[k] = root
      /\ \A i \in 1 .. k - 1 : path[i] = chain[i] /\ chain[i] # root
      /\ (k <= L /\ chain[k] = root) \/ (k >= 2 /\ root \notin Sent)
  BY <1>1, <1>2 DEF Leads
<1>4. /\ DOMAIN chain = 1 .. L /\ DOMAIN anchors = 1 .. Len(anchors) /\ \A i \in 1 .. L : chain[i] \in Names
  BY <1>2, GivenTyped, LenProperties, ElementOfSeq
<1>5. path[1] = Inspection!Leaf /\ Inspection!Leaf = chain[1]
  <2>1. path \in Seq(Names) /\ path[1] = Inspection!Leaf
    BY LedPath DEF IsPath
  <2> QED
    BY <1>2, <2>1, GivenTyped DEF Inspection!Leaf
<1>6. PICK issuers : issuers = Inspection!Issuers
  OBVIOUS
<1>7. /\ DOMAIN issuers = 1 .. Len(issuers) /\ Len(issuers) \in Nat /\ Len(issuers) >= L - 1
      /\ \A i \in 1 .. L - 1 : issuers[i] = chain[i + 1]
      /\ root \notin Sent => Len(issuers) >= L /\ issuers[Len(issuers)] = root
  BY <1>1, <1>2, <1>6, IssuersAre, ValidMeans, LenProperties
<1>8. \A i \in 2 .. L : certs[chain[i]].ca
  BY <1>2 DEF Inspection!Refused
<1>9. ASSUME NEW i \in 2 .. k
      PROVE  certs[path[i]].ca /\ \E m \in 1 .. Len(issuers) : m >= i - 1 /\ issuers[m] = path[i]
  <2>1. CASE i \in 2 .. L /\ path[i] = chain[i]
    <3>1. i - 1 \in 1 .. L - 1 /\ (i - 1) + 1 = i /\ i - 1 \in 1 .. Len(issuers)
      BY <1>2, <1>7, <2>1
    <3>2. issuers[i - 1] = path[i]
      BY <1>7, <2>1, <3>1
    <3> QED
      BY <1>8, <2>1, <3>1, <3>2
  <2>2. CASE i = k /\ root \notin Sent
    <3>1. root \in Listed /\ root # Inspection!Leaf
      <4>1. Inspection!Leaf \in Sent
        BY <1>2, <1>5 DEF Sent
      <4> QED
        BY <1>1, <2>2, <4>1, WayClimbed, ValidMeans DEF ClimbedTo
    <3>2. certs[root].ca
      BY <1>4, <3>1 DEF Inspection!AnchorsAreCas, Inspection!ToSet, Listed
    <3>3. Len(issuers) \in 1 .. Len(issuers) /\ Len(issuers) >= i - 1 /\ issuers[Len(issuers)] = path[i]
      BY <1>2, <1>3, <1>7, <2>2
    <3> QED
      BY <1>3, <2>2, <3>2, <3>3
  <2>3. CASE i # k
    <3>1. i \in 1 .. k - 1 /\ i \in 2 .. L
      BY <1>2, <1>3, <2>3
    <3> QED
      BY <1>3, <2>1, <3>1
  <2>4. CASE i = k /\ k <= L /\ chain[k] = root
    BY <1>2, <1>3, <2>1, <2>4
  <2> QED
    BY <1>3, <2>2, <2>3, <2>4
<1>10. Inspection!InDate(path[1], t)
  BY <1>5 DEF Inspection!Dated
<1>11. ASSUME NEW i \in 2 .. k, i # k PROVE Inspection!InDate(path[i], t)
  <2>1. i \in 1 .. k - 1 /\ i \in 1 .. L
    BY <1>2, <1>3, <1>11
  <2>2. chain[i] \in Inspection!Dated
    BY <1>1, <1>3, <1>4, <2>1 DEF Inspection!Dated, Inspection!ToSet
  <2> QED
    BY <1>3, <2>1, <2>2
<1>12. ASSUME NEW i \in 2 .. k
       PROVE  LET c == certs[path[i]]
                  below == Inspection!Cardinality({j \in 2 .. i - 1 : ~Inspection!SelfIssued(path[j])})
              IN  ~c.forbids /\ (c.pathLength = None \/ below <= c.pathLength)
  <2>1. PICK m \in 1 .. Len(issuers) : m >= i - 1 /\ issuers[m] = path[i]
    BY <1>9
  <2>2. PICK below : below = Inspection!Cardinality({j \in 2 .. i - 1 : ~Inspection!SelfIssued(path[j])})
    OBVIOUS
  <2>3. ASSUME NEW j \in 2 .. i - 1 PROVE path[j] = issuers[j - 1]
    <3>1. j \in 1 .. k - 1 /\ j - 1 \in 1 .. L - 1 /\ (j - 1) + 1 = j
      BY <1>2, <1>3
    <3> QED
      BY <1>3, <1>7, <3>1
  <2>4. m \in Nat /\ i \in Nat /\ i - 1 <= m
    BY <1>3, <1>7, <2>1
  <2>5. below \in Nat /\ Inspection!Between(m) \in Nat /\ below <= Inspection!Between(m)
    BY <1>6, <2>2, <2>3, <2>4, BelowCounted
  <2>6. ~certs[issuers[m]].forbids
    BY <1>6, <1>7, ValidMeans
  <2>7. certs[issuers[m]].pathLength = None \/ ~(Inspection!Between(m) > certs[issuers[m]].pathLength)
    BY <1>6, <1>7, ValidMeans
  <2>8. certs[issuers[m]].pathLength \in Nat \cup {None}
    <3>1. issuers[m] \in Names
      BY <1>6, IssuersAre, ValidMeans, ElementOfSeq
    <3> QED
      BY <3>1, GivenTyped
  <2> QED
    BY <2>1, <2>2, <2>5, <2>6, <2>7, <2>8
<1>13. certs[path[1]].serverAuth /\ certs[path[1]].covers
  BY <1>5, ValidMeans
<1> QED
  BY <1>3, <1>9, <1>10, <1>11, <1>12, <1>13 DEF Inspection!Holds

(* Every path of that kind is among those a client may build. *)
LEMMA PathFound ==
  ASSUME Inspection!InspectAssumption, Given, NEW path, IsPath(path)
  PROVE  path \in Inspection!Paths
<1> DEFINE Known == Inspection!ToSet(chain) \cup Inspection!Roots
           Most == Inspection!Cardinality(Known)
           start == {<<Inspection!Leaf>>}
           IsPaths(g) == g = [n \in 1 .. Most |-> IF n = 1 THEN start ELSE Inspection!Longer(g[n - 1])]
           OfLength == CHOOSE g : IsPaths(g)
           D == SUBSET Seq(Names)
           next == [P \in D |-> Inspection!Longer(P)]
<1>1. Inspection!Paths = {p \in UNION {OfLength[n] : n \in 1 .. Most} : Inspection!Last(p) \in Inspection!Roots}
  BY DEF Inspection!Paths
<1>2. PICK k \in Nat \ {0} : k = Len(path)
  BY LenProperties DEF IsPath
<1>3. Known \subseteq Names /\ IsFiniteSet(Known)
  <2>1. Known = Sent \cup Inspection!Roots /\ Inspection!Roots \in SUBSET Listed
    BY GivenTyped, LenProperties DEF Inspection!ToSet, Inspection!Roots, Sent, Listed
  <2>2. IsFiniteSet(Sent) /\ IsFiniteSet(Listed)
    <3>1. PICK L \in Nat, M \in Nat : L = Len(chain) /\ M = Len(anchors)
      BY GivenTyped
    <3>2. [i \in 1 .. L |-> chain[i]] \in Surjection(1 .. L, Sent)
      BY <3>1 DEF Surjection, Sent
    <3>3. [i \in 1 .. M |-> anchors[i]] \in Surjection(1 .. M, Listed)
      BY <3>1 DEF Surjection, Listed
    <3>4. IsFiniteSet(1 .. L) /\ IsFiniteSet(1 .. M)
      BY FS_Interval
    <3> QED
      BY <3>2, <3>3, <3>4, FS_Surjection
  <2>3. IsFiniteSet(Inspection!Roots)
    BY <2>1, <2>2, FS_Subset
  <2>4. IsFiniteSet(Sent \cup Inspection!Roots)
    BY <2>2, <2>3, FS_Union
  <2> QED
    BY <2>1, <2>4, GivenTyped
<1>4. Most \in Nat /\ k <= Most
  <2>1. \A i \in 1 .. k : path[i] \in Known
    BY <1>2 DEF IsPath
  <2>2. \A i, j \in 1 .. k : path[i] = path[j] => i = j
    BY <1>2 DEF IsPath
  <2> HIDE DEF Known
  <2>3. [i \in 1 .. k |-> path[i]] \in Injection(1 .. k, Known)
    BY <2>1, <2>2 DEF Injection, IsInjective
  <2>4. Cardinality(1 .. k) <= Cardinality(Known)
    BY <1>3, <2>3, FS_Injection
  <2>5. Cardinality(1 .. k) = k
    <3>1. 1 \in Int /\ k \in Int
      BY <1>2
    <3>2. Cardinality(1 .. k) = IF 1 > k THEN 0 ELSE k - 1 + 1
      BY <3>1, FS_Interval
    <3> QED
      BY <3>2
  <2>6. Cardinality(Known) \in Nat
    BY <1>3, FS_CardinalityType
  <2>7. Inspection!Cardinality(Known) = Cardinality(Known)
    BY DEF Inspection!Cardinality, Inspection!IsFiniteSet, Cardinality, IsFiniteSet
  <2> QED
    BY <2>4, <2>5, <2>6, <2>7
<1>5. \A P : Inspection!Longer(P) =
        UNION {{Append(p, c) : c \in {d \in Known \ Inspection!ToSet(p) : Inspection!IssuedBy(Inspection!Last(p), d)}} :
                 p \in P}
  BY DEF Inspection!Longer
<1> HIDE DEF Known
<1>6. \A P \in D : Inspection!Longer(P) \in D
  <2> TAKE P \in D
  <2>1. ASSUME NEW q \in Inspection!Longer(P) PROVE q \in Seq(Names)
    <3>1. PICK p \in P, c \in Known : q = Append(p, c)
      BY <1>5, <2>1
    <3> QED
      BY <1>3, <3>1, AppendProperties
  <2> QED
    BY <2>1
<1>7. start \in D
  <2>1. Inspection!Leaf \in Names
    BY GivenTyped, HeadTailProperties DEF Inspection!Leaf
  <2> QED
    BY <2>1
<1> HIDE DEF Most, start
<1>8. PICK f : Recurs(f, D, start, next, 1, Most)
  <2>1. next \in [D -> D]
    BY <1>6
  <2>2. 1 \in Int /\ Most \in Int /\ 1 <= Most
    BY <1>4
  <2> HIDE DEF next, D
  <2> QED
    BY <1>7, <2>1, <2>2, Recursion
<1>9. f \in [1 .. Most -> D] /\ f[1] = start /\ \A n \in 1 + 1 .. Most : f[n] = next[f[n - 1]]
  BY <1>8 DEF Recurs
<1> HIDE DEF D
<1>10. IsPaths(f)
  <2>1. \A n \in 1 .. Most : f[n] = IF n = 1 THEN start ELSE Inspection!Longer(f[n - 1])
    <3> TAKE n \in 1 .. Most
    <3>1. CASE n = 1
      BY <1>9, <3>1
    <3>2. CASE n # 1
      <4>1. n \in 1 + 1 .. Most /\ n - 1 \in 1 .. Most
        BY <1>4, <3>2
      <4>2. f[n - 1] \in D
        BY <1>9, <4>1
      <4> QED
        BY <1>9, <3>2, <4>1, <4>2
    <3> QED
      BY <3>1, <3>2
  <2> QED
    BY <1>9, <2>1
<1>11. IsPaths(OfLength)
  <2> HIDE DEF IsPaths
  <2> QED
    BY <1>10
<1>12. OfLength[1] = start /\ \A n \in 2 .. Most : OfLength[n] = Inspection!Longer(OfLength[n - 1])
  <2> HIDE DEF OfLength
  <2> QED
    BY <1>2, <1>4, <1>11
<1> HIDE DEF OfLength, IsPaths, next
<1> DEFINE Prefix(n) == SubSeq(path, 1, n)
           S == {n \in 1 .. k : Prefix(n) \in OfLength[n]}
<1>13. ASSUME NEW n \in 1 .. k
       PROVE  Prefix(n) \in Seq(Names) /\ Len(Prefix(n)) = n /\ \A i \in 1 .. n : Prefix(n)[i] = path[i]
  <2>1. \A i \in 1 .. n : path[i] \in Names
    BY <1>2, ElementOfSeq DEF IsPath
  <2> QED
    BY <2>1, SubSeqProperties
<1>14. 1 \in S
  <2>1. <<Inspection!Leaf>> \in Seq(Names) /\ Len(<<Inspection!Leaf>>) = 1 /\ <<Inspection!Leaf>>[1] = Inspection!Leaf
    BY GivenTyped, HeadTailProperties DEF Inspection!Leaf
  <2>2. path[1] = Inspection!Leaf
    BY DEF IsPath
  <2>3. PICK one : one = Prefix(1)
    OBVIOUS
  <2>4. one \in Seq(Names) /\ Len(one) = 1 /\ one[1] = path[1]
    BY <1>2, <1>13, <2>3
  <2>5. one = <<Inspection!Leaf>>
    <3>1. \A i \in 1 .. Len(one) : one[i] = <<Inspection!Leaf>>[i]
      BY <2>1, <2>2, <2>4
    <3> QED
      BY <2>1, <2>4, <3>1, SeqEqual
  <2>6. Prefix(1) \in OfLength[1]
    BY <1>12, <2>3, <2>5 DEF start
  <2> HIDE DEF Prefix
  <2> QED
    BY <1>2, <2>6
<1>15. ASSUME NEW n \in 1 .. k - 1, n \in S PROVE n + 1 \in S
  <2>1. n \in 1 .. k /\ n + 1 \in 1 .. k /\ n + 1 \in 2 .. Most /\ (n + 1) - 1 = n
    BY <1>2, <1>4
  <2>2. PICK p, q : p = Prefix(n) /\ q = Prefix(n + 1)
    OBVIOUS
  <2>3. p \in OfLength[n] /\ p \in Seq(Names) /\ Len(p) = n /\ \A i \in 1 .. n : p[i] = path[i]
    BY <1>13, <1>15, <2>1, <2>2
  <2>4. q \in Seq(Names) /\ Len(q) = n + 1 /\ \A i \in 1 .. n + 1 : q[i] = path[i]
    BY <1>13, <2>1, <2>2
  <2>5. path[n + 1] \in Names /\ path[n + 1] \in Known
    <3>1. path[n + 1] \in Known
      BY <1>2, <2>1 DEF IsPath, Known
    <3> QED
      BY <1>3, <3>1
  <2>6. q = Append(p, path[n + 1])
    <3>1. PICK a : a = Append(p, path[n + 1])
      OBVIOUS
    <3>2. /\ a \in Seq(Names) /\ Len(a) = n + 1 /\ a[n + 1] = path[n + 1]
          /\ \A i \in 1 .. n : a[i] = p[i]
      BY <2>3, <2>5, <3>1, AppendProperties
    <3>3. \A i \in 1 .. n + 1 : q[i] = a[i]
      <4> TAKE i \in 1 .. n + 1
      <4>1. i \in 1 .. n \/ i = n + 1
        OBVIOUS
      <4> QED
        BY <2>3, <2>4, <3>2, <4>1
    <3>4. q = a
      BY <2>4, <3>2, <3>3, SeqEqual
    <3> QED
      BY <3>1, <3>4
  <2>7. path[n + 1] \notin Inspection!ToSet(p)
    <3>1. DOMAIN p = 1 .. n
      BY <2>3, LenProperties
    <3>2. \A i \in 1 .. n : path[i] # path[n + 1]
      BY <1>2, <2>1 DEF IsPath
    <3> QED
      BY <2>3, <3>1, <3>2 DEF Inspection!ToSet
  <2>8. Inspection!IssuedBy(Inspection!Last(p), path[n + 1])
    <3>1. Inspection!Last(p) = path[n]
      BY <2>1, <2>3 DEF Inspection!Last
    <3>2. Inspection!IssuedBy(path[n], path[n + 1])
      BY <1>2 DEF IsPath
    <3> QED
      BY <3>1, <3>2
  <2>9. q \in Inspection!Longer(OfLength[n])
    <3>1. path[n + 1] \in
            {d \in Known \ Inspection!ToSet(p) : Inspection!IssuedBy(Inspection!Last(p), d)}
      BY <2>5, <2>7, <2>8
    <3>2. q \in {Append(p, c) : c \in {d \in Known \ Inspection!ToSet(p) : Inspection!IssuedBy(Inspection!Last(p), d)}}
      BY <2>6, <3>1
    <3>3. PICK P : P = OfLength[n]
      OBVIOUS
    <3>4. p \in P
      BY <2>3, <3>3
    <3>5. q \in Inspection!Longer(P)
      BY <1>5, <3>2, <3>4
    <3> QED
      BY <3>3, <3>5
  <2>10. OfLength[n + 1] = Inspection!Longer(OfLength[n])
    BY <1>12, <2>1
  <2>11. Prefix(n + 1) \in OfLength[n + 1]
    BY <2>2, <2>9, <2>10
  <2> HIDE DEF Prefix
  <2> QED
    BY <2>1, <2>11
<1>16. path \in OfLength[k]
  <2> HIDE DEF S
  <2>1. \A n \in 1 .. k : n \in S
    <3>1. 1 \in Int /\ k \in Int /\ 1 \in S
      BY <1>2, <1>14
    <3>2. \A n \in 1 .. k - 1 : n \in S => n + 1 \in S
      BY <1>15
    <3> HIDE DEF Prefix
    <3> QED
      BY <3>1, <3>2, Upwards
  <2>2. Prefix(k) \in OfLength[k]
    BY <1>2, <2>1 DEF S
  <2>3. path = Prefix(k)
    BY <1>2, SubSeqFull DEF IsPath
  <2> QED
    BY <2>2, <2>3
<1>17. Inspection!Last(path) \in Inspection!Roots
  BY DEF IsPath, Inspection!Last
<1> QED
  BY <1>1, <1>2, <1>4, <1>16, <1>17

(***************************************************************************)
(* What was found holds on: neither the certificates nor the chain change. *)
(***************************************************************************)
Found ==
  result # None /\ Inspection!AnchorsAreCas => (result.class = "valid" =>
    \A t \in result.notBefore .. result.notAfter - 1 :
      \E path : IsPath(path) /\ Inspection!Holds(path, t))

LEMMA InspectFinds ==
  ASSUME Inspection!InspectAssumption, Given, Inspection!AnchorsAreCas,
         Inspection!Inspected.class = "valid",
         NEW t \in Inspection!Inspected.notBefore .. Inspection!Inspected.notAfter - 1
  PROVE  \E path : IsPath(path) /\ Inspection!Holds(path, t)
<1>1. ~Inspection!Refused
  BY DEF Inspection!Inspected
<1>2. /\ Inspection!Class(Inspection!Reasons) = "valid"
      /\ t \in Inspection!Max({certs[c].from : c \in Inspection!Dated})
                 .. Inspection!Min({certs[c].to : c \in Inspection!Dated}) - 1
  BY <1>1 DEF Inspection!Inspected
<1>3. PICK path, k : Leads(path, k)
  BY <1>1, <1>2, ChainLeads
<1>4. IsPath(path)
  BY <1>1, <1>2, <1>3, LedPath
<1>5. \A c \in Inspection!Dated : Inspection!InDate(c, t)
  BY <1>2, DatedInDate
<1>6. Inspection!Holds(path, t)
  BY <1>1, <1>2, <1>3, <1>5, LedHolds
<1> QED
  BY <1>4, <1>6

LEMMA SamePaths ==
  ASSUME UNCHANGED <<certs, chain, anchors>>
  PROVE  /\ Given' <=> Given
         /\ Inspection!AnchorsAreCas' <=> Inspection!AnchorsAreCas
         /\ \A path : IsPath(path)' <=> IsPath(path)
         /\ \A path, t : Inspection!Holds(path, t)' <=> Inspection!Holds(path, t)
<1>1. Given' <=> Given
  BY DEF Given
<1>2. Inspection!AnchorsAreCas' <=> Inspection!AnchorsAreCas
  BY DEF Inspection!AnchorsAreCas, Inspection!ToSet, Inspection!Leaf
<1>3. ASSUME NEW path PROVE IsPath(path)' <=> IsPath(path)
  BY DEF IsPath, Names, Inspection!Leaf, Inspection!ToSet, Inspection!Roots, Inspection!SelfIssued,
         Inspection!IssuedBy, Inspection!ChecksIssued, Inspection!Verifies
<1>4. ASSUME NEW path, NEW t PROVE Inspection!Holds(path, t)' <=> Inspection!Holds(path, t)
  BY DEF Inspection!Holds, Inspection!InDate, Inspection!SelfIssued, Inspection!IssuedBy,
         Inspection!ChecksIssued, Inspection!Verifies
<1> QED
  BY <1>1, <1>2, <1>3, <1>4

(* What is classed as valid a client accepts, while its dates say so         *)
(* (inspect.ts:182-256).                                                     *)
THEOREM AcceptedCorrect ==
  ASSUME Inspection!InspectAssumption PROVE Inspection!Spec => []Inspection!ValidIsAccepted
<1>1. Inspection!Init => Given /\ Found
  BY DEF Inspection!Init, Given, Found
<1>2. ASSUME Given, Found, [Inspection!Next]_(Inspection!vars) PROVE Given' /\ Found'
  <2>1. UNCHANGED <<certs, chain, anchors>>
    BY <1>2 DEF Inspection!Next, Inspection!InspectMaterial, Inspection!vars
  <2>2. CASE UNCHANGED result
    BY <1>2, <2>1, <2>2, SamePaths DEF Found
  <2>3. CASE result' = Inspection!Inspected
    <3>1. SUFFICES ASSUME Inspection!AnchorsAreCas', result'.class = "valid",
                          NEW t \in result'.notBefore .. result'.notAfter - 1
                   PROVE  (\E path : IsPath(path) /\ Inspection!Holds(path, t))'
      BY <1>2, <2>1, SamePaths DEF Found
    <3>2. PICK path : IsPath(path) /\ Inspection!Holds(path, t)
      BY <1>2, <2>1, <2>3, <3>1, InspectFinds, SamePaths
    <3> QED
      BY <2>1, <3>2, SamePaths
  <2> QED
    BY <1>2, <2>2, <2>3 DEF Inspection!Next, Inspection!InspectMaterial, Inspection!vars
<1>3. Given /\ Found => Inspection!ValidIsAccepted
  BY PathFound DEF Found, Inspection!ValidIsAccepted, Inspection!Accepts
<1> QED
  BY <1>1, <1>2, <1>3, PTL DEF Inspection!Spec
=============================================================================
