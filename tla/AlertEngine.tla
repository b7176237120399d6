----------------------------- MODULE AlertEngine -----------------------------
(***************************************************************************)
(* packages/alerts: startAlerts checks every rule against every metric it  *)
(* watches; alert rows are its only lasting state.  A check is one         *)
(* synchronous run: nothing but the end of the process comes between its   *)
(* statements, and any of them may throw.  Around it: the collector stores *)
(* readings, housekeeping rolls up and prunes them, rules are saved from   *)
(* the browser, the certificate changes, the wall clock is set.            *)
(***************************************************************************)
EXTENDS AlertEvaluate, Sequences

CONSTANTS
  Metrics,             \* what rules watch, "certificate" included
  RuleSets,            \* the rules that may be in force: functions from rule ids
  Targets,             \* [rule id -> the metrics it watches]
  Certificates0,       \* what the context may say of the served certificate
  Alerts0,             \* what the alerts table may hold at first
  CHECK_INTERVAL, CLOCK_JUMP, CLOCK_ACCEPT,
  RAW_KEPT, BUCKET,    \* housekeeping: raw retention and the rollup's grain
  Polled, Values,      \* the metrics with readings, and what these may be
  Offsets0, Offsets,   \* what the wall clock may be off by at first, and be set to
  Incidents,           \* what may come between: "crash", "throw", "acknowledge"
  MaxTime, MaxSets, MaxChanges, MaxAlerts   \* bounds

RuleIds == UNION {DOMAIN rules : rules \in RuleSets}

ASSUME EngineAssumption ==
  /\ \A rs \in RuleSets : rs \in [DOMAIN rs -> Rules]
  /\ Targets \in [RuleIds -> SUBSET Metrics] /\ Certificates0 \subseteq Certificates
  /\ CHECK_INTERVAL \in Nat \ {0} /\ CLOCK_JUMP \in Nat /\ CLOCK_ACCEPT \in Nat
  /\ RAW_KEPT \in Nat /\ BUCKET \in Nat \ {0}
  /\ Polled \subseteq Metrics /\ Values \subseteq {"hot", "cool"}
  /\ Offsets0 \subseteq Int /\ Offsets \subseteq Int
  /\ MaxTime \in Nat /\ MaxSets \in Nat /\ MaxChanges \in Nat /\ MaxAlerts \in Nat

(* An alert as a row of its table, with what the properties ask about it.   *)
(* One raised before the table had a column for it has no hash.             *)
Keys == RuleIds \X Metrics
NoHash == << >>
Hashes == {RuleHash(rule) : rule \in UNION {{rs[id] : id \in DOMAIN rs} : rs \in RuleSets}}
Alerts == [key: Keys, hash: Hashes \cup {NoHash}, raisedAt: Int, clearedAt: Int,
           clearedBy: {"open", "condition", "rule_removed", "rule_changed"},
           acknowledged: BOOLEAN, raisedMono: Nat, clearedMono: Nat, quiet: Int,
           heard: BOOLEAN, credible: BOOLEAN]

ASSUME AlertsAssumption ==
  \A table \in Alerts0 :
    /\ table \in Seq(Alerts)
    /\ \A a \in DOMAIN table : table[a].hash = NoHash /\ table[a].clearedBy = "open"
    /\ \A a, b \in DOMAIN table : table[a].key = table[b].key => a = b

VARIABLES
  wall, mono,          \* Date.now() and performance.now()
  sets, changes,       \* how often the clock, the rules or the certificate changed
  readings,            \* the metrics table: metric -> stamp -> "hot" or "cool"
  rollups,             \* the starts of the rollup buckets that hold readings
  rules, certificate,  \* what a check would read now
  alerts,              \* the alerts table, in order of id
  check,               \* the engine: "down", "due", or where its check stands
  since, checked, lastCheck,
  anchor, ahead, aheadSince,
  startedAt, soundAt,  \* history: the process's start, its last check on a sound clock
  takenAt,             \* history: when each metric's newest reading was taken
  inForce              \* history: the rules of the last check that ran to its end

clocks == <<wall, mono, sets>>
world == <<readings, rollups, rules, certificate, changes, takenAt>>
clockState == <<since, checked, lastCheck, anchor, ahead, aheadSince, startedAt, soundAt>>
vars == <<clocks, world, alerts, check, clockState, inForce>>

KeysOf(rs) == {key \in (DOMAIN rs) \X Metrics : key[2] \in Targets[key[1]]}
NoCheck(pc) == [pc |-> pc, t |-> 0, trusted |-> 0, rules |-> << >>, todo |-> {}]

Open == {a \in DOMAIN alerts : alerts[a].clearedBy = "open"}
(* Mutant: an alert someone has seen no longer counts. *)
UnseenFor(key) == {a \in Open : alerts[a].key = key /\ ~alerts[a].acknowledged}
OpenFor(key) == {a \in Open : alerts[a].key = key}
Between == check.pc \in {"down", "idle"}

(***************************************************************************)
(* trustedNow: a clock that suddenly runs far ahead of elapsed time is not *)
(* believed until it has stayed there for CLOCK_ACCEPT.                    *)
(***************************************************************************)
Expected == anchor.wall + (mono - anchor.mono)
FarAhead == checked /\ wall - Expected > CLOCK_JUMP
AheadFrom == IF ahead THEN aheadSince ELSE mono
(* Mutant: whatever the clock says is believed. *)
NeverDisbelieved == FALSE
Disbelieved == FarAhead /\ mono - AheadFrom < CLOCK_ACCEPT
TrustedNow == IF Disbelieved THEN Expected ELSE wall
ReadTrusted ==
  /\ ahead' = Disbelieved
  /\ aheadSince' = IF Disbelieved THEN AheadFrom ELSE 0
  /\ anchor' = IF Disbelieved THEN anchor ELSE [wall |-> wall, mono |-> mono]

(* History: the wall clock is off by no more than the jump believed at once. *)
Sound == wall - mono <= CLOCK_JUMP

(* Silence is counted afresh after the clock went back or leapt. *)
(* Mutant: only a step back is noticed. *)
WentBack == checked /\ wall < lastCheck
Jumped == checked /\ (wall < lastCheck \/ wall - lastCheck > 3 * CHECK_INTERVAL)

BeginCheck ==
  /\ check.pc \in {"due", "idle"}
  /\ ReadTrusted
  /\ since' = IF Jumped THEN wall ELSE since
  /\ checked' = TRUE /\ lastCheck' = wall
  /\ soundAt' = IF Sound THEN <<mono>> ELSE soundAt
  /\ check' = [pc |-> "checking", t |-> wall, trusted |-> TrustedNow, rules |-> rules,
               todo |-> KeysOf(rules)]
  /\ inForce' = << >>
  /\ UNCHANGED <<clocks, world, alerts, startedAt>>

(* Open alerts a check closes before it evaluates anything: of a rule or a  *)
(* metric no longer watched, or raised under another version of the rule,   *)
(* which an alert without a hash does not tell.                             *)
Removed(a) == alerts[a].key \notin KeysOf(check.rules)
Changed(a) == /\ ~Removed(a) /\ alerts[a].hash # NoHash
              /\ alerts[a].hash # RuleHash(check.rules[alerts[a].key[1]])
(* Mutant: an edited rule keeps the alerts its older version raised. *)
OfRemoved == {a \in Open : Removed(a)}
Stale == {a \in Open : Removed(a) \/ Changed(a)}

Checking == check.pc = "checking"
ClearAlert(a, by) ==
  alerts' = [alerts EXCEPT ![a] =
    [@ EXCEPT !.clearedBy = by, !.clearedMono = mono,
              !.clearedAt = IF check.t < alerts[a].raisedAt THEN alerts[a].raisedAt ELSE check.t,
              !.heard = alerts[a].key[2] \in DOMAIN takenAt /\ takenAt[alerts[a].key[2]] >= alerts[a].raisedMono]]

CloseRemoved(a) ==
  /\ Checking /\ a \in Stale /\ Removed(a)
  /\ ClearAlert(a, "rule_removed")
  /\ UNCHANGED <<clocks, world, check, clockState, inForce>>

CloseChanged(a) ==
  /\ Checking /\ a \in Stale /\ Changed(a)
  /\ ClearAlert(a, "rule_changed")
  /\ UNCHANGED <<clocks, world, check, clockState, inForce>>

(* Silence counts from the newest reading even once it has been pruned. *)
Heard(metric) == IF Believed(DOMAIN readings[metric], check.t) # {} THEN DOMAIN readings[metric]
                 ELSE rollups[metric]
Decision(key) ==
  LET rule == check.rules[key[1]]
      open == OpenFor(key) # {}
  IN  IF IsCertificateRule(rule) THEN EvaluateCertificate(rule, certificate, check.trusted, open)
      ELSE Evaluate(rule, readings[key[2]], Heard(key[2]), check.t, since, open)

Evaluating(key) == Checking /\ Stale = {} /\ key \in check.todo
Done(key) == check' = [check EXCEPT !.todo = @ \ {key}]

(* History kept with a raise: how long the metric had been silent, in       *)
(* elapsed time, and whether the clock could be believed, or did not matter *)
(* as the certificate was over anyway: an offset of 0 is the right time.    *)
Quiet(metric) == LET heard == IF metric \in DOMAIN takenAt THEN takenAt[metric] ELSE startedAt
                 IN  mono - (IF heard < startedAt THEN startedAt ELSE heard)
Credible == \/ Sound \/ soundAt = << >> \/ certificate.notAfter <= mono + CLOCK_JUMP
            \/ mono - soundAt[1] >= CLOCK_ACCEPT

Raises(key) ==
  /\ Evaluating(key) /\ Decision(key) = "raise" /\ OpenFor(key) = {}
  /\ Len(alerts) < MaxAlerts
  /\ alerts' = Append(alerts,
       [key |-> key, hash |-> RuleHash(check.rules[key[1]]), raisedAt |-> check.t,
        clearedAt |-> check.t, clearedBy |-> "open", acknowledged |-> FALSE,
        raisedMono |-> mono, clearedMono |-> mono, quiet |-> Quiet(key[2]), heard |-> FALSE,
        credible |-> Credible])
  /\ Done(key)
  /\ UNCHANGED <<clocks, world, clockState, inForce>>

Clears(key) ==
  /\ Evaluating(key) /\ Decision(key) = "clear"
  /\ \E a \in OpenFor(key) : ClearAlert(a, "condition")
  /\ Done(key)
  /\ UNCHANGED <<clocks, world, clockState, inForce>>

Leaves(key) ==
  /\ Evaluating(key) /\ Decision(key) = "none"
  /\ Done(key)
  /\ UNCHANGED <<clocks, world, alerts, clockState, inForce>>

(* A rule that fails is reported, and the rest still run. *)
RuleFails(key) ==
  /\ "throw" \in Incidents /\ Evaluating(key)
  /\ Done(key)
  /\ UNCHANGED <<clocks, world, alerts, clockState, inForce>>

EndCheck ==
  /\ Checking /\ Stale = {} /\ check.todo = {}
  /\ check' = NoCheck("idle")
  /\ inForce' = <<check.rules>>
  /\ UNCHANGED <<clocks, world, alerts, clockState>>

(* Reading the rules or the open alerts, or closing one, fails: the next    *)
(* check tries again.                                                       *)
CheckFails ==
  /\ "throw" \in Incidents /\ Checking
  /\ Stale # {} \/ check.todo = KeysOf(check.rules)
  /\ check' = NoCheck("idle")
  /\ UNCHANGED <<clocks, world, alerts, clockState, inForce>>

(* The API: only an open alert can be acknowledged, and only once. *)
Acknowledge(a) ==
  /\ "acknowledge" \in Incidents
  /\ Between /\ check.pc # "down" /\ a \in Open /\ ~alerts[a].acknowledged
  /\ alerts' = [alerts EXCEPT ![a] = [@ EXCEPT !.acknowledged = TRUE]]
  /\ UNCHANGED <<clocks, world, check, clockState, inForce>>

(***************************************************************************)
(* Around the engine.                                                      *)
(***************************************************************************)
Reads(metric, value) ==
  /\ check.pc = "idle"
  /\ metric \in DOMAIN takenAt => takenAt[metric] < mono
  /\ readings' = [readings EXCEPT ![metric] =
                    [ts \in DOMAIN @ \cup {wall} |-> IF ts = wall THEN value ELSE @[ts]]]
  /\ takenAt' = [m \in DOMAIN takenAt \cup {metric} |-> IF m = metric THEN mono ELSE takenAt[m]]
  /\ UNCHANGED <<clocks, rollups, rules, certificate, changes, alerts, check, clockState, inForce>>

(* Housekeeping may not believe a leap of the clock yet, hence its now.  It  *)
(* rolls up the buckets that closed since it last did, then deletes what is  *)
(* both rolled up and past raw retention, which no rule's look-back exceeds. *)
BucketOf(ts) == (ts \div BUCKET) * BUCKET
Closed(metric, now) == {ts \in DOMAIN readings[metric] : ts < BucketOf(now)}
NotRolledUp(ts, now) ==
  \A m \in Metrics : \A start \in rollups[m] : start < BucketOf(now) => start + BUCKET <= ts
PastRetention(ts, now) ==
  /\ ts < now - RAW_KEPT
  /\ \A id \in DOMAIN rules : ts < now - rules[id].for /\ ts < now - rules[id].clearAfter

Housekeeping(now) ==
  /\ check.pc = "idle" /\ now <= wall
  /\ rollups' = [m \in Metrics |->
        rollups[m] \cup {BucketOf(ts) : ts \in {t \in Closed(m, now) : NotRolledUp(t, now)}}]
  /\ readings' = [m \in Metrics |->
        [ts \in DOMAIN readings[m] \ {t \in Closed(m, now) : PastRetention(t, now)} |-> readings[m][ts]]]
  /\ UNCHANGED <<clocks, rules, certificate, changes, takenAt, alerts, check, clockState, inForce>>

SavesRules(rs) ==
  /\ Between /\ changes < MaxChanges /\ rs # rules
  /\ rules' = rs /\ changes' = changes + 1
  /\ UNCHANGED <<clocks, readings, rollups, certificate, takenAt, alerts, check, clockState, inForce>>

CertificateChanges(c) ==
  /\ Between /\ changes < MaxChanges /\ c # certificate
  /\ certificate' = c /\ changes' = changes + 1
  /\ UNCHANGED <<clocks, readings, rollups, rules, takenAt, alerts, check, clockState, inForce>>

Start ==
  /\ check.pc = "down"
  /\ check' = NoCheck("due")
  /\ since' = wall /\ startedAt' = mono
  /\ UNCHANGED <<clocks, world, alerts, checked, lastCheck, anchor, ahead, aheadSince, soundAt, inForce>>

Crash ==
  /\ "crash" \in Incidents /\ check.pc # "down"
  /\ check' = NoCheck("down")
  /\ checked' = FALSE /\ lastCheck' = 0 /\ since' = 0
  /\ anchor' = [wall |-> 0, mono |-> 0] /\ ahead' = FALSE /\ aheadSince' = 0
  /\ soundAt' = << >> /\ startedAt' = 0
  /\ UNCHANGED <<clocks, world, alerts, inForce>>

Tick ==
  /\ Between /\ mono < MaxTime
  /\ wall' = wall + 1 /\ mono' = mono + 1
  /\ UNCHANGED <<sets, world, alerts, check, clockState, inForce>>

ClockSet(offset) ==
  /\ Between /\ sets < MaxSets /\ wall # mono + offset
  /\ wall' = mono + offset /\ sets' = sets + 1
  /\ UNCHANGED <<mono, world, alerts, check, clockState, inForce>>

Init ==
  /\ wall \in Offsets0 /\ mono = 0 /\ sets = 0 /\ changes = 0
  /\ readings = [m \in Metrics |-> << >>] /\ rollups = [m \in Metrics |-> {}]
  /\ rules \in RuleSets /\ certificate \in Certificates0
  /\ alerts \in Alerts0 /\ check = NoCheck("down")
  /\ since = 0 /\ checked = FALSE /\ lastCheck = 0
  /\ anchor = [wall |-> 0, mono |-> 0] /\ ahead = FALSE /\ aheadSince = 0
  /\ startedAt = 0 /\ soundAt = << >> /\ takenAt = << >> /\ inForce = << >>

CheckStep ==
  \/ BeginCheck \/ EndCheck \/ CheckFails
  \/ \E a \in 1 .. Len(alerts) : CloseRemoved(a) \/ CloseChanged(a)
  \/ \E key \in RuleIds \X Metrics : Raises(key) \/ Clears(key) \/ Leaves(key) \/ RuleFails(key)

WorldStep ==
  \/ \E m \in Polled, value \in Values : Reads(m, value)
  \/ \E now \in {wall} \cup {mono + offset : offset \in {o \in Offsets0 : sets > 0}} : Housekeeping(now)
  \/ \E rs \in RuleSets : SavesRules(rs)
  \/ \E c \in Certificates0 : CertificateChanges(c)
  \/ \E a \in 1 .. Len(alerts) : Acknowledge(a)
  \/ Start \/ Crash \/ Tick \/ \E offset \in Offsets : ClockSet(offset)

Next == CheckStep \/ WorldStep
Spec == Init /\ [][Next]_vars

(***************************************************************************)
(* Properties.                                                             *)
(***************************************************************************)
ClocksTyped == wall \in Int /\ mono \in Nat /\ sets \in Nat

WorldTyped ==
  /\ DOMAIN readings = Metrics /\ readings = [m \in Metrics |-> readings[m]]
  /\ \A m \in Metrics : /\ DOMAIN readings[m] \subseteq Int
                         /\ readings[m] \in [DOMAIN readings[m] -> {"hot", "cool"}]
  /\ rollups \in [Metrics -> SUBSET Int]
  /\ rules \in RuleSets /\ certificate \in Certificates0 /\ changes \in Nat
  /\ DOMAIN takenAt \subseteq Metrics /\ takenAt \in [DOMAIN takenAt -> Nat]

CheckTyped ==
  /\ check = [pc |-> check.pc, t |-> check.t, trusted |-> check.trusted,
              rules |-> check.rules, todo |-> check.todo]
  /\ check.pc \in {"down", "due", "idle", "checking"}
  /\ check.t \in Int /\ check.trusted \in Int
  /\ Checking => check.rules \in RuleSets /\ check.todo \subseteq KeysOf(check.rules)

EngineTyped ==
  /\ since \in Int /\ checked \in BOOLEAN /\ lastCheck \in Int
  /\ anchor \in [wall: Int, mono: Nat] /\ ahead \in BOOLEAN /\ aheadSince \in Nat
  /\ startedAt \in Nat /\ soundAt \in Seq(Nat) /\ inForce \in Seq(RuleSets)

(* Every variable keeps its type: none of the clocks' differences lands in   *)
(* another clock's variable (engine.ts:114-128), and a check only evaluates  *)
(* what the rules it read watch.                                             *)
TypeOK == ClocksTyped /\ WorldTyped /\ alerts \in Seq(Alerts) /\ CheckTyped /\ EngineTyped

(* A rule has at most one open alert per metric, whatever crashes, failures  *)
(* and edits come between: the unique index (migrations.ts:153) never        *)
(* refuses a raise.                                                          *)
AtMostOneOpen == \A a, b \in Open : alerts[a].key = alerts[b].key => a = b

(* From the end of one check to the next, also across a restart, every open  *)
(* alert is of a rule then in force that watches its metric, and, if it has  *)
(* a hash, in the version that raised it (engine.ts:142-151).  One raised    *)
(* before alerts had a hash stays open across edits of its rule, but never   *)
(* across its removal.                                                       *)
OpenMatchesRules ==
  inForce # << >> =>
    \A a \in Open : /\ alerts[a].key \in KeysOf(inForce[1])
                    /\ alerts[a].hash \in {NoHash, RuleHash(inForce[1][alerts[a].key[1]])}

(* What raised it, of those raised by this version of the program. *)
RaisedBy(a, condition) == alerts[a].hash # NoHash /\ alerts[a].hash[1] = condition
Threshold(a) == RaisedBy(a, "hot")
ByCondition(a) == alerts[a].clearedBy = "condition"

(* A threshold alert does not flap: from its raise to its clear at least     *)
(* clearAfter passes, less the two polls a window may lack (evaluate.ts      *)
(* :62-91), also when the clock leaps ahead, past a window's gap, between,   *)
(* but not when it is set back.                                              *)
HysteresisHolds ==
  \A a \in DOMAIN alerts :
    (Threshold(a) /\ ByCondition(a) /\ alerts[a].hash[3] > 0)
      => alerts[a].clearedMono - alerts[a].raisedMono >= alerts[a].hash[3] - 2 * INTERVAL

(* "A gap in collection never clears an alert" (evaluate.ts:88-89): when a   *)
(* threshold alert clears, its metric was read since it was raised.          *)
GapNeverClears ==
  \A a \in DOMAIN alerts : Threshold(a) /\ ByCondition(a) => alerts[a].heard

(* Silence is never counted from before the engine's start or its last clock *)
(* jump (evaluate.ts:24-25): a silence alert means that for its limit of     *)
(* elapsed time the engine ran and the metric was not read, but for the      *)
(* grain of the rollup that stands in for pruned readings.                   *)
SilenceIsElapsed ==
  \A a \in DOMAIN alerts :
    RaisedBy(a, "silent") => alerts[a].quiet > alerts[a].hash[4] - BUCKET

(* No certificate is called expired on a clock that just leapt ahead: once a *)
(* check saw a sound clock, a clock far ahead is believed no sooner than     *)
(* CLOCK_ACCEPT later (engine.ts:108-128).                                   *)
CertificateOnSoundClock ==
  \A a \in DOMAIN alerts : RaisedBy(a, "expired") => alerts[a].credible
=============================================================================
