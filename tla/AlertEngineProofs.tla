--------------------------- MODULE AlertEngineProofs ---------------------------
(***************************************************************************)
(* The engine's types, that an alert is open once, and that what stays     *)
(* open after a check matches its rules: for every set of rules, metrics   *)
(* and readings, every way the clock is set, and whatever fails or ends    *)
(* between two statements of a check.                                      *)
(***************************************************************************)
EXTENDS AlertEngine, SequenceTheorems, FiniteSetTheorems, TLAPS

(***************************************************************************)
(* What the three ways to write the alerts table do to it.                 *)
(***************************************************************************)
LEMMA ClearWrites ==
  ASSUME alerts \in Seq(Alerts), CheckTyped, mono \in Nat, NEW a \in Open,
         NEW by \in {"condition", "rule_removed", "rule_changed"}, ClearAlert(a, by)
  PROVE  /\ alerts' \in Seq(Alerts) /\ DOMAIN alerts' = DOMAIN alerts
         /\ Open' = Open \ {a}
         /\ \A b \in Open' : alerts'[b] = alerts[b]
<1> DEFINE metric == alerts[a].key[2]
           row == [alerts[a] EXCEPT !.clearedBy = by, !.clearedMono = mono,
                     !.clearedAt = IF check.t < alerts[a].raisedAt THEN alerts[a].raisedAt ELSE check.t,
                     !.heard = metric \in DOMAIN takenAt /\ takenAt[metric] >= alerts[a].raisedMono]
<1>1. a \in 1 .. Len(alerts) /\ alerts[a] \in Alerts
  BY DEF Open
<1>2. alerts' = [alerts EXCEPT ![a] = row]
  BY DEF ClearAlert
<1>3. row \in Alerts
  BY <1>1 DEF Alerts, CheckTyped
<1>4. row.clearedBy # "open"
  BY <1>1 DEF Alerts
<1> HIDE DEF row
<1>5. alerts' \in Seq(Alerts) /\ Len(alerts') = Len(alerts)
  BY <1>1, <1>2, <1>3, ExceptSeq
<1>6. DOMAIN alerts' = DOMAIN alerts /\ alerts'[a] = row
        /\ \A b \in DOMAIN alerts : b # a => alerts'[b] = alerts[b]
  BY <1>1, <1>2
<1> QED
  BY <1>4, <1>5, <1>6 DEF Open

LEMMA AcknowledgeWrites ==
  ASSUME alerts \in Seq(Alerts), NEW a, Acknowledge(a)
  PROVE  /\ alerts' \in Seq(Alerts) /\ Open' = Open
         /\ \A b \in Open : alerts'[b].key = alerts[b].key /\ alerts'[b].hash = alerts[b].hash
<1> DEFINE row == [alerts[a] EXCEPT !.acknowledged = TRUE]
<1>1. a \in 1 .. Len(alerts) /\ alerts[a] \in Alerts
  BY DEF Open, Acknowledge
<1>2. alerts' = [alerts EXCEPT ![a] = row]
  BY DEF Acknowledge
<1>3. /\ row \in Alerts /\ row.clearedBy = alerts[a].clearedBy
      /\ row.key = alerts[a].key /\ row.hash = alerts[a].hash
  BY <1>1 DEF Alerts
<1> HIDE DEF row
<1>4. alerts' \in Seq(Alerts) /\ Len(alerts') = Len(alerts)
  BY <1>1, <1>2, <1>3, ExceptSeq
<1>5. DOMAIN alerts' = DOMAIN alerts /\ alerts'[a] = row
        /\ \A b \in DOMAIN alerts : b # a => alerts'[b] = alerts[b]
  BY <1>1, <1>2
<1> QED
  BY <1>3, <1>4, <1>5 DEF Open

LEMMA KeysOfRules ==
  ASSUME NEW rs \in RuleSets, NEW key \in KeysOf(rs)
  PROVE  key \in Keys /\ key[1] \in DOMAIN rs /\ RuleHash(rs[key[1]]) \in Hashes
<1>1. DOMAIN rs \subseteq RuleIds
  BY DEF RuleIds
<1>2. key[1] \in DOMAIN rs /\ key \in RuleIds \X Metrics
  BY <1>1 DEF KeysOf
<1>3. rs[key[1]] \in UNION {{other[id] : id \in DOMAIN other} : other \in RuleSets}
  BY <1>2
<1> QED
  BY <1>2, <1>3 DEF Keys, Hashes

LEMMA RaiseWrites ==
  ASSUME TypeOK, NEW key \in RuleIds \X Metrics, Raises(key)
  PROVE  /\ alerts' \in Seq(Alerts)
         /\ Open' = Open \cup {Len(alerts) + 1}
         /\ alerts'[Len(alerts) + 1].key = key
         /\ \A b \in Open : alerts'[b] = alerts[b]
<1> DEFINE row == [key |-> key, hash |-> RuleHash(check.rules[key[1]]), raisedAt |-> check.t,
                   clearedAt |-> check.t, clearedBy |-> "open", acknowledged |-> FALSE,
                   raisedMono |-> mono, clearedMono |-> mono, quiet |-> Quiet(key[2]),
                   heard |-> FALSE, credible |-> Credible]
<1>1. alerts' = Append(alerts, row)
  BY DEF Raises
<1>2. RuleHash(check.rules[key[1]]) \in Hashes
  BY KeysOfRules DEF Raises, Evaluating, TypeOK, CheckTyped
<1>3. Quiet(key[2]) \in Int
  <2>1. mono \in Nat /\ startedAt \in Nat
    BY DEF TypeOK, ClocksTyped, EngineTyped
  <2>2. key[2] \in DOMAIN takenAt => takenAt[key[2]] \in Nat
    BY DEF TypeOK, WorldTyped
  <2> QED
    BY <2>1, <2>2 DEF Quiet
<1>4. Credible \in BOOLEAN
  BY DEF Credible, Sound
<1>5. check.t \in Int /\ mono \in Nat /\ alerts \in Seq(Alerts)
  BY DEF TypeOK, CheckTyped, ClocksTyped
<1>6. row \in Alerts /\ row.clearedBy = "open" /\ row.key = key
  BY <1>2, <1>3, <1>4, <1>5 DEF Alerts, Keys
<1> HIDE DEF row
<1>7. /\ alerts' \in Seq(Alerts) /\ Len(alerts') = Len(alerts) + 1
      /\ alerts'[Len(alerts) + 1] = row
      /\ \A b \in 1 .. Len(alerts) : alerts'[b] = alerts[b]
  BY <1>1, <1>5, <1>6
<1>8. DOMAIN alerts' = 1 .. (Len(alerts) + 1) /\ DOMAIN alerts = 1 .. Len(alerts)
  BY <1>5, <1>7
<1> QED
  BY <1>5, <1>6, <1>7, <1>8 DEF Open

(***************************************************************************)
(* Types.                                                                  *)
(***************************************************************************)
LEMMA ReadTrustedTyped ==
  ASSUME TypeOK, ReadTrusted
  PROVE  /\ anchor' \in [wall: Int, mono: Nat] /\ ahead' \in BOOLEAN /\ aheadSince' \in Nat
         /\ TrustedNow \in Int
<1> USE DEF TypeOK, ClocksTyped, EngineTyped
<1>1. Disbelieved \in BOOLEAN
  BY DEF Disbelieved, FarAhead
<1>2. Expected \in Int /\ AheadFrom \in Nat
  BY DEF Expected, AheadFrom
<1> QED
  BY <1>1, <1>2 DEF ReadTrusted, TrustedNow

(* The alerts there are at first are of an older version of the program, *)
(* which tells nothing of what raised them.                              *)
LEMMA FirstAlerts ==
  ASSUME Init
  PROVE  /\ alerts \in Seq(Alerts)
         /\ \A a \in DOMAIN alerts : alerts[a].hash = NoHash
         /\ \A a, b \in DOMAIN alerts : alerts[a].key = alerts[b].key => a = b
  BY AlertsAssumption DEF Init

LEMMA InitTypes == Init => TypeOK
<1> SUFFICES ASSUME Init PROVE TypeOK
  OBVIOUS
<1> USE DEF Init
<1>1. ClocksTyped
  BY EngineAssumption DEF ClocksTyped
<1>2. WorldTyped
  BY DEF WorldTyped
<1>3. alerts \in Seq(Alerts)
  BY FirstAlerts
<1>4. CheckTyped
  BY DEF NoCheck, CheckTyped, Checking
<1>5. << >> \in Seq(Nat) /\ << >> \in Seq(RuleSets)
  OBVIOUS
<1>6. since \in Int /\ anchor \in [wall: Int, mono: Nat]
  OBVIOUS
<1>7. EngineTyped
  BY <1>5, <1>6 DEF EngineTyped
<1> QED
  BY <1>1, <1>2, <1>3, <1>4, <1>7 DEF TypeOK

(* The clocks and the tables around the engine. *)
LEMMA WorldStepTypes ==
  ASSUME TypeOK, WorldStep
  PROVE  ClocksTyped' /\ WorldTyped'
<1> USE DEF TypeOK, ClocksTyped, WorldTyped
<1>1. ASSUME NEW offset \in Offsets, ClockSet(offset) PROVE ClocksTyped' /\ WorldTyped'
  <2>1. offset \in Int
    BY EngineAssumption
  <2>2. wall' \in Int /\ sets' \in Nat
    BY <1>1, <2>1 DEF ClockSet
  <2> QED
    BY <1>1, <2>2 DEF ClockSet, world
<1>2. CASE Start \/ Crash \/ Tick
  BY <1>2 DEF Start, Crash, Tick, clocks, world
<1>3. CASE \E a \in 1 .. Len(alerts) : Acknowledge(a)
  BY <1>3 DEF Acknowledge, clocks, world
<1>4. CASE \E c \in Certificates0 : CertificateChanges(c)
  BY <1>4 DEF CertificateChanges, clocks
<1>5. CASE \E rs \in RuleSets : SavesRules(rs)
  BY <1>5 DEF SavesRules, clocks
<1>6. ASSUME NEW m \in Polled, NEW value \in Values, Reads(m, value)
      PROVE  ClocksTyped' /\ WorldTyped'
  <2>1. m \in Metrics /\ value \in {"hot", "cool"}
    BY EngineAssumption
  <2>2. ClocksTyped'
    BY <1>6 DEF Reads, clocks
  <2>3. /\ DOMAIN readings' = Metrics /\ readings' = [n \in Metrics |-> readings'[n]]
        /\ \A n \in Metrics : /\ DOMAIN readings'[n] \subseteq Int
                              /\ readings'[n] \in [DOMAIN readings'[n] -> {"hot", "cool"}]
    <3>1. readings' = [readings EXCEPT ![m] =
                         [ts \in DOMAIN @ \cup {wall} |-> IF ts = wall THEN value ELSE @[ts]]]
      BY <1>6 DEF Reads
    <3>2. wall \in Int
      OBVIOUS
    <3> DEFINE series == [ts \in DOMAIN readings[m] \cup {wall} |-> IF ts = wall THEN value ELSE readings[m][ts]]
    <3>3. readings' = [n \in Metrics |-> IF n = m THEN series ELSE readings[n]]
      BY <2>1, <3>1
    <3>4. DOMAIN series \subseteq Int /\ series \in [DOMAIN series -> {"hot", "cool"}]
      BY <2>1, <3>2
    <3> HIDE DEF series
    <3> QED
      BY <3>3, <3>4
  <2>4. DOMAIN takenAt' \subseteq Metrics /\ takenAt' \in [DOMAIN takenAt' -> Nat]
    BY <1>6, <2>1 DEF Reads
  <2> QED
    BY <1>6, <2>2, <2>3, <2>4 DEF Reads
<1>7. ASSUME NEW now \in Int, Housekeeping(now) PROVE ClocksTyped' /\ WorldTyped'
  <2> DEFINE gone(n) == {t \in Closed(n, now) : PastRetention(t, now)}
             due(n) == {t \in Closed(n, now) : NotRolledUp(t, now)}
  <2>1. ClocksTyped'
    BY <1>7 DEF Housekeeping, clocks
  <2>2. readings' = [n \in Metrics |-> [ts \in DOMAIN readings[n] \ gone(n) |-> readings[n][ts]]]
    BY <1>7 DEF Housekeeping
  <2>3. /\ DOMAIN readings' = Metrics /\ readings' = [n \in Metrics |-> readings'[n]]
        /\ \A n \in Metrics : /\ DOMAIN readings'[n] \subseteq Int
                              /\ readings'[n] \in [DOMAIN readings'[n] -> {"hot", "cool"}]
    <3> HIDE DEF gone
    <3> QED
      BY <2>2
  <2>4. ASSUME NEW n \in Metrics, NEW ts \in due(n) PROVE BucketOf(ts) \in Int
    <3>1. ts \in Int /\ BUCKET \in Int /\ BUCKET > 0
      <4>1. ts \in DOMAIN readings[n]
        BY <2>4 DEF Closed
      <4>2. DOMAIN readings[n] \subseteq Int
        OBVIOUS
      <4> HIDE DEF due, TypeOK, ClocksTyped, WorldTyped
      <4> QED
        BY <4>1, <4>2, EngineAssumption
    <3>2. ts \div BUCKET \in Int
      <4> HIDE DEF due, TypeOK, ClocksTyped, WorldTyped
      <4> QED
        BY <3>1
    <3> QED
      BY <3>1, <3>2 DEF BucketOf
  <2>5. rollups' = [n \in Metrics |-> rollups[n] \cup {BucketOf(ts) : ts \in due(n)}]
    BY <1>7 DEF Housekeeping
  <2>6. rollups' \in [Metrics -> SUBSET Int]
    <3> HIDE DEF due
    <3> QED
      BY <2>4, <2>5
  <2> QED
    BY <1>7, <2>1, <2>3, <2>6 DEF Housekeeping
<1>8. ASSUME NEW now \in {wall} \cup {mono + offset : offset \in Offsets0} PROVE now \in Int
  BY EngineAssumption
<1> QED
  BY <1>1, <1>2, <1>3, <1>4, <1>5, <1>6, <1>7, <1>8 DEF WorldStep

LEMMA TypeStep ==
  ASSUME TypeOK, Next
  PROVE  TypeOK'
<1> USE DEF TypeOK
<1>1. CASE WorldStep
  <2>1. ClocksTyped' /\ WorldTyped'
    BY <1>1, WorldStepTypes
  <2>2. alerts' \in Seq(Alerts)
    BY <1>1, AcknowledgeWrites DEF WorldStep, Reads, Housekeeping, SavesRules, CertificateChanges,
       Start, Crash, Tick, ClockSet
  <2>3. CheckTyped'
    <3>1. CASE Start \/ Crash
      BY <3>1 DEF NoCheck, Start, Crash, CheckTyped, Checking
    <3>2. CASE UNCHANGED check
      BY <3>2 DEF CheckTyped, Checking
    <3> QED
      BY <1>1, <3>1, <3>2 DEF WorldStep, Reads, Housekeeping, SavesRules, CertificateChanges,
         Acknowledge, Tick, ClockSet
  <2>4. EngineTyped'
    <3>1. CASE Start
      BY <3>1 DEF Start, EngineTyped, ClocksTyped
    <3>2. CASE Crash
      <4>1. << >> \in Seq(Nat) /\ anchor' \in [wall: Int, mono: Nat]
        BY <3>2 DEF Crash
      <4> QED
        BY <3>2, <4>1 DEF Crash, EngineTyped
    <3>3. CASE UNCHANGED <<clockState, inForce>>
      BY <3>3 DEF clockState, EngineTyped
    <3> QED
      BY <1>1, <3>1, <3>2, <3>3 DEF WorldStep, Reads, Housekeeping, SavesRules, CertificateChanges,
         Acknowledge, Tick, ClockSet
  <2> QED
    BY <2>1, <2>2, <2>3, <2>4
<1>2. CASE CheckStep
  <2>1. UNCHANGED <<clocks, world>>
    BY <1>2 DEF CheckStep, BeginCheck, EndCheck, CheckFails, CloseRemoved, CloseChanged, Raises,
       Clears, Leaves, RuleFails
  <2>2. ClocksTyped' /\ WorldTyped'
    BY <2>1 DEF clocks, world, ClocksTyped, WorldTyped
  <2>3. CASE BeginCheck
    <3>1. CheckTyped'
      BY <2>3, ReadTrustedTyped DEF BeginCheck, CheckTyped, Checking, ClocksTyped, WorldTyped
    <3>2. EngineTyped'
      BY <2>3, ReadTrustedTyped DEF BeginCheck, EngineTyped, ClocksTyped
    <3> QED
      BY <2>2, <2>3, <3>1, <3>2 DEF BeginCheck
  <2>4. CASE EndCheck \/ CheckFails
    <3>1. CheckTyped'
      BY <2>4 DEF EndCheck, CheckFails, CheckTyped, NoCheck, Checking
    <3>2. inForce' \in Seq(RuleSets)
      <4>1. \A rs \in RuleSets : <<rs>> \in Seq(RuleSets)
        OBVIOUS
      <4>2. check.rules \in RuleSets
        BY <2>4 DEF EndCheck, CheckFails, CheckTyped
      <4> QED
        BY <2>4, <4>1, <4>2 DEF EndCheck, CheckFails, EngineTyped
    <3>3. EngineTyped'
      BY <2>4, <3>2 DEF EndCheck, CheckFails, EngineTyped, clockState
    <3> QED
      BY <2>2, <2>4, <3>1, <3>3 DEF EndCheck, CheckFails
  <2>5. ASSUME UNCHANGED <<clockState, inForce>> PROVE EngineTyped'
    BY <2>5 DEF clockState, EngineTyped
  <2>6. ASSUME NEW a \in 1 .. Len(alerts), CloseRemoved(a) \/ CloseChanged(a) PROVE TypeOK'
    <3>1. alerts' \in Seq(Alerts)
      BY <2>6, ClearWrites DEF CloseRemoved, CloseChanged, Stale, ClocksTyped
    <3>2. CheckTyped'
      BY <2>6 DEF CloseRemoved, CloseChanged, CheckTyped, Checking
    <3> QED
      BY <2>2, <2>5, <2>6, <3>1, <3>2 DEF CloseRemoved, CloseChanged
  <2>7. ASSUME NEW key \in RuleIds \X Metrics,
               Raises(key) \/ Clears(key) \/ Leaves(key) \/ RuleFails(key)
        PROVE  TypeOK'
    <3>1. alerts' \in Seq(Alerts)
      BY <2>7, ClearWrites, RaiseWrites DEF Clears, Leaves, RuleFails, OpenFor, ClocksTyped
    <3>2. Done(key)
      BY <2>7 DEF Raises, Clears, Leaves, RuleFails
    <3>3. CheckTyped'
      BY <3>2 DEF Done, CheckTyped, Checking
    <3> QED
      BY <2>2, <2>5, <2>7, <3>1, <3>3 DEF Raises, Clears, Leaves, RuleFails
  <2> QED
    BY <1>2, <2>3, <2>4, <2>6, <2>7 DEF CheckStep
<1> QED
  BY <1>1, <1>2 DEF Next

LEMMA TypeStutter ==
  ASSUME TypeOK, UNCHANGED vars
  PROVE  TypeOK'
  BY DEF vars, clocks, world, clockState, TypeOK, ClocksTyped, WorldTyped, CheckTyped, Checking,
     EngineTyped

(* No arithmetic on the clocks and no failed check leaves a variable of the *)
(* engine, or a row of its tables, out of its type.                         *)
THEOREM TypeCorrect == Spec => []TypeOK
<1>1. TypeOK /\ [Next]_vars => TypeOK'
  BY TypeStep, TypeStutter
<1> QED
  BY <1>1, InitTypes, PTL DEF Spec

(***************************************************************************)
(* One open alert per rule and metric.                                     *)
(***************************************************************************)

(* A statement that writes no alert, acknowledges one or closes one opens   *)
(* none, and leaves key and version of those still open alone.              *)
LEMMA OnlyRaisesOpen ==
  ASSUME TypeOK, [Next]_vars
  PROVE  \/ \E key \in RuleIds \X Metrics : Raises(key)
         \/ /\ Open' \subseteq Open
            /\ \A a \in Open' : alerts'[a].key = alerts[a].key /\ alerts'[a].hash = alerts[a].hash
<1> USE DEF TypeOK
<1>1. CASE UNCHANGED alerts
  BY <1>1 DEF Open
<1>2. ASSUME NEW a, Acknowledge(a)
      PROVE  /\ Open' \subseteq Open
             /\ \A b \in Open' : alerts'[b].key = alerts[b].key /\ alerts'[b].hash = alerts[b].hash
  BY <1>2, AcknowledgeWrites
<1>3. ASSUME NEW a \in Open, NEW by \in {"condition", "rule_removed", "rule_changed"}, ClearAlert(a, by)
      PROVE  /\ Open' \subseteq Open
             /\ \A b \in Open' : alerts'[b].key = alerts[b].key /\ alerts'[b].hash = alerts[b].hash
  BY <1>3, ClearWrites DEF ClocksTyped
<1>4. CASE CheckStep
  <2>1. ASSUME NEW a, CloseRemoved(a) \/ CloseChanged(a)
        PROVE  a \in Open /\ (ClearAlert(a, "rule_removed") \/ ClearAlert(a, "rule_changed"))
    BY <2>1 DEF CloseRemoved, CloseChanged, Stale
  <2>2. ASSUME NEW key, Clears(key) PROVE \E a \in Open : ClearAlert(a, "condition")
    BY <2>2 DEF Clears, OpenFor
  <2> QED
    BY <1>1, <1>3, <1>4, <2>1, <2>2 DEF CheckStep, BeginCheck, EndCheck, CheckFails, Leaves, RuleFails
<1>5. CASE WorldStep
  BY <1>1, <1>2, <1>5 DEF WorldStep, Reads, Housekeeping, SavesRules, CertificateChanges, Start,
     Crash, Tick, ClockSet
<1> QED
  BY <1>1, <1>4, <1>5 DEF Next, vars

LEMMA AtMostOneStep ==
  ASSUME TypeOK, AtMostOneOpen, [Next]_vars
  PROVE  AtMostOneOpen'
<1>1. ASSUME NEW key \in RuleIds \X Metrics, Raises(key) PROVE AtMostOneOpen'
  <2> DEFINE raised == Len(alerts) + 1
  <2>1. /\ Open' = Open \cup {raised} /\ alerts'[raised].key = key
        /\ \A a \in Open : alerts'[a] = alerts[a]
    BY <1>1, RaiseWrites
  <2>2. \A a \in Open : alerts[a].key # key /\ a # raised
    BY <1>1 DEF Raises, OpenFor, Open, TypeOK
  <2> HIDE DEF raised
  <2> QED
    BY <2>1, <2>2 DEF AtMostOneOpen
<1>2. ASSUME Open' \subseteq Open, \A a \in Open' : alerts'[a].key = alerts[a].key
      PROVE  AtMostOneOpen'
  BY <1>2 DEF AtMostOneOpen
<1> QED
  BY <1>1, <1>2, OnlyRaisesOpen

(* A rule never has two open alerts for a metric: the raise's own test of    *)
(* the alerts it read makes the unique index redundant, through crashes,     *)
(* failures and edits.                                                       *)
THEOREM AtMostOneCorrect == Spec => []AtMostOneOpen
<1>1. Init => AtMostOneOpen
  BY FirstAlerts DEF AtMostOneOpen, Open
<1>2. TypeOK /\ AtMostOneOpen /\ [Next]_vars => AtMostOneOpen'
  BY AtMostOneStep
<1> QED
  BY <1>1, <1>2, TypeCorrect, PTL DEF Spec

(***************************************************************************)
(* What is open after a check matches the rules it read.                   *)
(***************************************************************************)

(* While a check is under way none has ended: inForce is that of no check.  *)
MatchInv == OpenMatchesRules /\ (Checking => inForce = << >>)

LEMMA MatchStep ==
  ASSUME TypeOK, MatchInv, [Next]_vars
  PROVE  MatchInv'
<1> USE DEF MatchInv
<1>1. CASE EndCheck
  <2>1. \A a \in Open : /\ alerts[a].key \in KeysOf(check.rules)
                        /\ alerts[a].hash \in {NoHash, RuleHash(check.rules[alerts[a].key[1]])}
    BY <1>1 DEF EndCheck, Stale, Removed, Changed
  <2>2. inForce' = <<check.rules>> /\ alerts' = alerts /\ check'.pc # "checking"
    BY <1>1 DEF EndCheck, NoCheck
  <2>3. Open' = Open /\ inForce'[1] = check.rules
    BY <2>2 DEF Open
  <2> QED
    BY <2>1, <2>2, <2>3 DEF OpenMatchesRules, Checking, KeysOf, RuleHash
<1>2. CASE inForce' = << >>
  BY <1>2 DEF OpenMatchesRules
<1>3. CASE BeginCheck \/ CheckFails \/ (Checking /\ inForce' = inForce)
  BY <1>2, <1>3 DEF BeginCheck, CheckFails
<1>4. CASE WorldStep
  <2>1. inForce' = inForce
    BY <1>4 DEF WorldStep, Reads, Housekeeping, SavesRules, CertificateChanges, Acknowledge, Start,
       Crash, Tick, ClockSet
  <2>2. Checking' => Checking
    <3>1. CASE Start \/ Crash
      BY <3>1 DEF Start, Crash, NoCheck, Checking
    <3>2. CASE UNCHANGED check
      BY <3>2 DEF Checking
    <3> QED
      BY <1>4, <3>1, <3>2 DEF WorldStep, Reads, Housekeeping, SavesRules, CertificateChanges,
         Acknowledge, Tick, ClockSet
  <2>3. CASE Checking
    BY <1>2, <2>1, <2>3
  <2>4. ASSUME ~Checking PROVE ~ \E key \in RuleIds \X Metrics : Raises(key)
    BY <2>4 DEF Raises, Evaluating
  <2>5. CASE ~Checking
    <3>1. \A a \in Open' : a \in Open /\ alerts'[a].key = alerts[a].key /\ alerts'[a].hash = alerts[a].hash
      BY <2>4, <2>5, OnlyRaisesOpen
    <3> QED
      BY <2>1, <2>2, <2>5, <3>1 DEF OpenMatchesRules, KeysOf, RuleHash
  <2> QED
    BY <2>3, <2>5
<1>5. CASE CheckStep
  BY <1>1, <1>3, <1>5 DEF CheckStep, CloseRemoved, CloseChanged, Raises, Clears, Leaves, RuleFails,
     Evaluating
<1>6. CASE UNCHANGED vars
  BY <1>6 DEF vars, OpenMatchesRules, Open, Checking, clockState
<1> QED
  BY <1>4, <1>5, <1>6 DEF Next

(* From the end of a check that ran through to the beginning of the next,    *)
(* across restarts, failed checks and saved rules, no alert is open for a    *)
(* rule or a metric that check did not watch, nor, if it has a hash, for     *)
(* another version of the rule.                                              *)
THEOREM OpenMatchesCorrect == Spec => []OpenMatchesRules
<1>1. Init => MatchInv
  BY DEF Init, MatchInv, OpenMatchesRules, Checking, NoCheck
<1>2. TypeOK /\ MatchInv /\ [Next]_vars => MatchInv'
  BY MatchStep
<1>3. MatchInv => OpenMatchesRules
  BY DEF MatchInv
<1> QED
  BY <1>1, <1>2, <1>3, TypeCorrect, PTL DEF Spec

-----------------------------------------------------------------------------
(***************************************************************************)
(* No certificate is called expired on a clock that has just leapt ahead:  *)
(* for every set of rules and certificates, every leap, and whatever       *)
(* fails, where the clock is right or leaps by more than is believed at    *)
(* once.  (A clock that drifts ahead in small steps is meant to be         *)
(* believed.  One that is behind, set right and then leaps ahead is        *)
(* believed too early: see the README.)                                    *)
(***************************************************************************)
RightOrLeapt == \A offset \in Offsets0 \cup Offsets : offset = 0 \/ offset > CLOCK_JUMP

(***************************************************************************)
(* The clock is anchored where it was last believed.  As long as the last  *)
(* sound check is recent, the anchor is sound, and a clock that is doubted *)
(* is doubted since then.                                                  *)
(***************************************************************************)
Lately == soundAt # << >> /\ mono - soundAt[1] < CLOCK_ACCEPT

Anchored ==
  /\ wall = mono \/ wall - mono > CLOCK_JUMP
  /\ checked => anchor.wall >= anchor.mono
  /\ soundAt # << >> => checked /\ soundAt[1] <= mono
  /\ Lately => /\ anchor.wall = anchor.mono
               /\ ahead => aheadSince >= soundAt[1]

(* What a check goes by is not far ahead of the time, or may be. *)
Trusted == Checking => Sound \/ ~Lately \/ check.trusted <= mono + CLOCK_JUMP

ClockInv == TypeOK /\ Anchored /\ Trusted

LEMMA InitClock == ASSUME RightOrLeapt, Init PROVE ClockInv /\ CertificateOnSoundClock
<1>1. TypeOK
  BY InitTypes
<1>2. wall = mono \/ wall - mono > CLOCK_JUMP
  BY EngineAssumption DEF Init, RightOrLeapt
<1>3. ~checked /\ soundAt = << >> /\ check.pc = "down"
  BY DEF Init, NoCheck
<1>4. \A a \in DOMAIN alerts : ~RaisedBy(a, "expired")
  BY FirstAlerts DEF RaisedBy
<1> QED
  BY <1>1, <1>2, <1>3, <1>4 DEF ClockInv, Anchored, Trusted, Lately, Checking, CertificateOnSoundClock

(* A check on a sound clock believes it, and one on another doubts it for   *)
(* as long as it must.                                                      *)
LEMMA BeginClock == ASSUME ClockInv, BeginCheck PROVE Anchored' /\ Trusted'
<1> USE DEF ClockInv, TypeOK, ClocksTyped, EngineTyped
<1>1. /\ wall \in Int /\ mono \in Nat /\ wall' = wall /\ mono' = mono /\ checked' = TRUE
      /\ anchor.wall \in Int /\ anchor.mono \in Nat /\ aheadSince \in Nat
      /\ CLOCK_JUMP \in Nat /\ CLOCK_ACCEPT \in Nat
  BY EngineAssumption DEF BeginCheck, clocks
<1>2. checked => anchor.wall >= anchor.mono
  BY DEF Anchored
<1>3. Sound => ~Disbelieved
  BY <1>1, <1>2 DEF Anchored, Sound, Disbelieved, FarAhead, Expected
<1>4. \A stamp \in Nat : <<stamp>> # << >> /\ <<stamp>>[1] = stamp
  OBVIOUS
<1>5. check'.pc = "checking" /\ check'.trusted = TrustedNow
  BY DEF BeginCheck
<1>6. wall = mono \/ wall - mono > CLOCK_JUMP
  BY DEF Anchored
<1>7. CASE Sound
  <2>1. anchor' = [wall |-> wall, mono |-> mono] /\ ahead' = FALSE /\ TrustedNow = wall
    BY <1>3, <1>7 DEF BeginCheck, ReadTrusted, TrustedNow
  <2>2. soundAt' # << >> /\ soundAt'[1] = mono
    BY <1>1, <1>7 DEF BeginCheck
  <2>3. wall = mono
    BY <1>1, <1>6, <1>7 DEF Sound
  <2>4. Anchored'
    BY <1>1, <2>1, <2>2, <2>3 DEF Anchored
  <2>5. Sound'
    BY <1>1, <1>7 DEF Sound
  <2> QED
    BY <2>4, <2>5 DEF Trusted
<1>8. CASE ~Sound
  <2>1. soundAt' = soundAt
    BY <1>8 DEF BeginCheck
  <2>2. soundAt # << >> => soundAt[1] \in Nat
    OBVIOUS
  <2>3. CASE Disbelieved
    <3>1. anchor' = anchor /\ aheadSince' = AheadFrom /\ TrustedNow = anchor.wall + (mono - anchor.mono)
      BY <2>3 DEF BeginCheck, ReadTrusted, TrustedNow, Expected
    <3>2. Lately => AheadFrom >= soundAt[1]
      BY <1>1, <2>2 DEF Anchored, AheadFrom, Lately
    <3>3. Lately' <=> Lately
      BY <1>1, <2>1 DEF Lately
    <3>4. checked
      BY <2>3 DEF Disbelieved, FarAhead
    <3>5. Anchored'
      BY <1>1, <1>2, <1>6, <2>1, <3>1, <3>2, <3>3, <3>4 DEF Anchored
    <3>6. Lately => check'.trusted = mono
      BY <1>1, <1>5, <3>1 DEF Anchored
    <3> QED
      BY <1>1, <3>3, <3>5, <3>6 DEF Trusted
  <2>4. CASE ~Disbelieved
    <3>1. anchor' = [wall |-> wall, mono |-> mono] /\ ahead' = FALSE
      BY <2>4 DEF BeginCheck, ReadTrusted
    <3>2. ~Lately
      <4> SUFFICES ASSUME Lately PROVE FALSE
        OBVIOUS
      <4>1. checked /\ Expected = mono
        BY <1>1 DEF Anchored, Lately, Expected
      <4>2. FarAhead
        BY <1>1, <1>8, <4>1 DEF Sound, FarAhead
      <4>3. AheadFrom >= soundAt[1]
        BY <1>1, <2>2 DEF Anchored, Lately, AheadFrom
      <4>4. mono - AheadFrom < CLOCK_ACCEPT
        BY <1>1, <2>2, <4>3 DEF Lately, AheadFrom
      <4> QED
        BY <2>4, <4>2, <4>4 DEF Disbelieved
    <3>3. ~Lately'
      BY <1>1, <2>1, <3>2 DEF Lately
    <3>4. Anchored'
      BY <1>1, <1>6, <2>1, <3>1, <3>3 DEF Anchored
    <3> QED
      BY <3>3, <3>4 DEF Trusted
  <2> QED
    BY <2>3, <2>4
<1> QED
  BY <1>7, <1>8

(* Every other statement leaves the clocks and the anchor, or ends the      *)
(* process, or lets time pass between checks.                               *)
LEMMA KeepsClock == ASSUME RightOrLeapt, ClockInv, [Next]_vars, ~BeginCheck PROVE Anchored' /\ Trusted'
<1> USE DEF ClockInv, TypeOK, ClocksTyped, EngineTyped
<1>1. CASE Crash
  BY <1>1 DEF Crash, NoCheck, Anchored, Trusted, Lately, Checking, clocks
<1>2. CASE Tick
  <2>1. UNCHANGED <<check, clockState>> /\ wall' = wall + 1 /\ mono' = mono + 1 /\ ~Checking'
    BY <1>2 DEF Tick, Between, Checking
  <2>2. soundAt' = soundAt /\ (soundAt # << >> => soundAt[1] \in Nat) /\ CLOCK_ACCEPT \in Nat
    <3>1. soundAt' = soundAt
      BY <2>1 DEF clockState
    <3>2. soundAt # << >> => soundAt[1] \in Nat
      OBVIOUS
    <3> QED
      BY <3>1, <3>2, EngineAssumption
  <2>3. Lately' => Lately
    BY <2>1, <2>2 DEF Lately
  <2> QED
    BY <2>1, <2>2, <2>3 DEF Anchored, Trusted, clockState
<1>3. ASSUME NEW offset \in Offsets, ClockSet(offset) PROVE Anchored' /\ Trusted'
  <2>1. UNCHANGED <<mono, check, clockState>> /\ wall' = mono + offset /\ ~Checking'
    BY <1>3 DEF ClockSet, Between, Checking
  <2>2. offset \in Int /\ (offset = 0 \/ offset > CLOCK_JUMP) /\ CLOCK_JUMP \in Nat
    BY EngineAssumption DEF RightOrLeapt
  <2>3. Lately' <=> Lately
    BY <2>1 DEF Lately, clockState
  <2> QED
    BY <2>1, <2>2, <2>3 DEF Anchored, Trusted, clockState
<1>4. CASE UNCHANGED <<clocks, checked, soundAt, anchor, ahead, aheadSince>> /\ (Checking' => Checking /\ check'.trusted = check.trusted)
  <2>1. (Lately' <=> Lately) /\ (Sound' <=> Sound)
    BY <1>4 DEF Lately, Sound, clocks
  <2> QED
    BY <1>4, <2>1 DEF Anchored, Trusted, clocks
<1>5. ASSUME Start \/ EndCheck \/ CheckFails PROVE ~Checking'
  BY <1>5 DEF Start, EndCheck, CheckFails, NoCheck, Checking
<1>6. ASSUME NEW key, Done(key) PROVE check'.pc = check.pc /\ check'.trusted = check.trusted
  BY <1>6 DEF Done, CheckTyped
<1> QED
  BY <1>1, <1>2, <1>3, <1>4, <1>5, <1>6 DEF Next, CheckStep, WorldStep, EndCheck, CheckFails, CloseRemoved, CloseChanged,
    Raises, Clears, Leaves, RuleFails, Reads, Housekeeping, SavesRules, CertificateChanges, Acknowledge, Start, Checking,
    clockState, vars

LEMMA ClockStep == ASSUME RightOrLeapt, ClockInv, [Next]_vars PROVE ClockInv'
<1>1. TypeOK'
  BY TypeStep, TypeStutter DEF ClockInv
<1> QED
  BY <1>1, BeginClock, KeepsClock DEF ClockInv

(***************************************************************************)
(* An alert keeps what was noted with its raise.                           *)
(***************************************************************************)
Noted(row) == row.hash # NoHash /\ row.hash[1] = "expired" => row.credible

LEMMA CredibleRaise ==
  ASSUME ClockInv, NEW key \in RuleIds \X Metrics, Raises(key)
  PROVE  Noted(alerts'[Len(alerts) + 1])
<1> USE DEF ClockInv, TypeOK, ClocksTyped
<1> DEFINE rule == check.rules[key[1]]
<1>1. alerts'[Len(alerts) + 1].hash = RuleHash(rule) /\ alerts'[Len(alerts) + 1].credible = Credible
  BY DEF Raises
<1>2. SUFFICES ASSUME RuleHash(rule)[1] = "expired" PROVE Credible
  BY <1>1 DEF Noted
<1>3. rule.condition = "expired"
  BY <1>2 DEF RuleHash
<1>4. EvaluateCertificate(rule, certificate, check.trusted, OpenFor(key) # {}) = "raise"
  BY <1>3 DEF Raises, Decision, IsCertificateRule
<1>5. certificate.notAfter - check.trusted <= 0
  BY <1>3, <1>4 DEF EvaluateCertificate
<1>6. certificate.notAfter \in Int /\ check.trusted \in Int
  BY EngineAssumption DEF WorldTyped, CheckTyped, Certificates
<1>7. Sound \/ ~Lately \/ check.trusted <= mono + CLOCK_JUMP
  BY DEF Trusted, Raises, Evaluating
<1>8. ~Lately => soundAt = << >> \/ mono - soundAt[1] >= CLOCK_ACCEPT
  <2>1. soundAt # << >> => soundAt[1] \in Nat
    BY DEF EngineTyped
  <2>2. mono \in Nat /\ CLOCK_ACCEPT \in Int
    BY EngineAssumption
  <2> HIDE DEF ClockInv, TypeOK
  <2> QED
    BY <2>1, <2>2 DEF Lately
<1>9. mono \in Nat /\ CLOCK_JUMP \in Int
  BY EngineAssumption
<1> HIDE DEF ClockInv, TypeOK, rule
<1> QED
  BY <1>5, <1>6, <1>7, <1>8, <1>9 DEF Credible

LEMMA CredibleStep ==
  ASSUME ClockInv, CertificateOnSoundClock, [Next]_vars
  PROVE  CertificateOnSoundClock'
<1> USE DEF ClockInv, TypeOK, ClocksTyped
<1>1. ASSUME NEW a \in DOMAIN alerts, NEW row, alerts' = [alerts EXCEPT ![a] = row],
             row.hash = alerts[a].hash, row.credible = alerts[a].credible
      PROVE  CertificateOnSoundClock'
  BY <1>1 DEF CertificateOnSoundClock, RaisedBy
<1>2. ASSUME NEW a \in Open, NEW by, ClearAlert(a, by) PROVE CertificateOnSoundClock'
  <2> DEFINE row == [alerts[a] EXCEPT !.clearedBy = by, !.clearedMono = mono,
               !.clearedAt = IF check.t < alerts[a].raisedAt THEN alerts[a].raisedAt ELSE check.t,
               !.heard = alerts[a].key[2] \in DOMAIN takenAt /\ takenAt[alerts[a].key[2]] >= alerts[a].raisedMono]
  <2>1. a \in DOMAIN alerts /\ alerts[a] \in Alerts /\ alerts' = [alerts EXCEPT ![a] = row]
    BY <1>2 DEF ClearAlert, Open
  <2>2. row.hash = alerts[a].hash /\ row.credible = alerts[a].credible
    BY <2>1 DEF Alerts
  <2> HIDE DEF row
  <2> QED
    BY <1>1, <2>1, <2>2
<1>3. ASSUME NEW a, Acknowledge(a) PROVE CertificateOnSoundClock'
  <2> DEFINE row == [alerts[a] EXCEPT !.acknowledged = TRUE]
  <2>1. a \in DOMAIN alerts /\ alerts[a] \in Alerts /\ alerts' = [alerts EXCEPT ![a] = row]
    BY <1>3 DEF Acknowledge, Open
  <2>2. row.hash = alerts[a].hash /\ row.credible = alerts[a].credible
    BY <2>1 DEF Alerts
  <2> HIDE DEF row
  <2> QED
    BY <1>1, <2>1, <2>2
<1>4. ASSUME NEW key \in RuleIds \X Metrics, Raises(key) PROVE CertificateOnSoundClock'
  <2>1. PICK row : alerts' = Append(alerts, row)
    BY <1>4 DEF Raises
  <2>2. DOMAIN alerts' = 1 .. Len(alerts) + 1 /\ \A a \in DOMAIN alerts : alerts'[a] = alerts[a]
    BY <2>1
  <2>3. Noted(alerts'[Len(alerts) + 1])
    BY <1>4, CredibleRaise
  <2> QED
    BY <2>2, <2>3 DEF CertificateOnSoundClock, RaisedBy, Noted
<1>5. CASE UNCHANGED alerts
  BY <1>5 DEF CertificateOnSoundClock, RaisedBy
<1>6. CASE CheckStep
  <2>1. ASSUME NEW a, CloseRemoved(a) \/ CloseChanged(a) PROVE CertificateOnSoundClock'
    BY <1>2, <2>1 DEF CloseRemoved, CloseChanged, Stale
  <2>2. ASSUME NEW key, Clears(key) PROVE CertificateOnSoundClock'
    BY <1>2, <2>2 DEF Clears, OpenFor
  <2> QED
    BY <1>4, <1>5, <1>6, <2>1, <2>2 DEF CheckStep, BeginCheck, EndCheck, CheckFails, Leaves, RuleFails
<1>7. CASE WorldStep
  BY <1>3, <1>5, <1>7 DEF WorldStep, Reads, Housekeeping, SavesRules, CertificateChanges, Start, Crash, Tick, ClockSet
<1> QED
  BY <1>5, <1>6, <1>7 DEF Next, vars

(* Once a check saw a sound clock, a clock far ahead calls no certificate   *)
(* expired sooner than CLOCK_ACCEPT later (engine.ts:108-128).              *)
THEOREM CertificateCorrect == ASSUME RightOrLeapt PROVE Spec => []CertificateOnSoundClock
<1> DEFINE Inv == ClockInv /\ CertificateOnSoundClock
<1>1. Init => Inv
  BY InitClock
<1>2. Inv /\ [Next]_vars => Inv'
  BY ClockStep, CredibleStep
<1>3. Inv => CertificateOnSoundClock
  OBVIOUS
<1> QED
  BY <1>1, <1>2, <1>3, PTL DEF Spec

-----------------------------------------------------------------------------
(***************************************************************************)
(* Times.  A threshold alert does not flap and silence is silence, where   *)
(* the clock is right or set right from far behind: for every set of rules *)
(* and metrics, every way to poll, to check, to prune and to restart.  (A  *)
(* clock set back may clear an alert at once: see the README.)             *)
(***************************************************************************)
SetAheadOnly ==
  \A offset \in Offsets, before \in Offsets0 \cup Offsets :
    \/ offset = before
    \/ offset - before > 3 * INTERVAL /\ offset - before > 3 * CHECK_INTERVAL

(* Rules look back no further than raw readings are kept: see HouseProofs,   *)
(* InForceCorrect.                                                           *)
RawIsKept == \A rs \in RuleSets : \A id \in DOMAIN rs : rs[id].clearAfter <= RAW_KEPT

Offset == wall - mono
Up == check.pc # "down"

InTime ==
  /\ Offset \in Offsets0 \cup Offsets
  /\ Checking => check.t = wall
  /\ check.pc \in {"idle", "checking"} => checked
  /\ checked => lastCheck <= wall
  /\ Up => startedAt <= mono /\ since <= wall

Stamped ==
  /\ \A m \in Metrics : \A ts \in DOMAIN readings[m] : m \in DOMAIN takenAt /\ ts <= takenAt[m] + Offset
  /\ \A m \in DOMAIN takenAt : takenAt[m] <= mono

TimesInv == TypeOK /\ InTime /\ Stamped

LEMMA SetsAhead ==
  ASSUME SetAheadOnly, TypeOK, InTime, NEW offset \in Offsets, ClockSet(offset)
  PROVE  /\ mono' = mono /\ wall' = mono + offset /\ Offset' = offset
         /\ offset - Offset > 3 * INTERVAL /\ offset - Offset > 3 * CHECK_INTERVAL
         /\ wall' > wall
<1>1. wall \in Int /\ mono \in Nat /\ offset \in Int /\ INTERVAL \in Nat
  BY EngineAssumption, IntervalAssumption DEF TypeOK, ClocksTyped
<1>2. mono' = mono /\ wall' = mono + offset /\ wall # mono + offset
  BY DEF ClockSet
<1>3. offset # Offset /\ Offset \in Int
  BY <1>1, <1>2 DEF Offset
<1>4. offset - Offset > 3 * INTERVAL /\ offset - Offset > 3 * CHECK_INTERVAL
  BY <1>3 DEF SetAheadOnly, InTime
<1> QED
  BY <1>1, <1>2, <1>3, <1>4 DEF Offset

LEMMA InTimeStep ==
  ASSUME SetAheadOnly, TypeOK, InTime, [Next]_vars
  PROVE  InTime'
<1>0. /\ wall \in Int /\ mono \in Nat /\ lastCheck \in Int /\ since \in Int /\ startedAt \in Nat
      /\ Offsets0 \subseteq Int /\ Offsets \subseteq Int
  BY EngineAssumption DEF TypeOK, ClocksTyped, EngineTyped
<1>1. CASE BeginCheck
  BY <1>0, <1>1 DEF BeginCheck, InTime, Offset, Checking, Up, clocks
<1>2. CASE EndCheck \/ CheckFails
  BY <1>0, <1>2 DEF EndCheck, CheckFails, InTime, Offset, Checking, Up, clocks, clockState, NoCheck, TypeOK, CheckTyped
<1>3. ASSUME NEW key \in RuleIds \X Metrics, Raises(key) \/ Clears(key) \/ Leaves(key) \/ RuleFails(key)
      PROVE  InTime'
  <2>1. UNCHANGED <<clocks, clockState>> /\ Checking /\ check'.pc = check.pc /\ check'.t = check.t
    BY <1>3 DEF Raises, Clears, Leaves, RuleFails, Done, Evaluating, TypeOK, CheckTyped
  <2> QED
    BY <2>1 DEF InTime, Offset, Checking, Up, clocks, clockState
<1>4. CASE WorldStep /\ UNCHANGED <<clocks, check, clockState>>
  BY <1>4 DEF InTime, Offset, Checking, Up, clocks, clockState
<1>5. ASSUME NEW a \in 1 .. Len(alerts), CloseRemoved(a) \/ CloseChanged(a) PROVE InTime'
  BY <1>5 DEF CloseRemoved, CloseChanged, InTime, Offset, Checking, Up, clocks, clockState
<1>6. CASE Start \/ Crash
  BY <1>0, <1>6 DEF Start, Crash, NoCheck, InTime, Offset, Checking, Up, clocks
<1>7. CASE Tick
  BY <1>0, <1>7 DEF Tick, Between, InTime, Offset, Checking, Up, clockState
<1>8. ASSUME NEW offset \in Offsets, ClockSet(offset) PROVE InTime'
  <2>1. mono' = mono /\ Offset' = offset /\ wall' > wall /\ wall' \in Int
    BY <1>0, <1>8, SetsAhead DEF ClockSet
  <2>2. ~Checking /\ UNCHANGED <<check, clockState>>
    BY <1>8 DEF ClockSet, Between, Checking
  <2> QED
    BY <1>0, <2>1, <2>2 DEF InTime, Checking, Up, clockState
<1>9. CASE UNCHANGED vars
  BY <1>9 DEF vars, InTime, Offset, Checking, Up, clocks, clockState
<1>10. WorldStep => UNCHANGED <<clocks, check, clockState>> \/ Start \/ Crash \/ Tick
                      \/ \E offset \in Offsets : ClockSet(offset)
  BY DEF WorldStep, Reads, Housekeeping, SavesRules, CertificateChanges, Acknowledge
<1> QED
  BY <1>1, <1>2, <1>3, <1>4, <1>5, <1>6, <1>7, <1>8, <1>9, <1>10 DEF Next, CheckStep

(* What moves the clocks and what is stored of the metrics. *)
LEMMA WhatMoves ==
  ASSUME [Next]_vars
  PROVE  \/ UNCHANGED <<clocks, readings, rollups, takenAt>>
         \/ \E m \in Polled, value \in Values : Reads(m, value)
         \/ \E now \in {wall} \cup {mono + offset : offset \in Offsets0} : Housekeeping(now)
         \/ Tick
         \/ \E offset \in Offsets : ClockSet(offset)
BY DEF Next, CheckStep, WorldStep, BeginCheck, EndCheck, CheckFails, CloseRemoved, CloseChanged,
   Raises, Clears, Leaves, RuleFails, SavesRules, CertificateChanges, Acknowledge, Start, Crash,
   vars, world

LEMMA StampedStep ==
  ASSUME SetAheadOnly, TypeOK, InTime, Stamped, [Next]_vars
  PROVE  Stamped'
<1>0. /\ wall \in Int /\ mono \in Nat
      /\ \A m \in Metrics : DOMAIN readings[m] \subseteq Int
      /\ \A m \in DOMAIN takenAt : m \in Metrics /\ takenAt[m] \in Nat
  BY DEF TypeOK, ClocksTyped, WorldTyped
<1>1. ASSUME NEW m \in Polled, NEW value \in Values, Reads(m, value) PROVE Stamped'
  <2>1. /\ UNCHANGED clocks
        /\ DOMAIN readings' = Metrics
        /\ \A k \in Metrics : DOMAIN readings'[k] = DOMAIN readings[k] \cup (IF k = m THEN {wall} ELSE {})
        /\ DOMAIN takenAt' = DOMAIN takenAt \cup {m}
        /\ \A k \in DOMAIN takenAt' : takenAt'[k] = IF k = m THEN mono ELSE takenAt[k]
    BY <1>1, EngineAssumption DEF Reads, TypeOK, WorldTyped
  <2>2. wall' = wall /\ mono' = mono /\ Offset' = Offset /\ Offset \in Int /\ wall = mono + Offset
    BY <1>0, <2>1 DEF Offset, clocks
  <2>3. ASSUME NEW k \in Metrics, NEW ts \in DOMAIN readings'[k]
        PROVE  k \in DOMAIN takenAt' /\ ts <= takenAt'[k] + Offset'
    <3>1. CASE ts \in DOMAIN readings[k]
      <4>1. k \in DOMAIN takenAt /\ ts <= takenAt[k] + Offset /\ takenAt[k] <= mono
        BY <3>1 DEF Stamped
      <4>2. takenAt[k] \in Nat /\ ts \in Int
        BY <1>0, <3>1, <4>1
      <4> QED
        BY <1>0, <2>1, <2>2, <4>1, <4>2
    <3>2. CASE k = m /\ ts = wall
      BY <1>0, <2>1, <2>2, <3>2
    <3> QED
      BY <2>1, <2>3, <3>1, <3>2
  <2>4. \A k \in DOMAIN takenAt' : takenAt'[k] <= mono'
    BY <1>0, <2>1, <2>2 DEF Stamped
  <2> QED
    BY <2>3, <2>4 DEF Stamped
<1>2. ASSUME NEW now, Housekeeping(now) PROVE Stamped'
  <2>1. /\ UNCHANGED <<clocks, takenAt>>
        /\ \A m \in Metrics : DOMAIN readings'[m] \subseteq DOMAIN readings[m]
    BY <1>2 DEF Housekeeping
  <2> QED
    BY <2>1 DEF Stamped, Offset, clocks
<1>3. CASE Tick
  BY <1>0, <1>3 DEF Tick, Stamped, Offset, world
<1>4. ASSUME NEW offset \in Offsets, ClockSet(offset) PROVE Stamped'
  <2>1. /\ wall \in Int /\ mono \in Int /\ mono' = mono /\ wall' > wall
        /\ wall' = mono + offset /\ offset \in Int
    BY <1>0, <1>4, EngineAssumption, SetsAhead DEF ClockSet
  <2>2. Offset' = offset /\ Offset \in Int /\ offset > Offset
    BY <2>1 DEF Offset
  <2>3. UNCHANGED world
    BY <1>4 DEF ClockSet
  <2> QED
    BY <1>0, <2>1, <2>2, <2>3 DEF Stamped, world
<1>5. CASE UNCHANGED <<clocks, readings, rollups, takenAt>>
  BY <1>5 DEF Stamped, Offset, clocks
<1> QED
  BY <1>1, <1>2, <1>3, <1>4, <1>5, WhatMoves

LEMMA TimesStep == ASSUME SetAheadOnly, TimesInv, [Next]_vars PROVE TimesInv'
BY TypeStep, TypeStutter, InTimeStep, StampedStep DEF TimesInv

(***************************************************************************)
(* Buckets: what is pruned is rolled up.                                   *)
(***************************************************************************)
Aligned(start) == \E q \in Int : start = q * BUCKET

LEMMA BucketBounds ==
  ASSUME NEW ts \in Int
  PROVE  /\ BucketOf(ts) \in Int /\ BucketOf(ts) <= ts /\ ts < BucketOf(ts) + BUCKET
         /\ Aligned(BucketOf(ts))
<1>1. BUCKET \in Int /\ BUCKET > 0
  BY EngineAssumption
<1> DEFINE q == ts \div BUCKET
<1>2. q \in Int /\ BUCKET * q <= ts /\ ts < BUCKET * q + BUCKET
  BY <1>1
<1> QED
  BY <1>1, <1>2 DEF BucketOf, Aligned

LEMMA BucketsApart ==
  ASSUME NEW b \in Int, NEW c \in Int, b < c,
         Aligned(b), Aligned(c)
  PROVE  b + BUCKET <= c
<1>1. BUCKET \in Int /\ BUCKET > 0
  BY EngineAssumption
<1>2. PICK p \in Int : b = p * BUCKET
  BY DEF Aligned
<1>3. PICK q \in Int : c = q * BUCKET
  BY DEF Aligned
<1>4. p < q
  BY <1>1, <1>2, <1>3
<1>5. (p + 1) * BUCKET <= q * BUCKET
  BY <1>1, <1>4
<1> QED
  BY <1>1, <1>2, <1>3, <1>5

Buckets ==
  /\ \A m \in Metrics : \A start \in rollups[m] :
       Aligned(start) /\ start + BUCKET <= wall
  /\ \A m, other \in Metrics : \A ts \in DOMAIN readings[m], start \in rollups[other] :
       (ts < start + BUCKET) => (BucketOf(ts) \in rollups[m])

LEMMA RollsUp ==
  ASSUME TypeOK, Buckets, NEW now \in Int, Housekeeping(now),
         NEW m \in Metrics, NEW ts \in Closed(m, now)
  PROVE  BucketOf(ts) \in rollups'[m]
<1>1. rollups'[m] = rollups[m] \cup {BucketOf(t) : t \in {t \in Closed(m, now) : NotRolledUp(t, now)}}
  BY DEF Housekeeping
<1>2. CASE NotRolledUp(ts, now)
  BY <1>1, <1>2
<1>3. CASE ~NotRolledUp(ts, now)
  <2>1. PICK other \in Metrics : \E start \in rollups[other] : ~(start + BUCKET <= ts)
    BY <1>3 DEF NotRolledUp
  <2>2. PICK start \in rollups[other] : ~(start + BUCKET <= ts)
    BY <2>1
  <2>3. ts \in DOMAIN readings[m] /\ ts \in Int /\ start \in Int /\ BUCKET \in Int
    BY EngineAssumption DEF Closed, TypeOK, WorldTyped
  <2>4. ts < start + BUCKET
    BY <2>2, <2>3
  <2> QED
    BY <1>1, <2>3, <2>4 DEF Buckets
<1> QED
  BY <1>2, <1>3

LEMMA BucketsStep ==
  ASSUME SetAheadOnly, TimesInv, Buckets, [Next]_vars
  PROVE  Buckets'
<1>0. /\ wall \in Int /\ mono \in Nat /\ BUCKET \in Int /\ BUCKET > 0 /\ Offsets0 \subseteq Int
      /\ \A m \in Metrics : DOMAIN readings[m] \subseteq Int /\ rollups[m] \subseteq Int
  BY EngineAssumption DEF TimesInv, TypeOK, ClocksTyped, WorldTyped
<1>1. ASSUME NEW m \in Polled, NEW value \in Values, Reads(m, value) PROVE Buckets'
  <2>1. /\ UNCHANGED <<wall, rollups>>
        /\ \A k \in Metrics : DOMAIN readings'[k] = DOMAIN readings[k] \cup (IF k = m THEN {wall} ELSE {})
    BY <1>1, EngineAssumption DEF Reads, clocks, TimesInv, TypeOK, WorldTyped
  <2>2. \A k \in Metrics : \A start \in rollups[k] : ~(wall < start + BUCKET)
    BY <1>0 DEF Buckets
  <2> QED
    BY <2>1, <2>2 DEF Buckets, BucketOf
<1>2. ASSUME NEW now \in {wall} \cup {mono + offset : offset \in Offsets0}, Housekeeping(now) PROVE Buckets'
  <2>1. now \in Int /\ now <= wall /\ UNCHANGED wall
    BY <1>0, <1>2 DEF Housekeeping, clocks
  <2>2. \A m \in Metrics : DOMAIN readings'[m] \subseteq DOMAIN readings[m]
    BY <1>2 DEF Housekeeping
  <2>3. ASSUME NEW m \in Metrics, NEW start \in rollups'[m]
        PROVE  start \in rollups[m] \/ \E t \in Closed(m, now) : start = BucketOf(t)
    BY <1>2, <2>3 DEF Housekeeping
  <2>4. ASSUME NEW m \in Metrics, NEW t \in Closed(m, now)
        PROVE  /\ Aligned(BucketOf(t))
               /\ BucketOf(t) + BUCKET <= BucketOf(now) /\ BucketOf(t) + BUCKET <= wall
               /\ BucketOf(t) \in Int /\ BucketOf(now) \in Int
    <3>1. t \in Int /\ t < BucketOf(now)
      BY <1>0 DEF Closed
    <3>2. /\ BucketOf(t) \in Int /\ BucketOf(t) <= t /\ Aligned(BucketOf(t))
          /\ BucketOf(now) \in Int /\ BucketOf(now) <= now /\ Aligned(BucketOf(now))
      BY <2>1, <3>1, BucketBounds
    <3>3. BucketOf(t) + BUCKET <= BucketOf(now)
      BY <3>1, <3>2, BucketsApart
    <3> QED
      BY <1>0, <2>1, <3>2, <3>3
  <2>5. ASSUME NEW m \in Metrics, NEW start \in rollups'[m]
        PROVE  Aligned(start) /\ start + BUCKET <= wall
    BY <2>3, <2>4, <2>5 DEF Buckets
  <2>6. ASSUME NEW m \in Metrics, NEW other \in Metrics, NEW ts \in DOMAIN readings'[m],
               NEW start \in rollups'[other], ts < start + BUCKET
        PROVE  BucketOf(ts) \in rollups'[m]
    <3>1. ts \in DOMAIN readings[m] /\ ts \in Int
      BY <1>0, <2>2
    <3>2. rollups[m] \subseteq rollups'[m]
      BY <1>2 DEF Housekeeping
    <3>3. CASE start \in rollups[other]
      BY <2>6, <3>1, <3>2, <3>3 DEF Buckets, BucketOf
    <3>4. ASSUME NEW t \in Closed(other, now), start = BucketOf(t) PROVE BucketOf(ts) \in rollups'[m]
      <4>1. ts < BucketOf(now)
        BY <1>0, <2>4, <2>6, <3>1, <3>4
      <4>2. ts \in Closed(m, now)
        BY <3>1, <4>1 DEF Closed
      <4> QED
        BY <1>2, <2>1, <4>2, RollsUp DEF TimesInv
    <3> QED
      BY <2>3, <3>3, <3>4
  <2> QED
    BY <2>1, <2>5, <2>6 DEF Buckets, BucketOf
<1>3. CASE Tick
  <2>1. wall' > wall /\ wall' \in Int /\ readings' = readings /\ rollups' = rollups
    BY <1>0, <1>3 DEF Tick, world
  <2> QED
    BY <1>0, <2>1 DEF Buckets, BucketOf
<1>4. ASSUME NEW offset \in Offsets, ClockSet(offset) PROVE Buckets'
  <2>1. wall' > wall /\ wall' \in Int /\ readings' = readings /\ rollups' = rollups
    BY <1>0, <1>4, EngineAssumption, SetsAhead DEF ClockSet, TimesInv, world
  <2> QED
    BY <1>0, <2>1 DEF Buckets, BucketOf
<1>5. CASE UNCHANGED <<clocks, readings, rollups, takenAt>>
  BY <1>5 DEF Buckets, BucketOf, clocks
<1> QED
  BY <1>1, <1>2, <1>3, <1>4, <1>5, WhatMoves

-----------------------------------------------------------------------------
(***************************************************************************)
(* Rows: what a step writes of an alert.                                   *)
(***************************************************************************)
Same(a) ==
  /\ alerts'[a].key = alerts[a].key /\ alerts'[a].hash = alerts[a].hash
  /\ alerts'[a].raisedAt = alerts[a].raisedAt /\ alerts'[a].raisedMono = alerts[a].raisedMono
  /\ alerts'[a].quiet = alerts[a].quiet
Stays(a) ==
  alerts'[a].clearedBy = alerts[a].clearedBy /\ alerts'[a].clearedMono = alerts[a].clearedMono
Closes(a) ==
  /\ a \in Open /\ alerts'[a].clearedBy # "open" /\ alerts'[a].clearedMono = mono
  /\ alerts'[a].clearedBy = "condition" => \E key \in RuleIds \X Metrics : Clears(key) /\ a \in OpenFor(key)
RowsKept == DOMAIN alerts' = DOMAIN alerts /\ \A a \in DOMAIN alerts : Same(a) /\ (Stays(a) \/ Closes(a))

LEMMA ClosesRow ==
  ASSUME TypeOK, NEW a \in Open, NEW by \in {"condition", "rule_removed", "rule_changed"}, ClearAlert(a, by),
         by = "condition" => \E key \in RuleIds \X Metrics : Clears(key) /\ a \in OpenFor(key)
  PROVE  RowsKept
<1> DEFINE row == [alerts[a] EXCEPT !.clearedBy = by, !.clearedMono = mono,
             !.clearedAt = IF check.t < alerts[a].raisedAt THEN alerts[a].raisedAt ELSE check.t,
             !.heard = alerts[a].key[2] \in DOMAIN takenAt /\ takenAt[alerts[a].key[2]] >= alerts[a].raisedMono]
<1>1. a \in DOMAIN alerts /\ alerts[a] \in Alerts /\ alerts' = [alerts EXCEPT ![a] = row]
  BY DEF ClearAlert, Open, TypeOK
<1>2. /\ row.key = alerts[a].key /\ row.hash = alerts[a].hash /\ row.raisedAt = alerts[a].raisedAt
      /\ row.raisedMono = alerts[a].raisedMono /\ row.quiet = alerts[a].quiet
      /\ row.clearedBy = by /\ row.clearedMono = mono
  BY <1>1 DEF Alerts
<1> HIDE DEF row
<1>3. alerts'[a] = row /\ DOMAIN alerts' = DOMAIN alerts /\ \A b \in DOMAIN alerts : b # a => alerts'[b] = alerts[b]
  BY <1>1
<1> QED
  BY <1>2, <1>3 DEF RowsKept, Same, Stays, Closes

LEMMA AcknowledgesRow ==
  ASSUME TypeOK, NEW a, Acknowledge(a) PROVE RowsKept
<1> DEFINE row == [alerts[a] EXCEPT !.acknowledged = TRUE]
<1>1. a \in DOMAIN alerts /\ alerts[a] \in Alerts /\ alerts' = [alerts EXCEPT ![a] = row]
  BY DEF Acknowledge, Open, TypeOK
<1>2. /\ row.key = alerts[a].key /\ row.hash = alerts[a].hash /\ row.raisedAt = alerts[a].raisedAt
      /\ row.raisedMono = alerts[a].raisedMono /\ row.quiet = alerts[a].quiet
      /\ row.clearedBy = alerts[a].clearedBy /\ row.clearedMono = alerts[a].clearedMono
  BY <1>1 DEF Alerts
<1> HIDE DEF row
<1>3. alerts'[a] = row /\ DOMAIN alerts' = DOMAIN alerts /\ \A b \in DOMAIN alerts : b # a => alerts'[b] = alerts[b]
  BY <1>1
<1> QED
  BY <1>2, <1>3 DEF RowsKept, Same, Stays

LEMMA RaisesRow ==
  ASSUME TypeOK, NEW key \in RuleIds \X Metrics, Raises(key)
  PROVE  LET raised == Len(alerts) + 1 IN
         /\ DOMAIN alerts' = DOMAIN alerts \cup {raised} /\ raised \notin DOMAIN alerts
         /\ \A a \in DOMAIN alerts : alerts'[a] = alerts[a]
         /\ alerts'[raised].key = key /\ alerts'[raised].hash = RuleHash(check.rules[key[1]])
         /\ alerts'[raised].raisedAt = check.t /\ alerts'[raised].raisedMono = mono
         /\ alerts'[raised].quiet = Quiet(key[2]) /\ alerts'[raised].clearedBy = "open"
<1> DEFINE row == [key |-> key, hash |-> RuleHash(check.rules[key[1]]), raisedAt |-> check.t,
                   clearedAt |-> check.t, clearedBy |-> "open", acknowledged |-> FALSE,
                   raisedMono |-> mono, clearedMono |-> mono, quiet |-> Quiet(key[2]),
                   heard |-> FALSE, credible |-> Credible]
<1>1. alerts' = Append(alerts, row) /\ alerts \in Seq(Alerts)
  BY DEF Raises, TypeOK
<1>2. /\ row.key = key /\ row.hash = RuleHash(check.rules[key[1]]) /\ row.raisedAt = check.t
      /\ row.raisedMono = mono /\ row.quiet = Quiet(key[2]) /\ row.clearedBy = "open"
  OBVIOUS
<1> HIDE DEF row
<1>3. DOMAIN alerts' = 1 .. Len(alerts) + 1 /\ alerts'[Len(alerts) + 1] = row
      /\ DOMAIN alerts = 1 .. Len(alerts) /\ Len(alerts) \in Nat
      /\ \A a \in DOMAIN alerts : alerts'[a] = alerts[a]
  BY <1>1
<1>4. DOMAIN alerts' = DOMAIN alerts \cup {Len(alerts) + 1} /\ Len(alerts) + 1 \notin DOMAIN alerts
  BY <1>3
<1> QED
  BY <1>2, <1>3, <1>4

LEMMA RowsStep ==
  ASSUME TypeOK, [Next]_vars
  PROVE  (\E key \in RuleIds \X Metrics : Raises(key)) \/ RowsKept
<1>1. CASE UNCHANGED alerts
  BY <1>1 DEF RowsKept, Same, Stays
<1>2. CASE CheckStep
  <2>1. ASSUME NEW a, CloseRemoved(a) \/ CloseChanged(a) PROVE RowsKept
    <3>1. a \in Open /\ (ClearAlert(a, "rule_removed") \/ ClearAlert(a, "rule_changed"))
      BY <2>1 DEF CloseRemoved, CloseChanged, Stale
    <3> QED
      BY <3>1, ClosesRow
  <2>2. ASSUME NEW key \in RuleIds \X Metrics, Clears(key) PROVE RowsKept
    <3>1. PICK a \in OpenFor(key) : ClearAlert(a, "condition")
      BY <2>2 DEF Clears
    <3> QED
      BY <2>2, <3>1, ClosesRow DEF OpenFor
  <2> QED
    BY <1>1, <1>2, <2>1, <2>2 DEF CheckStep, BeginCheck, EndCheck, CheckFails, Leaves, RuleFails
<1>3. CASE WorldStep
  BY <1>1, <1>3, AcknowledgesRow DEF WorldStep, Reads, Housekeeping, SavesRules, CertificateChanges, Start,
     Crash, Tick, ClockSet
<1> QED
  BY <1>1, <1>2, <1>3 DEF Next, vars

(***************************************************************************)
(* The leap.  At L of elapsed time the clock was last set.  What is        *)
(* stamped since is on today's clock; what was before lies more than a     *)
(* window's gap behind.                                                    *)
(***************************************************************************)
OnRecord(m) ==
  \/ takenAt[m] + Offset \in DOMAIN readings[m]
  \/ DOMAIN readings[m] = {} /\ BucketOf(takenAt[m] + Offset) \in rollups[m]

StampsSince(L) ==
  \A m \in Metrics : \A ts \in DOMAIN readings[m] : ts >= L + Offset \/ ts < L + Offset - 3 * INTERVAL
RaisesSince(L) ==
  \A a \in DOMAIN alerts : alerts[a].hash # NoHash =>
    alerts[a].raisedAt - alerts[a].raisedMono = Offset \/ alerts[a].raisedMono <= L
TakenSince(L) == \A m \in DOMAIN takenAt : takenAt[m] <= L \/ OnRecord(m)
CountedSince(L) ==
  Up => \/ since >= startedAt + Offset /\ since >= L + Offset
        \/ check.pc = "idle" /\ wall - lastCheck > 3 * CHECK_INTERVAL
At(L) == L <= mono /\ StampsSince(L) /\ RaisesSince(L) /\ TakenSince(L) /\ CountedSince(L)

AlertsPast ==
  \A a \in DOMAIN alerts : alerts[a].hash # NoHash =>
    alerts[a].raisedMono <= mono /\ alerts[a].raisedAt <= wall

LeapInv == TimesInv /\ Buckets /\ AlertsPast /\ \E L \in Nat : At(L)

(* Facts about numbers that the steps below add up. *)
LEMMA Numbers ==
  ASSUME TypeOK
  PROVE  /\ wall \in Int /\ mono \in Nat /\ mono \in Int /\ Offset \in Int /\ wall = mono + Offset
         /\ since \in Int /\ startedAt \in Nat /\ lastCheck \in Int
         /\ INTERVAL \in Nat /\ CHECK_INTERVAL \in Nat /\ BUCKET \in Nat /\ BUCKET > 0
         /\ Offsets \subseteq Int
         /\ \A m \in Metrics : DOMAIN readings[m] \subseteq Int /\ rollups[m] \subseteq Int
         /\ \A m \in DOMAIN takenAt : m \in Metrics /\ takenAt[m] \in Nat
         /\ \A a \in DOMAIN alerts : alerts[a] \in Alerts
         /\ \A a \in DOMAIN alerts : alerts[a].raisedAt \in Int /\ alerts[a].raisedMono \in Nat
<1>1. /\ wall \in Int /\ mono \in Nat /\ since \in Int /\ startedAt \in Nat /\ lastCheck \in Int
  BY DEF TypeOK, ClocksTyped, EngineTyped
<1>6. INTERVAL \in Nat /\ CHECK_INTERVAL \in Nat /\ BUCKET \in Nat /\ BUCKET > 0 /\ Offsets \subseteq Int
  BY EngineAssumption, IntervalAssumption
<1>2. Offset \in Int /\ wall = mono + Offset /\ mono \in Int
  BY <1>1 DEF Offset
<1>3. /\ \A m \in Metrics : DOMAIN readings[m] \subseteq Int /\ rollups[m] \subseteq Int
      /\ \A m \in DOMAIN takenAt : m \in Metrics /\ takenAt[m] \in Nat
  BY DEF TypeOK, WorldTyped
<1>4. \A a \in DOMAIN alerts : alerts[a] \in Alerts
  BY DEF TypeOK
<1>5. \A a \in DOMAIN alerts : alerts[a].raisedAt \in Int /\ alerts[a].raisedMono \in Nat
  BY <1>4 DEF Alerts
<1> QED
  BY <1>1, <1>2, <1>3, <1>4, <1>5, <1>6

(* Other than where it is set, the clock's offset stays. *)
LEMMA OffsetStays ==
  ASSUME TypeOK, [Next]_vars, ~ \E offset \in Offsets : ClockSet(offset)
  PROVE  Offset' = Offset /\ mono' \in Nat /\ mono' >= mono /\ wall' \in Int /\ wall' >= wall
<1>0. wall \in Int /\ mono \in Nat
  BY Numbers
<1>1. CASE UNCHANGED clocks
  BY <1>0, <1>1 DEF clocks, Offset
<1>2. CASE Tick
  BY <1>0, <1>2 DEF Tick, Offset
<1> QED
  BY <1>1, <1>2, WhatMoves DEF Reads, Housekeeping

LEMMA AlertsPastStep ==
  ASSUME SetAheadOnly, TimesInv, AlertsPast, [Next]_vars
  PROVE  AlertsPast'
<1>0. TypeOK /\ InTime
  BY DEF TimesInv
<1>1. wall' \in Int /\ mono' \in Nat /\ wall' >= wall /\ mono' >= mono
  <2>1. ASSUME NEW offset \in Offsets, ClockSet(offset)
        PROVE  wall' \in Int /\ mono' \in Nat /\ wall' >= wall /\ mono' >= mono
    <3>1. mono' = mono /\ wall' = mono + offset /\ wall' > wall
      BY <1>0, <2>1, SetsAhead
    <3> QED
      BY <1>0, <3>1, Numbers
  <2> QED
    BY <1>0, <2>1, OffsetStays
<1>2. CASE RowsKept
  BY <1>0, <1>1, <1>2, Numbers DEF AlertsPast, RowsKept, Same
<1>3. ASSUME NEW key \in RuleIds \X Metrics, Raises(key) PROVE AlertsPast'
  <2>1. check.t = wall /\ wall' = wall /\ mono' = mono
    BY <1>3 DEF Raises, Evaluating, TimesInv, InTime, clocks
  <2> QED
    BY <1>0, <1>1, <1>3, <2>1, RaisesRow, Numbers DEF AlertsPast
<1> QED
  BY <1>0, <1>2, <1>3, RowsStep

(* The clock is set: that moment is the leap. *)
LEMMA LeapsNow ==
  ASSUME SetAheadOnly, LeapInv, NEW offset \in Offsets, ClockSet(offset)
  PROVE  At(mono)'
<1>0. TypeOK
  BY DEF LeapInv, TimesInv
<1>1. /\ mono' = mono /\ wall' = mono + offset /\ Offset' = offset /\ offset \in Int
      /\ offset > Offset + 3 * INTERVAL /\ offset > Offset + 3 * CHECK_INTERVAL
  BY <1>0, SetsAhead, Numbers DEF LeapInv, TimesInv
<1>2. /\ readings' = readings /\ takenAt' = takenAt /\ alerts' = alerts /\ rollups' = rollups
      /\ check' = check /\ since' = since /\ lastCheck' = lastCheck /\ startedAt' = startedAt /\ Between
  BY DEF ClockSet, world, clockState
<1>3. StampsSince(mono)'
  <2> SUFFICES ASSUME NEW m \in Metrics, NEW ts \in DOMAIN readings[m]
               PROVE  ts < mono + offset - 3 * INTERVAL
    BY <1>1, <1>2 DEF StampsSince
  <2>1. m \in DOMAIN takenAt /\ ts <= takenAt[m] + Offset /\ takenAt[m] <= mono
    BY DEF LeapInv, TimesInv, Stamped
  <2>2. ts \in Int /\ takenAt[m] \in Nat
    BY <1>0, <2>1, Numbers
  <2> QED
    BY <1>0, <1>1, <2>1, <2>2, Numbers
<1>4. RaisesSince(mono)'
  BY <1>1, <1>2 DEF RaisesSince, LeapInv, AlertsPast
<1>5. TakenSince(mono)'
  BY <1>1, <1>2 DEF TakenSince, LeapInv, TimesInv, Stamped
<1>6. CountedSince(mono)'
  <2>1. Up' => check.pc = "idle"
    BY <1>2 DEF Up, Between
  <2>2. check.pc = "idle" => lastCheck <= wall
    BY DEF LeapInv, TimesInv, InTime
  <2>3. check.pc = "idle" => wall' - lastCheck > 3 * CHECK_INTERVAL
    BY <1>0, <1>1, <2>2, Numbers
  <2> QED
    BY <1>2, <2>1, <2>3 DEF CountedSince
<1> QED
  BY <1>0, <1>1, <1>3, <1>4, <1>5, <1>6, Numbers DEF At

(* What is rolled up or pruned leaves on record when its metric was last read. *)
LEMMA StaysOnRecord ==
  ASSUME TimesInv, Buckets, NEW now \in Int, Housekeeping(now),
         NEW m \in DOMAIN takenAt, OnRecord(m)
  PROVE  OnRecord(m)'
<1> DEFINE last == takenAt[m] + Offset
<1>0. TypeOK /\ m \in Metrics /\ last \in Int
  BY Numbers DEF TimesInv
<1>1. UNCHANGED clocks /\ takenAt' = takenAt /\ Offset' = Offset
  BY DEF Housekeeping, clocks, Offset
<1>2. /\ rollups[m] \subseteq rollups'[m]
      /\ DOMAIN readings'[m] = DOMAIN readings[m] \ {t \in Closed(m, now) : PastRetention(t, now)}
  BY <1>0 DEF Housekeeping
<1>3. CASE DOMAIN readings[m] = {}
  BY <1>1, <1>2, <1>3 DEF OnRecord, BucketOf
<1>4. CASE last \in DOMAIN readings'[m]
  BY <1>1, <1>4 DEF OnRecord
<1>5. CASE last \in DOMAIN readings[m] /\ last \notin DOMAIN readings'[m]
  <2>1. last \in Closed(m, now) /\ PastRetention(last, now)
    BY <1>2, <1>5
  <2>2. \A ts \in DOMAIN readings[m] : ts <= last /\ ts \in Int
    BY <1>0, Numbers DEF TimesInv, Stamped
  <2>3. ASSUME NEW ts \in DOMAIN readings[m] PROVE ts \in Closed(m, now) /\ PastRetention(ts, now)
    <3>1. BucketOf(now) \in Int /\ RAW_KEPT \in Int
      BY BucketBounds, EngineAssumption
    <3>2. \A id \in DOMAIN rules : rules[id].for \in Nat /\ rules[id].clearAfter \in Nat
      BY <1>0, EngineAssumption DEF TypeOK, WorldTyped, Rules
    <3>3. ts <= last /\ ts \in Int
      BY <2>2
    <3>4. last < BucketOf(now) /\ last < now - RAW_KEPT
      BY <2>1 DEF Closed, PastRetention
    <3>5. \A id \in DOMAIN rules : last < now - rules[id].for /\ last < now - rules[id].clearAfter
      BY <2>1 DEF PastRetention
    <3> HIDE DEF last
    <3>6. ts < BucketOf(now) /\ ts < now - RAW_KEPT
      BY <1>0, <3>1, <3>3, <3>4
    <3>7. \A id \in DOMAIN rules : ts < now - rules[id].for /\ ts < now - rules[id].clearAfter
      BY <1>0, <3>2, <3>3, <3>5
    <3> QED
      BY <3>6, <3>7 DEF Closed, PastRetention
  <2>4. DOMAIN readings'[m] = {}
    BY <1>2, <2>3
  <2>5. BucketOf(last) \in rollups'[m]
    BY <1>0, <2>1, RollsUp
  <2> QED
    BY <1>1, <2>4, <2>5 DEF OnRecord, BucketOf
<1> QED
  BY <1>3, <1>4, <1>5 DEF OnRecord

LEMMA LeapStays ==
  ASSUME LeapInv, [Next]_vars, ~ \E offset \in Offsets : ClockSet(offset), NEW L \in Nat, At(L)
  PROVE  At(L)'
<1>0. TypeOK /\ Offset' = Offset /\ mono' \in Nat /\ mono' >= mono /\ wall' \in Int /\ wall' >= wall /\ L <= mono
  BY OffsetStays DEF LeapInv, TimesInv, At
<1>1. L <= mono'
  BY <1>0, Numbers
<1>2. StampsSince(L)' /\ TakenSince(L)'
  <2>0. StampsSince(L) /\ TakenSince(L)
    BY DEF At
  <2>1. CASE UNCHANGED <<readings, rollups, takenAt>>
    BY <1>0, <2>0, <2>1 DEF StampsSince, TakenSince, OnRecord, BucketOf
  <2>2. ASSUME NEW m \in Polled, NEW value \in Values, Reads(m, value)
        PROVE  StampsSince(L)' /\ TakenSince(L)'
    <3>1. m \in Metrics /\ wall' = wall /\ rollups' = rollups
      BY <2>2, EngineAssumption DEF Reads, clocks
    <3>2. /\ \A k \in Metrics : DOMAIN readings'[k] = DOMAIN readings[k] \cup (IF k = m THEN {wall} ELSE {})
          /\ DOMAIN takenAt' = DOMAIN takenAt \cup {m}
          /\ \A k \in DOMAIN takenAt' : takenAt'[k] = IF k = m THEN mono ELSE takenAt[k]
      BY <1>0, <2>2, <3>1 DEF Reads, TypeOK, WorldTyped
    <3>3. wall >= L + Offset /\ mono + Offset = wall
      BY <1>0, Numbers
    <3>4. StampsSince(L)'
      BY <1>0, <2>0, <3>2, <3>3 DEF StampsSince
    <3>5. ASSUME NEW k \in DOMAIN takenAt' PROVE takenAt'[k] <= L \/ OnRecord(k)'
      <4>1. CASE k = m
        BY <1>0, <3>1, <3>2, <3>3, <4>1 DEF OnRecord
      <4>2. CASE k # m
        <5>1. /\ k \in DOMAIN takenAt /\ k \in Metrics /\ takenAt'[k] = takenAt[k]
              /\ DOMAIN readings'[k] = DOMAIN readings[k] /\ rollups'[k] = rollups[k]
          BY <1>0, <3>1, <3>2, <4>2, Numbers
        <5> QED
          BY <1>0, <2>0, <5>1 DEF TakenSince, OnRecord, BucketOf
      <4> QED
        BY <4>1, <4>2
    <3> QED
      BY <3>4, <3>5 DEF TakenSince
  <2>3. ASSUME NEW now \in {wall} \cup {mono + offset : offset \in Offsets0}, Housekeeping(now)
        PROVE  StampsSince(L)' /\ TakenSince(L)'
    <3>1. now \in Int
      BY <1>0, Numbers, EngineAssumption
    <3>2. takenAt' = takenAt /\ \A m \in Metrics : DOMAIN readings'[m] \subseteq DOMAIN readings[m]
      BY <2>3 DEF Housekeeping
    <3> QED
      BY <1>0, <2>0, <2>3, <3>1, <3>2, StaysOnRecord DEF StampsSince, TakenSince, LeapInv
  <2>4. Tick => UNCHANGED <<readings, rollups, takenAt>>
    BY DEF Tick, world
  <2> QED
    BY <2>1, <2>2, <2>3, <2>4, WhatMoves
<1>3. RaisesSince(L)'
  <2>0. RaisesSince(L)
    BY DEF At
  <2>1. CASE RowsKept
    BY <1>0, <2>0, <2>1 DEF RaisesSince, RowsKept, Same
  <2>2. ASSUME NEW key \in RuleIds \X Metrics, Raises(key) PROVE RaisesSince(L)'
    <3>1. check.t - mono = Offset
      BY <2>2 DEF Raises, Evaluating, LeapInv, TimesInv, InTime, Offset
    <3> QED
      BY <1>0, <2>0, <2>2, <3>1, RaisesRow DEF RaisesSince
  <2> QED
    BY <1>0, <2>1, <2>2, RowsStep
<1>4. CountedSince(L)'
  <2>0. CountedSince(L) /\ InTime
    BY DEF At, LeapInv, TimesInv
  <2>1. CASE BeginCheck
    <3>1. Jumped => since' = wall
      BY <2>1 DEF BeginCheck
    <3>2. ~Jumped => since' = since /\ since >= startedAt + Offset /\ since >= L + Offset
      BY <2>0, <2>1 DEF BeginCheck, CountedSince, Jumped, InTime, Up
    <3>3. wall >= startedAt + Offset /\ wall >= L + Offset
      <4>1. startedAt <= mono
        BY <2>0, <2>1 DEF BeginCheck, InTime, Up
      <4> QED
        BY <1>0, <4>1, Numbers
    <3>4. startedAt' = startedAt
      BY <2>1 DEF BeginCheck
    <3> QED
      BY <1>0, <3>1, <3>2, <3>3, <3>4 DEF CountedSince
  <2>2. CASE /\ UNCHANGED clockState /\ check.pc = "checking"
             /\ check'.pc \in {"checking", "idle"}
    BY <1>0, <2>0, <2>2 DEF CountedSince, Up, clockState
  <2>3. CASE UNCHANGED <<check, clockState, wall>>
    BY <1>0, <2>0, <2>3 DEF CountedSince, Up, clockState
  <2>4. CASE Start
    <3>1. since' = wall /\ startedAt' = mono
      BY <2>4 DEF Start
    <3>2. wall >= mono + Offset /\ wall >= L + Offset
      BY <1>0, Numbers
    <3> QED
      BY <1>0, <3>1, <3>2 DEF CountedSince
  <2>5. CASE Crash
    BY <2>5 DEF Crash, NoCheck, CountedSince, Up
  <2>6. CASE Tick
    <3>1. /\ wall' = wall + 1 /\ check' = check
          /\ since' = since /\ lastCheck' = lastCheck /\ startedAt' = startedAt
      BY <2>6 DEF Tick, clockState
    <3>2. wall - lastCheck > 3 * CHECK_INTERVAL => wall' - lastCheck' > 3 * CHECK_INTERVAL
      BY <1>0, <3>1, Numbers
    <3>3. (since >= startedAt + Offset /\ since >= L + Offset) => (since' >= startedAt' + Offset' /\ since' >= L + Offset')
      BY <1>0, <3>1
    <3> QED
      BY <2>0, <3>1, <3>2, <3>3 DEF CountedSince, Up
  <2>7. CASE WorldStep
    BY <2>3, <2>4, <2>5, <2>6, <2>7 DEF WorldStep, Reads, Housekeeping, SavesRules, CertificateChanges,
       Acknowledge, clocks
  <2>8. CASE CheckStep
    <3>1. ASSUME NEW key \in RuleIds \X Metrics, Raises(key) \/ Clears(key) \/ Leaves(key) \/ RuleFails(key)
          PROVE  CountedSince(L)'
      <4>1. UNCHANGED clockState /\ check.pc = "checking" /\ check'.pc = check.pc
        BY <1>0, <3>1 DEF Raises, Clears, Leaves, RuleFails, Done, Evaluating, Checking, TypeOK, CheckTyped
      <4> QED
        BY <2>2, <4>1
    <3>2. ASSUME EndCheck \/ CheckFails PROVE CountedSince(L)'
      BY <2>2, <3>2 DEF EndCheck, CheckFails, NoCheck, Checking
    <3>3. ASSUME NEW a, CloseRemoved(a) \/ CloseChanged(a) PROVE CountedSince(L)'
      BY <2>3, <3>3 DEF CloseRemoved, CloseChanged, clocks
    <3> QED
      BY <2>1, <2>8, <3>1, <3>2, <3>3 DEF CheckStep
  <2> QED
    BY <2>3, <2>7, <2>8 DEF Next, vars, clocks
<1> QED
  BY <1>0, <1>1, <1>2, <1>3, <1>4 DEF At

LEMMA LeapStep == ASSUME SetAheadOnly, LeapInv, [Next]_vars PROVE LeapInv'
<1>1. TimesInv' /\ Buckets' /\ AlertsPast'
  BY TimesStep, BucketsStep, AlertsPastStep DEF LeapInv
<1>2. CASE \E offset \in Offsets : ClockSet(offset)
  <2>1. PICK offset \in Offsets : ClockSet(offset)
    BY <1>2
  <2>2. mono' = mono /\ mono \in Nat
    BY <2>1, Numbers DEF ClockSet, LeapInv, TimesInv
  <2>3. At(mono)'
    BY <2>1, LeapsNow
  <2>4. \E L \in Nat : At(L)'
    BY <2>2, <2>3 DEF At, StampsSince, RaisesSince, TakenSince, CountedSince
  <2> QED
    BY <1>1, <2>4 DEF LeapInv
<1>3. CASE ~ \E offset \in Offsets : ClockSet(offset)
  <2>1. PICK L \in Nat : At(L)
    BY DEF LeapInv
  <2>2. At(L)'
    BY <1>3, <2>1, LeapStays
  <2> QED
    BY <1>1, <2>2 DEF LeapInv
<1> QED
  BY <1>2, <1>3

LEMMA InitLeap == ASSUME Init PROVE LeapInv
<1>1. TypeOK
  BY InitTypes
<1>2. /\ mono = 0 /\ check.pc = "down" /\ checked = FALSE /\ takenAt = << >>
      /\ \A m \in Metrics : readings[m] = << >> /\ rollups[m] = {}
      /\ \A a \in DOMAIN alerts : alerts[a].hash = NoHash
  BY FirstAlerts DEF Init, NoCheck
<1>3. Offset \in Offsets0 /\ wall \in Int
  BY <1>2, EngineAssumption DEF Init, Offset
<1>4. TimesInv
  BY <1>1, <1>2, <1>3 DEF TimesInv, InTime, Stamped, Checking, Up
<1>5. Buckets /\ AlertsPast
  BY <1>2 DEF Buckets, AlertsPast
<1>6. At(0)
  BY <1>2 DEF At, StampsSince, RaisesSince, TakenSince, CountedSince, Up
<1> QED
  BY <1>4, <1>5, <1>6 DEF LeapInv

(***************************************************************************)
(* Silence.                                                                *)
(***************************************************************************)
LEMMA RaisedAfterSilence ==
  ASSUME LeapInv, NEW key \in RuleIds \X Metrics, Raises(key), check.rules[key[1]].condition = "silent"
  PROVE  Quiet(key[2]) > check.rules[key[1]].limit - BUCKET
<1> DEFINE rule == check.rules[key[1]]
           m == key[2]
           heard == Heard(m)
           latest == Latest(heard, check.t)
<1>0. /\ TypeOK /\ InTime /\ check.pc = "checking" /\ check.t = wall /\ key[1] \in DOMAIN check.rules
      /\ m \in Metrics /\ rule.limit \in Nat
  <2>1. TypeOK /\ InTime /\ check.pc = "checking" /\ check.t = wall /\ m \in Metrics
    BY DEF Raises, Evaluating, Checking, LeapInv, TimesInv, InTime
  <2>2. check.rules \in RuleSets /\ key \in KeysOf(check.rules)
    BY DEF Raises, Evaluating, LeapInv, TimesInv, TypeOK, CheckTyped
  <2>3. key[1] \in DOMAIN check.rules
    BY <2>2, KeysOfRules
  <2> QED
    BY <2>1, <2>2, <2>3, EngineAssumption DEF Rules
<1>1. DecideSilence(rule, heard, check.t, since, OpenFor(key) # {}) = "raise" /\ OpenFor(key) = {}
  BY DEF Raises, Decision, IsCertificateRule, Evaluate
<1>2. latest # {} /\ \A ts \in latest : wall - (IF ts < since THEN since ELSE ts) > rule.limit
  <2> HIDE DEF rule, heard
  <2> QED
    BY <1>0, <1>1 DEF DecideSilence
<1>3. PICK L \in Nat : At(L)
  BY DEF LeapInv
<1>4. since \in Int /\ startedAt \in Nat /\ Offset \in Int /\ mono \in Int /\ wall = mono + Offset
      /\ BUCKET \in Nat /\ BUCKET > 0
  BY <1>0, Numbers
<1>5. since >= startedAt + Offset /\ since >= L + Offset
  BY <1>0, <1>3 DEF At, CountedSince, Up
<1>6. \A ts \in heard : ts \in Int
  BY <1>0, Numbers DEF Heard
<1>7. wall - since > rule.limit
  <2>1. PICK ts \in latest : TRUE
    BY <1>2
  <2>2. ts \in Int
    BY <1>6 DEF Latest, Believed
  <2> HIDE DEF rule, latest
  <2> QED
    BY <1>0, <1>2, <1>4, <2>1, <2>2
<1>8. mono - startedAt > rule.limit
  <2> HIDE DEF rule
  <2> QED
    BY <1>0, <1>4, <1>5, <1>7
<1>9. ASSUME m \in DOMAIN takenAt PROVE mono - takenAt[m] > rule.limit - BUCKET
  <2>0. takenAt[m] \in Nat /\ takenAt[m] <= mono
    BY <1>0, <1>9, Numbers DEF LeapInv, TimesInv, Stamped
  <2>1. CASE takenAt[m] <= L
    <3> HIDE DEF rule
    <3> QED
      BY <1>0, <1>3, <1>4, <1>5, <1>7, <2>0, <2>1
  <2>2. CASE takenAt[m] + Offset \in DOMAIN readings[m]
    <3> DEFINE last == takenAt[m] + Offset
    <3>1. FUTURE_TOLERANCE \in Nat /\ last \in Int /\ last <= wall
      BY <1>0, <1>4, <2>0, IntervalAssumption
    <3>2. \A ts \in DOMAIN readings[m] : ts \in Int /\ ts <= last
      BY <1>0, Numbers DEF LeapInv, TimesInv, Stamped
    <3> HIDE DEF last
    <3>3. last \in Believed(DOMAIN readings[m], check.t)
      BY <1>0, <1>4, <2>2, <3>1 DEF Believed, last
    <3>4. heard = DOMAIN readings[m]
      BY <3>3 DEF Heard
    <3>5. last \in latest
      BY <3>2, <3>3, <3>4 DEF Latest, Believed
    <3>6. wall - last > rule.limit
      <4> HIDE DEF rule, latest
      <4> QED
        BY <1>0, <1>2, <1>4, <3>1, <3>5
    <3> HIDE DEF rule
    <3> QED
      BY <1>0, <1>4, <2>0, <3>6 DEF last
  <2>3. CASE DOMAIN readings[m] = {} /\ BucketOf(takenAt[m] + Offset) \in rollups[m]
    <3> DEFINE b == BucketOf(takenAt[m] + Offset)
    <3>1. b \in Int /\ b <= takenAt[m] + Offset /\ takenAt[m] + Offset < b + BUCKET
      BY <1>4, <2>0, BucketBounds
    <3>2. FUTURE_TOLERANCE \in Nat
      BY IntervalAssumption
    <3> HIDE DEF b
    <3>3. heard = rollups[m]
      BY <2>3 DEF Heard, Believed
    <3>4. b \in Believed(heard, check.t)
      BY <1>0, <1>4, <2>0, <2>3, <3>1, <3>2, <3>3 DEF Believed, b
    <3>5. PICK ts \in latest : TRUE
      BY <1>2
    <3>6. ts \in Int /\ b <= ts
      BY <1>6, <3>4, <3>5 DEF Latest, Believed
    <3>7. wall - b > rule.limit
      <4>1. wall - (IF ts < since THEN since ELSE ts) > rule.limit
        BY <1>2, <3>5
      <4> HIDE DEF rule, latest
      <4> QED
        BY <1>0, <1>4, <3>1, <3>6, <4>1
    <3> HIDE DEF rule
    <3> QED
      BY <1>0, <1>4, <2>0, <3>1, <3>7
  <2> QED
    BY <1>3, <1>9, <2>1, <2>2, <2>3 DEF At, TakenSince, OnRecord
<1>10. m \in DOMAIN takenAt => takenAt[m] \in Nat
  BY <1>0, Numbers
<1> HIDE DEF rule
<1> QED
  BY <1>0, <1>4, <1>8, <1>9, <1>10 DEF Quiet, rule

LEMMA SilenceStep ==
  ASSUME LeapInv, SilenceIsElapsed, [Next]_vars PROVE SilenceIsElapsed'
<1>0. TypeOK
  BY DEF LeapInv, TimesInv
<1>1. CASE RowsKept
  BY <1>1 DEF SilenceIsElapsed, RaisedBy, RowsKept, Same
<1>2. ASSUME NEW key \in RuleIds \X Metrics, Raises(key) PROVE SilenceIsElapsed'
  <2> DEFINE rule == check.rules[key[1]]
  <2>1. RuleHash(rule)[1] = rule.condition /\ RuleHash(rule)[4] = rule.limit
    BY DEF RuleHash
  <2>2. rule.condition = "silent" => Quiet(key[2]) > rule.limit - BUCKET
    BY <1>2, RaisedAfterSilence
  <2> HIDE DEF rule
  <2> QED
    BY <1>0, <1>2, <2>1, <2>2, RaisesRow DEF SilenceIsElapsed, RaisedBy, rule
<1> QED
  BY <1>0, <1>1, <1>2, RowsStep

(* Where the clock is right or set right from far behind, a silence alert    *)
(* means the engine ran and the metric was not read for the rule's limit of  *)
(* elapsed time, less a bucket if its readings were pruned (evaluate.ts      *)
(* :24-25, engine.ts:114-128): however checks, restarts, roll-ups, pruning   *)
(* and the setting of the clock interleave.                                  *)
THEOREM SilenceCorrect == ASSUME SetAheadOnly PROVE Spec => []SilenceIsElapsed
<1> DEFINE Inv == LeapInv /\ SilenceIsElapsed
<1>1. Init => Inv
  <2>1. Init => \A a \in DOMAIN alerts : ~RaisedBy(a, "silent")
    BY FirstAlerts DEF RaisedBy
  <2> QED
    BY <2>1, InitLeap DEF SilenceIsElapsed
<1>2. Inv /\ [Next]_vars => Inv'
  BY LeapStep, SilenceStep
<1>3. Inv => SilenceIsElapsed
  OBVIOUS
<1> QED
  BY <1>1, <1>2, <1>3, PTL DEF Spec

(***************************************************************************)
(* Hysteresis.  The reading that raised an alert stays in the table for as *)
(* long as the window that may clear it still reaches back to it.          *)
(***************************************************************************)
ClearAfter(a) == alerts[a].hash[3]
Witnessed(a, n) ==
  /\ alerts[a].raisedAt - 2 * INTERVAL <= n /\ n <= wall
  /\ \/ n < wall - ClearAfter(a)
     \/ LET m == alerts[a].key[2] IN n \in DOMAIN readings[m] /\ readings[m][n] = "hot"
HotKept == \A a \in Open : Threshold(a) => \E n \in Int : Witnessed(a, n)

LEMMA ClearAfters ==
  ASSUME RawIsKept, NEW hash \in Hashes PROVE hash[3] \in Nat /\ hash[3] <= RAW_KEPT
<1>1. PICK rs \in RuleSets : \E id \in DOMAIN rs : hash = RuleHash(rs[id])
  BY DEF Hashes
<1>3. PICK id \in DOMAIN rs : hash = RuleHash(rs[id])
  BY <1>1
<1>2. rs[id] \in Rules /\ rs[id].clearAfter <= RAW_KEPT
  BY EngineAssumption DEF RawIsKept
<1> QED
  BY <1>2, <1>3 DEF Rules, RuleHash

(* A raise has a hot reading to show, not older than two polls. *)
LEMMA RaiseIsWitnessed ==
  ASSUME LeapInv, NEW key \in RuleIds \X Metrics, Raises(key), check.rules[key[1]].condition = "hot"
  PROVE  \E n \in DOMAIN readings[key[2]] :
           wall - 2 * INTERVAL <= n /\ n <= wall /\ readings[key[2]][n] = "hot"
<1> DEFINE rule == check.rules[key[1]]
           m == key[2]
           r == readings[m]
<1>0. /\ TypeOK /\ check.t = wall /\ m \in Metrics /\ wall \in Int /\ INTERVAL \in Nat
      /\ DOMAIN r \subseteq Int
  BY Numbers DEF Raises, Evaluating, Checking, LeapInv, TimesInv, InTime
<1>1. \A ts \in DOMAIN r : ts <= wall
  <2> TAKE ts \in DOMAIN r
  <2>1. m \in DOMAIN takenAt /\ ts <= takenAt[m] + Offset /\ takenAt[m] <= mono
    BY <1>0 DEF LeapInv, TimesInv, Stamped
  <2>2. ts \in Int /\ takenAt[m] \in Nat /\ Offset \in Int /\ mono \in Nat /\ wall = mono + Offset
    BY <1>0, <2>1, Numbers
  <2> QED
    BY <2>1, <2>2
<1>2. Evaluate(rule, r, Heard(m), wall, since, FALSE) = "raise"
  BY <1>0 DEF Raises, Decision, IsCertificateRule
<1>3. \/ DecideLatest(r, wall, FALSE) = "raise"
      \/ DecideWindow(r, wall, rule.for, FALSE) = "raise"
  BY <1>2 DEF Evaluate, WindowMs
<1> HIDE DEF r, m, rule
<1>4. CASE DecideLatest(r, wall, FALSE) = "raise"
  <2>1. PICK ts \in Latest(DOMAIN r, wall) : r[ts] = "hot"
    BY <1>4 DEF DecideLatest
  <2>2. PICK new \in Latest(DOMAIN r, wall) : ~(new < wall - 2 * INTERVAL)
    BY <1>4 DEF DecideLatest
  <2>3. ts \in DOMAIN r /\ ts \in Int /\ new \in Int /\ new <= ts
    BY <1>0, <2>1, <2>2 DEF Latest, Believed
  <2> QED
    BY <1>0, <1>1, <2>1, <2>2, <2>3 DEF r, m
<1>5. CASE DecideWindow(r, wall, rule.for, FALSE) = "raise"
  <2> DEFINE window == Window(r, wall - rule.for, wall)
  <2>1. Covered(window, wall, rule.for) /\ \A ts \in window : r[ts] = "hot"
    BY <1>5 DEF DecideWindow
  <2>2. PICK newest \in window : newest >= wall - 2 * INTERVAL
    BY <2>1 DEF Covered
  <2>3. newest \in DOMAIN r /\ newest <= wall
    BY <2>2 DEF Window
  <2> QED
    BY <1>0, <2>1, <2>2, <2>3 DEF r, m
<1> QED
  BY <1>3, <1>4, <1>5

LEMMA WitnessStays ==
  ASSUME SetAheadOnly, RawIsKept, LeapInv, [Next]_vars, NEW a \in Open, Threshold(a), Same(a),
         NEW n \in Int, Witnessed(a, n)
  PROVE  Witnessed(a, n)'
<1> DEFINE m == alerts[a].key[2]
<1>0. /\ TypeOK /\ wall \in Int /\ mono \in Nat /\ Offset \in Int /\ wall = mono + Offset
      /\ alerts[a].raisedAt \in Int /\ m \in Metrics /\ ClearAfter(a) \in Nat /\ ClearAfter(a) <= RAW_KEPT
  <2>1. TypeOK /\ a \in DOMAIN alerts
    BY DEF LeapInv, TimesInv, Open
  <2>2. alerts[a].hash \in Hashes /\ m \in Metrics
    BY <2>1, Numbers DEF Alerts, Keys, Threshold, RaisedBy
  <2> QED
    BY <2>1, <2>2, Numbers, ClearAfters DEF ClearAfter
<1>1. wall' \in Int /\ wall' >= wall
  <2>1. ASSUME NEW offset \in Offsets, ClockSet(offset) PROVE wall' \in Int /\ wall' >= wall
    <3>1. offset \in Int /\ wall' = mono + offset /\ wall' > wall
      BY <1>0, <2>1, SetsAhead, Numbers DEF LeapInv, TimesInv
    <3> QED
      BY <1>0, <3>1
  <2> QED
    BY <1>0, <2>1, OffsetStays
<1>2. ClearAfter(a)' = ClearAfter(a) /\ alerts'[a].key[2] = m /\ alerts'[a].raisedAt = alerts[a].raisedAt
  BY DEF Same, ClearAfter
<1>3. alerts'[a].raisedAt - 2 * INTERVAL <= n /\ n <= wall'
  BY <1>0, <1>1, <1>2 DEF Witnessed
<1>4. n < wall - ClearAfter(a) => n < wall' - ClearAfter(a)'
  BY <1>0, <1>1, <1>2
<1>5. ASSUME n \in DOMAIN readings[m], readings[m][n] = "hot", ~(n < wall - ClearAfter(a))
      PROVE  n \in DOMAIN readings'[m] /\ readings'[m][n] = "hot"
  <2>1. CASE UNCHANGED readings
    BY <1>5, <2>1
  <2>2. ASSUME NEW k \in Polled, NEW value \in Values, Reads(k, value)
        PROVE  n \in DOMAIN readings'[m] /\ readings'[m][n] = "hot"
    <3>1. m # k => readings'[m] = readings[m]
      BY <1>0, <2>2 DEF Reads, TypeOK, WorldTyped
    <3>2. CASE m = k
      <4>1. m \in DOMAIN takenAt /\ n <= takenAt[m] + Offset /\ takenAt[m] < mono /\ takenAt[m] \in Nat
        BY <1>0, <1>5, <2>2, <3>2, Numbers DEF Reads, LeapInv, TimesInv, Stamped
      <4>2. n # wall
        BY <1>0, <4>1
      <4> QED
        BY <1>0, <1>5, <2>2, <3>2, <4>2 DEF Reads, TypeOK, WorldTyped
    <3> QED
      BY <1>5, <3>1, <3>2
  <2>3. ASSUME NEW now \in {wall} \cup {mono + offset : offset \in Offsets0}, Housekeeping(now)
        PROVE  n \in DOMAIN readings'[m] /\ readings'[m][n] = "hot"
    <3>1. now \in Int /\ now <= wall /\ RAW_KEPT \in Int
      BY <1>0, <2>3, EngineAssumption DEF Housekeeping
    <3>2. ~(n < now - RAW_KEPT)
      BY <1>0, <1>5, <3>1
    <3>3. ~PastRetention(n, now)
      BY <3>2 DEF PastRetention
    <3> QED
      BY <1>0, <1>5, <2>3, <3>3 DEF Housekeeping
  <2>4. Tick \/ (\E offset \in Offsets : ClockSet(offset)) => UNCHANGED readings
    BY DEF Tick, ClockSet, world
  <2> QED
    BY <2>1, <2>2, <2>3, <2>4, WhatMoves
<1>6. Witnessed(a, n)' \/ ~(n < wall - ClearAfter(a))
  BY <1>2, <1>3, <1>4 DEF Witnessed
<1> QED
  BY <1>2, <1>3, <1>4, <1>5, <1>6 DEF Witnessed

LEMMA HotKeptStep ==
  ASSUME SetAheadOnly, RawIsKept, LeapInv, HotKept, [Next]_vars PROVE HotKept'
<1>0. TypeOK
  BY DEF LeapInv, TimesInv
<1>1. CASE RowsKept
  <2> SUFFICES ASSUME NEW a \in Open', Threshold(a)' PROVE \E n \in Int : Witnessed(a, n)'
    BY DEF HotKept
  <2>1. a \in Open /\ Same(a) /\ Threshold(a)
    BY <1>1 DEF RowsKept, Open, Stays, Closes, Same, Threshold, RaisedBy
  <2>2. PICK n \in Int : Witnessed(a, n)
    BY <2>1 DEF HotKept
  <2> QED
    BY <2>1, <2>2, WitnessStays
<1>2. ASSUME NEW key \in RuleIds \X Metrics, Raises(key) PROVE HotKept'
  <2> DEFINE raised == Len(alerts) + 1
  <2>0. /\ DOMAIN alerts' = DOMAIN alerts \cup {raised} /\ raised \notin DOMAIN alerts
        /\ \A a \in DOMAIN alerts : alerts'[a] = alerts[a]
        /\ alerts'[raised].key = key /\ alerts'[raised].hash = RuleHash(check.rules[key[1]])
        /\ alerts'[raised].raisedAt = check.t
    BY <1>0, <1>2, RaisesRow
  <2>1. check.t = wall /\ wall' = wall /\ readings' = readings
    BY <1>2 DEF Raises, Evaluating, LeapInv, TimesInv, InTime, clocks, world
  <2> HIDE DEF raised
  <2>2. ASSUME NEW a \in Open', Threshold(a)' PROVE \E n \in Int : Witnessed(a, n)'
    <3>1. CASE a = raised
      <4>1. check.rules[key[1]].condition = "hot"
        BY <2>0, <2>2, <3>1 DEF Threshold, RaisedBy, RuleHash
      <4>2. PICK n \in DOMAIN readings[key[2]] :
              wall - 2 * INTERVAL <= n /\ n <= wall /\ readings[key[2]][n] = "hot"
        BY <1>2, <4>1, RaiseIsWitnessed
      <4>3. n \in Int
        BY <1>0, <4>2, Numbers
      <4> QED
        BY <2>0, <2>1, <3>1, <4>2, <4>3 DEF Witnessed
    <3>2. CASE a # raised
      <4>1. a \in Open /\ Same(a) /\ Threshold(a)
        BY <2>0, <2>2, <3>2 DEF Open, Same, Threshold, RaisedBy
      <4>2. PICK n \in Int : Witnessed(a, n)
        BY <4>1 DEF HotKept
      <4> QED
        BY <4>1, <4>2, WitnessStays
    <3> QED
      BY <3>1, <3>2
  <2> QED
    BY <2>2 DEF HotKept
<1> QED
  BY <1>0, <1>1, <1>2, RowsStep

(* A window that is covered has no gap a leap of the clock fits in. *)
LEMMA Greatest ==
  ASSUME NEW S \in SUBSET Int, IsFiniteSet(S), S # {} PROVE \E g \in S : \A k \in S : k <= g
<1> DEFINE Above(a) == {b \in S : a < b}
           F == {Above(a) : a \in S}
<1>1. \A a \in S : Above(a) \in FiniteSubsetsOf(S)
  <2> TAKE a \in S
  <2>1. Above(a) \in SUBSET S
    OBVIOUS
  <2> QED
    BY <2>1, FS_Subset DEF FiniteSubsetsOf
<1>2. F \subseteq FiniteSubsetsOf(S) /\ F # {}
  BY <1>1
<1>3. \A a \in S : Above(a) \in F /\ Above(a) \in SUBSET S
  OBVIOUS
<1> HIDE DEF F
<1>4. PICK U \in F : \A V \in F : ~(<<V, U>> \in StrictSubsetOrdering(S))
  BY <1>2, FS_StrictSubsetOrderingWellFounded, WFMin
<1>5. PICK g \in S : U = Above(g)
  BY <1>4 DEF F
<1>6. ASSUME NEW k \in S, g < k PROVE FALSE
  <2>1. k \in Above(g) /\ k \notin Above(k)
    BY <1>6
  <2>2. ASSUME NEW b \in Above(k) PROVE b \in Above(g)
    <3>1. b \in Int /\ k \in Int /\ g \in Int /\ k < b
      OBVIOUS
    <3>2. g < b
      BY <1>6, <3>1
    <3> QED
      BY <3>2
  <2>3. Above(k) \subseteq Above(g) /\ Above(k) # Above(g)
    BY <2>1, <2>2
  <2>4. Above(k) \in F /\ Above(k) \in SUBSET S /\ Above(g) \in SUBSET S
    BY <1>3
  <2> HIDE DEF Above
  <2>5. <<Above(k), Above(g)>> \in StrictSubsetOrdering(S)
    BY <2>3, <2>4 DEF StrictSubsetOrdering
  <2> QED
    BY <1>4, <1>5, <2>4, <2>5
<1>7. \A k \in S : ~(g < k)
  BY <1>6
<1> QED
  BY <1>7

LEMMA NoLeapWithin ==
  ASSUME NEW S \in SUBSET Int, IsFiniteSet(S), NEW x \in Int,
         \A ts \in S : ts >= x \/ ts < x - 3 * INTERVAL,
         \A ts \in S : \/ \A other \in S : other <= ts
                       \/ \E next \in S : ts < next /\ next - ts <= 3 * INTERVAL,
         NEW new \in S, new >= x
  PROVE  \A ts \in S : ts >= x
<1>0. INTERVAL \in Nat
  BY IntervalAssumption
<1> DEFINE low == {ts \in S : ts < x - 3 * INTERVAL}
<1>1. SUFFICES ASSUME low # {} PROVE FALSE
  OBVIOUS
<1>2. IsFiniteSet(low) /\ low \in SUBSET Int
  BY FS_Subset
<1>3. PICK g \in low : \A k \in low : k <= g
  <2> HIDE DEF low
  <2> QED
    BY <1>1, <1>2, Greatest
<1>4. g \in S /\ g \in Int /\ g < x - 3 * INTERVAL /\ new \in Int /\ new > g
  BY <1>0
<1>5. PICK next \in S : g < next /\ next - g <= 3 * INTERVAL
  BY <1>4
<1>6. next \in Int /\ next < x
  BY <1>0, <1>4, <1>5
<1>7. next \in low
  BY <1>0, <1>6
<1>8. next <= g
  BY <1>3, <1>7
<1> QED
  BY <1>4, <1>5, <1>6, <1>8

(* What a clear of a threshold alert has found. *)
LEMMA ClearedAfterWindow ==
  ASSUME LeapInv, AlertsPast, HotKept, NEW key \in RuleIds \X Metrics, Clears(key), NEW a \in OpenFor(key),
         Threshold(a), ClearAfter(a) \in Nat \ {0}
  PROVE  mono - alerts[a].raisedMono >= ClearAfter(a) - 2 * INTERVAL
<1> DEFINE rule == check.rules[key[1]]
           m == key[2]
           r == readings[m]
           c == ClearAfter(a)
           window == Window(r, wall - c, wall)
<1>0. /\ TypeOK /\ check.t = wall /\ m \in Metrics /\ wall \in Int /\ mono \in Int /\ Offset \in Int
      /\ INTERVAL \in Nat /\ wall = mono + Offset /\ DOMAIN r \subseteq Int
      /\ a \in Open /\ a \in DOMAIN alerts /\ alerts[a].raisedAt \in Int /\ alerts[a].raisedMono \in Int
      /\ alerts[a].key = key
  BY Numbers DEF Clears, Evaluating, Checking, LeapInv, TimesInv, InTime, OpenFor, Open
<1>1. alerts[a].hash = RuleHash(rule)
  BY <1>0 DEF Clears, Evaluating, Stale, Removed, Changed, Threshold, RaisedBy
<1>2. rule.condition = "hot" /\ rule.clearAfter = c /\ c # 0
  BY <1>1 DEF Threshold, RaisedBy, ClearAfter, RuleHash
<1>3. Evaluate(rule, r, Heard(m), wall, since, TRUE) = "clear"
  BY <1>0, <1>2 DEF Clears, Decision, IsCertificateRule
<1> HIDE DEF rule, c, m, r
<1>4. DecideWindow(r, wall, c, TRUE) = "clear"
  BY <1>2, <1>3 DEF Evaluate, WindowMs
<1>5. Covered(window, wall, c) /\ \A ts \in window : r[ts] # "hot"
  BY <1>4 DEF DecideWindow
<1>6. c \in Nat
  BY DEF c
<1>7. PICK n \in Int : Witnessed(a, n)
  BY <1>0 DEF HotKept
<1>8. n < wall - c
  <2>1. n <= wall /\ (n < wall - c \/ (n \in DOMAIN r /\ r[n] = "hot"))
    BY <1>0, <1>7 DEF Witnessed, c, r, m
  <2>2. ~(n < wall - c) => wall - c <= n
    BY <1>0, <1>6
  <2> QED
    BY <1>5, <2>1, <2>2 DEF Window
<1>9. wall - alerts[a].raisedAt > c - 2 * INTERVAL
  <2>1. alerts[a].raisedAt - 2 * INTERVAL <= n
    BY <1>7 DEF Witnessed
  <2> QED
    BY <1>0, <1>6, <1>8, <2>1
<1>10. PICK L \in Nat : At(L)
  BY DEF LeapInv
<1>11. CASE alerts[a].raisedAt - alerts[a].raisedMono = Offset
  BY <1>0, <1>6, <1>9, <1>11 DEF c
<1>12. CASE alerts[a].raisedMono <= L
  <2>1. window \in SUBSET Int /\ IsFiniteSet(window)
    <3>1. window \in SUBSET ((wall - c) .. wall)
      BY <1>0, <1>6 DEF Window
    <3>2. wall - c \in Int
      BY <1>0, <1>6
    <3>3. IsFiniteSet((wall - c) .. wall)
      BY <1>0, <3>2, FS_Interval
    <3>4. window \in SUBSET Int
      BY <1>0 DEF Window
    <3> HIDE DEF window
    <3>5. IsFiniteSet(window)
      BY <3>1, <3>3, FS_Subset
    <3> QED
      BY <3>4, <3>5
  <2>2. L + Offset \in Int /\ L <= mono
    BY <1>0, <1>10 DEF At
  <2>3. \A ts \in window : ts >= L + Offset \/ ts < L + Offset - 3 * INTERVAL
    BY <1>0, <1>10 DEF Window, At, StampsSince, r
  <2>4. PICK newest \in window : newest >= wall - 2 * INTERVAL
    BY <1>5 DEF Covered
  <2>5. newest >= L + Offset
    BY <1>0, <2>1, <2>2, <2>3, <2>4
  <2>6. \A ts \in window : ts >= L + Offset
    <3> DEFINE x == L + Offset
    <3>1. \A ts \in window : \/ \A other \in window : other <= ts
                             \/ \E next \in window : ts < next /\ next - ts <= 3 * INTERVAL
      BY <1>5 DEF Covered
    <3>2. x \in Int /\ newest >= x /\ \A ts \in window : ts >= x \/ ts < x - 3 * INTERVAL
      BY <1>0, <2>1, <2>2, <2>3, <2>5
    <3> HIDE DEF window, x
    <3>3. \A ts \in window : ts >= x
      BY <2>1, <2>4, <3>1, <3>2, NoLeapWithin
    <3> QED
      BY <3>3 DEF x
  <2>7. PICK oldest \in window : oldest <= wall - c + 2 * INTERVAL
    BY <1>5 DEF Covered
  <2>8. oldest \in Int /\ oldest >= L + Offset
    BY <2>1, <2>6, <2>7
  <2> QED
    BY <1>0, <1>6, <1>12, <2>2, <2>7, <2>8 DEF c
<1> QED
  BY <1>0, <1>10, <1>11, <1>12 DEF At, RaisesSince, Threshold, RaisedBy

LEMMA HysteresisStep ==
  ASSUME SetAheadOnly, RawIsKept, LeapInv, HotKept, HysteresisHolds, [Next]_vars
  PROVE  HysteresisHolds'
<1>0. TypeOK /\ AlertsPast
  BY DEF LeapInv, TimesInv
<1>1. ASSUME RowsKept, NEW a \in DOMAIN alerts,
             Threshold(a)', ByCondition(a)', alerts'[a].hash[3] > 0
      PROVE  alerts'[a].clearedMono - alerts'[a].raisedMono >= alerts'[a].hash[3] - 2 * INTERVAL
  <2>0. Same(a) /\ (Stays(a) \/ Closes(a))
    BY <1>1 DEF RowsKept
  <2>1. Threshold(a) /\ alerts[a].hash[3] > 0
    BY <1>1, <2>0 DEF Same, Threshold, RaisedBy
  <2>2. CASE Stays(a)
    BY <1>1, <2>0, <2>1, <2>2 DEF Same, Stays, ByCondition, HysteresisHolds
  <2>3. CASE Closes(a)
    <3>1. alerts'[a].clearedMono = mono
      BY <2>3 DEF Closes
    <3>2. PICK key \in RuleIds \X Metrics : Clears(key) /\ a \in OpenFor(key)
      BY <1>1, <2>3 DEF Closes, ByCondition
    <3>3. ClearAfter(a) \in Nat \ {0}
      <4>1. alerts[a].hash \in Hashes
        BY <1>0, <1>1, <2>1, Numbers DEF Alerts, Threshold, RaisedBy
      <4> QED
        BY <2>1, <4>1, ClearAfters DEF ClearAfter
    <3> QED
      BY <1>0, <2>0, <2>1, <3>1, <3>2, <3>3, ClearedAfterWindow DEF Same, ClearAfter
  <2> QED
    BY <2>0, <2>2, <2>3
<1>2. CASE RowsKept
  BY <1>1, <1>2 DEF HysteresisHolds, RowsKept
<1>3. ASSUME NEW key \in RuleIds \X Metrics, Raises(key) PROVE HysteresisHolds'
  BY <1>0, <1>3, RaisesRow DEF HysteresisHolds, Threshold, RaisedBy, ByCondition
<1> QED
  BY <1>0, <1>2, <1>3, RowsStep

(* Where the clock is right or set right from far behind, and rules look     *)
(* back no further than readings are kept, a threshold alert stays open for  *)
(* clearAfter of elapsed time less two polls (evaluate.ts:62-91): the hot    *)
(* reading that raised it is in the window until then, and a leap of the     *)
(* clock leaves a gap no window spans.                                       *)
THEOREM HysteresisCorrect == ASSUME SetAheadOnly, RawIsKept PROVE Spec => []HysteresisHolds
<1> DEFINE Inv == LeapInv /\ HotKept /\ HysteresisHolds
<1>1. Init => Inv
  <2>1. Init => \A a \in DOMAIN alerts : ~Threshold(a)
    BY FirstAlerts DEF Threshold, RaisedBy
  <2> QED
    BY <2>1, InitLeap DEF HysteresisHolds, HotKept, Open
<1>2. Inv /\ [Next]_vars => Inv'
  BY LeapStep, HotKeptStep, HysteresisStep
<1>3. Inv => HysteresisHolds
  OBVIOUS
<1> QED
  BY <1>1, <1>2, <1>3, PTL DEF Spec
=============================================================================
