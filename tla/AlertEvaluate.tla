---------------------------- MODULE AlertEvaluate ----------------------------
(***************************************************************************)
(* What packages/alerts/src/evaluate.ts decides about one rule and one     *)
(* metric.  A reading either meets the rule's condition ("hot") or does    *)
(* not: atLeast, atMost and bitsSet differ only in how a value is judged,  *)
(* and the window's minimum, maximum and bit count tell whether all of its *)
(* readings meet it, or none.  A metric's readings are a function from     *)
(* their time stamps, the primary key of the metrics table.                *)
(***************************************************************************)
EXTENDS Integers

CONSTANTS
  INTERVAL,            \* the time between two polls of the metric
  FUTURE_TOLERANCE     \* how far ahead of now a reading may be stamped

ASSUME IntervalAssumption == INTERVAL \in Nat \ {0} /\ FUTURE_TOLERANCE \in Nat

Conditions == {"hot", "silent", "expires", "expired"}

(* Rules as in force: a threshold rule, a silence rule with its limit, or   *)
(* one of the two certificate rules.                                        *)
Rules == [condition: Conditions, for: Nat, clearAfter: Nat, limit: Nat,
          severity: {"warning", "critical"}]
Certificates == [known: BOOLEAN, notAfter: Int, synced: BOOLEAN]

IsCertificateRule(rule) == rule.condition \in {"expires", "expired"}
RuleHash(rule) == <<rule.condition, rule.for, rule.clearAfter, rule.limit, rule.severity>>

WindowMs(rule, open) == IF open THEN rule.clearAfter ELSE rule.for
Window(readings, from, to) == {ts \in DOMAIN readings : from <= ts /\ ts <= to}

(* latestReading: none that a clock which ran ahead left in the future. *)
Believed(stamps, now) == {ts \in stamps : ts <= now + FUTURE_TOLERANCE}
Latest(stamps, now) == {ts \in Believed(stamps, now) : \A other \in Believed(stamps, now) : other <= ts}

(* Mutant: a window decides though readings are missing in it. *)
AnyReading(window, now, span) == window # {}

(* Readings span the window, missing no more than two polls in a row. *)
Covered(window, now, span) ==
  /\ \E oldest \in window : oldest <= now - span + 2 * INTERVAL
  /\ \E newest \in window : newest >= now - 2 * INTERVAL
  /\ \A ts \in window :
       \/ \A other \in window : other <= ts
       \/ \E next \in window : ts < next /\ next - ts <= 3 * INTERVAL

DecideLatest(readings, now, open) ==
  LET latest == Latest(DOMAIN readings, now)
  IN  IF \A ts \in latest : ts < now - 2 * INTERVAL THEN "none"
      ELSE IF \E ts \in latest : readings[ts] = "hot" THEN IF open THEN "none" ELSE "raise"
      ELSE IF open THEN "clear" ELSE "none"

DecideWindow(readings, now, span, open) ==
  LET window == Window(readings, now - span, now)
  IN  IF ~Covered(window, now, span) THEN "none"
      ELSE IF ~open /\ \A ts \in window : readings[ts] = "hot" THEN "raise"
      ELSE IF open /\ \A ts \in window : readings[ts] # "hot" THEN "clear"
      ELSE "none"

(* since: the engine's start or its last clock jump.  heard: the stamps     *)
(* silence is counted from, readings or, once pruned, rollup buckets.       *)
DecideSilence(rule, heard, now, since, open) ==
  LET latest == Latest(heard, now)
  IN  IF latest = {} THEN "none"
      ELSE IF open THEN IF \E ts \in latest : now - ts <= rule.limit THEN "clear" ELSE "none"
      ELSE IF \A ts \in latest : now - (IF ts < since THEN since ELSE ts) > rule.limit THEN "raise"
      ELSE "none"

Evaluate(rule, readings, heard, now, since, open) ==
  IF rule.condition = "silent" THEN DecideSilence(rule, heard, now, since, open)
  ELSE IF WindowMs(rule, open) = 0 THEN DecideLatest(readings, now, open)
  ELSE DecideWindow(readings, now, WindowMs(rule, open), open)

(* Without a certificate, or on a clock nobody vouches for: no decision. *)
EvaluateCertificate(rule, certificate, now, open) ==
  LET left == certificate.notAfter - now
      holds == IF rule.condition = "expired" THEN left <= 0 ELSE left > 0 /\ left <= rule.limit
  IN  IF ~certificate.known \/ ~certificate.synced THEN "none"
      ELSE IF holds THEN IF open THEN "none" ELSE "raise"
      ELSE IF open THEN "clear" ELSE "none"
=============================================================================
