------------------------------ MODULE RollUps ------------------------------
(***************************************************************************)
(* packages/storage/src/rollup.ts: readings of one metric are rolled up    *)
(* into minutes, minutes into hours and local days, and what is past its   *)
(* retention goes once the next level covers it.  A row is its count; its  *)
(* average, minimum and maximum go with it.  The clock may be set, the     *)
(* process restarted (in another time zone), the retention saved.          *)
(***************************************************************************)
EXTENDS Integers, FiniteSets, FiniteSetsExt, Functions

CONSTANTS
  None,
  MIN, HOUR, DAY,          \* bucket lengths, in ticks of the clock; DAY is a UTC day
  Midnights,               \* per time zone: when its days begin
  CLOCK_JUMP, CLOCK_ACCEPT, MAX_POINTS,
  DEFAULT_RETENTION, Policies,  \* retentions: built in, and what an operator may save
  HomeZone,                \* the zone of the first process
  Sets,                    \* by how much the clock may be set
  Horizon,                 \* bound: the clock
  OldHorizon,              \* bound: the clock when an older database is opened
  Budgets                  \* bounds: how often what may happen, in one behaviour

RESOLUTIONS == {"raw", "1m", "1h", "1d"}

RollUpsAssumption ==
  /\ MIN \in Nat \ {0} /\ HOUR \in Nat \ {0} /\ DAY \in Nat \ {0} /\ HOUR % MIN = 0 /\ DAY % HOUR = 0
  /\ CLOCK_JUMP \in Nat /\ CLOCK_ACCEPT \in Nat \ {0} /\ Sets \subseteq Int /\ OldHorizon \in Nat
  /\ HomeZone \in DOMAIN Midnights
  /\ \A z \in DOMAIN Midnights :
       Midnights[z] \subseteq Int /\ IsFiniteSet(Midnights[z]) /\ \E m \in Midnights[z] : m <= 0
  /\ Policies \cup {DEFAULT_RETENTION} \subseteq [RESOLUTIONS -> Nat]
  /\ \A p \in Policies \cup {DEFAULT_RETENTION} : p["raw"] <= p["1m"] /\ p["1m"] <= p["1h"] /\ p["1h"] <= p["1d"]

VARIABLES
  raw, minutes, hours, days,  \* readings; rolled-up rows: their counts, by their start
  until,                      \* rollup_progress: where days stopped
  policy, zone,               \* the retention in force; the process's time zone
  wall, ahead, doubted,       \* the clock; how far ahead of elapsed time since the
                              \* anchor, if there is one; for how long that was seen
  left,                       \* what is left of the bounds
  onTime, late,               \* history: see the properties
  done, off, believed, low, lengthened

tables == <<raw, minutes, hours, days, until>>
settings == <<policy, zone>>
clock == <<wall, ahead, doubted>>
history == <<onTime, late, done, off, believed, low, lengthened>>
vars == <<tables, settings, clock, left, history>>

Floor(t, step) == (t \div step) * step
Minute(t) == Floor(t, MIN)
Hour(t) == Floor(t, HOUR)
LocalDayStart(t) == Max({m \in Midnights[zone] : m <= t})
NoRows == [t \in {} |-> 0]
Within(rows, from, to) == {t \in DOMAIN rows : from <= t /\ t < to}
Total(rows, S) == SumFunctionOnSet(rows, S)

(***************************************************************************)
(* trustedNow: a clock far ahead of elapsed time is not believed until it  *)
(* has stayed there.                                                       *)
(***************************************************************************)
Disbelieved ==
  /\ ahead # None /\ (ahead # None => ahead > CLOCK_JUMP)
  /\ doubted # None => doubted < CLOCK_ACCEPT
TrustedNow == IF Disbelieved THEN wall - ahead ELSE wall
ReadTrusted ==
  /\ doubted' = IF ~Disbelieved THEN None ELSE IF doubted = None THEN 0 ELSE doubted
  /\ ahead' = IF Disbelieved THEN ahead ELSE 0
  /\ UNCHANGED wall

(***************************************************************************)
(* nextStart: after the newest bucket before the end, or at the oldest of  *)
(* the level below; days go on where they stopped.                         *)
(***************************************************************************)
NextStart(rows, below, end, step) ==
  LET newest == {t \in DOMAIN rows : t < end}
  IN IF newest # {} THEN Max(newest) + step
     ELSE IF below # {} THEN Floor(Min(below), step) ELSE end

NextDayStart(below, end) == IF until # None THEN until
                            ELSE IF below = {} THEN end ELSE LocalDayStart(Min(below))

(***************************************************************************)
(* rollUp replaces whole buckets; rollUpDays adds pieces of days.          *)
(***************************************************************************)
Replaced(rows, new) ==
  [t \in DOMAIN rows \cup DOMAIN new |-> IF t \in DOMAIN new THEN new[t] ELSE rows[t]]

RollUpMinutes(end) ==
  LET from == {r \in raw : NextStart(minutes, raw, end, MIN) <= r /\ r < end}
  IN Replaced(minutes, [m \in {Minute(r) : r \in from} |->
                          Cardinality({r \in from : Minute(r) = m})])

RollUpHours(mins, end) ==
  LET from == Within(mins, NextStart(hours, DOMAIN mins, end, HOUR), end)
  IN Replaced(hours, [h \in {Hour(m) : m \in from} |->
                        Total(mins, {m \in from : Hour(m) = h})])

MergeDay(rows, new) ==
  [t \in DOMAIN rows \cup DOMAIN new |->
     (IF t \in DOMAIN rows THEN rows[t] ELSE 0) + (IF t \in DOMAIN new THEN new[t] ELSE 0)]

DaysOf(rows) ==
  [d \in {LocalDayStart(t) : t \in DOMAIN rows} |->
     Total(rows, {t \in DOMAIN rows : LocalDayStart(t) = d})]

RollUpDays(mins, end) ==
  MergeDay(days, DaysOf(Restrict(mins, Within(mins, NextDayStart(DOMAIN mins, end), end))))

Kept(rows, cutoff) == RestrictDomain(rows, LAMBDA t : t >= cutoff)
Least(a, b) == IF a < b THEN a ELSE b

(* Mutant: a minute goes once its hour has it. *)
CoveredByHour(end1h, end1d) == end1h
MinuteCovered(end1h, end1d) == Least(end1h, end1d)

(* runHousekeeping: one transaction, which may fail and then changes nothing. *)
RunHousekeeping(now) ==
  LET end1m == Minute(now)
      end1h == Hour(end1m)
      end1d == LocalDayStart(end1m)
      mins == RollUpMinutes(end1m)
  IN
  /\ hours' = Kept(RollUpHours(mins, end1h), now - policy["1h"])
  /\ days' = Kept(RollUpDays(mins, end1d), now - policy["1d"])
  /\ until' = IF NextDayStart(DOMAIN mins, end1d) < end1d THEN end1d ELSE until
  /\ minutes' = Kept(mins, Least(now - policy["1m"], MinuteCovered(end1h, end1d)))
  /\ raw' = {r \in raw : r >= Least(now - policy["raw"], end1m)}
  /\ done' = IF end1m > done THEN end1m ELSE done

(* History: a clock that is wrong may be believed, and what that does is not  *)
(* claimed: at the start, when it is not far ahead, and once it has stayed.   *)
MayBeBelieved ==
  \/ ahead = None \/ (ahead # None => ahead <= CLOCK_JUMP)
  \/ doubted = CLOCK_ACCEPT

Run ==
  /\ RunHousekeeping(TrustedNow) \/ UNCHANGED <<tables, done>>
  /\ ReadTrusted
  /\ believed' = (believed \/ (off > 0 /\ MayBeBelieved))
  /\ UNCHANGED <<settings, onTime, late, off, low, lengthened>>

Uses(what) == left[what] > 0 /\ left' = [left EXCEPT ![what] = @ - 1]

Housekeeping ==
  /\ Uses("runs")
  /\ Run

(* insertSample: stamped by the wall clock. *)
Reads ==
  /\ Uses("reads")
  /\ raw' = raw \cup {wall}
  /\ onTime' = IF wall >= done THEN onTime \cup {wall} ELSE onTime
  /\ late' = (late \/ wall < done)
  /\ UNCHANGED <<minutes, hours, days, until, settings, clock, done,
                 off, believed, low, lengthened>>

(* A new process, maybe in another zone, has no anchor; its first run follows. *)
Restart ==
  /\ Uses("starts")
  /\ zone' \in DOMAIN Midnights
  /\ ahead' = None /\ doubted' = None
  /\ UNCHANGED <<tables, policy, wall, history>>

(* A retention saved on the Settings page is in force at the next run. *)
SavesRetention ==
  /\ Uses("saves")
  /\ policy' \in Policies \ {policy}
  /\ lengthened' = (lengthened \/ \E l \in RESOLUTIONS : policy'[l] > policy[l])
  /\ UNCHANGED <<tables, zone, clock, onTime, late, done, off, believed, low>>

(***************************************************************************)
(* chooseResolution: the finest level that is whole in a window.           *)
(***************************************************************************)
AllTimes == raw \cup DOMAIN minutes \cup DOMAIN hours \cup DOMAIN days
TimesOf(level) == CASE level = "raw" -> raw [] level = "1m" -> DOMAIN minutes
                    [] level = "1h" -> DOMAIN hours [] OTHER -> DOMAIN days
(* Mutant: a level is whole where it has rows at all. *)
HasRows(level, from, to) == \E t \in TimesOf(level) : from <= t /\ t <= to
Whole(level, from, to) ==
  \/ from >= wall - policy[level]
  \/ AllTimes # {} /\ Min(AllTimes) >= wall - policy[level]
Fits(level, from, to) ==
  Cardinality({t \in TimesOf(level) : from <= t /\ t <= to}) <= MAX_POINTS
Serves(level, from, to) == Whole(level, from, to) /\ Fits(level, from, to)
ChooseResolution(from, to) ==
  IF Serves("raw", from, to) THEN "raw" ELSE IF Serves("1m", from, to) THEN "1m"
  ELSE IF Serves("1h", from, to) THEN "1h" ELSE "1d"

(***************************************************************************)
(* The clock.                                                              *)
(***************************************************************************)
Tick ==
  /\ wall < Horizon /\ wall' = wall + 1
  /\ doubted' = IF doubted = None \/ doubted = CLOCK_ACCEPT THEN doubted ELSE doubted + 1
  /\ UNCHANGED <<tables, settings, ahead, left, history>>

ClockSet ==
  /\ Uses("sets")
  /\ \E by \in Sets :
       /\ wall + by \in 0 .. Horizon /\ wall' = wall + by
       /\ ahead' = IF ahead = None THEN None ELSE ahead + by
       /\ off' = off + by /\ low' = (low \/ off + by < 0)
  /\ UNCHANGED <<tables, settings, doubted, onTime, late, done, believed, lengthened>>

(***************************************************************************)
(* Migration 3: daily rows on UTC days, of a database of the version       *)
(* before, are rebuilt on local days from hours, then minutes.             *)
(***************************************************************************)
Counts(rows, step) ==
  [b \in {Floor(t, step) : t \in DOMAIN rows} |->
     Total(rows, {t \in DOMAIN rows : Floor(t, step) = b})]
UtcDay(t) == Floor(t, DAY)
Greatest(a, b) == IF a > b THEN a ELSE b

DropDays(mins, oldDays) == RestrictDomain(oldDays, LAMBDA t : t <= Min(DOMAIN mins) - DAY)

Migrated(mins, hrs, oldDays) ==
  IF mins = NoRows
  THEN [days |-> oldDays, until |-> IF oldDays = NoRows THEN None ELSE Max(DOMAIN oldDays) + DAY]
  ELSE
  LET firstMinute == Min(DOMAIN mins)
      kept == DropDays(mins, oldDays)
      start == IF kept # NoRows THEN Max(DOMAIN kept) + DAY
               ELSE LocalDayStart(Min(DOMAIN mins \cup DOMAIN hrs))
      firstFullHour == Hour(firstMinute + HOUR - 1)
      hoursUntil == IF hrs # NoRows /\ Max(DOMAIN hrs \cup {0}) + HOUR >= firstFullHour
                    THEN firstFullHour ELSE firstMinute
      minutesUntil == Max(DOMAIN mins) + MIN
      end == Least(Greatest(LocalDayStart(minutesUntil), hoursUntil), minutesUntil)
      fromHours == Restrict(hrs, Within(hrs, start, Least(hoursUntil, end)))
      fromMinutes == Restrict(mins, Within(mins, Greatest(start, hoursUntil), end))
  IN IF start >= end
     THEN [days |-> kept, until |-> IF kept = NoRows THEN None ELSE start]
     ELSE [days |-> MergeDay(kept, MergeDay(DaysOf(fromHours), DaysOf(fromMinutes))),
           until |-> end]

(***************************************************************************)
(* A new database, or one the version before left, whose minutes are       *)
(* pruned behind its hours.                                                *)
(***************************************************************************)
Old(readings, opened, prunedBefore) ==
  LET ones == [r \in readings |-> 1]
      mins == Counts(Restrict(ones, Within(ones, 0, Minute(opened))), MIN)
      hrs == Counts(Restrict(mins, Within(mins, 0, Hour(opened))), HOUR)
      utc == Counts(Restrict(hrs, Within(hrs, 0, UtcDay(opened))), DAY)
  IN [minutes |-> Kept(mins, prunedBefore), hours |-> hrs, days |-> utc]

NewDatabase ==
  /\ left.old = 0 /\ wall = 0 /\ onTime = {} /\ raw = {} /\ done = 0
  /\ minutes = NoRows /\ hours = NoRows /\ days = NoRows /\ until = None

OldDatabase ==
  /\ left.old = 1 /\ wall = OldHorizon /\ done = Minute(wall)
  /\ onTime \in {R \in SUBSET (0 .. wall - 1) : Cardinality(R) <= left.reads}
  /\ raw = {r \in onTime : r >= Least(wall - policy["raw"], Minute(wall))}
  /\ \E prunedBefore \in 0 .. Least(wall - policy["1m"], Hour(Minute(wall))) :
       LET old == Old(onTime, wall, prunedBefore)
           new == Migrated(old.minutes, old.hours, old.days)
       IN /\ minutes = old.minutes /\ hours = old.hours
          /\ days = new.days /\ until = new.until

Init ==
  /\ left \in Budgets /\ policy = DEFAULT_RETENTION /\ zone = HomeZone
  /\ NewDatabase \/ OldDatabase
  /\ ahead = None /\ doubted = None
  /\ late = FALSE
  /\ off = 0 /\ believed = FALSE /\ low = FALSE /\ lengthened = FALSE

Next ==
  \/ Housekeeping \/ Reads \/ Restart \/ SavesRetention \/ Tick \/ ClockSet

Spec == Init /\ [][Next]_vars

(***************************************************************************)
(* Properties.                                                             *)
(***************************************************************************)
(***************************************************************************)
(* What it takes to count once: each level kept longer than the one before *)
(* by a bucket, hours until the day they are in is over, days for good, as *)
(* the built-in retentions do; and days that begin at whole minutes.  (Of  *)
(* an hour kept no longer than its minutes, a part could be made again.)   *)
(***************************************************************************)
CountingAssumption ==
  /\ None \notin Int /\ Horizon \in Nat /\ OldHorizon <= Horizon
  /\ \A z \in DOMAIN Midnights : \A m \in Midnights[z] : Minute(m) = m
  /\ UtcDay(OldHorizon) >= OldHorizon - DEFAULT_RETENTION["1m"]
  /\ \A p \in Policies \cup {DEFAULT_RETENTION} :
       /\ p["raw"] + MIN <= p["1m"] /\ p["1m"] + HOUR <= p["1h"]
       /\ \A z \in DOMAIN Midnights : \A m \in Midnights[z] :
            /\ m + p["1d"] >= Horizon
            /\ \A t \in 0 .. Horizon :
                 Hour(m) < t - p["1h"] => \E n \in Midnights[z] : m < n /\ n <= Minute(t)

(* A reading stored before its minute was rolled up is counted once: in its  *)
(* minute, in its hour, and in one day however often the zone changes,       *)
(* though minutes are pruned behind both (rollup.ts:88-135, 204-222).        *)
CountedOnce == ~late =>
  /\ \A m \in DOMAIN minutes : minutes[m] = Cardinality({r \in onTime : Minute(r) = m})
  /\ \A h \in DOMAIN hours : hours[h] = Cardinality({r \in onTime : Hour(r) = h})
  /\ until # None => SumFunction(days) = Cardinality({r \in onTime : r < until})

(* A clock that leaps ahead and is set right before it is believed leaves no *)
(* minute that is done before its readings come (rollup.ts:380-400).         *)
LeapsDoNoHarm == late => believed \/ low

(* The level a chart is drawn from holds every reading up to now whose       *)
(* bucket has closed, unless a longer retention was saved or the clock went  *)
(* behind what housekeeping saw (rollup.ts:305-330).  An hour that began     *)
(* before the oldest row is not claimed: local days may begin within one.    *)
Shown(level, r) ==
  CASE level = "raw" -> r \in raw
    [] level = "1m" -> Minute(r) \in DOMAIN minutes
    [] level = "1h" -> Hour(r) \in DOMAIN hours
BucketOf(level, r) == CASE level = "raw" -> r [] level = "1m" -> Minute(r)
                        [] level = "1h" -> Hour(r)
Closed(level, b) == (level = "1m" => b < done) /\ (level = "1h" => b < Hour(done))
WholeSeries == ~(believed \/ low \/ late \/ lengthened) =>
  \A from \in 0 .. wall :
    LET level == ChooseResolution(from, wall) IN
      level # "1d" =>
        \A r \in onTime : LET b == BucketOf(level, r) IN
          from <= b /\ Closed(level, b) /\ Min(AllTimes) <= b => Shown(level, r)
=============================================================================
