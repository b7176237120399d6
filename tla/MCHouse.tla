------------------------------ MODULE MCHouse ------------------------------
(* The rest of the server for TLC, one part beside the other: each behaviour  *)
(* is of one part, chosen at the start.  The rules keep variables of their    *)
(* own; of the others only one is there, and they use the same ones.          *)
EXTENDS RuleSource, TLC

VARIABLES part, c1, c2, c3, c4, c5, c6, c7, c8, c9, c10, c11, c12, c13, c14, c15, c16, c17, c18,
          c19, c20

cells == <<c1, c2, c3, c4, c5, c6, c7, c8, c9, c10, c11, c12, c13, c14, c15, c16, c17, c18, c19, c20>>

(* RuleSource: raw readings and minutes; a rule that looks back further than  *)
(* the shortest retention, and one about the certificate.                     *)
Rule(for, clearAfter, metric) == [for |-> for, clearAfter |-> clearAfter, metric |-> metric, cert |-> FALSE]
CertRule == [for |-> 0, clearAfter |-> 0, metric |-> "certificate", cert |-> TRUE]
TwoBuiltIn == "busy" :> Rule(2, 2, "load") @@ "expired" :> CertRule
Three == {Rule(1, 1, "swap"), Rule(1, 3, "load"), CertRule}
TwoLevels == <<"raw", "1m">>
ByLevel(ofRaw, ofMinutes) == "raw" :> ofRaw @@ "1m" :> ofMinutes
Defaults == ByLevel(2, 3)
InFile(r) == [disabled |-> FALSE, rule |-> r]
OffInFile == [disabled |-> TRUE, rule |-> None]
Environment(https, metrics, file, variables) ==
  [https |-> https, metrics |-> metrics, file |-> file, env |-> variables]
Both == {"load", "swap"}
SixEnvironments == {
  Environment(FALSE, Both, <<>>, ByLevel(None, None)),
  Environment(TRUE, {"load"}, <<>>, ByLevel(None, None)),
  Environment(TRUE, Both, "busy" :> InFile(Rule(1, 3, "load")), ByLevel(None, None)),
  Environment(FALSE, {"load"}, "busy" :> OffInFile @@ "mine" :> InFile(Rule(3, 1, "load")), ByLevel(3, None)),
  Environment(TRUE, Both, "expired" :> OffInFile, ByLevel(None, 1)),
  Environment(FALSE, Both, <<>>, ByLevel(1, None))}

(* RollUps: minutes of a tick, hours of two minutes, days of four (so that    *)
(* they begin within an hour, as in zones whose offset is not a whole hour),  *)
(* and in one zone a longer day.                                              *)
Policy(a, b, c) == [l \in {"raw", "1m", "1h", "1d"} |->
  CASE l = "raw" -> a [] l = "1m" -> b [] l = "1h" -> c [] l = "1d" -> 1000]
Budget(reads, runs, starts, saves, sets, old) ==
  [reads |-> reads, runs |-> runs, starts |-> starts, saves |-> saves, sets |-> sets, old |-> old]
HomeAndAway == [home |-> {-3, 1, 5, 9}, away |-> {-2, 2, 7}]
BuiltInPolicy == Policy(1, 3, 6)
ShorterAndLonger == {Policy(0, 2, 4), Policy(2, 4, 7)}
FiveBudgets == {Budget(3, 3, 1, 0, 0, 0), Budget(3, 3, 0, 1, 0, 0), Budget(3, 3, 0, 0, 1, 0),
                Budget(2, 2, 0, 0, 2, 0), Budget(2, 2, 0, 0, 0, 1)}

(* The Settings page, the update checks, the live feed, signing in, what is   *)
(* told of a server, the readings shown and the roll-ups.                     *)
Pages == INSTANCE PagesProofs WITH
  N <- 2, Durations <- {1, 2}, LookBack <- 1, MaxRequests <- 2, MaxOthers <- 1, MaxAge <- 2,
  retention <- c1, oldest <- c2, body <- c3, draft <- c4, review <- c5, confirmed <- c6,
  requests <- c7, others <- c8, typed <- c9, harm <- c10,
  Askers <- {"a", "b"}, TIMEOUT <- 1, MANUAL_GAP <- 2, FIRST_CHECK <- 1, CHECK_INTERVAL <- 3, MaxTime <- 8,
  time <- c1, aptPresent <- c2, view <- c3, running <- c4, finishedAt <- c5, first <- c6,
  every <- c7, asking <- c8, told <- c9,
  Alerts <- {"hot"}, MaxBuffered <- 2, MaxEdits <- 1, MaxSockets <- 2, MaxSessions <- 2, MaxBreaks <- 1,
  alert <- c1, rules <- c2, lives <- c3, ours <- c4, side <- c5, alive <- c6, sid <- c7,
  chan <- c8, cur <- c9, sock <- c10, shown <- c11, liveRules <- c12, configRules <- c13,
  effect <- c14, stopped <- c15, form <- c16, config <- c17, recheck <- c18, ack <- c19, breaks <- c20,
  Addresses <- {"a"}, SESSION_TTL <- 3, COOKIE_REFRESH <- 1, WINDOW <- 2, MAX <- 2,
  Sets <- {-2, 2}, MaxPeriod <- 4, MaxLogins <- 2, MaxSets <- 1, MaxRestarts <- 1,
  offset <- c2, failures <- c3, checking <- c4, sessions <- c5, cookie <- c6,
  logins <- c7, restarts <- c8, sets <- c9, guesses <- c10, seen <- c11, lost <- c12, moved <- c13,
  Pids <- {1}, MaxLeaves <- 3, MaxStarts <- 3, MaxBoots <- 1, MaxFaults <- 1,
  boot <- c1, ticks <- c2, process <- c3, serving <- c4, file <- c5, caCrt <- c6, meta <- c7,
  crt <- c8, pem <- c9, renewal <- c10, installer <- c11, kind <- c12, leaf <- c13, written <- c14,
  made <- c15, starts <- c16, boots <- c17, faults <- c18, unpublished <- c19, quiet <- c20,
  CLOCK_STEP <- 1, LATEST_SLACK <- 1, SPAN <- 3, Leaps <- {-3, 4}, MaxPolls <- 3, MaxLeaps <- 2, MaxCuts <- 1,
  metrics <- c3, socket <- c4, sent <- c5, latest <- c6, series <- c7, clockOffset <- c8, connectedBefore <- c9,
  fetches <- c10, reads <- c11, leaps <- c12, cuts <- c13, heard <- c14,
  MIN <- 1, HOUR <- 2, DAY <- 4,
  Midnights <- HomeAndAway, HomeZone <- "home", CLOCK_JUMP <- 2, CLOCK_ACCEPT <- 1, MAX_POINTS <- 1,
  DEFAULT_RETENTION <- BuiltInPolicy, Retentions <- ShorterAndLonger,
  Jumps <- {-4, 4}, Horizon <- 8, OldHorizon <- 6, Budgets <- FiveBudgets,
  raw <- c1, minutes <- c2, hours <- c3, days <- c4, until <- c5, retained <- c6, zone <- c7,
  wall <- c8, ahead <- c9, doubted <- c10, left <- c11, onTime <- c12, late <- c13,
  done <- c14, off <- c15, believed <- c16, low <- c17, lengthened <- c18
ASSUME Pages!RetentionPageAssumption
ASSUME CheckingAssumption == Pages!Checking!UpdatesAssumption
ASSUME SigningInAssumption == Pages!SigningIn!SignInAssumption
ASSUME TellingAssumption == Pages!Telling!StatusAssumption
ASSUME FeedAssumption == Pages!Feed!LiveFeedAssumption
ASSUME TilesAssumption == Pages!Tiles!ReadingsAssumption
ASSUME ChartsAssumption == Pages!Charts!RollUpsAssumption
ASSUME CountsAssumption == Pages!Charts!CountingAssumption

NoRules == up = FALSE /\ env = None /\ saved = NoEntries /\ stored = NothingStored /\ ran = None
Without15to20 == c15 = None /\ c16 = None /\ c17 = None /\ c18 = None /\ c19 = None /\ c20 = None
Without14to20 == c14 = None /\ Without15to20
Without10to20 == c10 = None /\ c11 = None /\ c12 = None /\ c13 = None /\ Without14to20

HouseInit ==
  \/ part = "rules" /\ Init
     /\ c1 = None /\ c2 = None /\ c3 = None /\ c4 = None /\ c5 = None /\ c6 = None /\ c7 = None
     /\ c8 = None /\ c9 = None /\ Without10to20
  \/ part = "counting" /\ NoRules /\ Pages!Charts!Init /\ c19 = None /\ c20 = None
  \/ part = "sign-in" /\ NoRules /\ Pages!SigningIn!Init /\ Without14to20
  \/ part = "feed" /\ NoRules /\ Pages!Feed!Init
  \/ part = "status" /\ NoRules /\ Pages!Telling!Init
  \/ part = "updates" /\ NoRules /\ Pages!Checking!Init /\ Without10to20
  \/ part = "retention" /\ NoRules /\ Pages!Init
     /\ c11 = None /\ c12 = None /\ c13 = None /\ Without14to20
  \/ part = "tiles" /\ NoRules /\ Pages!Tiles!Init /\ Without15to20

Is(name) == part = name /\ UNCHANGED part
HouseNext ==
  \/ Is("rules") /\ Next /\ UNCHANGED cells
  \/ Is("counting") /\ Pages!Charts!Next /\ UNCHANGED <<vars, c19, c20>>
  \/ Is("sign-in") /\ Pages!SigningIn!Next /\ UNCHANGED <<vars, c14, c15, c16, c17, c18, c19, c20>>
  \/ Is("feed") /\ Pages!Feed!Next /\ UNCHANGED vars
  \/ Is("status") /\ Pages!Telling!Next /\ UNCHANGED vars
  \/ Is("updates") /\ Pages!Checking!Next
     /\ UNCHANGED <<vars, c10, c11, c12, c13, c14, c15, c16, c17, c18, c19, c20>>
  \/ Is("retention") /\ Pages!Next
     /\ UNCHANGED <<vars, c11, c12, c13, c14, c15, c16, c17, c18, c19, c20>>
  \/ Is("tiles") /\ Pages!Tiles!Next /\ UNCHANGED <<vars, c15, c16, c17, c18, c19, c20>>

HouseSpec == HouseInit /\ [][HouseNext]_<<vars, part, cells>>

(* The properties of the parts, each of its own: see there.                   *)
CountedOnce == part = "counting" => Pages!Charts!CountedOnce /\ Pages!Charts!LeapsDoNoHarm
WholeSeries == part = "counting" => Pages!Charts!WholeSeries
GuessesLimited == part = "sign-in" => Pages!SigningIn!GuessesLimited
CookieLasts == part = "sign-in" => Pages!SigningIn!CookieLasts
InStep == part = "feed" => Pages!Feed!InStep
TellsTheTruth == part = "status" => Pages!Telling!TellsTheTruth
AnswersAreRecent == part = "updates" => Pages!Checking!AnswersAreRecent
SavesWhatWasTyped == part = "retention" => Pages!SavesWhatWasTyped
ShowsThePresent == part = "tiles" => Pages!Tiles!ShowsThePresent
=============================================================================
