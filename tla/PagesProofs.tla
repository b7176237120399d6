--------------------------- MODULE PagesProofs ---------------------------
(***************************************************************************)
(* What the dashboard's pages promise.  The Settings page, for any number  *)
(* of levels, durations, requests and other tabs: it saves what was typed, *)
(* and deletes only what was confirmed.  The update checks, for any people *)
(* who ask, any time limit of a command and any gap between two checks: no *)
(* answer is of an older look at the packages than promised.  The live     *)
(* feed, for any alerts, sockets, sessions and accidents: a dashboard that *)
(* has read everything shows what the server has.  Signing in, for any     *)
(* addresses, limit, window and lifetimes: guesses are limited, and a      *)
(* session in use keeps its cookie.  What is told of a running server, for *)
(* any processes, boots and commands: it is of what the server serves.     *)
(* The readings, for any clock that is set, any polls, sockets that break  *)
(* and histories: the tile and its sparkline come to show the last one.    *)
(* The charts, for any lengths of a bucket, retentions, zones and clocks   *)
(* that are set: the level one is drawn from holds every reading, and a    *)
(* reading is counted once, in an older database that was migrated too.    *)
(***************************************************************************)
EXTENDS RetentionPage, SequenceTheorems, FiniteSetTheorems, WellFoundedInduction, TLAPS

CONSTANTS Askers, TIMEOUT, MANUAL_GAP, FIRST_CHECK, CHECK_INTERVAL, MaxTime
VARIABLES time, aptPresent, view, running, finishedAt, first, every, asking, told
Checking == INSTANCE Updates

CONSTANTS Alerts, MaxBuffered, MaxEdits, MaxSockets, MaxSessions, MaxBreaks
VARIABLES alert, rules, lives, ours, side, alive, sid, chan, cur, sock, shown, liveRules,
          configRules, effect, stopped, form, config, recheck, ack, breaks
Feed == INSTANCE LiveFeed WITH sessions <- lives, cookie <- ours

CONSTANTS Addresses, SESSION_TTL, COOKIE_REFRESH, WINDOW, MAX, Sets, MaxPeriod, MaxLogins, MaxSets, MaxRestarts
VARIABLES offset, failures, checking, sessions, cookie, logins, restarts, sets, guesses, seen, lost, moved
SigningIn == INSTANCE SignIn WITH MaxTime <- MaxPeriod

CONSTANTS Pids, MaxLeaves, MaxStarts, MaxBoots, MaxFaults
VARIABLES boot, ticks, process, serving, file, caCrt, meta, crt, pem, renewal, installer, kind, leaf, written,
          made, starts, boots, faults, unpublished, quiet
Telling == INSTANCE TlsStatus WITH server <- serving, pc <- installer

CONSTANTS CLOCK_STEP, LATEST_SLACK, SPAN, Leaps, MaxPolls, MaxLeaps, MaxCuts
VARIABLES metrics, socket, sent, latest, series, clockOffset, connectedBefore, fetches, reads, leaps, cuts, heard
Tiles == INSTANCE Readings WITH WINDOW <- SPAN, Sets <- Leaps, MaxTime <- MaxPolls, MaxSets <- MaxLeaps, MaxBreaks <- MaxCuts,
  requests <- fetches, sets <- leaps, breaks <- cuts

CONSTANTS MIN, HOUR, DAY, Midnights, CLOCK_JUMP, CLOCK_ACCEPT, MAX_POINTS, DEFAULT_RETENTION, Retentions, HomeZone,
          Jumps, Horizon, OldHorizon, Budgets
VARIABLES raw, minutes, hours, days, until, retained, zone, wall, ahead, doubted, left,
          onTime, late, done, off, believed, low, lengthened
Charts == INSTANCE RollUps WITH Policies <- Retentions, policy <- retained, Sets <- Jumps

(***************************************************************************)
(* What was edited was typed; a save sends nothing else, and confirms a    *)
(* deletion only if the box was ticked.  A request keeps all that until it *)
(* is served, whatever the page becomes meanwhile.                         *)
(***************************************************************************)
Views == [is : {"none", "errors", "ready"}, of : Policies, deletions : SUBSET LevelNumbers]
Answers == [is : {"preview", "saved", "409"}, levels : Policies, deletions : SUBSET LevelNumbers] \cup {Refused}
Requests == [is : {"preview", "save", "done"}, proposal : Proposals, confirmDeletion : BOOLEAN,
             typed : SUBSET LevelNumbers, ticked : BOOLEAN, reviewed : Policies, answer : Answers \cup {None}]

AsTyped(r) ==
  r.is = "save" => /\ r.confirmDeletion => r.ticked
                   /\ \A l \in LevelNumbers \ r.typed : r.proposal[l] = None
Sound == {r \in Requests : AsTyped(r)}

ServerTyped == retention \in Policies
PageTyped ==
  /\ body \in Policies /\ draft \in Policies /\ review \in Views
  /\ confirmed \in BOOLEAN /\ typed \subseteq LevelNumbers
PageInv == ServerTyped /\ PageTyped /\ Edited \subseteq typed /\ requests \in Seq(Sound)

(* A page that was told something new shows nothing as edited.             *)
LEMMA Nothing == ASSUME NEW policy \in Policies
                 PROVE  [is |-> "none", of |-> policy, deletions |-> {}] \in Views
BY DEF Views

LEMMA InitPage == ASSUME Init PROVE PageInv
<1>1. retention \in Policies /\ body = retention /\ draft = retention /\ NoReview \in Views
  BY Nothing DEF Init, NoReview
<1>2. Edited = {}
  BY <1>1 DEF Edited
<1>3. requests \in Seq(Sound)
  BY DEF Init
<1> QED
  BY <1>1, <1>2, <1>3 DEF Init, PageInv, ServerTyped, PageTyped

LEMMA Proposes == ASSUME NEW proposal \in Proposals, ServerTyped PROVE Proposed(proposal) \in Policies
BY DEF Proposals, Policies, Proposed, ServerTyped

(***************************************************************************)
(* Requests: made, answered, and read.                                     *)
(***************************************************************************)
LEMMA Sent ==
  ASSUME PageInv, NEW is \in {"preview", "save"}, Sends(is), is = "save" => SaveEnabled
  PROVE  requests' \in Seq(Sound)
<1> DEFINE r == [is |-> is, proposal |-> Proposal, confirmDeletion |-> Deletes,
                 typed |-> typed, ticked |-> confirmed, reviewed |-> review.of, answer |-> None]
<1>1. Proposal \in Proposals /\ \A l \in LevelNumbers \ typed : Proposal[l] = None
  BY DEF PageInv, PageTyped, Proposals, Proposal, Policies
<1>2. Deletes \in BOOLEAN
  BY DEF Deletes
<1>3. review.of \in Policies
  BY DEF PageInv, PageTyped, Views
<1>4. r \in Requests
  <2> HIDE DEF Deletes, Proposal, Proposals, Policies
  <2> QED BY <1>1, <1>2, <1>3 DEF PageInv, PageTyped, Requests
<1>5. AsTyped(r)
  BY <1>1 DEF AsTyped, SaveEnabled
<1>6. r \in Sound
  BY <1>4, <1>5 DEF Sound
<1>7. requests' = Append(requests, r)
  BY DEF Sends
<1> QED
  BY <1>6, <1>7 DEF PageInv

LEMMA Answered ==
  ASSUME PageInv, NEW i \in DOMAIN requests, NEW answer \in Answers, Makes(i, answer)
  PROVE  requests' \in Seq(Sound)
<1> DEFINE r == [requests[i] EXCEPT !.answer = answer]
<1>1. i \in 1 .. Len(requests) /\ requests[i] \in Sound
  BY DEF PageInv
<1>2. r \in Requests
  BY <1>1 DEF Sound, Requests
<1>3. AsTyped(r)
  BY <1>1 DEF Sound, AsTyped, Requests
<1>4. requests' = [requests EXCEPT ![i] = r]
  BY DEF Makes
<1>5. r \in Sound
  BY <1>2, <1>3 DEF Sound
<1> QED
  BY <1>1, <1>4, <1>5, ExceptSeq DEF PageInv

LEMMA Read ==
  ASSUME PageInv, NEW i \in DOMAIN requests, requests' = [requests EXCEPT ![i].is = "done"]
  PROVE  requests' \in Seq(Sound)
<1> DEFINE r == [requests[i] EXCEPT !.is = "done"]
<1>1. i \in 1 .. Len(requests) /\ requests[i] \in Sound
  BY DEF PageInv
<1>2. r \in Requests /\ AsTyped(r)
  BY <1>1 DEF Sound, Requests, AsTyped
<1>3. r \in Sound
  BY <1>2 DEF Sound
<1> QED
  BY <1>1, <1>3, ExceptSeq DEF PageInv

(***************************************************************************)
(* Every step keeps the invariant.                                         *)
(***************************************************************************)
LEMMA SamePage == ASSUME PageInv, UNCHANGED page PROVE PageTyped' /\ (Edited \subseteq typed)'
BY DEF page, PageInv, PageTyped, Edited, Views, Policies

LEMMA Stepped == ASSUME PageInv, [Next]_vars PROVE PageInv'
<1>1. ASSUME NEW l \in LevelNumbers, NEW value \in Durations, Types(l, value) PROVE PageInv'
  <2>1. draft' \in Policies /\ \A k \in LevelNumbers \ {l} : draft'[k] = draft[k]
    BY <1>1 DEF Types, PageInv, PageTyped, Policies
  <2>2. NoReview \in Views
    BY Nothing DEF NoReview, PageInv, PageTyped
  <2>3. (Edited \subseteq typed)'
    BY <1>1, <2>1 DEF Types, PageInv, Edited
  <2> QED
    BY <1>1, <2>1, <2>2, <2>3 DEF Types, PageInv, PageTyped, ServerTyped, server
<1>2. ASSUME NEW i \in DOMAIN requests, PreviewServed(i) PROVE PageInv'
  <2>1. requests[i].proposal \in Proposals
    BY DEF PageInv, Sound, Requests
  <2>2. PICK answer \in Answers : Makes(i, answer)
    <3>1. Proposed(requests[i].proposal) \in Policies
      BY <2>1, Proposes DEF PageInv
    <3>2. Answer("preview", Proposed(requests[i].proposal), Deletions(Proposed(requests[i].proposal))) \in Answers
      BY <3>1 DEF Answers, Answer, Deletions
    <3> QED BY <1>2, <3>2 DEF PreviewServed, Answers
  <2> QED
    BY <1>2, <2>2, Answered, SamePage DEF PreviewServed, PageInv, ServerTyped, server
<1>3. ASSUME NEW i \in DOMAIN requests, SaveServed(i) PROVE PageInv'
  <2> DEFINE levels == Proposed(requests[i].proposal)
  <2>1. levels \in Policies
    BY Proposes DEF PageInv, Sound, Requests
  <2>2. Answer("saved", levels, {}) \in Answers /\ Answer("409", levels, Deletions(levels)) \in Answers
    BY <2>1 DEF Answers, Answer, Deletions
  <2>3. PICK answer \in Answers : Makes(i, answer)
    BY <1>3, <2>2 DEF SaveServed, Answers
  <2>4. ServerTyped'
    BY <1>3, <2>1 DEF SaveServed, PageInv, ServerTyped
  <2> QED
    BY <1>3, <2>3, <2>4, Answered, SamePage DEF SaveServed, PageInv
<1>4. ASSUME NEW i \in DOMAIN requests, Reads(i) PROVE PageInv'
  <2>1. requests' \in Seq(Sound)
    BY <1>4, Read DEF Reads
  <2>2. ServerTyped'
    BY <1>4 DEF Reads, server, PageInv, ServerTyped
  <2>3. requests[i] \in Requests /\ requests[i].answer \in Answers
    BY <1>4 DEF Reads, PageInv, Sound, Requests
  <2>4. CASE requests[i].answer.is = "saved"
    <3>1. requests[i].answer.levels \in Policies
      BY <2>3, <2>4 DEF Answers, Refused, Answer
    <3>2. body' = requests[i].answer.levels /\ draft' = requests[i].answer.levels /\ typed' = {}
          /\ review' = [is |-> "none", of |-> requests[i].answer.levels, deletions |-> {}] /\ confirmed' = FALSE
      BY <1>4, <2>4 DEF Reads
    <3>3. (Edited \subseteq typed)'
      BY <3>2 DEF Edited
    <3> QED BY <2>1, <2>2, <3>1, <3>2, <3>3, Nothing DEF PageInv, PageTyped
  <2>5. CASE requests[i].answer.is # "saved"
    <3>1. UNCHANGED <<body, draft, typed>> /\ confirmed' \in BOOLEAN
      BY <1>4, <2>5 DEF Reads
    <3>2. review' \in Views
      <4>1. CASE requests[i].answer.is = "errors"
        <5>1. review' = [NoReview EXCEPT !.is = "errors"]
          BY <1>4, <4>1 DEF Reads
        <5> QED BY <5>1 DEF NoReview, Views, PageInv, PageTyped
      <4>2. CASE requests[i].answer.is # "errors"
        <5>1. requests[i].answer.levels \in Policies /\ requests[i].answer.deletions \subseteq LevelNumbers
          BY <2>3, <4>2 DEF Answers, Refused, Answer
        <5>2. review' = [is |-> "ready", of |-> requests[i].answer.levels, deletions |-> requests[i].answer.deletions]
          BY <1>4, <2>5, <4>2 DEF Reads
        <5> QED BY <5>1, <5>2 DEF Views
      <4> QED BY <4>1, <4>2
    <3>3. (Edited \subseteq typed)'
      BY <3>1 DEF Edited, PageInv
    <3> QED BY <2>1, <2>2, <3>1, <3>2, <3>3 DEF PageInv, PageTyped
  <2> QED BY <2>4, <2>5
<1>5. ASSUME NEW i \in DOMAIN requests, Lost(i) PROVE PageInv'
  BY <1>5, Read, SamePage DEF Lost, PageInv, ServerTyped, server
<1>6. CASE ReviewChanges
  BY <1>6, Sent, SamePage DEF ReviewChanges, PageInv, ServerTyped, server
<1>7. CASE Save
  BY <1>7, Sent, SamePage DEF Save, PageInv, ServerTyped, server
<1>8. CASE Confirms
  BY <1>8 DEF Confirms, PageInv, PageTyped, ServerTyped, Edited, server
<1>9. CASE OthersSave \/ RowsAge \/ Prunes \/ UNCHANGED vars
  <2>1. UNCHANGED <<page, requests>> /\ ServerTyped'
    BY <1>9 DEF OthersSave, RowsAge, Prunes, vars, server, PageInv, ServerTyped
  <2> QED BY <2>1, SamePage DEF PageInv
<1> QED
  BY <1>1, <1>2, <1>3, <1>4, <1>5, <1>6, <1>7, <1>8, <1>9 DEF Next

(***************************************************************************)
(* So a save that is done does no more than was asked.                     *)
(***************************************************************************)
LEMMA Harmless ==
  ASSUME PageInv, NEW i \in DOMAIN requests, requests[i].is = "save", ~MustConfirm(requests[i])
  PROVE  \A h \in Harm(requests[i]) : h[1] = "not reviewed"
<1> DEFINE r == requests[i]
           levels == Proposed(r.proposal)
<1>1. r \in Requests /\ AsTyped(r)
  BY DEF PageInv, Sound
<1>2. \A k \in LevelNumbers \ r.typed : levels[k] = retention[k]
  BY <1>1 DEF AsTyped, Proposed
<1>3. r.ticked \/ Deletions(levels) = {}
  BY <1>1 DEF AsTyped, MustConfirm
<1>4. {k \in LevelNumbers \ r.typed : levels[k] # retention[k]} = {}
  BY <1>2
<1>5. (IF r.ticked THEN {} ELSE Deletions(levels)) = {}
  BY <1>3
<1>6. Harm(r) = {<<"not reviewed", l>> : l \in {k \in Deletions(levels) : levels[k] < r.reviewed[k]}}
  <2> HIDE DEF r, levels
  <2> DEFINE put == {k \in LevelNumbers \ r.typed : Proposed(r.proposal)[k] # retention[k]}
             unticked == IF r.ticked THEN {} ELSE Deletions(Proposed(r.proposal))
             unseen == {k \in Deletions(Proposed(r.proposal)) : Proposed(r.proposal)[k] < r.reviewed[k]}
  <2>1. put = {} /\ unticked = {}
    BY <1>4, <1>5 DEF levels
  <2>2. Harm(r) = {<<"put back", l>> : l \in put} \cup {<<"not confirmed", l>> : l \in unticked}
                  \cup {<<"not reviewed", l>> : l \in unseen}
    BY DEF Harm
  <2>3. unseen = {k \in Deletions(levels) : levels[k] < r.reviewed[k]}
    BY DEF levels
  <2> HIDE DEF put, unticked, unseen
  <2> QED BY <2>1, <2>2, <2>3
<1>7. SUFFICES ASSUME NEW h \in Harm(r) PROVE h[1] = "not reviewed"
  OBVIOUS
<1>8. PICK l \in Deletions(levels) : h = <<"not reviewed", l>>
  <2> HIDE DEF r, levels
  <2> QED BY <1>6, <1>7
<1> QED
  BY <1>8

(* A save changes no level but those typed into on this page, and deletes   *)
(* rows only if the box was ticked (settings-page.tsx:128-130,              *)
(* settings-routes.ts:157-166).                                            *)
THEOREM SavesCorrect == Spec => []SavesWhatWasTyped
<1>1. Init => PageInv /\ SavesWhatWasTyped
  BY InitPage DEF Init, SavesWhatWasTyped
<1>2. PageInv /\ SavesWhatWasTyped /\ [Next]_vars => (PageInv /\ SavesWhatWasTyped)'
  <2> SUFFICES ASSUME PageInv, SavesWhatWasTyped, [Next]_vars PROVE SavesWhatWasTyped'
    BY Stepped
  <2>1. ASSUME NEW i \in DOMAIN requests, SaveServed(i), harm' # harm PROVE SavesWhatWasTyped'
    <3>1. harm' = harm \cup Harm(requests[i]) /\ requests[i].is = "save" /\ ~MustConfirm(requests[i])
      BY <2>1 DEF SaveServed
    <3> QED BY <3>1, Harmless DEF SavesWhatWasTyped
  <2>2. CASE harm' = harm
    BY <2>2 DEF SavesWhatWasTyped
  <2>3. CASE harm' # harm
    <3>1. PICK i \in DOMAIN requests : SaveServed(i)
      BY <2>3 DEF Next, vars, Types, PreviewServed, Reads, Lost, ReviewChanges, Save, Confirms, OthersSave, RowsAge, Prunes
    <3> QED BY <2>1, <2>3, <3>1
  <2> QED BY <2>2, <2>3
<1> QED
  BY <1>1, <1>2, PTL DEF Spec

(***************************************************************************)
(* Update checks.  No command outlives its limit: time does not pass it    *)
(* before the command is killed.  So a check that is at its second command *)
(* looked no longer ago than its first may take, and whoever waits asked   *)
(* in the past.                                                            *)
(***************************************************************************)
InTime ==
  running # None =>
    /\ running.since \in Nat /\ running.since <= time /\ time - running.since <= TIMEOUT
    /\ running.step = "policy" =>
         running.looked \in Nat /\ running.since - running.looked <= TIMEOUT

Asked == \A a \in Askers : asking[a] # None => asking[a] \in Nat /\ asking[a] <= time

(* What is held was looked at no longer before its check ended than both   *)
(* commands may take.                                                      *)
Fresh(v, end) == v.looked \in Nat /\ end - v.looked <= 2 * TIMEOUT
Held ==
  finishedAt # None =>
    /\ finishedAt \in Nat /\ finishedAt <= time
    /\ view.state = "ok" => Fresh(view, finishedAt)

RecentInv == time \in Nat /\ InTime /\ Asked /\ Held /\ Checking!AnswersAreRecent

(* An answer that is no look at the packages has no age.                   *)
LEMMA NoAge == ASSUME Checking!UpdatesAssumption PROVE 0 < MANUAL_GAP + 2 * TIMEOUT
  BY DEF Checking!UpdatesAssumption

(* An answer held, or one given to whoever waited, is as recent as it must be. *)
LEMMA Recent ==
  ASSUME Checking!UpdatesAssumption, NEW v, NEW end \in Nat, v.state = "ok" => Fresh(v, end),
         NEW at \in Nat, at - end < MANUAL_GAP
  PROVE  Checking!Age(v, at) < MANUAL_GAP + 2 * TIMEOUT
<1>1. CASE v.state = "ok"
  BY <1>1 DEF Checking!Age, Fresh, Checking!UpdatesAssumption
<1>2. CASE v.state # "ok"
  BY <1>2, NoAge DEF Checking!Age
<1> QED
  BY <1>1, <1>2

LEMMA InitRecent == Checking!Init => RecentInv
  BY DEF Checking!Init, RecentInv, InTime, Asked, Held, Checking!AnswersAreRecent

(* A check is begun now, or the one that runs goes on.                     *)
LEMMA ChecksInTime ==
  ASSUME Checking!UpdatesAssumption, RecentInv, Checking!Checks, time' = time
  PROVE  InTime'
<1>1. CASE running # None
  BY <1>1 DEF Checking!Checks, RecentInv, InTime
<1>2. CASE running = None
  <2>1. running' = Checking!Begun
    BY <1>2 DEF Checking!Checks
  <2>2. running'.since = time /\ running'.step = "simulate"
    BY <2>1 DEF Checking!Begun
  <2> QED
    BY <2>2 DEF InTime, RecentInv, Checking!UpdatesAssumption
<1> QED
  BY <1>1, <1>2

(* A check ends, with a look that is in time or with none.                 *)
LEMMA EndsRecent ==
  ASSUME Checking!UpdatesAssumption, RecentInv, NEW v, v.state = "ok" => Fresh(v, time), Checking!Ends(v)
  PROVE  RecentInv'
<1>1. time \in Nat /\ time' = time /\ running' = None /\ view' = v /\ finishedAt' = time
  BY DEF RecentInv, Checking!Ends
<1>2. InTime'
  BY <1>1 DEF InTime
<1>3. Asked'
  BY DEF Checking!Ends, Asked
<1>4. Held'
  BY <1>1 DEF Held, Fresh
<1>5. ASSUME NEW a \in Askers, asking[a] # None
      PROVE  Checking!Age(v, asking[a]) < MANUAL_GAP + 2 * TIMEOUT
  <2>1. asking[a] \in Nat /\ asking[a] <= time
    BY <1>5 DEF RecentInv, Asked
  <2>2. asking[a] - time < MANUAL_GAP
    BY <1>1, <2>1 DEF Checking!UpdatesAssumption
  <2> QED
    BY <1>1, <2>1, <2>2, Recent
<1>6. told' = {Checking!Age(v, asking[a]) : a \in {b \in Askers : asking[b] # None}}
  BY DEF Checking!Ends
<1>7. Checking!AnswersAreRecent'
  BY <1>5, <1>6 DEF Checking!AnswersAreRecent
<1> QED
  BY <1>1, <1>2, <1>3, <1>4, <1>7 DEF RecentInv

(* Somebody asks: is told what is held, or waits for the check that runs.  *)
LEMMA ManualRecent ==
  ASSUME Checking!UpdatesAssumption, RecentInv, NEW a \in Askers, Checking!Manual(a)
  PROVE  RecentInv'
<1>1. time' = time /\ UNCHANGED <<view, finishedAt>> /\ time \in Nat
  BY DEF Checking!Manual, RecentInv
<1>2. Held'
  BY <1>1 DEF RecentInv, Held, Fresh
<1>3. CASE Checking!RecentlyAnswered
  <2>1. told' = {Checking!Age(view, time)} /\ UNCHANGED <<running, asking>>
    BY <1>3 DEF Checking!Manual
  <2>2. InTime' /\ Asked'
    BY <1>1, <2>1 DEF RecentInv, InTime, Asked
  <2>3. finishedAt \in Nat /\ time - finishedAt < MANUAL_GAP /\ (view.state = "ok" => Fresh(view, finishedAt))
    BY <1>3 DEF Checking!RecentlyAnswered, RecentInv, Held
  <2>4. Checking!Age(view, time) < MANUAL_GAP + 2 * TIMEOUT
    BY <1>1, <2>3, Recent
  <2> QED
    BY <1>1, <1>2, <2>1, <2>2, <2>4 DEF RecentInv, Checking!AnswersAreRecent
<1>4. CASE ~Checking!RecentlyAnswered
  <2>1. Checking!Checks /\ asking' = [asking EXCEPT ![a] = time] /\ told' = told
    BY <1>4 DEF Checking!Manual
  <2>2. InTime'
    BY <1>1, <2>1, ChecksInTime
  <2>3. Asked'
    <3> SUFFICES ASSUME NEW b \in Askers, asking'[b] # None PROVE asking'[b] \in Nat /\ asking'[b] <= time
      BY <1>1 DEF Asked
    <3>1. asking'[b] = time \/ asking'[b] = asking[b]
      BY <2>1
    <3> QED
      BY <1>1, <3>1 DEF RecentInv, Asked
  <2>4. Checking!AnswersAreRecent'
    BY <2>1 DEF RecentInv, Checking!AnswersAreRecent
  <2> QED
    BY <1>1, <1>2, <2>2, <2>3, <2>4 DEF RecentInv
<1> QED
  BY <1>3, <1>4

LEMMA RecentStep == ASSUME Checking!UpdatesAssumption, RecentInv, [Checking!Next]_(Checking!vars) PROVE RecentInv'
<1>1. ASSUME NEW a \in Askers, Checking!Manual(a) PROVE RecentInv'
  BY <1>1, ManualRecent
<1>2. CASE Checking!Start \/ Checking!Stop \/ Checking!AptChanges \/ UNCHANGED Checking!vars
  BY <1>2 DEF Checking!Start, Checking!Stop, Checking!AptChanges, Checking!vars, Checking!timers, RecentInv, InTime, Asked, Held, Fresh, Checking!AnswersAreRecent
<1>3. CASE Checking!FirstFires \/ Checking!EveryFires
  <2>1. Checking!Checks /\ UNCHANGED <<time, view, finishedAt, asking, told>>
    BY <1>3 DEF Checking!FirstFires, Checking!EveryFires
  <2>2. InTime'
    BY <2>1, ChecksInTime
  <2> QED
    BY <2>1, <2>2 DEF RecentInv, Asked, Held, Fresh, Checking!AnswersAreRecent
<1>4. CASE Checking!Simulate
  <2>1. running # None /\ running.step = "simulate" /\ time \in Nat
    BY <1>4 DEF Checking!Simulate, RecentInv
  <2>2. running.since \in Nat /\ running.since <= time /\ time - running.since <= TIMEOUT
    BY <2>1 DEF RecentInv, InTime
  <2>3. CASE Checking!Ends(Checking!View("unsupported", None)) \/ Checking!Ends(Checking!View("failed", None))
    <3>1. Checking!View("unsupported", None).state # "ok" /\ Checking!View("failed", None).state # "ok"
      BY DEF Checking!View
    <3> QED
      BY <2>3, <3>1, EndsRecent
  <2>4. CASE /\ running' = [step |-> "policy", since |-> time, looked |-> running.since]
             /\ UNCHANGED <<time, view, finishedAt, asking, told>>
    <3>1. running'.since = time /\ running'.looked = running.since
      BY <2>4
    <3>2. InTime'
      BY <2>1, <2>2, <2>4, <3>1 DEF InTime, Checking!UpdatesAssumption
    <3> QED
      BY <2>4, <3>2 DEF RecentInv, Asked, Held, Fresh, Checking!AnswersAreRecent
  <2> QED
    BY <1>4, <2>3, <2>4 DEF Checking!Simulate
<1>5. CASE Checking!Policy
  <2>1. running # None /\ running.step = "policy" /\ Checking!Ends(Checking!View("ok", running.looked)) /\ time \in Nat
    BY <1>5 DEF Checking!Policy, RecentInv
  <2>2. /\ running.since \in Nat /\ time - running.since <= TIMEOUT
        /\ running.looked \in Nat /\ running.since - running.looked <= TIMEOUT
    BY <2>1 DEF RecentInv, InTime
  <2>3. Checking!View("ok", running.looked).looked = running.looked
    BY DEF Checking!View
  <2>4. Fresh(Checking!View("ok", running.looked), time)
    BY <2>1, <2>2, <2>3 DEF Fresh, Checking!UpdatesAssumption
  <2> QED
    BY <2>1, <2>4, EndsRecent
<1>6. CASE Checking!Tick
  <2>1. time \in Nat /\ time' = time + 1 /\ ~Checking!Overrun(time) /\ UNCHANGED <<view, running, finishedAt, asking, told>>
    BY <1>6 DEF Checking!Tick, RecentInv
  <2>2. InTime'
    BY <2>1 DEF RecentInv, InTime, Checking!Overrun, Checking!UpdatesAssumption
  <2>3. Asked' /\ Held'
    BY <2>1 DEF RecentInv, Asked, Held, Fresh
  <2> QED
    BY <2>1, <2>2, <2>3 DEF RecentInv, Checking!AnswersAreRecent
<1> QED
  BY <1>1, <1>2, <1>3, <1>4, <1>5, <1>6 DEF Checking!Next

(* Whoever presses Check now, however many others do and however long apt   *)
(* takes, is told of a recent look at the packages (updates.ts:233-247).    *)
THEOREM RecentCorrect == ASSUME Checking!UpdatesAssumption PROVE Checking!Spec => []Checking!AnswersAreRecent
<1>1. RecentInv /\ [Checking!Next]_(Checking!vars) => RecentInv'
  BY RecentStep
<1>2. RecentInv => Checking!AnswersAreRecent
  BY DEF RecentInv
<1> QED
  BY <1>1, <1>2, InitRecent, PTL DEF Checking!Spec

(***************************************************************************)
(* The live feed.  What is shown, and the messages still in the socket,    *)
(* lead to what the server has: each message is applied to what the one    *)
(* before it left.                                                         *)
(***************************************************************************)
Marks == {None, "open", "acked"}
Sights == [alerts : [Alerts -> Marks], rules : Nat \cup {None}]
Events == {"raised", "acknowledged", "cleared"}
Messages ==
  [type : {"snapshot"}, alerts : [Alerts -> Marks], rules : Nat]
    \cup [type : {"alert"}, event : Events, alert : Alerts]
    \cup [type : {"rules"}, rules : Nat]
    \cup [type : {"close"}, code : {1006, 4401}]

Marked(mark, event) ==
  CASE event = "raised" -> "open"
    [] event = "cleared" -> None
    [] OTHER -> IF mark = None THEN None ELSE "acked"
Sight(alerts, edition) == [alerts |-> alerts, rules |-> edition]
After(v, m) ==
  CASE m.type = "snapshot" -> Sight(m.alerts, m.rules)
    [] m.type = "alert" -> Sight([v.alerts EXCEPT ![m.alert] = Marked(@, m.event)], v.rules)
    [] m.type = "rules" -> Sight(v.alerts, m.rules)
    [] OTHER -> v
LeadsBy(f, q, v, w) ==
  f[0] = v /\ f[Len(q)] = w /\ \A i \in 1 .. Len(q) : f[i] = After(f[i - 1], q[i])
Leads(q, v, w) == \E f \in [0 .. Len(q) -> Sights] : LeadsBy(f, q, v, w)

ShownRules == IF liveRules # None THEN liveRules ELSE configRules
Present == Sight(Feed!OpenAlerts, rules)
Follows ==
  cur # None /\ side[cur] = "open" =>
    \E v \in Sights : v.alerts = shown /\ (~effect => v.rules = ShownRules) /\ Leads(chan[cur], v, Present)

SourceTyped == alert \in [Alerts -> {"new", "open", "acked", "cleared"}] /\ rules \in Nat
EndsTyped ==
  /\ side \in [Feed!Sockets -> {"none", "asked", "open", "gone"}]
  /\ chan \in [Feed!Sockets -> Seq(Messages)]
ClientTyped == cur \in Feed!Sockets \cup {None} /\ (sock # "none" => cur # None)
ViewTyped ==
  /\ shown \in [Alerts -> Marks] /\ liveRules \in Nat \cup {None} /\ configRules \in Nat \cup {None}
  /\ config.is = "config" => config.rules \in Nat
AckStands == ack # None => ack \in Alerts /\ alert[ack] \in {"acked", "cleared"}
FeedInv == SourceTyped /\ EndsTyped /\ ClientTyped /\ ViewTyped /\ AckStands /\ Follows

(***************************************************************************)
(* Sequences of messages.                                                  *)
(***************************************************************************)
LEMMA AfterSeen == ASSUME NEW v \in Sights, NEW m \in Messages PROVE After(v, m) \in Sights
  BY DEF After, Sights, Messages, Sight, Marked, Marks, Events

LEMMA LeadsNowhere == ASSUME NEW v, NEW w, Leads(<<>>, v, w) PROVE v = w
  BY DEF Leads, LeadsBy

LEMMA AppendLeads ==
  ASSUME NEW q \in Seq(Messages), NEW v \in Sights, NEW w \in Sights, Leads(q, v, w), NEW m \in Messages
  PROVE  Leads(Append(q, m), v, After(w, m))
<1>1. PICK f \in [0 .. Len(q) -> Sights] : LeadsBy(f, q, v, w)
  BY DEF Leads
<1> DEFINE n == Len(q)
           p == Append(q, m)
           g == [i \in 0 .. Len(p) |-> IF i <= n THEN f[i] ELSE After(w, m)]
<1>2. n \in Nat /\ Len(p) = n + 1 /\ p[n + 1] = m /\ \A i \in 1 .. n : p[i] = q[i]
  OBVIOUS
<1> HIDE DEF n, p
<1>3. g \in [0 .. Len(p) -> Sights]
  BY <1>1, <1>2, AfterSeen DEF n
<1>4. g[0] = v /\ g[Len(p)] = After(w, m)
  BY <1>1, <1>2 DEF LeadsBy, n
<1>5. ASSUME NEW i \in 1 .. Len(p) PROVE g[i] = After(g[i - 1], p[i])
  <2>1. CASE i \in 1 .. n
    BY <1>1, <1>2, <2>1 DEF LeadsBy, n
  <2>2. CASE i = n + 1
    BY <1>1, <1>2, <2>2 DEF LeadsBy, n
  <2> QED
    BY <1>2, <2>1, <2>2
<1> HIDE DEF g
<1>6. LeadsBy(g, p, v, After(w, m))
  BY <1>4, <1>5 DEF LeadsBy
<1> QED
  BY <1>3, <1>6 DEF Leads, p

LEMMA TailLeads ==
  ASSUME NEW q \in Seq(Messages), NEW v \in Sights, NEW w, q # <<>>, Leads(q, v, w)
  PROVE  Leads(Tail(q), After(v, Head(q)), w)
<1>1. PICK f \in [0 .. Len(q) -> Sights] : LeadsBy(f, q, v, w)
  BY DEF Leads
<1> DEFINE p == Tail(q)
           g == [i \in 0 .. Len(p) |-> f[i + 1]]
<1>2. Len(q) \in Nat /\ Len(q) > 0 /\ Len(p) = Len(q) - 1 /\ Head(q) = q[1]
      /\ \A i \in 1 .. Len(p) : p[i] = q[i + 1]
  OBVIOUS
<1> HIDE DEF p
<1>3. g \in [0 .. Len(p) -> Sights]
  BY <1>1, <1>2
<1>4. g[0] = After(v, Head(q)) /\ g[Len(p)] = w
  BY <1>1, <1>2 DEF LeadsBy
<1>5. ASSUME NEW i \in 1 .. Len(p) PROVE g[i] = After(g[i - 1], p[i])
  <2>1. i + 1 \in 1 .. Len(q) /\ i \in 0 .. Len(p) /\ i - 1 \in 0 .. Len(p) /\ p[i] = q[i + 1]
    BY <1>2
  <2>2. f[i + 1] = After(f[(i + 1) - 1], q[i + 1])
    BY <1>1, <2>1 DEF LeadsBy
  <2>3. g[i] = f[i + 1] /\ g[i - 1] = f[i] /\ (i + 1) - 1 = i
    BY <2>1
  <2> QED
    BY <2>1, <2>2, <2>3
<1> HIDE DEF g
<1>6. LeadsBy(g, p, After(v, Head(q)), w)
  BY <1>4, <1>5 DEF LeadsBy
<1> QED
  BY <1>3, <1>6 DEF Leads, p

(* An acknowledgement that is shown early, by its answer.                  *)
Early(v, a) == IF v.alerts[a] = "open" THEN Sight([v.alerts EXCEPT ![a] = "acked"], v.rules) ELSE v
Renews(m, a) == m.type = "snapshot" \/ (m.type = "alert" /\ m.event = "raised" /\ m.alert = a)

LEMMA EarlyStep ==
  ASSUME None # "open", None # "acked", NEW v \in Sights, NEW m \in Messages, NEW a \in Alerts
  PROVE  /\ Early(v, a) \in Sights
         /\ Renews(m, a) => After(Early(v, a), m) = After(v, m)
         /\ ~Renews(m, a) => After(Early(v, a), m) = Early(After(v, m), a)
<1>1. Early(v, a) \in Sights
  BY DEF Early, Sights, Sight, Marks
<1>2. CASE m.type = "snapshot"
  BY <1>1, <1>2 DEF Renews, After
<1>3. CASE m.type = "alert"
  <2>1. m.event \in Events /\ m.alert \in Alerts
    BY <1>3 DEF Messages
  <2>2. \A u : After(u, m) = Sight([u.alerts EXCEPT ![m.alert] = Marked(@, m.event)], u.rules)
    BY <1>3 DEF After
  <2>3. v.alerts \in [Alerts -> Marks]
    BY DEF Sights
  <2>4. CASE v.alerts[a] # "open"
    <3>1. Early(v, a) = v
      BY <2>4 DEF Early
    <3>2. ~Renews(m, a) => After(v, m).alerts[a] # "open"
      <4>1. After(v, m).alerts = [v.alerts EXCEPT ![m.alert] = Marked(@, m.event)]
        <5>1. After(v, m) = Sight([v.alerts EXCEPT ![m.alert] = Marked(@, m.event)], v.rules)
          BY <2>2
        <5> QED BY <5>1 DEF Sight
      <4>2. \A mark : Marked(mark, "cleared") # "open" /\ Marked(mark, "acknowledged") # "open"
        BY DEF Marked
      <4>3. ~Renews(m, a) /\ m.alert = a => Marked(v.alerts[a], m.event) # "open"
        BY <1>3, <2>1, <4>2 DEF Renews, Events
      <4> QED
        BY <2>1, <2>3, <2>4, <4>1, <4>3
    <3> QED
      BY <1>1, <3>1, <3>2 DEF Early
  <2>5. CASE v.alerts[a] = "open"
    <3>1. Early(v, a) = Sight([v.alerts EXCEPT ![a] = "acked"], v.rules)
      BY <2>5 DEF Early
    <3>2. After(Early(v, a), m) = Sight([[v.alerts EXCEPT ![a] = "acked"]
                                      EXCEPT ![m.alert] = Marked(@, m.event)], v.rules)
      BY <2>2, <3>1 DEF Sight
    <3>3. After(v, m) = Sight([v.alerts EXCEPT ![m.alert] = Marked(@, m.event)], v.rules)
      BY <2>2
    <3>4. CASE m.alert = a
      <4>1. Marked("acked", m.event) = Marked("open", m.event)
        BY DEF Marked
      <4>2. [[v.alerts EXCEPT ![a] = "acked"] EXCEPT ![a] = Marked(@, m.event)]
              = [v.alerts EXCEPT ![a] = Marked("acked", m.event)]
        BY <2>3
      <4>3. [v.alerts EXCEPT ![a] = Marked(@, m.event)] = [v.alerts EXCEPT ![a] = Marked("acked", m.event)]
        BY <2>3, <2>5, <4>1
      <4>4. After(Early(v, a), m) = After(v, m)
        BY <3>2, <3>3, <3>4, <4>2, <4>3
      <4>5. ~Renews(m, a) => After(v, m).alerts[a] # "open"
        <5>1. ~Renews(m, a) => Marked("open", m.event) # "open"
          BY <1>3, <3>4, <2>1 DEF Renews, Marked, Events
        <5>2. After(v, m).alerts[a] = Marked("open", m.event)
          BY <3>3, <3>4, <2>3, <2>5 DEF Sight
        <5> QED BY <5>1, <5>2
      <4> QED
        BY <1>1, <4>4, <4>5 DEF Early
    <3>5. CASE m.alert # a
      <4>1. ~Renews(m, a)
        BY <1>3, <3>5 DEF Renews
      <4>2. After(v, m).alerts[a] = "open" /\ After(v, m).rules = v.rules
            /\ After(v, m).alerts = [v.alerts EXCEPT ![m.alert] = Marked(@, m.event)]
        BY <3>3, <3>5, <2>3, <2>5 DEF Sight
      <4>3. Early(After(v, m), a) = Sight([After(v, m).alerts EXCEPT ![a] = "acked"], v.rules)
        BY <4>2 DEF Early
      <4>4. [[v.alerts EXCEPT ![a] = "acked"] EXCEPT ![m.alert] = Marked(@, m.event)]
              = [[v.alerts EXCEPT ![m.alert] = Marked(@, m.event)] EXCEPT ![a] = "acked"]
        BY <2>1, <2>3, <3>5
      <4> QED
        BY <1>1, <3>2, <4>1, <4>2, <4>3, <4>4
    <3> QED BY <3>4, <3>5
  <2> QED BY <2>4, <2>5
<1>4. CASE m.type \notin {"snapshot", "alert"}
  BY <1>1, <1>4 DEF Renews, After, Early, Sight, Sights
<1> QED
  BY <1>2, <1>3, <1>4

LEMMA EarlyLeads ==
  ASSUME None # "open", None # "acked", NEW q \in Seq(Messages), NEW v \in Sights, NEW w \in Sights,
         NEW a \in Alerts, w.alerts[a] # "open", Leads(q, v, w)
  PROVE  Leads(q, Early(v, a), w)
<1>1. PICK f \in [0 .. Len(q) -> Sights] : LeadsBy(f, q, v, w)
  BY DEF Leads
<1> DEFINE Still(i) == \A j \in 1 .. i : ~Renews(q[j], a)
           g == [i \in 0 .. Len(q) |-> IF Still(i) THEN Early(f[i], a) ELSE f[i]]
<1>2. Len(q) \in Nat /\ \A i \in 1 .. Len(q) : q[i] \in Messages
  OBVIOUS
<1>3. ASSUME NEW i \in 0 .. Len(q) PROVE Early(f[i], a) \in Sights
  BY <1>1 DEF Early, Sights, Sight, Marks
<1>4. g \in [0 .. Len(q) -> Sights]
  BY <1>1, <1>3
<1>5. g[0] = Early(v, a) /\ g[Len(q)] = w
  BY <1>1, <1>2 DEF LeadsBy, Early
<1>6. ASSUME NEW i \in 1 .. Len(q) PROVE g[i] = After(g[i - 1], q[i])
  <2>1. i \in 0 .. Len(q) /\ i - 1 \in 0 .. Len(q) /\ f[i - 1] \in Sights /\ q[i] \in Messages
    BY <1>1, <1>2
  <2>2. f[i] = After(f[i - 1], q[i])
    BY <1>1 DEF LeadsBy
  <2>3. Still(i) <=> Still(i - 1) /\ ~Renews(q[i], a)
    BY <1>2
  <2>4. /\ Renews(q[i], a) => After(Early(f[i - 1], a), q[i]) = After(f[i - 1], q[i])
        /\ ~Renews(q[i], a) => After(Early(f[i - 1], a), q[i]) = Early(After(f[i - 1], q[i]), a)
    BY <2>1, EarlyStep
  <2> HIDE DEF Still
  <2>5. g[i] = (IF Still(i) THEN Early(f[i], a) ELSE f[i])
        /\ g[i - 1] = (IF Still(i - 1) THEN Early(f[i - 1], a) ELSE f[i - 1])
    BY <2>1
  <2> HIDE DEF g
  <2> QED
    BY <2>2, <2>3, <2>4, <2>5
<1> HIDE DEF g
<1>7. LeadsBy(g, q, Early(v, a), w)
  BY <1>5, <1>6 DEF LeadsBy
<1> QED
  BY <1>4, <1>7 DEF Leads

(***************************************************************************)
(* Steps.                                                                  *)
(***************************************************************************)
LEMMA PresentSeen == ASSUME SourceTyped PROVE Present \in Sights
<1>1. Feed!OpenAlerts \in [Alerts -> Marks]
  BY DEF Feed!OpenAlerts, SourceTyped, Marks
<1> QED
  BY <1>1 DEF Present, Sight, Sights, SourceTyped

LEMMA InitFollows == ASSUME Feed!Init, Feed!LiveFeedAssumption PROVE FeedInv
<1>1. SourceTyped /\ AckStands
  BY DEF Feed!Init, SourceTyped, AckStands
<1>2. EndsTyped
  BY DEF Feed!Init, EndsTyped
<1>3. ClientTyped /\ ViewTyped /\ Follows
  BY DEF Feed!Init, ClientTyped, ViewTyped, Follows, Marks, Feed!Idle
<1> QED
  BY <1>1, <1>2, <1>3 DEF FeedInv

(* The socket that is followed is left alone, or closed.                   *)
LEMMA LeftAlone ==
  ASSUME Follows, UNCHANGED <<alert, rules, cur, shown, liveRules, configRules, effect>>,
         cur # None /\ side'[cur] = "open" => side[cur] = "open" /\ chan'[cur] = chan[cur]
  PROVE  Follows'
BY DEF Follows, Present, Feed!OpenAlerts, ShownRules

LEMMA Published ==
  ASSUME Feed!LiveFeedAssumption, FeedInv, NEW m \in Messages, Feed!Publish(m), Present' = After(Present, m),
         UNCHANGED <<cur, shown, liveRules, configRules, effect>>
  PROVE  EndsTyped' /\ Follows'
<1>1. EndsTyped'
  <2>1. Feed!Close(1006) \in Messages
    BY DEF Feed!Close, Messages
  <2>2. \A c \in Feed!Sockets : chan'[c] \in Seq(Messages)
    BY <2>1 DEF Feed!Publish, FeedInv, EndsTyped
  <2>3. side' \in [Feed!Sockets -> {"none", "asked", "open", "gone"}]
    BY DEF Feed!Publish, FeedInv, EndsTyped
  <2> QED
    BY <2>2, <2>3 DEF EndsTyped, Feed!Publish
<1>2. Follows'
  <2>1. SUFFICES ASSUME cur # None, side'[cur] = "open"
                 PROVE  \E v \in Sights : v.alerts = shown /\ (~effect => v.rules = ShownRules)
                                          /\ Leads(chan'[cur], v, Present')
    BY DEF Follows, ShownRules
  <2>2. cur \in Feed!Sockets
    BY <2>1 DEF FeedInv, ClientTyped
  <2>3. side[cur] = "open" /\ chan'[cur] = Append(chan[cur], m) /\ chan[cur] \in Seq(Messages)
    BY <2>1, <2>2 DEF Feed!Publish, FeedInv, EndsTyped
  <2>4. PICK v \in Sights : v.alerts = shown /\ (~effect => v.rules = ShownRules) /\ Leads(chan[cur], v, Present)
    BY <2>1, <2>3 DEF FeedInv, Follows
  <2>5. Present \in Sights
    BY PresentSeen DEF FeedInv
  <2>6. Leads(chan'[cur], v, Present')
    BY <2>3, <2>4, <2>5, AppendLeads
  <2> QED
    BY <2>4, <2>6
<1> QED
  BY <1>1, <1>2

LEMMA Changed ==
  ASSUME Feed!LiveFeedAssumption, FeedInv, NEW a \in Alerts, NEW from, NEW to, NEW event \in Events,
         Feed!Changes(a, from, to, event), UNCHANGED <<rules, cur, shown, liveRules, configRules, effect>>,
         \/ event = "raised" /\ from = {"new"} /\ to = "open"
         \/ event = "cleared" /\ from = {"open", "acked"} /\ to = "cleared"
         \/ event = "acknowledged" /\ from = {"open"} /\ to = "acked"
  PROVE  SourceTyped' /\ EndsTyped' /\ Follows' /\ (AckStands /\ ack' = ack => AckStands')
<1> DEFINE m == [type |-> "alert", event |-> event, alert |-> a]
<1>1. SourceTyped /\ alert[a] \in from /\ alert' = [alert EXCEPT ![a] = to]
  BY DEF Feed!Changes, FeedInv
<1>2. SourceTyped'
  BY <1>1 DEF SourceTyped
<1>3. m \in Messages
  BY DEF Messages
<1>4. Present' = After(Present, m)
  <2>1. Feed!OpenAlerts' = [Feed!OpenAlerts EXCEPT ![a] = Marked(@, event)]
    <3>1. ASSUME NEW b \in Alerts, b # a PROVE Feed!OpenAlerts'[b] = Feed!OpenAlerts[b]
      BY <1>1, <3>1 DEF Feed!OpenAlerts, SourceTyped
    <3>2. Feed!OpenAlerts'[a] = Marked(Feed!OpenAlerts[a], event)
      <4>1. alert'[a] = to
        BY <1>1 DEF SourceTyped
      <4>2. Feed!OpenAlerts'[a] = IF to \in {"open", "acked"} THEN to ELSE None
        BY <4>1 DEF Feed!OpenAlerts
      <4>3. Feed!OpenAlerts[a] = IF alert[a] \in {"open", "acked"} THEN alert[a] ELSE None
        BY DEF Feed!OpenAlerts
      <4> QED BY <1>1, <4>2, <4>3 DEF Marked, Feed!LiveFeedAssumption
    <3>3. Feed!OpenAlerts' = [b \in Alerts |-> Feed!OpenAlerts'[b]]
          /\ Feed!OpenAlerts = [b \in Alerts |-> Feed!OpenAlerts[b]]
      BY DEF Feed!OpenAlerts
    <3> HIDE DEF Feed!OpenAlerts, Marked
    <3> QED BY <3>1, <3>2, <3>3
  <2> QED
    BY <2>1 DEF Present, After, Sight
<1>5. Feed!Publish(m)
  BY DEF Feed!Changes
<1>6. AckStands /\ ack' = ack => AckStands'
  BY <1>1 DEF AckStands, SourceTyped
<1> HIDE DEF m
<1> QED
  BY <1>2, <1>3, <1>4, <1>5, <1>6, Published

LEMMA Received == ASSUME Feed!LiveFeedAssumption, FeedInv, Feed!Receive PROVE FeedInv'
<1> DEFINE q == chan[cur]
           m == Head(q)
<1>1. cur \in Feed!Sockets /\ q \in Seq(Messages) /\ q # <<>> /\ m \in Messages /\ Tail(q) \in Seq(Messages)
  <2>1. cur \in Feed!Sockets
    BY DEF Feed!Receive, FeedInv, ClientTyped
  <2>2. q \in Seq(Messages) /\ q # <<>>
    BY <2>1 DEF Feed!Receive, FeedInv, EndsTyped
  <2> HIDE DEF q
  <2> QED BY <2>1, <2>2
<1>2. chan' = [chan EXCEPT ![cur] = Tail(q)] /\ UNCHANGED <<alert, rules, side, cur, effect, config, ack>>
  BY DEF Feed!Receive, Feed!server
<1>3. SourceTyped' /\ AckStands' /\ Present' = Present
  BY <1>2 DEF FeedInv, SourceTyped, AckStands, Present, Feed!OpenAlerts
<1>4. EndsTyped'
  BY <1>1, <1>2 DEF FeedInv, EndsTyped
<1>5. ClientTyped'
  BY <1>1, <1>2, Feed!LiveFeedAssumption DEF ClientTyped, Feed!LiveFeedAssumption, Feed!Sockets
<1>6. ASSUME NEW v \in Sights, v.alerts = shown, ~effect => v.rules = ShownRules
      PROVE  After(v, m).alerts = shown' /\ (~effect => After(v, m).rules = ShownRules')
  <2>1. CASE m.type = "close"
    <3>1. UNCHANGED <<shown, liveRules, configRules>>
      BY <2>1 DEF Feed!Receive, Feed!view
    <3> QED BY <1>6, <2>1, <3>1 DEF After, ShownRules
  <2>2. CASE m.type # "close"
    <3>1. Feed!Shows(m) /\ UNCHANGED configRules
      BY <2>2 DEF Feed!Receive
    <3>2. CASE m.type = "snapshot"
      <4>1. m.rules \in Nat
        BY <1>1, <3>2 DEF Messages
      <4> QED BY <3>1, <3>2, <4>1 DEF Feed!Shows, After, Sight, ShownRules, Feed!LiveFeedAssumption
    <3>3. CASE m.type = "alert"
      <4>1. shown' = Feed!Applied(m.event, m.alert) /\ UNCHANGED liveRules
        BY <3>1, <3>3 DEF Feed!Shows
      <4>2. Feed!Applied(m.event, m.alert) = [shown EXCEPT ![m.alert] = Marked(@, m.event)]
        BY DEF Feed!Applied, Marked
      <4> QED BY <1>6, <3>1, <3>3, <4>1, <4>2 DEF After, Sight, ShownRules
    <3>4. CASE m.type = "rules"
      <4>1. m.rules \in Nat
        BY <1>1, <3>4 DEF Messages
      <4>2. liveRules' = m.rules /\ UNCHANGED shown
        BY <3>1, <3>4 DEF Feed!Shows
      <4> QED BY <1>6, <3>4, <4>1, <4>2 DEF After, Sight, ShownRules, Feed!LiveFeedAssumption
    <3>5. m.type \in {"snapshot", "alert", "rules", "close"}
      BY <1>1 DEF Messages
    <3> QED BY <2>2, <3>2, <3>3, <3>4, <3>5
  <2> QED BY <2>1, <2>2
<1>7. ViewTyped'
  <2>1. shown' \in [Alerts -> Marks]
    <3> DEFINE v == Sight(shown, None)
    <3>1. CASE m.type = "close"
      BY <3>1 DEF Feed!Receive, Feed!view, FeedInv, ViewTyped
    <3>2. CASE m.type = "snapshot"
      BY <1>1, <3>2 DEF Feed!Receive, Feed!Shows, Messages
    <3>3. CASE m.type = "alert"
      <4>1. m.event \in Events /\ m.alert \in Alerts
        BY <1>1, <3>3 DEF Messages
      <4>2. shown' = Feed!Applied(m.event, m.alert)
        BY <3>3 DEF Feed!Receive, Feed!Shows
      <4> QED BY <4>1, <4>2 DEF Feed!Applied, Marks, Events, FeedInv, ViewTyped
    <3>4. CASE m.type = "rules"
      BY <3>4 DEF Feed!Receive, Feed!Shows, FeedInv, ViewTyped
    <3>5. m.type \in {"snapshot", "alert", "rules", "close"}
      BY <1>1 DEF Messages
    <3> QED BY <3>1, <3>2, <3>3, <3>4, <3>5
  <2>2. liveRules' \in Nat \cup {None} /\ configRules' = configRules
    <3>1. CASE m.type = "close"
      BY <3>1 DEF Feed!Receive, Feed!view, FeedInv, ViewTyped
    <3>2. CASE m.type \in {"snapshot", "rules"}
      <4>1. m.rules \in Nat
        BY <1>1, <3>2 DEF Messages
      <4>2. liveRules' \in {m.rules, liveRules} /\ configRules' = configRules
        BY <3>2 DEF Feed!Receive, Feed!Shows
      <4> QED BY <4>1, <4>2 DEF FeedInv, ViewTyped
    <3>3. CASE m.type = "alert"
      BY <3>3 DEF Feed!Receive, Feed!Shows, FeedInv, ViewTyped
    <3>4. m.type \in {"snapshot", "alert", "rules", "close"}
      BY <1>1 DEF Messages
    <3> QED BY <3>1, <3>2, <3>3, <3>4
  <2> QED BY <1>2, <2>1, <2>2 DEF FeedInv, ViewTyped
<1>8. Follows'
  <2>1. SUFFICES ASSUME side[cur] = "open"
                 PROVE  \E v \in Sights : v.alerts = shown' /\ (~effect => v.rules = ShownRules')
                                          /\ Leads(chan'[cur], v, Present)
    BY <1>2, <1>3 DEF Follows
  <2>2. PICK v \in Sights : v.alerts = shown /\ (~effect => v.rules = ShownRules) /\ Leads(q, v, Present)
    BY <1>1, <2>1 DEF FeedInv, Follows, Feed!LiveFeedAssumption, Feed!Sockets
  <2>3. chan'[cur] = Tail(q)
    BY <1>1, <1>2 DEF FeedInv, EndsTyped
  <2> HIDE DEF q, m
  <2>4. After(v, Head(q)) \in Sights /\ Leads(Tail(q), After(v, Head(q)), Present)
    BY <1>1, <2>2, AfterSeen, TailLeads DEF m
  <2> QED
    BY <1>6, <2>2, <2>3, <2>4 DEF m
<1> QED
  BY <1>3, <1>4, <1>5, <1>7, <1>8 DEF FeedInv

LEMMA AckReads == ASSUME Feed!LiveFeedAssumption, FeedInv, Feed!AckRead PROVE FeedInv'
<1>1. /\ ack \in Alerts /\ alert[ack] \in {"acked", "cleared"} /\ ack' = None
      /\ shown' = Feed!Applied("acknowledged", ack)
      /\ UNCHANGED <<alert, rules, side, chan, cur, sock, liveRules, configRules, effect, config>>
  BY DEF Feed!AckRead, FeedInv, AckStands, Feed!server, Feed!ends, Feed!client
<1>2. shown \in [Alerts -> Marks]
  BY DEF FeedInv, ViewTyped
<1>3. shown' \in [Alerts -> Marks]
  BY <1>1, <1>2 DEF Feed!Applied, Marks
<1>4. Follows'
  <2>1. SUFFICES ASSUME cur # None, side[cur] = "open"
                 PROVE  \E v \in Sights : v.alerts = shown' /\ (~effect => v.rules = ShownRules)
                                          /\ Leads(chan[cur], v, Present)
    BY <1>1 DEF Follows, ShownRules, Present, Feed!OpenAlerts
  <2>2. cur \in Feed!Sockets /\ chan[cur] \in Seq(Messages)
    BY <2>1 DEF FeedInv, ClientTyped, EndsTyped
  <2>3. PICK v \in Sights : v.alerts = shown /\ (~effect => v.rules = ShownRules) /\ Leads(chan[cur], v, Present)
    BY <2>1 DEF FeedInv, Follows
  <2>4. Present \in Sights /\ Present.alerts[ack] # "open"
    <3>1. Present.alerts[ack] # "open"
      BY <1>1 DEF Present, Sight, Feed!OpenAlerts, Feed!LiveFeedAssumption
    <3> QED BY <3>1, PresentSeen DEF FeedInv
  <2>5. None # "open" /\ None # "acked"
    BY DEF Feed!LiveFeedAssumption
  <2>6. Leads(chan[cur], Early(v, ack), Present) /\ Early(v, ack) \in Sights
    <3>1. Early(v, ack) \in Sights
      BY <1>1 DEF Early, Sights, Sight, Marks
    <3> QED BY <1>1, <2>2, <2>3, <2>4, <2>5, <3>1, EarlyLeads
  <2>7. Early(v, ack).alerts = shown' /\ Early(v, ack).rules = v.rules
    <3>1. shown' = [shown EXCEPT ![ack] = IF shown[ack] = None THEN None ELSE "acked"]
      BY <1>1 DEF Feed!Applied
    <3>2. CASE shown[ack] = "open"
      BY <2>3, <2>5, <3>1, <3>2 DEF Early, Sight
    <3>3. CASE shown[ack] # "open"
      <4>1. shown' = shown
        BY <1>1, <1>2, <3>1, <3>3 DEF Marks
      <4> QED BY <2>3, <3>3, <4>1 DEF Early
    <3> QED BY <3>2, <3>3
  <2> QED
    BY <2>3, <2>6, <2>7
<1> QED
  BY <1>1, <1>3, <1>4 DEF FeedInv, SourceTyped, EndsTyped, ClientTyped, ViewTyped, AckStands

LEMMA EndsKept ==
  ASSUME EndsTyped, NEW c \in Feed!Sockets, NEW s \in {"none", "asked", "open", "gone"},
         NEW q \in Seq(Messages),
         side' = [side EXCEPT ![c] = s], chan' = [chan EXCEPT ![c] = q]
  PROVE  EndsTyped'
BY DEF EndsTyped

LEMMA FeedStep == ASSUME Feed!LiveFeedAssumption, FeedInv, [Feed!Next]_(Feed!vars) PROVE FeedInv'
<1> DEFINE Quiet == UNCHANGED <<alert, rules, cur, sock, shown, liveRules, configRules, effect, ack>>
<1>1. ASSUME Quiet, EndsTyped', ViewTyped',
             cur # None /\ side'[cur] = "open" => side[cur] = "open" /\ chan'[cur] = chan[cur]
      PROVE  FeedInv'
  <2>1. SourceTyped' /\ ClientTyped' /\ AckStands'
    BY <1>1 DEF FeedInv, SourceTyped, ClientTyped, AckStands
  <2>2. Follows'
    BY <1>1, LeftAlone DEF FeedInv
  <2> QED BY <1>1, <2>1, <2>2 DEF FeedInv
<1>2. ASSUME Quiet, EndsTyped', config' = config,
             cur # None /\ side'[cur] = "open" => side[cur] = "open" /\ chan'[cur] = chan[cur]
      PROVE  FeedInv'
  <2>1. ViewTyped'
    BY <1>2 DEF FeedInv, ViewTyped
  <2> QED BY <1>1, <1>2, <2>1
<1>3. ASSUME NEW a \in Alerts, Feed!RaiseOrClear(a) PROVE FeedInv'
  <2>1. UNCHANGED <<rules, cur, sock, shown, liveRules, configRules, effect, config, ack>>
    BY <1>3 DEF Feed!RaiseOrClear, Feed!client, Feed!view, Feed!asked
  <2>2. SourceTyped' /\ EndsTyped' /\ Follows' /\ AckStands'
    BY <1>3, <2>1, Changed DEF Feed!RaiseOrClear, Events, FeedInv
  <2> QED BY <2>1, <2>2 DEF FeedInv, ClientTyped, ViewTyped
<1>4. ASSUME NEW a \in Alerts, Feed!Acknowledge(a) PROVE FeedInv'
  <2>1. UNCHANGED <<rules, cur, sock, shown, liveRules, configRules, effect, config>> /\ ack' = a
    BY <1>4 DEF Feed!Acknowledge, Feed!client, Feed!view
  <2>2. SourceTyped' /\ EndsTyped' /\ Follows'
    BY <1>4, <2>1, Changed DEF Feed!Acknowledge, Events
  <2>3. AckStands'
    BY <1>4, <2>1 DEF Feed!Acknowledge, Feed!Changes, AckStands, FeedInv, SourceTyped
  <2> QED BY <2>1, <2>2, <2>3 DEF FeedInv, ClientTyped, ViewTyped
<1>5. CASE Feed!EditRules
  <2>1. UNCHANGED <<alert, cur, sock, shown, liveRules, configRules, effect, config, ack>> /\ rules' = rules + 1
    BY <1>5 DEF Feed!EditRules, Feed!client, Feed!view, Feed!asked
  <2> DEFINE m == [type |-> "rules", rules |-> rules + 1]
  <2>2. rules \in Nat /\ m \in Messages /\ Feed!Publish(m)
    BY <1>5 DEF Feed!EditRules, Messages, FeedInv, SourceTyped
  <2>3. Present' = After(Present, m)
    BY <2>1 DEF Present, After, Sight, Feed!OpenAlerts
  <2> HIDE DEF m
  <2>4. EndsTyped' /\ Follows'
    BY <2>1, <2>2, <2>3, Published
  <2> QED BY <2>1, <2>2, <2>4 DEF FeedInv, SourceTyped, ClientTyped, ViewTyped, AckStands
<1>6. ASSUME NEW c \in Feed!Sockets, Feed!Accept(c) PROVE FeedInv'
  <2>1. Quiet /\ config' = config
    BY <1>6 DEF Feed!Accept, Feed!server, Feed!client, Feed!view, Feed!asked
  <2>2. Feed!Close(4401) \in Messages /\ Feed!Snapshot \in Messages
    <3>1. Feed!OpenAlerts \in [Alerts -> Marks]
      BY DEF Feed!OpenAlerts, FeedInv, SourceTyped, Marks
    <3> QED BY <3>1 DEF Feed!Close, Feed!Snapshot, Messages, FeedInv, SourceTyped
  <2>3. EndsTyped'
    <3>1. EndsTyped
      BY DEF FeedInv
    <3>2. CASE Feed!SignedIn(sid[c])
      <4>1. PICK m \in Messages : m = Feed!Snapshot
        BY <2>2
      <4>2. <<m>> \in Seq(Messages)
        OBVIOUS
      <4>3. side' = [side EXCEPT ![c] = "open"] /\ chan' = [chan EXCEPT ![c] = <<m>>]
        BY <1>6, <3>2, <4>1 DEF Feed!Accept
      <4> QED BY <3>1, <4>2, <4>3, EndsKept
    <3>3. CASE ~Feed!SignedIn(sid[c])
      <4>1. PICK m \in Messages : m = Feed!Close(4401)
        BY <2>2
      <4>2. <<m>> \in Seq(Messages)
        OBVIOUS
      <4>3. side' = [side EXCEPT ![c] = "gone"] /\ chan' = [chan EXCEPT ![c] = <<m>>]
        BY <1>6, <3>3, <4>1 DEF Feed!Accept
      <4> QED BY <3>1, <4>2, <4>3, EndsKept
    <3> QED BY <3>2, <3>3
  <2>4. CASE ~(c = cur /\ side'[c] = "open")
    <3>1. cur # None /\ side'[cur] = "open" => side[cur] = "open" /\ chan'[cur] = chan[cur]
      BY <1>6, <2>4 DEF Feed!Accept, FeedInv, EndsTyped, ClientTyped
    <3> QED BY <1>2, <2>1, <2>3, <3>1
  <2>5. CASE c = cur /\ side'[c] = "open"
    <3>1. chan'[cur] = <<Feed!Snapshot>>
      BY <1>6, <2>5 DEF Feed!Accept, FeedInv, EndsTyped
    <3> DEFINE v == Sight(shown, IF effect THEN None ELSE ShownRules)
    <3>2. v \in Sights
      BY DEF Sight, Sights, ShownRules, FeedInv, ViewTyped
    <3>3. v.alerts = shown /\ (~effect => v.rules = ShownRules)
      BY DEF Sight
    <3>4. After(v, Feed!Snapshot) = Present
      BY DEF After, Feed!Snapshot, Present
    <3> DEFINE f == [i \in 0 .. 1 |-> IF i = 0 THEN v ELSE Present]
    <3>5. Present \in Sights
      BY PresentSeen DEF FeedInv
    <3> HIDE DEF v
    <3>6. f \in [0 .. Len(<<Feed!Snapshot>>) -> Sights] /\ LeadsBy(f, <<Feed!Snapshot>>, v, Present)
      BY <3>2, <3>4, <3>5 DEF LeadsBy
    <3>7. Leads(chan'[cur], v, Present)
      BY <3>1, <3>6 DEF Leads
    <3>8. Follows'
      BY <2>1, <3>2, <3>3, <3>7 DEF Follows, Present, Feed!OpenAlerts, ShownRules
    <3> QED BY <2>1, <2>3, <3>8 DEF FeedInv, SourceTyped, ClientTyped, ViewTyped, AckStands
  <2> QED BY <2>4, <2>5
<1>7. ASSUME NEW c \in Feed!Sockets, Feed!Heartbeat(c) \/ Feed!Pong(c) PROVE FeedInv'
  <2>1. Quiet /\ config' = config
    BY <1>7 DEF Feed!Heartbeat, Feed!Pong, Feed!server, Feed!client, Feed!view, Feed!asked
  <2>2. Feed!Close(1006) \in Messages /\ Feed!Close(4401) \in Messages
    BY DEF Feed!Close, Messages
  <2>3. \/ UNCHANGED <<side, chan>>
        \/ \E m \in Messages : side' = [side EXCEPT ![c] = "gone"] /\ chan' = [chan EXCEPT ![c] = Append(@, m)]
    BY <1>7, <2>2 DEF Feed!Heartbeat, Feed!Pong
  <2>5. EndsTyped' /\ \A d \in Feed!Sockets : side'[d] = "open" => side[d] = "open" /\ chan'[d] = chan[d]
    <3>1. CASE UNCHANGED <<side, chan>>
      BY <3>1 DEF FeedInv, EndsTyped
    <3>2. ASSUME NEW m \in Messages, side' = [side EXCEPT ![c] = "gone"], chan' = [chan EXCEPT ![c] = Append(@, m)]
          PROVE  EndsTyped' /\ \A d \in Feed!Sockets : side'[d] = "open" => side[d] = "open" /\ chan'[d] = chan[d]
      <4>1. EndsTyped /\ chan[c] \in Seq(Messages)
        BY DEF FeedInv, EndsTyped
      <4>2. Append(chan[c], m) \in Seq(Messages) /\ chan' = [chan EXCEPT ![c] = Append(chan[c], m)]
        BY <3>2, <4>1
      <4>3. EndsTyped'
        BY <3>2, <4>1, <4>2, EndsKept
      <4> QED BY <3>2, <4>1, <4>3 DEF EndsTyped
    <3> QED BY <2>3, <3>1, <3>2
  <2>4. cur # None => cur \in Feed!Sockets
    BY DEF FeedInv, ClientTyped
  <2> QED BY <1>2, <2>1, <2>4, <2>5
<1>8. CASE Feed!Restart
  <2>1. Quiet /\ config' = config
    BY <1>8 DEF Feed!Restart, Feed!server, Feed!client, Feed!view, Feed!asked
  <2>2. Feed!Close(1006) \in Messages
    BY DEF Feed!Close, Messages
  <2>3. EndsTyped' /\ \A d \in Feed!Sockets : side'[d] # "open"
    BY <1>8, <2>2 DEF Feed!Restart, FeedInv, EndsTyped
  <2>4. cur # None => cur \in Feed!Sockets
    BY DEF FeedInv, ClientTyped
  <2> QED BY <1>2, <2>1, <2>3, <2>4
<1>9. CASE Feed!Breaks
  <2>1. Quiet /\ config' = config
    BY <1>9 DEF Feed!Breaks, Feed!server, Feed!client, Feed!view, Feed!asked
  <2>2. Feed!Close(1006) \in Messages /\ cur \in Feed!Sockets
    BY <1>9 DEF Feed!Close, Messages, Feed!Breaks, FeedInv, ClientTyped
  <2>3. EndsTyped' /\ side'[cur] # "open"
    BY <1>9, <2>2 DEF Feed!Breaks, FeedInv, EndsTyped
  <2> QED BY <1>2, <2>1, <2>3
<1>10. ASSUME cur' \in Feed!Sockets, side'[cur'] = "asked", EndsTyped',
              UNCHANGED <<alert, rules, Feed!view, config, ack>>
       PROVE  FeedInv'
  <2>1. SourceTyped' /\ ClientTyped' /\ ViewTyped' /\ AckStands'
    BY <1>10 DEF FeedInv, SourceTyped, ClientTyped, ViewTyped, AckStands, Feed!view,
       Feed!LiveFeedAssumption, Feed!Sockets
  <2>2. Follows'
    BY <1>10 DEF Follows
  <2> QED BY <1>10, <2>1, <2>2 DEF FeedInv
<1>11. CASE Feed!Retry
  <2>1. UNCHANGED <<alert, rules, Feed!view, config, ack>> /\ cur' \in Feed!Sockets
        /\ side' = [side EXCEPT ![cur'] = "asked"] /\ chan' = chan
    BY <1>11 DEF Feed!Retry, Feed!Opens, Feed!server, Feed!asked
  <2>2. EndsTyped' /\ side'[cur'] = "asked"
    BY <2>1 DEF FeedInv, EndsTyped
  <2> QED BY <1>10, <2>1, <2>2
<1>12. CASE Feed!EffectRuns
  <2>1. UNCHANGED <<alert, rules, Feed!view, config, ack>> /\ cur' = Feed!NextSocket /\ Feed!NextSocket \in Feed!Sockets
    BY <1>12 DEF Feed!EffectRuns, Feed!server, Feed!asked
  <2>2. EndsTyped' /\ side'[Feed!NextSocket] = "asked"
    BY <1>12, <2>1 DEF Feed!EffectRuns, FeedInv, EndsTyped
  <2> QED BY <1>10, <2>1, <2>2
<1>13. CASE Feed!Receive
  BY <1>13, Received
<1>14. CASE Feed!ConfigRead
  <2>1. UNCHANGED <<alert, rules, side, chan, cur, sock, ack, shown>> /\ config' = Feed!Idle("none")
    BY <1>14 DEF Feed!ConfigRead, Feed!server, Feed!ends, Feed!client, Feed!view
  <2>2. EndsTyped'
    BY <2>1 DEF FeedInv, EndsTyped
  <2>3. CASE config.is = "401"
    <3>1. UNCHANGED <<Feed!view, effect>>
      BY <1>14, <2>3 DEF Feed!ConfigRead
    <3>2. ViewTyped' /\ Quiet
      BY <2>1, <3>1 DEF FeedInv, ViewTyped, Feed!Idle, Feed!view
    <3> QED BY <1>1, <2>1, <2>2, <3>2
  <2>4. CASE config.is # "401"
    <3>1. config.is = "config" /\ configRules' = config.rules /\ liveRules' = None /\ effect' = TRUE
      BY <1>14, <2>4 DEF Feed!ConfigRead
    <3>2. ViewTyped'
      BY <2>1, <3>1 DEF FeedInv, ViewTyped, Feed!Idle
    <3>3. Follows'
      BY <2>1, <3>1 DEF FeedInv, Follows, Present, Feed!OpenAlerts
    <3> QED BY <2>1, <2>2, <3>2, <3>3 DEF FeedInv, SourceTyped, ClientTyped, AckStands
  <2> QED BY <2>3, <2>4
<1>15. CASE Feed!ConfigAnswered \/ \E here \in BOOLEAN : Feed!SignIn(here)
  <2>1. Quiet /\ UNCHANGED <<side, chan>>
    BY <1>15 DEF Feed!ConfigAnswered, Feed!SignIn, Feed!server, Feed!ends, Feed!client, Feed!view
  <2>2. EndsTyped'
    BY <2>1 DEF FeedInv, EndsTyped
  <2>3. ViewTyped'
    BY <1>15, <2>1 DEF Feed!ConfigAnswered, Feed!SignIn, Feed!Idle, FeedInv, ViewTyped, SourceTyped
  <2> QED BY <1>1, <2>1, <2>2, <2>3
<1>16. CASE \/ \E answer \in {"in", "out"} : Feed!SessionRead(answer)
            \/ Feed!SessionAnswered \/ Feed!SignOut \/ UNCHANGED Feed!vars
  <2>1. Quiet /\ UNCHANGED <<side, chan, config>>
    BY <1>16 DEF Feed!SessionRead, Feed!SessionAnswered, Feed!SignOut, Feed!vars, Feed!server, Feed!ends, Feed!client, Feed!view, Feed!asked
  <2>2. EndsTyped'
    BY <2>1 DEF FeedInv, EndsTyped
  <2> QED BY <1>2, <2>1, <2>2
<1>17. CASE Feed!AckRead
  BY <1>17, AckReads
<1> QED
  BY <1>3, <1>4, <1>5, <1>6, <1>7, <1>8, <1>9, <1>11, <1>12, <1>13, <1>14, <1>15, <1>16, <1>17 DEF Feed!Next

(* Once everything sent in a socket is read, the dashboard shows the alerts  *)
(* and the rules the server has, whatever it missed before and whichever of  *)
(* its answers came late (live-routes.ts:80-104, app.tsx:238-256).           *)
THEOREM FeedCorrect == ASSUME Feed!LiveFeedAssumption PROVE Feed!Spec => []Feed!InStep
<1>1. Feed!Init => FeedInv
  BY InitFollows
<1>2. FeedInv /\ [Feed!Next]_(Feed!vars) => FeedInv'
  BY FeedStep
<1>3. FeedInv => Feed!InStep
  <2> SUFFICES ASSUME FeedInv, sock = "open", side[cur] = "open", chan[cur] = <<>>, ~effect
               PROVE  shown = Feed!OpenAlerts /\ ShownRules = rules
    BY DEF Feed!InStep, ShownRules
  <2>1. cur # None
    BY DEF FeedInv, ClientTyped
  <2>2. PICK v \in Sights : v.alerts = shown /\ v.rules = ShownRules /\ Leads(<<>>, v, Present)
    BY <2>1 DEF FeedInv, Follows
  <2> QED
    BY <2>2, LeadsNowhere DEF Present, Sight
<1> QED
  BY <1>1, <1>2, <1>3, PTL DEF Feed!Spec

(***************************************************************************)
(* Signing in.  While nobody sets the clock the limiter counts every guess *)
(* that is still recent, and the browser has the cookie of a session that  *)
(* lives.                                                                  *)
(***************************************************************************)
ClocksInv == time \in Nat /\ offset \in Int /\ (~moved => offset = 0)

LEMMA ClocksStep ==
  ASSUME SigningIn!SignInAssumption, ClocksInv, [SigningIn!Next]_(SigningIn!vars)
  PROVE  ClocksInv' /\ (moved => moved') /\ time <= time' /\ (~moved => SigningIn!Now = time)
<1>1. CASE SigningIn!ClockSet
  BY <1>1 DEF SigningIn!SignInAssumption, ClocksInv, SigningIn!ClockSet, SigningIn!Now
<1>2. CASE SigningIn!Tick
  BY <1>2 DEF SigningIn!SignInAssumption, ClocksInv, SigningIn!Tick, SigningIn!Now, SigningIn!history
<1>3. CASE UNCHANGED <<time, offset, moved>>
  BY <1>3 DEF ClocksInv, SigningIn!Now
<1>4. ASSUME NEW a \in Addresses, SigningIn!StartsLogin(a) \/ SigningIn!LoginFails(a) \/ SigningIn!LoginSucceeds(a)
      PROVE  UNCHANGED <<time, offset, moved>>
  BY <1>4 DEF SigningIn!StartsLogin, SigningIn!LoginFails, SigningIn!LoginSucceeds, SigningIn!history
<1>5. ASSUME SigningIn!Request \/ SigningIn!Logout \/ SigningIn!Restart PROVE UNCHANGED <<time, offset, moved>>
  BY <1>5 DEF SigningIn!Request, SigningIn!Logout, SigningIn!Restart, SigningIn!history
<1> QED
  BY <1>1, <1>2, <1>3, <1>4, <1>5 DEF SigningIn!Next, SigningIn!vars, SigningIn!history

(***************************************************************************)
(* The cookie.  What the server believes of the cookie's age is what the   *)
(* browser has, unless an answer was lost.                                 *)
(***************************************************************************)
Agreed ==
  LET issued == sessions[cookie.id].cookie
  IN  /\ issued \in Int /\ seen \in Int
      /\ cookie.until = issued + SESSION_TTL /\ seen <= issued + COOKIE_REFRESH
CookieInv ==
  /\ logins \in Nat /\ DOMAIN sessions = 1 .. MaxLogins
  /\ cookie \in [id : Nat \cup {None}, until : Int]
  /\ ~moved /\ ~lost /\ cookie.id \in SigningIn!Live => Agreed

LEMMA CookieStep ==
  ASSUME SigningIn!SignInAssumption, ClocksInv, CookieInv, [SigningIn!Next]_(SigningIn!vars)
  PROVE  CookieInv'
<1>1. ASSUME NEW a \in Addresses, SigningIn!StartsLogin(a) \/ SigningIn!LoginFails(a) PROVE CookieInv'
  BY <1>1 DEF SigningIn!StartsLogin, SigningIn!LoginFails, CookieInv, Agreed, SigningIn!Live, SigningIn!bounds, SigningIn!history
<1>2. ASSUME NEW a \in Addresses, SigningIn!LoginSucceeds(a) PROVE CookieInv'
  <2>1. /\ logins' \in Nat /\ DOMAIN sessions' = 1 .. MaxLogins /\ cookie'.id = logins + 1
        /\ cookie' \in [id : Nat \cup {None}, until : Int]
    BY <1>2 DEF SigningIn!LoginSucceeds, CookieInv, SigningIn!CookieUntil, ClocksInv, SigningIn!SignInAssumption
  <2>2. ASSUME ~moved', cookie'.id \in SigningIn!Live' PROVE Agreed'
    <3>1. sessions'[logins + 1].cookie = time /\ cookie'.until = time + SESSION_TTL /\ seen' = time
      BY <1>2, <2>1, <2>2 DEF SigningIn!LoginSucceeds, CookieInv, ClocksInv, SigningIn!Now, SigningIn!CookieUntil, SigningIn!Live
    <3> QED
      BY <2>1, <3>1 DEF Agreed, ClocksInv, SigningIn!SignInAssumption
  <2> QED
    BY <2>1, <2>2 DEF CookieInv
<1>3. CASE SigningIn!Request
  <2> DEFINE id == cookie.id
  <2>1. logins' = logins /\ DOMAIN sessions' = DOMAIN sessions /\ moved' = moved /\ id \in SigningIn!Live
        /\ id \in DOMAIN sessions
    BY <1>3 DEF SigningIn!Request, SigningIn!bounds, SigningIn!Live
  <2>2. CASE SigningIn!Expired(id)
    <3>1. sessions'[id] = None /\ cookie' = cookie
      BY <1>3, <2>1, <2>2 DEF SigningIn!Request
    <3> QED
      BY <2>1, <3>1 DEF CookieInv, SigningIn!Live
  <2>3. CASE ~SigningIn!Expired(id) /\ SigningIn!CookieDue(id)
    <3>1. sessions'[id].cookie = SigningIn!Now /\ seen' = time /\ cookie'.id = id
          /\ (lost' \/ (cookie'.until = SigningIn!CookieUntil))
      <4>1. PICK k : k = [used |-> SigningIn!Now, cookie |-> SigningIn!Now]
        OBVIOUS
      <4>2. sessions' = [sessions EXCEPT ![id] = k] /\ seen' = time
        BY <1>3, <2>3, <4>1 DEF SigningIn!Request
      <4>3. sessions'[id].cookie = SigningIn!Now
        BY <2>1, <4>1, <4>2
      <4>4. (lost' = TRUE /\ cookie' = cookie) \/ cookie' = [cookie EXCEPT !.until = SigningIn!CookieUntil]
        BY <1>3, <2>3 DEF SigningIn!Request
      <4> QED
        BY <4>2, <4>3, <4>4 DEF CookieInv
    <3>2. cookie' \in [id : Nat \cup {None}, until : Int]
      <4>1. cookie' \in {cookie, [cookie EXCEPT !.until = SigningIn!CookieUntil]} /\ SigningIn!CookieUntil \in Int
        BY <1>3, <2>3 DEF SigningIn!Request, SigningIn!CookieUntil, ClocksInv, SigningIn!SignInAssumption
      <4> QED
        BY <4>1 DEF CookieInv
    <3> QED
      BY <2>1, <3>1, <3>2 DEF CookieInv, Agreed, ClocksInv, SigningIn!Now, SigningIn!CookieUntil, SigningIn!SignInAssumption
  <2>4. CASE ~SigningIn!Expired(id) /\ ~SigningIn!CookieDue(id)
    <3>1. sessions'[id].cookie = sessions[id].cookie /\ seen' = time /\ cookie' = cookie
          /\ lost' = lost
      BY <1>3, <2>1, <2>4 DEF SigningIn!Request
    <3>2. ASSUME Agreed, ~moved PROVE Agreed'
      <4>1. time - sessions[id].cookie < COOKIE_REFRESH
        BY <2>4, <3>2 DEF Agreed, ClocksInv, SigningIn!Now, SigningIn!CookieDue, SigningIn!SignInAssumption
      <4> QED
        BY <3>1, <3>2, <4>1 DEF Agreed, ClocksInv, SigningIn!SignInAssumption
    <3> QED
      BY <2>1, <3>1, <3>2 DEF CookieInv
  <2> QED
    BY <2>2, <2>3, <2>4
<1>4. CASE SigningIn!Logout
  BY <1>4 DEF SigningIn!Logout, CookieInv, SigningIn!Live, SigningIn!NoCookie, SigningIn!SignInAssumption, SigningIn!bounds
<1>5. CASE SigningIn!Restart
  BY <1>5 DEF SigningIn!Restart, CookieInv, SigningIn!Live
<1>6. CASE SigningIn!Tick
  BY <1>6 DEF SigningIn!Tick, CookieInv, Agreed, SigningIn!Live, SigningIn!history, SigningIn!bounds
<1>7. CASE SigningIn!ClockSet
  BY <1>7 DEF SigningIn!ClockSet, CookieInv
<1>8. CASE UNCHANGED SigningIn!vars
  BY <1>8 DEF SigningIn!vars, CookieInv, Agreed, SigningIn!Live, SigningIn!history, SigningIn!bounds
<1> QED
  BY <1>1, <1>2, <1>3, <1>4, <1>5, <1>6, <1>7, <1>8 DEF SigningIn!Next

LEMMA InitSignIn ==
  ASSUME SigningIn!SignInAssumption, SigningIn!Init
  PROVE  ClocksInv /\ CookieInv
  BY DEF SigningIn!SignInAssumption, SigningIn!Init, ClocksInv, CookieInv, SigningIn!Live, SigningIn!NoCookie

(* A browser that was in touch lately has the cookie of its session          *)
(* (auth.ts:145-150, 180-185): a session slides with every request, the      *)
(* cookie only now and then, but never more than COOKIE_REFRESH behind.      *)
THEOREM CookieCorrect == ASSUME SigningIn!SignInAssumption PROVE SigningIn!Spec => []SigningIn!CookieLasts
<1>1. SigningIn!Init => ClocksInv /\ CookieInv
  BY InitSignIn
<1>2. ClocksInv /\ CookieInv /\ [SigningIn!Next]_(SigningIn!vars) => (ClocksInv /\ CookieInv)'
  BY ClocksStep, CookieStep
<1>3. ClocksInv /\ CookieInv => SigningIn!CookieLasts
  <2> SUFFICES ASSUME ClocksInv, CookieInv, ~moved, ~lost, cookie.id \in SigningIn!Live,
                      time <= seen + SESSION_TTL - COOKIE_REFRESH
               PROVE  SigningIn!Sent
    BY DEF SigningIn!CookieLasts
  <2>1. Agreed /\ cookie.id \in 1 .. MaxLogins
    BY DEF CookieInv, SigningIn!Live
  <2>2. cookie # SigningIn!NoCookie
    BY <2>1 DEF SigningIn!NoCookie, SigningIn!SignInAssumption
  <2> QED
    BY <2>1, <2>2 DEF Agreed, SigningIn!Sent, ClocksInv, SigningIn!SignInAssumption
<1> QED
  BY <1>1, <1>2, <1>3, PTL DEF SigningIn!Spec

-----------------------------------------------------------------------------
(***************************************************************************)
(* The limit.  The failures a limiter keeps are the latest guesses, and    *)
(* what it dropped is not recent any more.                                 *)
(***************************************************************************)
(* Of finitely many sets one holds no other. *)
LEMMA SmallestSet ==
  ASSUME NEW S, NEW F, F \subseteq FiniteSubsetsOf(S), F # {}
  PROVE  \E U \in F : \A V \in F : ~(V \subseteq U /\ V # U)
<1>1. PICK U \in F : \A V \in F : ~(<<V, U>> \in StrictSubsetOrdering(S))
  BY FS_StrictSubsetOrderingWellFounded, WFMin
<1>2. \A V \in F : V \in SUBSET S
  BY DEF FiniteSubsetsOf
<1>3. ASSUME NEW V \in F, V \subseteq U, V # U PROVE FALSE
  <2>1. <<V, U>> \in StrictSubsetOrdering(S)
    BY <1>2, <1>3 DEF StrictSubsetOrdering
  <2> QED
    BY <1>1, <2>1
<1> QED
  BY <1>3

LEMMA Greatest ==
  ASSUME NEW S \in SUBSET Int, IsFiniteSet(S), S # {} PROVE \E m \in S : \A k \in S : k <= m
<1> DEFINE Above(a) == {b \in S : a < b}
           F == {Above(a) : a \in S}
<1>1. \A a \in S : Above(a) \in FiniteSubsetsOf(S)
  <2> TAKE a \in S
  <2>1. Above(a) \in SUBSET S
    OBVIOUS
  <2> QED
    BY <2>1, FS_Subset DEF FiniteSubsetsOf
<1>2. F \subseteq FiniteSubsetsOf(S) /\ F # {}
  BY <1>1
<1> HIDE DEF F
<1>3. PICK U \in F : \A V \in F : ~(V \subseteq U /\ V # U)
  BY <1>2, SmallestSet
<1>4. PICK m \in S : U = Above(m)
  BY <1>3 DEF F
<1>5. ASSUME NEW k \in S, m < k PROVE FALSE
  <2>1. Above(k) \in F
    BY DEF F
  <2>2. k \in Above(m) /\ k \notin Above(k)
    BY <1>5
  <2>3. ASSUME NEW b \in Above(k) PROVE b \in Above(m)
    <3>1. b \in Int /\ k \in Int /\ m \in Int
      OBVIOUS
    <3> QED
      BY <1>5, <3>1
  <2> QED
    BY <1>3, <1>4, <2>1, <2>2, <2>3
<1> QED
  BY <1>5

(* f numbers the latest of the guesses g; the others are not recent at t.    *)
Latest(f, g, t, lo, hi) ==
  /\ DOMAIN f = lo .. hi /\ lo <= hi + 1 /\ hi + 1 - lo <= MAX /\ hi + 1 - lo <= Len(g)
  /\ \A n \in lo .. hi : f[n] = g[Len(g) - (hi - n)]
  /\ \A i \in 1 .. Len(g) - (hi + 1 - lo) : t - g[i] >= WINDOW
InTurn(g, t) ==
  /\ g \in Seq(Nat)
  /\ \A i \in 1 .. Len(g) : g[i] <= t
  /\ \A i, j \in 1 .. Len(g) : i <= j => g[i] <= g[j]
Spaced(g) == \A i \in 1 .. Len(g) : i + MAX <= Len(g) => g[i + MAX] - g[i] >= WINDOW
Counts(f, g, t) == /\ InTurn(g, t) /\ Spaced(g)
                   /\ \E lo \in Nat \ {0}, hi \in Nat : Latest(f, g, t, lo, hi)

StillRecent(f, t) == {n \in DOMAIN f : t - f[n] < WINDOW}

LEMMA CountsNone ==
  ASSUME SigningIn!SignInAssumption, NEW t \in Nat
  PROVE  Counts(<<>>, <<>>, t)
<1>1. Latest(<<>>, <<>>, t, 1, 0)
  BY DEF Latest, SigningIn!SignInAssumption
<1> QED
  BY <1>1 DEF Counts, InTurn, Spaced

LEMMA CountsLater ==
  ASSUME SigningIn!SignInAssumption, NEW f, NEW g, NEW t \in Nat, NEW u \in Nat, t <= u, Counts(f, g, t)
  PROVE  Counts(f, g, u)
<1>1. g \in Seq(Nat) /\ InTurn(g, t) /\ Spaced(g)
  BY DEF Counts, InTurn
<1>2. \A i \in 1 .. Len(g) : g[i] \in Nat
  BY <1>1
<1>3. PICK len \in Nat : len = Len(g)
  BY <1>1
<1>4. PICK lo \in Nat \ {0}, hi \in Nat : Latest(f, g, t, lo, hi)
  BY DEF Counts
<1>5. Latest(f, g, u, lo, hi)
  <2>1. ASSUME NEW i \in 1 .. Len(g) - (hi + 1 - lo) PROVE u - g[i] >= WINDOW
    <3>1. i \in 1 .. Len(g) /\ t - g[i] >= WINDOW
      BY <1>3, <1>4 DEF Latest
    <3> QED
      BY <1>2, <3>1 DEF SigningIn!SignInAssumption
  <2> QED
    BY <1>4, <2>1 DEF Latest
<1>6. InTurn(g, u)
  BY <1>1, <1>2, <1>3 DEF InTurn
<1> QED
  BY <1>1, <1>5, <1>6 DEF Counts

(* As time goes on the oldest of them age first. *)
LEMMA CountsFresh ==
  ASSUME SigningIn!SignInAssumption, NEW f, NEW g, NEW t \in Nat, Counts(f, g, t)
  PROVE  Counts([n \in StillRecent(f, t) |-> f[n]], g, t)
<1>1. g \in Seq(Nat) /\ InTurn(g, t) /\ Spaced(g)
  BY DEF Counts, InTurn
<1>2. \A i \in 1 .. Len(g) : g[i] \in Nat
  BY <1>1
<1>3. PICK len \in Nat : len = Len(g)
  BY <1>1
<1>4. PICK lo \in Nat \ {0}, hi \in Nat : Latest(f, g, t, lo, hi)
  BY DEF Counts
<1> DEFINE R == StillRecent(f, t)
           T == (lo - 1 .. hi) \ R
<1>5. R \subseteq lo .. hi
  BY <1>4 DEF StillRecent, Latest
<1>6. T \in SUBSET Nat /\ lo - 1 \in T
  BY <1>4, <1>5 DEF Latest
<1>7. IsFiniteSet(T)
  <2>1. IsFiniteSet(lo - 1 .. hi)
    BY FS_Interval
  <2>2. T \subseteq lo - 1 .. hi
    OBVIOUS
  <2> HIDE DEF T
  <2> QED
    BY <2>1, <2>2, FS_Subset
<1>8. PICK m \in T : \A k \in T : k <= m
  <2> HIDE DEF T
  <2> QED
    BY <1>6, <1>7, Greatest
<1>9. m \in Nat /\ lo - 1 <= m /\ m <= hi /\ m \notin R
  BY <1>6, <1>8
<1>10. ASSUME NEW n \in lo .. hi, n <= m PROVE t - f[n] >= WINDOW
  <2>1. m \in lo .. hi /\ m \in DOMAIN f
    BY <1>4, <1>9, <1>10 DEF Latest
  <2>2. ~(t - f[m] < WINDOW)
    BY <1>9, <2>1 DEF StillRecent
  <2>3. /\ f[n] = g[len - (hi - n)] /\ f[m] = g[len - (hi - m)]
        /\ len - (hi - n) \in 1 .. len /\ len - (hi - m) \in 1 .. len
        /\ len - (hi - n) <= len - (hi - m)
    BY <1>3, <1>4, <1>9, <1>10, <2>1 DEF Latest
  <2>4. f[n] <= f[m] /\ f[n] \in Nat /\ f[m] \in Nat
    BY <1>1, <1>2, <1>3, <2>3 DEF InTurn
  <2> QED
    BY <2>2, <2>4 DEF SigningIn!SignInAssumption
<1>11. R = m + 1 .. hi
  <2>1. ASSUME NEW n \in R PROVE n \in m + 1 .. hi
    <3>1. n \in lo .. hi /\ t - f[n] < WINDOW
      BY <1>5 DEF StillRecent
    <3>2. f[n] \in Nat
      <4>1. f[n] = g[len - (hi - n)] /\ len - (hi - n) \in 1 .. len
        BY <1>3, <1>4, <3>1 DEF Latest
      <4> QED
        BY <1>2, <1>3, <4>1
    <3> QED
      BY <1>9, <1>10, <3>1, <3>2 DEF SigningIn!SignInAssumption
  <2>2. ASSUME NEW n \in m + 1 .. hi PROVE n \in R
    <3>1. n \in lo - 1 .. hi /\ m < n
      BY <1>9, <2>2
    <3>2. n \notin T
      BY <1>6, <1>8, <1>9, <3>1
    <3> QED
      BY <3>1, <3>2
  <2> QED
    BY <2>1, <2>2
<1> DEFINE h == [n \in R |-> f[n]]
<1>12. Latest(h, g, t, m + 1, hi)
  <2>1. DOMAIN h = m + 1 .. hi /\ m + 1 <= hi + 1
    BY <1>9, <1>11
  <2>2. hi + 1 - (m + 1) <= MAX /\ hi + 1 - (m + 1) <= Len(g)
    BY <1>3, <1>4, <1>9 DEF Latest, SigningIn!SignInAssumption
  <2>3. \A n \in m + 1 .. hi : h[n] = g[Len(g) - (hi - n)]
    BY <1>4, <1>9, <1>11 DEF Latest
  <2>4. ASSUME NEW i \in 1 .. Len(g) - (hi + 1 - (m + 1)) PROVE t - g[i] >= WINDOW
    <3>1. CASE i <= len - (hi + 1 - lo)
      BY <1>3, <1>4, <3>1 DEF Latest
    <3>2. CASE i > len - (hi + 1 - lo)
      <4> DEFINE n == hi - (len - i)
      <4>1. n \in lo .. hi /\ n <= m /\ i = len - (hi - n)
        BY <1>3, <1>4, <1>9, <2>4, <3>2 DEF Latest
      <4>2. f[n] = g[i]
        BY <1>3, <1>4, <4>1 DEF Latest
      <4> QED
        BY <1>10, <4>1, <4>2
    <3> QED
      BY <1>3, <3>1, <3>2
  <2> HIDE DEF h
  <2> QED
    BY <2>1, <2>2, <2>3, <2>4 DEF Latest
<1>13. m + 1 \in Nat \ {0} /\ hi \in Nat
  BY <1>9
<1> HIDE DEF h
<1>14. Counts(h, g, t)
  BY <1>1, <1>12, <1>13 DEF Counts
<1> QED
  BY <1>14 DEF h

Numbered(f) == IF DOMAIN f = {} THEN 0 ELSE CHOOSE n \in DOMAIN f : \A m \in DOMAIN f : m <= n
With(f, t) == [n \in DOMAIN f \cup {Numbered(f) + 1} |-> IF n \in DOMAIN f THEN f[n] ELSE t]

(* A guess below the limit is a WINDOW from the one MAX before it. *)
LEMMA CountsNew ==
  ASSUME SigningIn!SignInAssumption, NEW f, NEW g, NEW t \in Nat, Counts(f, g, t), Cardinality(DOMAIN f) < MAX
  PROVE  Counts(With(f, t), Append(g, t), t)
<1>1. g \in Seq(Nat) /\ InTurn(g, t) /\ Spaced(g)
  BY DEF Counts, InTurn
<1>2. PICK len \in Nat : len = Len(g)
  BY <1>1
<1>3. \A i \in 1 .. len : g[i] \in Nat /\ g[i] <= t
  BY <1>1, <1>2 DEF InTurn
<1>4. PICK lo \in Nat \ {0}, hi \in Nat : Latest(f, g, t, lo, hi)
  BY DEF Counts
<1>5. hi + 1 - lo < MAX
  <2>1. CASE lo <= hi
    BY <1>4, <2>1, FS_Interval DEF Latest
  <2>2. CASE hi < lo
    BY <1>4, <2>2 DEF Latest, SigningIn!SignInAssumption
  <2> QED
    BY <2>1, <2>2
<1> DEFINE A == Append(g, t)
<1>6. /\ A \in Seq(Nat) /\ Len(A) = len + 1 /\ A[len + 1] = t
      /\ \A i \in 1 .. len : A[i] = g[i]
  BY <1>1, <1>2
<1> HIDE DEF A
<1>7. InTurn(A, t)
  <2>1. ASSUME NEW i \in 1 .. Len(A) PROVE A[i] <= t
    BY <1>3, <1>6
  <2>2. ASSUME NEW i \in 1 .. Len(A), NEW j \in 1 .. Len(A), i <= j PROVE A[i] <= A[j]
    <3>1. CASE j = len + 1
      BY <1>6, <2>1, <3>1
    <3>2. CASE j # len + 1
      <4>1. i \in 1 .. len /\ j \in 1 .. len
        BY <1>6, <2>2, <3>2
      <4>2. A[i] = g[i] /\ A[j] = g[j]
        BY <1>6, <4>1
      <4>3. g[i] <= g[j]
        BY <1>1, <1>2, <2>2, <4>1 DEF InTurn
      <4> QED
        BY <4>2, <4>3
    <3> QED
      BY <3>1, <3>2
  <2> QED
    BY <1>6, <2>1, <2>2 DEF InTurn
<1>8. Spaced(A)
  <2> SUFFICES ASSUME NEW i \in 1 .. Len(A), i + MAX <= Len(A) PROVE A[i + MAX] - A[i] >= WINDOW
    BY DEF Spaced
  <2>1. MAX \in Nat \ {0}
    BY DEF SigningIn!SignInAssumption
  <2>2. CASE i + MAX <= len
    <3>1. i \in 1 .. len /\ i + MAX \in 1 .. len
      BY <1>6, <2>1, <2>2
    <3>2. A[i] = g[i] /\ A[i + MAX] = g[i + MAX]
      BY <1>6, <3>1
    <3>3. g[i + MAX] - g[i] >= WINDOW
      BY <1>1, <1>2, <2>2, <3>1 DEF Spaced
    <3> QED
      BY <3>2, <3>3
  <2>3. CASE i + MAX = len + 1
    <3>1. i \in 1 .. len - (hi + 1 - lo) /\ i \in 1 .. len
      BY <1>4, <1>5, <1>6, <2>1, <2>3
    <3>2. t - g[i] >= WINDOW
      BY <1>2, <1>4, <3>1 DEF Latest
    <3> QED
      BY <1>6, <2>3, <3>1, <3>2
  <2> QED
    BY <1>6, <2>1, <2>2, <2>3
<1>9. \E l \in Nat \ {0}, h \in Nat : Latest(With(f, t), A, t, l, h)
  <2>1. CASE hi < lo
    <3>1. DOMAIN f = {} /\ lo = hi + 1
      BY <1>4, <2>1 DEF Latest
    <3>2. DOMAIN With(f, t) = 1 .. 1 /\ With(f, t)[1] = t
      BY <3>1 DEF With, Numbered
    <3>3. ASSUME NEW i \in 1 .. len PROVE t - A[i] >= WINDOW
      BY <1>2, <1>4, <1>6, <3>1 DEF Latest
    <3>4. Latest(With(f, t), A, t, 1, 1)
      BY <1>6, <3>2, <3>3 DEF Latest, SigningIn!SignInAssumption
    <3> QED
      BY <3>4
  <2>2. CASE lo <= hi
    <3>1. DOMAIN f = lo .. hi /\ hi \in DOMAIN f
      BY <1>4, <2>2 DEF Latest
    <3>2. Numbered(f) = hi
      BY <3>1 DEF Numbered
    <3>3. /\ DOMAIN With(f, t) = lo .. hi + 1 /\ With(f, t)[hi + 1] = t
          /\ \A n \in lo .. hi : With(f, t)[n] = f[n]
      BY <3>1, <3>2 DEF With
    <3>4. ASSUME NEW n \in lo .. hi + 1 PROVE With(f, t)[n] = A[len + 1 - (hi + 1 - n)]
      <4>1. CASE n = hi + 1
        BY <1>6, <3>3, <4>1
      <4>2. CASE n # hi + 1
        <5>0. hi + 1 - lo <= len
          BY <1>2, <1>4 DEF Latest
        <5>1. n \in lo .. hi /\ len - (hi - n) \in 1 .. len /\ len + 1 - (hi + 1 - n) = len - (hi - n)
          BY <4>2, <5>0
        <5> QED
          BY <1>2, <1>4, <1>6, <3>3, <5>1 DEF Latest
      <4> QED
        BY <4>1, <4>2
    <3>5. ASSUME NEW i \in 1 .. len + 1 - (hi + 2 - lo) PROVE t - A[i] >= WINDOW
      <4>1. i \in 1 .. len - (hi + 1 - lo) /\ i \in 1 .. len
        BY <1>4, <2>2
      <4> QED
        BY <1>2, <1>4, <1>6, <4>1 DEF Latest
    <3>6. lo <= hi + 1 + 1 /\ hi + 1 + 1 - lo <= MAX /\ hi + 1 + 1 - lo <= Len(A)
      BY <1>2, <1>4, <1>5, <1>6 DEF Latest, SigningIn!SignInAssumption
    <3>7. Latest(With(f, t), A, t, lo, hi + 1)
      BY <1>6, <3>3, <3>4, <3>5, <3>6 DEF Latest
    <3> QED
      BY <3>7
  <2> QED
    BY <2>1, <2>2
<1> QED
  BY <1>7, <1>8, <1>9 DEF Counts, A

(* The history keeps the last MAX + 1 guesses. *)
LEMMA CountsTail ==
  ASSUME SigningIn!SignInAssumption, NEW f, NEW g, NEW t \in Nat, Counts(f, g, t), Len(g) > MAX + 1
  PROVE  Counts(f, Tail(g), t)
<1>1. g \in Seq(Nat) /\ InTurn(g, t) /\ Spaced(g)
  BY DEF Counts, InTurn
<1>2. PICK len \in Nat : len = Len(g)
  BY <1>1
<1>3. PICK lo \in Nat \ {0}, hi \in Nat : Latest(f, g, t, lo, hi)
  BY DEF Counts
<1>4. MAX \in Nat \ {0}
  BY DEF SigningIn!SignInAssumption
<1> DEFINE T == Tail(g)
<1>5. T \in Seq(Nat) /\ Len(T) = len - 1 /\ \A i \in 1 .. len - 1 : T[i] = g[i + 1]
  BY <1>1, <1>2, <1>4
<1> HIDE DEF T
<1>6. InTurn(T, t)
  <2>0. Len(T) = len - 1 /\ \A i \in 1 .. len - 1 : T[i] = g[i + 1]
    BY <1>5
  <2>1. ASSUME NEW i \in 1 .. Len(T) PROVE i + 1 \in 1 .. len /\ T[i] = g[i + 1]
    BY <2>0
  <2>2. ASSUME NEW i \in 1 .. Len(T) PROVE T[i] <= t
    BY <1>1, <1>2, <2>1 DEF InTurn
  <2>3. ASSUME NEW i \in 1 .. Len(T), NEW j \in 1 .. Len(T), i <= j PROVE T[i] <= T[j]
    <3>1. i + 1 \in 1 .. len /\ j + 1 \in 1 .. len /\ i + 1 <= j + 1
      BY <2>1, <2>3
    <3>2. g[i + 1] <= g[j + 1]
      BY <1>1, <1>2, <3>1 DEF InTurn
    <3> QED
      BY <2>1, <3>2
  <2> QED
    BY <1>5, <2>2, <2>3 DEF InTurn
<1>7. Spaced(T)
  BY <1>1, <1>2, <1>4, <1>5 DEF Spaced
<1>8. Latest(f, T, t, lo, hi)
  <2>1. hi + 1 - lo <= Len(T)
    BY <1>2, <1>3, <1>4, <1>5 DEF Latest
  <2>2. ASSUME NEW n \in lo .. hi PROVE f[n] = T[Len(T) - (hi - n)]
    <3>0. n \in Int /\ lo <= n /\ n <= hi /\ hi + 1 - lo <= len - 1
      BY <1>5, <2>1
    <3>1. len - 1 - (hi - n) \in 1 .. len - 1 /\ len - 1 - (hi - n) + 1 = len - (hi - n)
      BY <3>0
    <3> QED
      BY <1>2, <1>3, <1>5, <3>1 DEF Latest
  <2>3. ASSUME NEW i \in 1 .. Len(T) - (hi + 1 - lo) PROVE t - T[i] >= WINDOW
    <3>1. i + 1 \in 1 .. len - (hi + 1 - lo) /\ i \in 1 .. len - 1
      BY <1>3, <1>5, <2>1 DEF Latest
    <3> QED
      BY <1>2, <1>3, <1>5, <3>1 DEF Latest
  <2> QED
    BY <1>3, <2>1, <2>2, <2>3 DEF Latest
<1> QED
  BY <1>6, <1>7, <1>8 DEF Counts, T

GuessInv ==
  /\ DOMAIN failures = Addresses /\ DOMAIN guesses = Addresses
  /\ ~moved => \A a \in Addresses : Counts(failures[a], guesses[a], time)

LEMMA GuessStep ==
  ASSUME SigningIn!SignInAssumption, ClocksInv, GuessInv, [SigningIn!Next]_(SigningIn!vars)
  PROVE  GuessInv'
<1>1. ASSUME NEW a \in Addresses, SigningIn!StartsLogin(a) PROVE GuessInv'
  <2>1. /\ failures' = SigningIn!Counted(a) /\ guesses' = [guesses EXCEPT ![a] = SigningIn!Logged(a)]
        /\ moved' = moved /\ time' = time /\ ~SigningIn!Blocked(a)
    BY <1>1 DEF SigningIn!StartsLogin, SigningIn!Refused
  <2>2. DOMAIN failures' = Addresses /\ DOMAIN guesses' = Addresses
    BY <2>1 DEF GuessInv, SigningIn!Counted
  <2>3. ASSUME ~moved, NEW b \in Addresses PROVE Counts(failures'[b], guesses'[b], time)
    <3> DEFINE h == [n \in StillRecent(failures[b], time) |-> failures[b][n]]
    <3>1. time \in Nat /\ SigningIn!Now = time /\ Counts(failures[b], guesses[b], time)
      BY <2>3 DEF ClocksInv, GuessInv, SigningIn!Now
    <3>2. Counts(h, guesses[b], time)
      BY <3>1, CountsFresh
    <3>3. SigningIn!Recent(b) = StillRecent(failures[b], time) /\ DOMAIN h = SigningIn!Recent(b)
      BY <3>1 DEF SigningIn!Recent, StillRecent
    <3>4. CASE b # a
      <4>1. guesses'[b] = guesses[b]
        BY <2>1, <3>4
      <4>2. failures'[b] = IF SigningIn!Recent(b) = {} THEN <<>> ELSE failures[b]
        BY <2>1, <3>4 DEF SigningIn!Counted
      <4>3. CASE SigningIn!Recent(b) = {}
        <5>1. PICK lo \in Nat \ {0}, hi \in Nat : Latest(h, guesses[b], time, lo, hi)
          BY <3>2 DEF Counts
        <5> HIDE DEF h
        <5>2. lo .. hi = {} /\ lo = hi + 1
          <6>1. lo .. hi = {} /\ lo <= hi + 1
            BY <3>3, <4>3, <5>1 DEF Latest
          <6>2. lo <= hi => lo \in lo .. hi
            OBVIOUS
          <6> QED
            BY <6>1, <6>2
        <5>3. Latest(<<>>, guesses[b], time, 1, 0)
          BY <5>1, <5>2 DEF Latest
        <5>4. Counts(<<>>, guesses[b], time)
          BY <3>2, <5>3 DEF Counts
        <5> QED
          BY <4>1, <4>2, <4>3, <5>4
      <4> QED
        BY <3>1, <4>1, <4>2, <4>3
    <3>5. CASE b = a
      <4>1. Cardinality(DOMAIN h) < MAX
        <5>1. IsFiniteSet(DOMAIN h)
          <6>1. PICK lo \in Nat \ {0}, hi \in Nat : DOMAIN h = lo .. hi
            BY <3>2 DEF Counts, Latest
          <6> HIDE DEF h
          <6> QED
            BY <6>1, FS_Interval
        <5>2. Cardinality(DOMAIN h) \in Nat
          BY <5>1, FS_CardinalityType
        <5> QED
          <6>1. ~(Cardinality(SigningIn!Recent(b)) >= MAX)
            <7>1. SigningIn!Cardinality(SigningIn!Recent(b)) = Cardinality(SigningIn!Recent(b))
              BY Zenon DEF Cardinality, SigningIn!Cardinality
            <7> QED BY <2>1, <3>5, <7>1 DEF SigningIn!Blocked
          <6>2. MAX \in Nat
            BY DEF SigningIn!SignInAssumption
          <6> HIDE DEF h
          <6> QED
            BY <3>3, <5>2, <6>1, <6>2
      <4>2. failures'[b] = With(h, time)
        <5>1. failures'[b] = [n \in SigningIn!Recent(b) \cup {SigningIn!Newest(b) + 1} |->
                               IF n \in SigningIn!Recent(b) THEN failures[b][n] ELSE time]
          BY <2>1, <3>1, <3>5 DEF SigningIn!Counted
        <5>2. Numbered(h) = SigningIn!Newest(b)
          BY <3>3 DEF Numbered, SigningIn!Newest
        <5> QED
          BY <3>3, <5>1, <5>2 DEF With
      <4> HIDE DEF h
      <4>3. Counts(With(h, time), Append(guesses[b], time), time)
        BY <3>1, <3>2, <4>1, CountsNew
      <4>4. guesses'[b] = SigningIn!Logged(b)
        BY <2>1, <3>5 DEF GuessInv
      <4> DEFINE g == Append(guesses[b], time)
      <4>5. guesses'[b] = IF Len(g) > MAX + 1 THEN Tail(g) ELSE g
        BY <4>4 DEF SigningIn!Logged
      <4> HIDE DEF g
      <4>6. CASE Len(g) > MAX + 1
        <5>1. Counts(With(h, time), Tail(g), time)
          BY <3>1, <4>3, <4>6, CountsTail DEF g
        <5> QED
          BY <4>2, <4>5, <4>6, <5>1
      <4>7. CASE ~(Len(g) > MAX + 1)
        BY <4>2, <4>3, <4>5, <4>7 DEF g
      <4> QED
        BY <4>6, <4>7
    <3> QED
      BY <3>4, <3>5
  <2> QED
    BY <2>1, <2>2, <2>3 DEF GuessInv
<1>2. ASSUME NEW a \in Addresses, SigningIn!LoginSucceeds(a) PROVE GuessInv'
  <2>1. /\ failures' = [failures EXCEPT ![a] = <<>>] /\ guesses' = [guesses EXCEPT ![a] = <<>>]
        /\ moved' = moved /\ time' = time
    BY <1>2 DEF SigningIn!LoginSucceeds
  <2> QED
    BY <2>1, CountsNone DEF GuessInv, ClocksInv
<1>3. CASE SigningIn!Restart
  <2>1. /\ failures' = [a \in Addresses |-> <<>>] /\ guesses' = [a \in Addresses |-> <<>>]
        /\ moved' = moved /\ time' = time
    BY <1>3 DEF SigningIn!Restart
  <2> QED
    BY <2>1, CountsNone DEF GuessInv, ClocksInv
<1>4. CASE SigningIn!Tick
  <2>1. UNCHANGED <<failures, guesses, moved>> /\ time' = time + 1
    BY <1>4 DEF SigningIn!Tick, SigningIn!limiter, SigningIn!history
  <2> QED
    BY <2>1, CountsLater DEF GuessInv, ClocksInv
<1>5. CASE SigningIn!ClockSet
  BY <1>5 DEF SigningIn!ClockSet, GuessInv, SigningIn!limiter
<1>6. CASE UNCHANGED <<failures, guesses, moved, time>>
  BY <1>6 DEF GuessInv
<1>7. ASSUME NEW a \in Addresses, SigningIn!LoginFails(a) PROVE GuessInv'
  BY <1>6, <1>7 DEF SigningIn!LoginFails, SigningIn!history
<1>8. ASSUME SigningIn!Request \/ SigningIn!Logout \/ UNCHANGED SigningIn!vars PROVE GuessInv'
  BY <1>6, <1>8 DEF SigningIn!Request, SigningIn!Logout, SigningIn!vars, SigningIn!limiter, SigningIn!history
<1> QED
  BY <1>1, <1>2, <1>3, <1>4, <1>5, <1>7, <1>8 DEF SigningIn!Next

(* However many sign-ins an address sends at once, no more than MAX          *)
(* passwords are tried in a WINDOW without a right one (auth.ts:218-238,     *)
(* auth-routes.ts:107-125), while the clock is not set: a guess counts       *)
(* before its password is looked at, and counts as long as it is recent.     *)
THEOREM GuessesCorrect == ASSUME SigningIn!SignInAssumption PROVE SigningIn!Spec => []SigningIn!GuessesLimited
<1>1. SigningIn!Init => ClocksInv /\ GuessInv
  BY InitSignIn, CountsNone DEF SigningIn!Init, GuessInv, ClocksInv
<1>2. ClocksInv /\ GuessInv /\ [SigningIn!Next]_(SigningIn!vars) => (ClocksInv /\ GuessInv)'
  BY ClocksStep, GuessStep
<1>3. ClocksInv /\ GuessInv => SigningIn!GuessesLimited
  <2> SUFFICES ASSUME GuessInv, ~moved, NEW a \in Addresses, NEW i \in DOMAIN guesses[a],
                      i + MAX \in DOMAIN guesses[a]
               PROVE  guesses[a][i + MAX] - guesses[a][i] >= WINDOW
    BY DEF SigningIn!GuessesLimited
  <2>1. guesses[a] \in Seq(Nat) /\ Spaced(guesses[a])
    BY DEF GuessInv, Counts, InTurn
  <2>2. DOMAIN guesses[a] = 1 .. Len(guesses[a]) /\ Len(guesses[a]) \in Nat
    BY <2>1
  <2> QED
    BY <2>1, <2>2 DEF Spaced
<1> QED
  BY <1>1, <1>2, <1>3, PTL DEF SigningIn!Spec

(***************************************************************************)
(* A status is of the process it names only if that is the server, as no   *)
(* process of a boot starts at the time another did (Identified).  A       *)
(* server that has tried what the files hold by now serves it, or says     *)
(* that it could not (Tried); it tries within two polls (Polled).  The CA  *)
(* on disk is that of the leaf but while a change of it is in the journal  *)
(* (Journalled).                                                           *)
(***************************************************************************)
Outcomes == {"ok", "failing"}
Installed == [id : Nat, ca : Nat, bad : BOOLEAN]
Servers == [pid : Pids, start : Nat, up : BOOLEAN, cert : Nat, ca : Nat \cup {None},
            seen : Nat, pending : Nat \cup {None}, reload : Outcomes]
Statuses == [pid : Pids, start : Nat, boot : Nat, cert : Nat, reload : Outcomes]
MachineTyped ==
  /\ boot \in Nat /\ ticks \in Nat /\ process \in [Pids -> Nat \cup {None}]
  /\ serving \in Servers \cup {None} /\ file \in Statuses \cup {None} /\ unpublished \in BOOLEAN
FilesTyped ==
  /\ caCrt \in Nat /\ meta \in Nat /\ pem \in Installed /\ leaf \in Installed \cup {None}
  /\ written \in Nat /\ made \in Nat /\ quiet \in 0 .. 2
Identified ==
  /\ \A p \in Pids : process[p] # None => process[p] <= ticks
  /\ serving # None => process[serving.pid] = serving.start
  /\ file # None => /\ file.boot <= boot
                    /\ file.boot = boot => file.start <= ticks
Reported ==
  Telling!Active # None =>
    /\ serving # None
    /\ serving # None => /\ serving.up /\ serving.pid = file.pid
                         /\ ~unpublished => serving.cert = file.cert /\ serving.reload = file.reload
Tried ==
  serving # None /\ (serving # None => serving.seen = written) =>
    \/ serving.reload = "failing" /\ (caCrt # pem.ca \/ serving.cert # pem.id)
    \/ serving.cert = pem.id /\ (caCrt # pem.ca \/ serving.ca = pem.ca)
Polled ==
  serving # None =>
    /\ serving.seen <= written
    /\ serving.seen # written => quiet < 2 /\ (quiet = 1 => serving.pending = written)
Changing == {"ca.crt", "ca-meta.json", "leaf.crt", "leaf.pem"}
Journalled ==
  /\ installer \in Changing => leaf # None
  /\ leaf = None \/ kind = "renew" => caCrt = pem.ca /\ meta = caCrt
  /\ leaf # None /\ kind = "renew" => leaf.ca = caCrt
  /\ installer = "ca-meta.json" => caCrt = leaf.ca
  /\ installer \in {"leaf.crt", "leaf.pem"} => caCrt = leaf.ca /\ meta = leaf.ca
ToldInv == MachineTyped /\ FilesTyped /\ Identified /\ Reported /\ Tried /\ Polled /\ Journalled

LEMMA Apart ==
  ASSUME Telling!StatusAssumption
  PROVE  None \notin Nat /\ None \notin Servers /\ None \notin Statuses /\ None \notin Installed
BY DEF Telling!StatusAssumption, Servers, Statuses, Installed, Outcomes

(* A reload that was tried serves what is on disk, or says it could not.    *)
LEMMA TakenServes ==
  ASSUME Telling!StatusAssumption, FilesTyped, NEW s \in Servers, NEW t \in Telling!Taken(s)
  PROVE  /\ t \in Servers /\ t.pid = s.pid /\ t.start = s.start /\ t.up = s.up
         /\ t.seen = s.seen /\ t.pending = s.pending
         /\ \/ t.reload = "failing" /\ (caCrt # pem.ca \/ t.cert # pem.id)
            \/ t.cert = pem.id /\ (caCrt # pem.ca \/ t.ca = pem.ca)
<1> USE DEF Servers, Installed, Outcomes, FilesTyped, Telling!Taken
<1>1. CASE caCrt # pem.ca
  <2>1. CASE t = [s EXCEPT !.reload = "failing"]
    BY <1>1, <2>1
  <2>2. CASE s.cert = pem.id /\ t = [s EXCEPT !.ca = None, !.reload = "ok"]
    BY <1>1, <2>2
  <2> QED
    BY <1>1, <2>1, <2>2
<1>2. CASE caCrt = pem.ca /\ s.cert # pem.id /\ pem.bad
  BY <1>2
<1>3. CASE caCrt = pem.ca /\ ~(s.cert # pem.id /\ pem.bad)
  <2>1. t = [s EXCEPT !.cert = pem.id, !.ca = pem.ca, !.reload = "ok"]
    BY <1>3, Zenon
  <2> QED
    BY <1>3, <2>1
<1> QED
  BY <1>1, <1>2, <1>3

LEMMA ReportWritten ==
  ASSUME Telling!StatusAssumption, MachineTyped, NEW s \in Servers, Telling!Publishes(s)
  PROVE  /\ file' \in Statuses \cup {None} /\ unpublished' \in BOOLEAN
         /\ ((file' = file /\ unpublished') \/ (file' = Telling!Report(s) /\ ~unpublished'))
<1> USE DEF Servers, Statuses, Outcomes, MachineTyped, Telling!Publishes, Telling!Fault
<1>1. CASE file' = Telling!Report(s) /\ unpublished' = FALSE
  <2>1. Telling!Report(s) \in Statuses
    BY DEF Telling!Report
  <2> QED
    BY <1>1, <2>1
<1>2. CASE UNCHANGED file /\ unpublished' = TRUE
  <2>1. file' \in Statuses \cup {None} /\ file' = file
    BY <1>2
  <2>2. unpublished' /\ unpublished' \in BOOLEAN
    BY <1>2
  <2> HIDE DEF Servers, Statuses, Outcomes, MachineTyped, Telling!Publishes, Telling!Fault
  <2> QED
    BY <2>1, <2>2, Zenon
<1> QED
  BY <1>1, <1>2

(* A server that stays the process it is, and writes its status or fails to, *)
(* or neither changes what a status says nor writes it.                      *)
Stays == UNCHANGED <<boot, ticks, process, caCrt, meta, crt, pem, written, renewal, installer, kind, leaf, made>>
LEMMA StatusFollows ==
  ASSUME Telling!StatusAssumption, ToldInv, Stays, serving \in Servers, serving' \in Servers,
         serving'.pid = serving.pid, serving'.start = serving.start, serving'.up,
         file' \in Statuses \cup {None}, unpublished' \in BOOLEAN,
         \/ file' = file /\ unpublished'
         \/ file' = Telling!Report(serving') /\ ~unpublished'
         \/ file' = file /\ serving'.cert = serving.cert /\ serving'.reload = serving.reload /\ unpublished' = unpublished
  PROVE  MachineTyped' /\ Identified' /\ Reported' /\ Journalled'
<1>0. /\ boot' = boot /\ ticks' = ticks /\ process' = process
      /\ caCrt' = caCrt /\ meta' = meta /\ pem' = pem /\ installer' = installer /\ kind' = kind /\ leaf' = leaf
  BY DEF Stays
<1>1. MachineTyped'
  <2>1. boot \in Nat /\ ticks \in Nat /\ process \in [Pids -> Nat \cup {None}]
    BY DEF ToldInv, MachineTyped
  <2> QED
    BY <1>0, <2>1, Zenon DEF MachineTyped
<1>2. Identified'
  <2>1. /\ \A p \in Pids : process'[p] # None => process'[p] <= ticks'
        /\ serving' # None => process'[serving'.pid] = serving'.start
    BY <1>0, Apart DEF ToldInv, Identified
  <2>2. CASE file' = file
    BY <1>0, <2>1, <2>2 DEF ToldInv, Identified
  <2>3. CASE file' = Telling!Report(serving')
    <3>1. file'.boot = boot /\ file'.start = serving.start
      BY <1>0, <2>3 DEF Telling!Report
    <3>2. serving.start <= ticks
      BY Apart DEF ToldInv, Identified, Servers
    <3> QED
      BY <1>0, <2>1, <3>1, <3>2 DEF ToldInv, Identified, MachineTyped
  <2> QED
    BY <2>2, <2>3
<1>3. Reported'
  BY <1>0, Apart DEF ToldInv, Reported, Telling!Active, Telling!SameProcess, Telling!Report
<1>4. Journalled'
  BY <1>0 DEF ToldInv, Journalled
<1> QED
  BY <1>1, <1>2, <1>3, <1>4

LEMMA ListensTells == ASSUME Telling!StatusAssumption, ToldInv, Telling!Listens PROVE ToldInv'
<1>1. serving \in Servers /\ serving' = [serving EXCEPT !.up = TRUE] /\ UNCHANGED quiet
  BY DEF ToldInv, MachineTyped, Telling!Listens
<1>2. /\ serving' \in Servers /\ serving'.up /\ serving'.pid = serving.pid /\ serving'.start = serving.start
      /\ serving'.cert = serving.cert /\ serving'.ca = serving.ca /\ serving'.reload = serving.reload
      /\ serving'.seen = serving.seen /\ serving'.pending = serving.pending
  BY <1>1 DEF Servers
<1>3. Stays
  BY DEF Stays, Telling!Listens, Telling!machine, Telling!files, Telling!command
<1>4. MachineTyped /\ Telling!Publishes(serving)
  BY DEF ToldInv, Telling!Listens
<1>5. /\ file' \in Statuses \cup {None} /\ unpublished' \in BOOLEAN
      /\ ((file' = file /\ unpublished') \/ (file' = Telling!Report(serving) /\ ~unpublished'))
  BY <1>1, <1>4, ReportWritten
<1>6. Telling!Report(serving) = Telling!Report(serving')
  BY <1>2 DEF Telling!Report
<1>7. MachineTyped' /\ Identified' /\ Reported' /\ Journalled'
  BY <1>1, <1>2, <1>3, <1>5, <1>6, StatusFollows
<1>8. FilesTyped' /\ Tried' /\ Polled'
  BY <1>1, <1>2, <1>3, Apart DEF Stays, ToldInv, FilesTyped, Tried, Polled
<1> QED
  BY <1>7, <1>8 DEF ToldInv

LEMMA ReloadTells ==
  ASSUME Telling!StatusAssumption, ToldInv, Stays, serving \in Servers, NEW s \in Servers,
         s.pid = serving.pid, s.start = serving.start, s.up, s.seen = written,
         serving' \in Telling!Taken(s), Telling!Publishes(serving'), quiet' \in 0 .. 2
  PROVE  ToldInv'
<1>1. MachineTyped /\ FilesTyped
  BY DEF ToldInv
<1>2. /\ serving' \in Servers /\ serving'.pid = serving.pid /\ serving'.start = serving.start /\ serving'.up
      /\ serving'.seen = written
      /\ \/ serving'.reload = "failing" /\ (caCrt # pem.ca \/ serving'.cert # pem.id)
         \/ serving'.cert = pem.id /\ (caCrt # pem.ca \/ serving'.ca = pem.ca)
  BY <1>1, TakenServes
<1>3. /\ file' \in Statuses \cup {None} /\ unpublished' \in BOOLEAN
      /\ ((file' = file /\ unpublished') \/ (file' = Telling!Report(serving') /\ ~unpublished'))
  BY <1>1, <1>2, ReportWritten
<1>4. MachineTyped' /\ Identified' /\ Reported' /\ Journalled'
  BY <1>2, <1>3, StatusFollows
<1>5. FilesTyped' /\ Tried' /\ Polled'
  BY <1>1, <1>2 DEF Stays, FilesTyped, Tried, Polled
<1> QED
  BY <1>4, <1>5 DEF ToldInv

LEMMA PollTells == ASSUME Telling!StatusAssumption, ToldInv, Telling!Poll PROVE ToldInv'
<1>1. /\ serving \in Servers /\ serving.up /\ written \in Nat
      /\ quiet' = (IF quiet < 2 THEN quiet + 1 ELSE quiet) /\ quiet \in 0 .. 2 /\ quiet' \in 0 .. 2
  BY DEF ToldInv, MachineTyped, FilesTyped, Telling!Poll
<1>2. Stays
  BY DEF Stays, Telling!Poll, Telling!machine, Telling!files, Telling!command
<1>3. CASE Telling!Tries
  <2>1. [serving EXCEPT !.seen = written, !.pending = None] \in Servers
    BY <1>1 DEF Servers
  <2>2. PICK s \in Servers : s = [serving EXCEPT !.seen = written, !.pending = None]
    BY <2>1
  <2>3. serving' \in Telling!Taken(s) /\ Telling!Publishes(serving')
    BY <1>3, <2>2 DEF Telling!Poll
  <2>4. s.pid = serving.pid /\ s.start = serving.start /\ s.up /\ s.seen = written
    BY <1>1, <2>2 DEF Servers
  <2> QED
    BY <1>1, <1>2, <2>3, <2>4, ReloadTells
<1>4. CASE ~Telling!Tries
  <2>1. /\ serving' = [serving EXCEPT !.pending = IF @ = written \/ serving.seen = written THEN None ELSE written]
        /\ file' = file /\ unpublished' = unpublished
    BY <1>4 DEF Telling!Poll
  <2>2. /\ serving' \in Servers /\ serving'.up /\ serving'.pid = serving.pid /\ serving'.start = serving.start
        /\ serving'.cert = serving.cert /\ serving'.ca = serving.ca /\ serving'.reload = serving.reload
        /\ serving'.seen = serving.seen
        /\ serving'.pending = IF serving.pending = written \/ serving.seen = written THEN None ELSE written
    BY <1>1, <2>1 DEF Servers
  <2>3. file' \in Statuses \cup {None} /\ unpublished' \in BOOLEAN
    BY <2>1 DEF ToldInv, MachineTyped
  <2>4. MachineTyped' /\ Identified' /\ Reported' /\ Journalled'
    BY <1>1, <1>2, <2>1, <2>2, <2>3, StatusFollows
  <2>5. FilesTyped' /\ Tried'
    BY <1>1, <1>2, <2>2, Apart DEF Stays, ToldInv, FilesTyped, Tried
  <2>6. Polled'
    BY <1>1, <1>2, <1>4, <2>2, Apart DEF Stays, ToldInv, Polled, Telling!Tries
  <2> QED
    BY <2>4, <2>5, <2>6 DEF ToldInv
<1> QED
  BY <1>3, <1>4

LEMMA RetriesTells == ASSUME Telling!StatusAssumption, ToldInv, Telling!Retries PROVE ToldInv'
<1>1. serving \in Servers /\ serving.up /\ serving.seen = written /\ quiet' \in 0 .. 2
  BY DEF ToldInv, MachineTyped, FilesTyped, Telling!Retries
<1>2. Stays
  BY DEF Stays, Telling!Retries, Telling!machine, Telling!files, Telling!command
<1>3. PICK s \in Servers : s = [serving EXCEPT !.pending = None]
  BY <1>1 DEF Servers
<1>4. serving' \in Telling!Taken(s) /\ Telling!Publishes(serving')
  BY <1>3 DEF Telling!Retries
<1>5. s.pid = serving.pid /\ s.start = serving.start /\ s.up /\ s.seen = written
  BY <1>1, <1>3 DEF Servers
<1> QED
  BY <1>1, <1>2, <1>4, <1>5, ReloadTells

(* Processes come and go, and the machine boots.                            *)
LEMMA MachineTells ==
  ASSUME Telling!StatusAssumption, ToldInv,
         \/ \E p \in Pids : Telling!ServerStarts(p) \/ Telling!OtherStarts(p) \/ Telling!Exits(p)
         \/ Telling!Boots
  PROVE  ToldInv'
<1> DEFINE Kept == UNCHANGED <<caCrt, meta, crt, pem, written, renewal, installer, kind, leaf, made, quiet>>
<1>0. Kept
  BY DEF Telling!ServerStarts, Telling!OtherStarts, Telling!Exits, Telling!Boots, Telling!files, Telling!command
<1>1. FilesTyped' /\ Journalled'
  BY <1>0 DEF ToldInv, FilesTyped, Journalled
<1> USE Apart DEF ToldInv, MachineTyped, FilesTyped, Identified, Servers, Statuses
<1>2. ASSUME NEW p \in Pids, Telling!ServerStarts(p)
      PROVE  MachineTyped' /\ Identified' /\ Reported' /\ Tried' /\ Polled'
  <2> USE <1>2 DEF Telling!ServerStarts, Telling!Spawns
  <2>1. MachineTyped' /\ Identified'
    BY DEF Outcomes, Installed
  <2>2. Reported'
    BY DEF Reported, Telling!Active, Telling!SameProcess
  <2>3. Tried' /\ Polled'
    BY <1>0 DEF Tried, Polled
  <2> QED
    BY <2>1, <2>2, <2>3
<1>3. ASSUME NEW p \in Pids, Telling!OtherStarts(p)
      PROVE  MachineTyped' /\ Identified' /\ Reported' /\ Tried' /\ Polled'
  <2> USE <1>3 DEF Telling!OtherStarts, Telling!Spawns
  <2>1. MachineTyped' /\ Identified'
    OBVIOUS
  <2>2. Reported'
    BY DEF Reported, Telling!Active, Telling!SameProcess
  <2>3. Tried' /\ Polled'
    BY <1>0 DEF Tried, Polled
  <2> QED
    BY <2>1, <2>2, <2>3
<1>4. ASSUME NEW p \in Pids, Telling!Exits(p)
      PROVE  MachineTyped' /\ Identified' /\ Reported' /\ Tried' /\ Polled'
  <2> USE <1>4 DEF Telling!Exits
  <2>1. MachineTyped' /\ Identified'
    OBVIOUS
  <2>2. Reported'
    BY DEF Reported, Telling!Active, Telling!SameProcess
  <2>3. Tried' /\ Polled'
    BY <1>0 DEF Tried, Polled
  <2> QED
    BY <2>1, <2>2, <2>3
<1>5. ASSUME Telling!Boots PROVE MachineTyped' /\ Identified' /\ Reported' /\ Tried' /\ Polled'
  BY <1>5 DEF Reported, Tried, Polled, Telling!Boots, Telling!Active, Telling!SameProcess
<1> QED
  BY <1>1, <1>2, <1>3, <1>4, <1>5

(* The commands touch the files, and neither the server nor its status.     *)
LEMMA CommandTells ==
  ASSUME Telling!StatusAssumption, ToldInv,
         \/ Telling!Renew \/ Telling!ReplaceCa \/ Telling!Recovers
         \/ Telling!InstallsCa \/ Telling!InstallsLeaf \/ Telling!Stops
  PROVE  ToldInv'
<1>0. UNCHANGED <<boot, ticks, process, serving, file, unpublished>>
  BY DEF Telling!Renew, Telling!ReplaceCa, Telling!Recovers, Telling!InstallsCa, Telling!InstallsLeaf,
         Telling!Stops, Telling!machine
<1>1. MachineTyped' /\ Identified' /\ Reported'
  BY <1>0 DEF ToldInv, MachineTyped, Identified, Reported, Telling!Active, Telling!SameProcess
<1> USE <1>0, Apart DEF ToldInv, FilesTyped, Journalled, Changing, Telling!files, Telling!command
<1>2. CASE Telling!Renew
  BY <1>1, <1>2 DEF Installed, Tried, Polled, Telling!Renew
<1>3. CASE Telling!ReplaceCa
  <2>1. leaf' \in Installed
    BY <1>3 DEF Installed, Telling!ReplaceCa
  <2>2. FilesTyped'
    BY <1>3 DEF Installed, Telling!ReplaceCa
  <2>3. Journalled'
    BY <1>3, <2>1 DEF Telling!ReplaceCa
  <2>4. Tried' /\ Polled'
    BY <1>3 DEF Tried, Polled, Telling!ReplaceCa
  <2> QED
    BY <1>1, <2>2, <2>3, <2>4
<1>4. CASE Telling!Recovers
  BY <1>1, <1>4 DEF Tried, Polled, Telling!Recovers
<1>5. CASE Telling!InstallsCa
  <2> USE <1>5 DEF Telling!InstallsCa, Telling!Writes
  <2>1. FilesTyped' /\ Journalled'
    BY DEF Installed
  <2>2. Tried' /\ Polled'
    BY DEF MachineTyped, Servers, Tried, Polled
  <2> QED
    BY <1>1, <2>1, <2>2
<1>6. CASE Telling!InstallsLeaf
  <2> USE <1>6 DEF Telling!InstallsLeaf, Telling!Writes
  <2>1. FilesTyped' /\ Journalled'
    BY DEF Installed
  <2>2. Tried' /\ Polled'
    BY DEF MachineTyped, Servers, Tried, Polled
  <2> QED
    BY <1>1, <2>1, <2>2
<1>7. CASE Telling!Stops
  BY <1>1, <1>7 DEF Tried, Polled, Telling!Stops
<1> QED
  BY <1>2, <1>3, <1>4, <1>5, <1>6, <1>7

LEMMA InitTells == ASSUME Telling!StatusAssumption, Telling!Init PROVE ToldInv
<1>0. None \notin Nat
  BY DEF Telling!StatusAssumption
<1> USE <1>0 DEF Telling!Init
<1>1. MachineTyped
  BY DEF MachineTyped
<1>2. FilesTyped
  BY DEF FilesTyped, Installed
<1>3. Identified
  BY DEF Identified
<1>4. Reported
  BY DEF Reported, Telling!Active
<1>5. Tried
  BY DEF Tried
<1>6. Polled
  BY DEF Polled
<1>7. Journalled
  BY DEF Journalled, Changing
<1> QED
  BY <1>1, <1>2, <1>3, <1>4, <1>5, <1>6, <1>7 DEF ToldInv

LEMMA TellingTrue == ASSUME Telling!StatusAssumption, ToldInv PROVE Telling!TellsTheTruth
<1> USE DEF ToldInv
<1>0. None \notin Nat /\ None \notin Servers /\ None \notin Statuses
  BY DEF Telling!StatusAssumption, Servers, Statuses, Installed, Outcomes
<1>1. ASSUME Telling!Active # None PROVE Telling!Active = file /\ file \in Statuses /\ Telling!SameProcess(file)
  BY <1>1 DEF Telling!Active, MachineTyped
<1>2. Telling!RunningIsTrue
  <2> SUFFICES ASSUME Telling!Active # None, ~unpublished
               PROVE  serving # None /\ (serving # None => file = Telling!Report(serving))
    BY <1>1 DEF Telling!RunningIsTrue
  <2>1. /\ serving # None /\ serving \in Servers /\ serving.pid = file.pid
        /\ serving.cert = file.cert /\ serving.reload = file.reload
    BY DEF Reported, MachineTyped
  <2>2. file.boot = boot /\ file.start = serving.start
    BY <1>1, <2>1 DEF Identified, Telling!SameProcess
  <2> QED
    BY <1>1, <2>1, <2>2 DEF Telling!Report, Statuses
<1>3. serving # None /\ quiet = 2 => serving.seen = written
  BY DEF Polled
<1>4. Telling!SoonIsSoon
  <2> SUFFICES ASSUME Telling!Active # None, Telling!Active.cert # crt.id, Telling!Active.reload = "ok",
                      ~unpublished, crt = pem, quiet = 2
               PROVE  FALSE
    BY DEF Telling!SoonIsSoon, Telling!SaysSoon, Telling!NewerOnDisk, Telling!Status, Telling!LeafShown, FilesTyped
  <2>1. serving # None /\ serving.cert = file.cert /\ serving.reload = file.reload
    BY DEF Reported
  <2> QED
    BY <1>1, <1>3, <2>1 DEF Tried
<1>5. Telling!ScopeIsServed
  <2> SUFFICES ASSUME serving # None, leaf = None, meta = pem.ca, serving.cert = pem.id, quiet = 2
               PROVE  serving.ca = meta
    BY DEF Telling!ScopeIsServed, Telling!View, Telling!CaShown, Telling!Extras
  <2>1. caCrt = pem.ca
    BY DEF Journalled
  <2> QED
    BY <1>3, <2>1 DEF Tried
<1>6. Telling!HealthyIsCurrent
  BY <1>3 DEF Telling!HealthyIsCurrent, Telling!Degraded, Telling!View, Tried
<1> QED
  BY <1>2, <1>4, <1>5, <1>6 DEF Telling!TellsTheTruth

(* What status, /api/config and /api/health say of a running server is of   *)
(* what it serves, and no change is announced, or called healthy, that it   *)
(* does not take up (runtime-status.ts:206-213, cmd-status.ts:341-360,      *)
(* tls-status.ts:166-187, health.ts:273-309).                               *)
THEOREM ToldCorrect == ASSUME Telling!StatusAssumption PROVE Telling!Spec => []Telling!TellsTheTruth
<1>1. Telling!Init => ToldInv
  BY InitTells
<1>2. ASSUME ToldInv, [Telling!Next]_(Telling!vars) PROVE ToldInv'
  <2>1. CASE UNCHANGED Telling!vars
    BY <1>2, <2>1 DEF Telling!vars, Telling!machine, Telling!files, Telling!command, Telling!bounds, ToldInv,
       MachineTyped, FilesTyped, Identified, Reported, Tried, Polled, Journalled, Telling!Active, Telling!SameProcess
  <2>2. CASE Telling!Next
    BY <1>2, <2>2, ListensTells, PollTells, RetriesTells, MachineTells, CommandTells DEF Telling!Next
  <2> QED
    BY <1>2, <2>1, <2>2
<1>3. ToldInv => Telling!TellsTheTruth
  BY TellingTrue
<1> QED
  BY <1>1, <1>2, <1>3, PTL DEF Telling!Spec

-----------------------------------------------------------------------------
(***************************************************************************)
(* The readings.  The sparkline climbs, as does every history; what        *)
(* is pushed ends with the last reading; and from the first sample that no *)
(* history overtook the page is behind only by what the socket still holds.*)
(***************************************************************************)
Points == [ts : Int, n : Nat]
Climbing == {s \in Seq(Points) : \A i, j \in DOMAIN s : i < j => s[i].ts < s[j].ts}
Sendings == {[type |-> "live"]} \cup [type : {"snapshot"}, samples : Seq(Points)]
            \cup [type : {"sample"}, samples : {<<p>> : p \in Points}]
Fetches == [is : {"asked", "answered", "done"}, from : Int \cup {None}, samples : Climbing]
(* Each reading has a stamp and a number of its own. *)
PiTyped ==
  /\ time \in Nat /\ offset \in Int /\ reads \in Nat /\ metrics \in SUBSET Points /\ IsFiniteSet(metrics)
  /\ \A r, s \in metrics : (r.ts = s.ts \/ r.n = s.n) => r = s
  /\ \A r \in metrics : r.n <= reads
  /\ (reads = 0 \/ \E r \in metrics : r.n = reads)
BrowserTyped ==
  /\ sent \in Seq(Sendings) /\ latest \in Points \cup {None} /\ series \in Climbing /\ fetches \in Seq(Fetches)
  /\ clockOffset \in Int /\ heard \in BOOLEAN
Pushes(i) == sent[i].type = "sample"
(* After a first sample come only samples, each later than the one before. *)
InSocket ==
  /\ socket # "open" => sent = <<>>
  /\ \A i, j \in DOMAIN sent : (i < j /\ Pushes(i)) => (Pushes(j) /\ sent[i].samples[1].n < sent[j].samples[1].n)
  /\ \A i \in DOMAIN sent : Pushes(i) => sent[i].samples[1].n <= reads
  /\ sent # <<>> => (Pushes(Len(sent)) => sent[Len(sent)].samples[1] = Tiles!LastReading)
(* The page has heard a reading: what is in the socket is later. *)
InView ==
  heard =>
    /\ socket = "open" /\ series # <<>> /\ series[Len(series)].n <= reads
    /\ \A i \in DOMAIN sent : Pushes(i) /\ series[Len(series)].n < sent[i].samples[1].n
    /\ sent = <<>> => Tiles!ShowsThePresent
TileInv == PiTyped /\ BrowserTyped /\ InSocket /\ InView

(***************************************************************************)
(* Numbers in order: what is picked from a list that climbs does too.      *)
(***************************************************************************)
LEMMA Ordered ==
  ASSUME NEW S \in SUBSET Int, IsFiniteSet(S)
  PROVE  /\ Cardinality(S) \in Nat /\ Tiles!InOrder(S) \in [1 .. Cardinality(S) -> S]
         /\ \A i, j \in 1 .. Cardinality(S) : i < j => Tiles!InOrder(S)[i] < Tiles!InOrder(S)[j]
<1> DEFINE Orders(T, f) == f \in [1 .. Cardinality(T) -> T] /\ \A i, j \in DOMAIN f : i < j => f[i] < f[j]
           F == {T \in SUBSET S : ~(\E f : Orders(T, f))}
<1>1. \A T \in SUBSET S : IsFiniteSet(T) /\ Cardinality(T) \in Nat
  BY FS_Subset, FS_CardinalityType
<1>2. ASSUME F # {} PROVE FALSE
  <2>1. F \subseteq FiniteSubsetsOf(S)
    BY <1>1 DEF FiniteSubsetsOf
  <2>2. PICK U \in F : \A V \in F : ~(V \subseteq U /\ V # U)
    <3> HIDE DEF F
    <3> QED
      BY <1>2, <2>1, SmallestSet
  <2>3. U \in SUBSET S /\ ~(\E f : Orders(U, f)) /\ IsFiniteSet(U)
    BY <1>1, <2>2
  <2>4. U # {}
    <3> SUFFICES ASSUME U = {} PROVE FALSE
      OBVIOUS
    <3>1. Cardinality(U) = 0
      BY FS_EmptySet
    <3>2. Orders(U, [i \in 1 .. 0 |-> 0])
      BY <3>1
    <3> QED
      BY <2>3, <3>2
  <2>5. PICK m \in U : \A k \in U : k <= m
    <3>1. U \in SUBSET Int
      BY <2>3
    <3> QED
      BY <2>3, <2>4, <3>1, Greatest
  <2>6. PICK n \in Nat : n = Cardinality(U \ {m}) /\ Cardinality(U) = n + 1
    <3>1. Cardinality(U) \in Nat /\ Cardinality(U \ {m}) = Cardinality(U) - 1
      BY <1>1, <2>3, <2>5, FS_RemoveElement
    <3>2. Cardinality(U \ {m}) \in Nat
      BY <2>3, FS_RemoveElement, FS_CardinalityType
    <3> QED
      BY <3>1, <3>2
  <2>7. \E f : Orders(U \ {m}, f)
    <3> DEFINE V == U \ {m}
    <3>1. V \in SUBSET S /\ V \subseteq U /\ V # U
      BY <2>3, <2>5
    <3> QED
      BY <2>2, <3>1
  <2>8. PICK f \in [1 .. n -> U \ {m}] : \A i, j \in 1 .. n : i < j => f[i] < f[j]
    BY <2>6, <2>7
  <2> DEFINE g == [i \in 1 .. n + 1 |-> IF i = n + 1 THEN m ELSE f[i]]
  <2>9. \A i \in 1 .. n : f[i] \in U /\ f[i] # m /\ f[i] \in Int /\ f[i] <= m
    BY <2>3, <2>5, <2>8
  <2>10. \A i \in 1 .. n + 1 : i = n + 1 \/ i \in 1 .. n
    OBVIOUS
  <2>11. g \in [1 .. n + 1 -> U]
    BY <2>5, <2>9, <2>10
  <2>12. ASSUME NEW i \in 1 .. n + 1, NEW j \in 1 .. n + 1, i < j PROVE g[i] < g[j]
    <3>1. i \in 1 .. n /\ g[i] = f[i]
      BY <2>12
    <3>2. f[i] < m
      BY <2>3, <2>5, <2>9, <3>1
    <3>3. CASE j = n + 1
      BY <3>1, <3>2, <3>3
    <3>4. CASE j # n + 1
      BY <2>8, <2>10, <2>12, <3>1, <3>4
    <3> QED
      BY <3>3, <3>4
  <2>13. Orders(U, g)
    <3> HIDE DEF g
    <3> QED
      BY <2>6, <2>11, <2>12
  <2> QED
    BY <2>3, <2>13
<1>3. PICK f : Orders(S, f)
  BY <1>2
<1>4. Orders(S, Tiles!InOrder(S))
  <2>1. \E g \in [1 .. Cardinality(S) -> S] : \A i, j \in DOMAIN g : i < j => g[i] < g[j]
    BY <1>3
  <2>2. Tiles!Cardinality(S) = Cardinality(S)
    BY DEF Tiles!Cardinality, Cardinality
  <2> QED
    BY <2>1, <2>2 DEF Tiles!InOrder
<1> QED
  BY <1>1, <1>4

(* What is picked, queried, appended and joined climbs. *)
LEMMA AtClimbs ==
  ASSUME NEW s \in Climbing, NEW I \in SUBSET DOMAIN s
  PROVE  Tiles!At(s, I) \in Climbing /\ \A k \in DOMAIN Tiles!At(s, I) : \E i \in I : Tiles!At(s, I)[k] = s[i]
<1> DEFINE order == Tiles!InOrder(I)
           n == Cardinality(I)
<1>1. s \in Seq(Points) /\ Len(s) \in Nat /\ DOMAIN s = 1 .. Len(s) /\ \A i \in DOMAIN s : s[i] \in Points
  BY DEF Climbing
<1>2. IsFiniteSet(1 .. Len(s))
  BY <1>1, FS_Interval
<1>3. I \in SUBSET Int /\ IsFiniteSet(I)
  BY <1>1, <1>2, FS_Subset
<1>4. n \in Nat /\ order \in [1 .. n -> I] /\ \A i, j \in 1 .. n : i < j => order[i] < order[j]
  BY <1>3, Ordered
<1> HIDE DEF order, n
<1>5. Tiles!At(s, I) = [k \in 1 .. n |-> s[order[k]]]
  BY <1>4 DEF Tiles!At, order
<1>6. Tiles!At(s, I) \in [1 .. n -> Points]
  BY <1>1, <1>4, <1>5
<1>7. Tiles!At(s, I) \in Seq(Points)
  BY <1>4, <1>6
<1>8. \A i, j \in 1 .. n : i < j => Tiles!At(s, I)[i].ts < Tiles!At(s, I)[j].ts
  BY <1>1, <1>4, <1>5 DEF Climbing
<1> QED
  BY <1>4, <1>5, <1>7, <1>8 DEF Climbing

LEMMA BetweenClimbs == ASSUME PiTyped, NEW from, NEW to PROVE Tiles!Between(from, to) \in Climbing
<1> DEFINE R == {s \in metrics : from <= s.ts /\ s.ts <= to}
           T == {r.ts : r \in R}
           order == Tiles!InOrder(T)
           n == Cardinality(T)
<1>1. R \in SUBSET metrics /\ IsFiniteSet(R)
  BY FS_Subset DEF PiTyped
<1>2. IsFiniteSet(T)
  <2>1. [r \in R |-> r.ts] \in Surjection(R, T)
    BY DEF Surjection
  <2> QED
    BY <1>1, <2>1, FS_Surjection
<1>3. T \in SUBSET Int
  BY DEF PiTyped, Points
<1>4. n \in Nat /\ order \in [1 .. n -> T] /\ \A i, j \in 1 .. n : i < j => order[i] < order[j]
  BY <1>2, <1>3, Ordered
<1>5. \A ts \in T : Tiles!Reading(ts) \in Points /\ Tiles!Reading(ts).ts = ts
  BY DEF Tiles!Reading, PiTyped
<1>6. Tiles!Between(from, to) = [k \in DOMAIN order |-> Tiles!Reading(order[k])]
  BY DEF Tiles!Between
<1> HIDE DEF T, order, n
<1>7. Tiles!Between(from, to) = [k \in 1 .. n |-> Tiles!Reading(order[k])]
  BY <1>4, <1>6
<1>8. Tiles!Between(from, to) \in [1 .. n -> Points]
  BY <1>4, <1>5, <1>7
<1>9. Tiles!Between(from, to) \in Seq(Points)
  BY <1>4, <1>8
<1>10. \A i, j \in 1 .. n : i < j => Tiles!Between(from, to)[i].ts < Tiles!Between(from, to)[j].ts
  BY <1>4, <1>5, <1>7
<1> QED
  BY <1>7, <1>9, <1>10 DEF Climbing


LEMMA AppendClimbs ==
  ASSUME NEW s \in Climbing, NEW p \in Points, \A i \in DOMAIN s : s[i].ts < p.ts
  PROVE  /\ Append(s, p) \in Climbing /\ Append(s, p) # <<>>
         /\ Append(s, p)[Len(Append(s, p))] = p
<1>1. s \in Seq(Points) /\ Len(s) \in Nat /\ \A i \in 1 .. Len(s) : s[i] \in Points
  BY DEF Climbing
<1>2. Append(s, p) \in Seq(Points) /\ Len(Append(s, p)) = Len(s) + 1 /\ Append(s, p)[Len(s) + 1] = p
  BY <1>1
<1>3. \A i \in 1 .. Len(s) : Append(s, p)[i] = s[i]
  BY <1>1
<1>4. \A i, j \in 1 .. Len(s) + 1 : i < j => Append(s, p)[i].ts < Append(s, p)[j].ts
  <2> TAKE i, j \in 1 .. Len(s) + 1
  <2> HAVE i < j
  <2>1. i \in 1 .. Len(s) /\ (j = Len(s) + 1 \/ j \in 1 .. Len(s))
    BY <1>1
  <2> QED
    BY <1>1, <1>2, <1>3, <2>1 DEF Climbing
<1>5. DOMAIN Append(s, p) = 1 .. Len(s) + 1 /\ Append(s, p) # <<>>
  BY <1>1, <1>2
<1> QED
  BY <1>2, <1>4, <1>5 DEF Climbing

LEMMA ConcatClimbs ==
  ASSUME NEW s \in Climbing, NEW t \in Climbing, \A i \in DOMAIN s, j \in DOMAIN t : s[i].ts < t[j].ts
  PROVE  s \o t \in Climbing
<1>1. s \in Seq(Points) /\ t \in Seq(Points) /\ Len(s) \in Nat /\ Len(t) \in Nat
  BY DEF Climbing
<1>2. s \o t \in Seq(Points) /\ Len(s \o t) = Len(s) + Len(t)
  BY <1>1, ConcatProperties
<1>3. \A i \in 1 .. Len(s) + Len(t) : (s \o t)[i] = IF i <= Len(s) THEN s[i] ELSE t[i - Len(s)]
  BY <1>1, ConcatProperties
<1>4. \A i, j \in 1 .. Len(s) + Len(t) : i < j => (s \o t)[i].ts < (s \o t)[j].ts
  <2> TAKE i, j \in 1 .. Len(s) + Len(t)
  <2> HAVE i < j
  <2>1. CASE j <= Len(s)
    BY <1>1, <1>3, <2>1 DEF Climbing
  <2>2. CASE i <= Len(s) /\ ~(j <= Len(s))
    <3>1. i \in DOMAIN s /\ j - Len(s) \in DOMAIN t
      BY <1>1, <2>2
    <3> QED
      BY <1>3, <2>2, <3>1
  <2>3. CASE ~(i <= Len(s))
    <3>1. i - Len(s) \in DOMAIN t /\ j - Len(s) \in DOMAIN t /\ i - Len(s) < j - Len(s) /\ ~(j <= Len(s))
      BY <1>1, <2>3
    <3>2. t[i - Len(s)].ts < t[j - Len(s)].ts
      BY <3>1 DEF Climbing
    <3> QED
      BY <1>3, <2>3, <3>1, <3>2
  <2> QED
    BY <1>1, <2>1, <2>2, <2>3
<1>5. DOMAIN (s \o t) = 1 .. Len(s) + Len(t)
  BY <1>1, <1>2
<1> QED
  BY <1>2, <1>4, <1>5 DEF Climbing

(* A sample is where the sparkline ends; or it was held against a later one, *)
(* on the sparkline or on the tile.                                          *)
Above(s, d) == s \in Points /\ s.ts - CLOCK_STEP <= d.ts /\ d.ts <= s.ts

LEMMA LastOne ==
  ASSUME NEW s \in Climbing, s # <<>>
  PROVE  /\ Len(s) \in DOMAIN s /\ s[Len(s)] \in Points /\ Tiles!Last(s) = s[Len(s)]
         /\ \A i \in DOMAIN s : s[i] \in Points /\ s[i].ts <= s[Len(s)].ts
<1>1. s \in Seq(Points) /\ Len(s) \in Nat /\ Len(s) \in 1 .. Len(s) /\ \A i \in 1 .. Len(s) : s[i] \in Points
  BY DEF Climbing
<1>2. \A i \in 1 .. Len(s) : i = Len(s) \/ s[i].ts < s[Len(s)].ts
  BY <1>1 DEF Climbing
<1>3. \A i \in 1 .. Len(s) : s[i].ts \in Int
  BY <1>1 DEF Points
<1> QED
  BY <1>1, <1>2, <1>3 DEF Tiles!Last

(* What a sample, and a history, make of the page. *)
LEMMA SampleShown ==
  ASSUME Tiles!ReadingsAssumption, series \in Climbing, latest \in Points \cup {None},
         NEW d \in Points, Tiles!ApplySample(d)
  PROVE  /\ series' \in Climbing /\ series' # <<>> /\ latest' \in Points \cup {None}
         /\ Tiles!Duplicate(d) => series' = series /\ latest' = latest /\ Above(series[Len(series)], d)
         /\ ~Tiles!Duplicate(d) => series'[Len(series')] = d /\ (latest' = d \/ Above(latest', d))
<1> USE DEF Tiles!OutOfOrder
<1>0. d.ts \in Int /\ CLOCK_STEP \in Nat
  BY DEF Points, Tiles!ReadingsAssumption
<1>1. CASE Tiles!Duplicate(d)
  <2>1. series # <<>> /\ d.ts <= Tiles!Last(series).ts /\ d.ts >= Tiles!Last(series).ts - CLOCK_STEP
    BY <1>1 DEF Tiles!Duplicate
  <2>2. series' = series /\ latest' = latest
    BY <1>1 DEF Tiles!ApplySample, Tiles!state
  <2>3. Above(series[Len(series)], d)
    BY <1>0, <2>1, LastOne DEF Above, Points
  <2> QED
    BY <1>1, <2>1, <2>2, <2>3
<1>2. CASE ~Tiles!Duplicate(d) /\ Tiles!OutOfOrder(d)
  <2>1. series' = <<d>> /\ latest' = d
    BY <1>2 DEF Tiles!ApplySample
  <2>2. <<d>> \in Climbing
    BY DEF Climbing
  <2> QED
    BY <1>2, <2>1, <2>2
<1>3. CASE ~Tiles!Duplicate(d) /\ ~Tiles!OutOfOrder(d)
  <2> DEFINE I == {i \in DOMAIN series : series[i].ts >= d.ts - SPAN}
             kept == Tiles!At(series, I)
  <2>1. series' = Append(kept, d) /\ latest' = Tiles!Shown(d)
    BY <1>3 DEF Tiles!ApplySample
  <2>2. kept \in Climbing /\ \A k \in DOMAIN kept : \E i \in I : kept[k] = series[i]
    <3>1. I \in SUBSET DOMAIN series
      OBVIOUS
    <3> HIDE DEF I
    <3> QED
      BY <3>1, AtClimbs
  <2>3. \A i \in DOMAIN series : series[i].ts < d.ts
    <3>1. CASE series = <<>>
      BY <3>1
    <3>2. CASE series # <<>>
      <4>1. Tiles!Last(series).ts < d.ts /\ Tiles!Last(series) = series[Len(series)] /\ series[Len(series)].ts \in Int
        BY <1>0, <1>3, <3>2, LastOne DEF Points
      <4>2. \A i \in DOMAIN series : series[i].ts \in Int /\ series[i].ts <= series[Len(series)].ts
        BY <3>2, LastOne DEF Points
      <4> QED
        BY <1>0, <4>1, <4>2
    <3> QED
      BY <3>1, <3>2
  <2>4. \A k \in DOMAIN kept : kept[k].ts < d.ts
    BY <2>2, <2>3
  <2> HIDE DEF kept
  <2>5. series' \in Climbing /\ series' # <<>> /\ series'[Len(series')] = d
    BY <2>1, <2>2, <2>4, AppendClimbs
  <2>6. latest' = d \/ (latest' \in Points /\ latest' = latest /\ ~Tiles!Newer(latest, d) /\ latest # None)
    BY <2>1 DEF Tiles!Shown, Tiles!Newer
  <2>7. latest' = d \/ Above(latest', d)
    BY <1>0, <2>6 DEF Tiles!Newer, Above, Points
  <2> QED
    BY <1>3, <2>5, <2>6, <2>7
<1> QED
  BY <1>1, <1>2, <1>3

LEMMA HistoryShown ==
  ASSUME Tiles!ReadingsAssumption, series \in Climbing, latest \in Points \cup {None},
         NEW samples \in Climbing, Tiles!ApplyHistory(samples)
  PROVE  series' \in Climbing /\ latest' \in Points \cup {None}
<1>1. CASE samples = <<>>
  <2>1. series' = <<>> \o series /\ latest' = latest /\ series \in Seq(Points)
    BY <1>1 DEF Tiles!ApplyHistory, Tiles!NewerLive, Climbing
  <2>2. series' = series
    BY <2>1
  <2> QED
    BY <2>1, <2>2
<1>2. CASE samples # <<>>
  <2> DEFINE I == {i \in DOMAIN series : /\ series[i].ts > Tiles!Last(samples).ts
                                         /\ series[i].ts <= Tiles!Last(samples).ts + CLOCK_STEP}
             kept == Tiles!At(series, I)
  <2>1. series' = samples \o kept /\ latest' = Tiles!Shown(Tiles!Last(samples))
    BY <1>2 DEF Tiles!ApplyHistory, Tiles!NewerLive
  <2>2. kept \in Climbing /\ \A k \in DOMAIN kept : \E i \in I : kept[k] = series[i]
    <3>1. I \in SUBSET DOMAIN series
      OBVIOUS
    <3> HIDE DEF I
    <3> QED
      BY <3>1, AtClimbs
  <2>3. \A i \in DOMAIN samples : samples[i].ts \in Int /\ samples[i].ts <= Tiles!Last(samples).ts
    BY <1>2, LastOne DEF Points
  <2>4. Tiles!Last(samples) \in Points /\ Tiles!Last(samples).ts \in Int
    BY <1>2, LastOne DEF Points
  <2>5. \A i \in DOMAIN series : series[i].ts \in Int
    <3>1. series \in Seq(Points)
      BY DEF Climbing
    <3>2. \A i \in DOMAIN series : series[i] \in Points
      BY <3>1
    <3> QED
      BY <3>2 DEF Points
  <2>6. \A i \in DOMAIN samples, k \in DOMAIN kept : samples[i].ts < kept[k].ts
    <3> TAKE i \in DOMAIN samples, k \in DOMAIN kept
    <3>1. PICK n \in I : kept[k] = series[n]
      BY <2>2
    <3>2. series[n].ts > Tiles!Last(samples).ts
      OBVIOUS
    <3> QED
      BY <2>3, <2>4, <2>5, <3>1, <3>2
  <2> HIDE DEF kept
  <2>7. series' \in Climbing
    BY <2>1, <2>2, <2>6, ConcatClimbs
  <2> QED
    BY <2>1, <2>4, <2>7 DEF Tiles!Shown
<1> QED
  BY <1>1, <1>2


(* What the page receives, but for the sample it may be.                     *)
LEMMA PopKeeps ==
  ASSUME sent \in Seq(Sendings), sent # <<>>, InSocket, sent' = Tail(sent), UNCHANGED <<metrics, reads, socket>>
  PROVE  /\ sent' \in Seq(Sendings) /\ InSocket'
         /\ \A i \in DOMAIN sent' : i + 1 \in DOMAIN sent /\ sent'[i] = sent[i + 1]
         /\ Len(sent') = Len(sent) - 1 /\ Len(sent) \in Nat \ {0}
<1>1. /\ sent' \in Seq(Sendings) /\ Len(sent') = Len(sent) - 1 /\ Len(sent) \in Nat \ {0}
      /\ \A i \in 1 .. Len(sent) - 1 : sent'[i] = sent[i + 1]
  BY HeadTailProperties
<1>2. \A i \in DOMAIN sent' : i + 1 \in DOMAIN sent /\ sent'[i] = sent[i + 1]
  BY <1>1
<1>3. Tiles!LastReading' = Tiles!LastReading
  BY DEF Tiles!LastReading
<1>4. \A i, j \in DOMAIN sent' : i < j /\ sent'[i].type = "sample" =>
        sent'[j].type = "sample" /\ sent'[i].samples[1].n < sent'[j].samples[1].n
  <2> TAKE i, j \in DOMAIN sent'
  <2> HAVE i < j /\ sent'[i].type = "sample"
  <2>1. i + 1 \in DOMAIN sent /\ j + 1 \in DOMAIN sent /\ i + 1 < j + 1
    BY <1>1, <1>2
  <2> QED
    BY <1>2, <2>1 DEF InSocket, Pushes
<1>5. \A i \in DOMAIN sent' : sent'[i].type = "sample" => sent'[i].samples[1].n <= reads
  BY <1>2 DEF InSocket, Pushes
<1>6. sent' # <<>> => sent'[Len(sent')] = sent[Len(sent)]
  <2> SUFFICES ASSUME sent' # <<>> PROVE sent'[Len(sent')] = sent[Len(sent)]
    OBVIOUS
  <2>1. Len(sent') \in DOMAIN sent' /\ Len(sent') + 1 = Len(sent)
    BY <1>1
  <2> QED
    BY <1>2, <2>1
<1>7. InSocket'
  BY <1>3, <1>4, <1>5, <1>6 DEF InSocket, Pushes
<1> QED
  BY <1>1, <1>2, <1>7

LEMMA InitTile == ASSUME Tiles!ReadingsAssumption, Tiles!Init PROVE TileInv
<1> USE DEF Tiles!Init, Tiles!ReadingsAssumption
<1>1. <<>> \in Climbing
  BY DEF Climbing
<1>2. PiTyped
  BY FS_EmptySet DEF PiTyped
<1>3. fetches \in Seq(Fetches) /\ clockOffset \in Int
  <2>1. [is |-> "asked", from |-> 0 - SPAN, samples |-> <<>>] \in Fetches
    BY <1>1 DEF Fetches
  <2> QED
    BY <2>1
<1>4. BrowserTyped
  <2>1. sent \in Seq(Sendings) /\ latest \in Points \cup {None} /\ series \in Climbing
    BY <1>1
  <2>2. heard \in BOOLEAN
    OBVIOUS
  <2> QED
    BY <1>3, <2>1, <2>2 DEF BrowserTyped
<1>5. InSocket /\ InView
  BY DEF InSocket, InView
<1> QED
  BY <1>2, <1>4, <1>5 DEF TileInv

(* A reading that is stored is the last, and goes to the end of the socket.  *)
LEMMA CollectKeeps ==
  ASSUME TileInv, Tiles!CollectAndStore, UNCHANGED socket
  PROVE  /\ reads' \in Nat /\ metrics' \in SUBSET Points /\ IsFiniteSet(metrics')
         /\ \A r, s \in metrics' : r.ts = s.ts \/ r.n = s.n => r = s
         /\ \A r \in metrics' : r.n <= reads'
         /\ \E r \in metrics' : r.n = reads'
         /\ sent' \in Seq(Sendings) /\ InSocket'
         /\ series # <<>> /\ InView /\ UNCHANGED <<series, latest, heard>> => InView'
<1> DEFINE sample == Tiles!Sample
<1>1. sample \in Points /\ sample.n = reads + 1 /\ sample.ts = Tiles!Now + 1 /\ reads \in Nat
  BY DEF TileInv, PiTyped, Points, Tiles!Sample, Tiles!Now
<1> HIDE DEF sample
<1>2. metrics' = {r \in metrics : r.ts # sample.ts} \cup {sample} /\ reads' = reads + 1
  BY <1>1 DEF Tiles!CollectAndStore, sample
<1>3. \A r \in metrics : r.n \in Nat /\ r.n <= reads
  BY DEF TileInv, PiTyped, Points
<1>4. IsFiniteSet(metrics')
  <2>1. IsFiniteSet({r \in metrics : r.ts # sample.ts})
    BY FS_Subset DEF TileInv, PiTyped
  <2> QED
    BY <1>2, <2>1, FS_AddElement
<1>5. /\ metrics' \in SUBSET Points /\ reads' \in Nat
      /\ \A r \in metrics' : r.n <= reads'
      /\ \E r \in metrics' : r.n = reads'
  BY <1>1, <1>2, <1>3 DEF TileInv, PiTyped
<1>6. \A r, s \in metrics' : r.ts = s.ts \/ r.n = s.n => r = s
  <2> TAKE r, s \in metrics'
  <2>1. CASE r \in metrics /\ s \in metrics
    BY <2>1 DEF TileInv, PiTyped
  <2>2. CASE r \in metrics /\ r.ts # sample.ts /\ s = sample
    BY <1>1, <1>3, <2>2
  <2>3. CASE s \in metrics /\ s.ts # sample.ts /\ r = sample
    BY <1>1, <1>3, <2>3
  <2> QED
    BY <1>2, <2>1, <2>2, <2>3
<1>7. Tiles!LastReading' = sample
  <2>1. sample \in metrics' /\ sample.n = reads' /\ \A r \in metrics' : r.n = reads' => r = sample
    BY <1>1, <1>2, <1>6
  <2> QED
    BY <2>1 DEF Tiles!LastReading
<1> DEFINE m == [type |-> "sample", samples |-> <<sample>>]
<1>8. m \in Sendings /\ m.type = "sample" /\ m.samples[1] = sample
  BY <1>1 DEF Sendings
<1>9. sent \in Seq(Sendings) /\ Len(sent) \in Nat
  BY DEF TileInv, BrowserTyped
<1>10. CASE socket = "open"
  <2>1. sent' = Append(sent, m)
    BY <1>10 DEF Tiles!CollectAndStore, Tiles!Push, sample
  <2> HIDE DEF m
  <2>2. /\ sent' \in Seq(Sendings) /\ Len(sent') = Len(sent) + 1 /\ sent'[Len(sent) + 1] = m
        /\ \A i \in 1 .. Len(sent) : sent'[i] = sent[i]
        /\ DOMAIN sent' = 1 .. Len(sent) + 1 /\ sent' # <<>>
    BY <1>8, <1>9, <2>1
  <2>3. \A i \in 1 .. Len(sent) + 1 : i = Len(sent) + 1 \/ i \in 1 .. Len(sent)
    BY <1>9
  <2>4. \A i \in 1 .. Len(sent) : sent[i].type = "sample" => sent[i].samples[1].n \in Nat /\ sent[i].samples[1].n <= reads
    <3> TAKE i \in 1 .. Len(sent)
    <3> HAVE sent[i].type = "sample"
    <3>1. sent[i] \in Sendings /\ sent[i].samples[1].n <= reads
      BY <1>9 DEF TileInv, InSocket, Pushes
    <3>2. sent[i].samples[1] \in Points
      BY <3>1 DEF Sendings
    <3> QED
      BY <3>1, <3>2 DEF Points
  <2>5. ASSUME NEW i \in 1 .. Len(sent) + 1, NEW j \in 1 .. Len(sent) + 1, i < j, sent'[i].type = "sample"
        PROVE  sent'[j].type = "sample" /\ sent'[i].samples[1].n < sent'[j].samples[1].n
    <3>1. i \in 1 .. Len(sent) /\ sent[i].type = "sample" /\ sent'[i] = sent[i]
      BY <1>9, <2>2, <2>5
    <3>2. CASE j \in 1 .. Len(sent)
      BY <1>9, <2>2, <2>5, <3>1, <3>2 DEF TileInv, InSocket, Pushes
    <3>3. CASE j = Len(sent) + 1
      BY <1>1, <1>8, <2>2, <2>4, <3>1, <3>3
    <3> QED
      BY <2>3, <3>2, <3>3
  <2>6. \A i \in 1 .. Len(sent) + 1 : sent'[i].type = "sample" => sent'[i].samples[1].n <= reads'
    BY <1>1, <1>2, <1>8, <2>2, <2>3, <2>4
  <2>7. InSocket'
    <3>1. socket' = "open" /\ Len(sent') = Len(sent) + 1 /\ sent'[Len(sent')].samples[1] = Tiles!LastReading'
      BY <1>7, <1>8, <1>10, <2>2
    <3> QED
      BY <2>2, <2>5, <2>6, <3>1 DEF InSocket, Pushes
  <2>8. ASSUME series # <<>>, InView, UNCHANGED <<series, latest, heard>> PROVE InView'
    <3> SUFFICES ASSUME heard
                 PROVE  /\ socket' = "open" /\ series' # <<>> /\ series'[Len(series')].n <= reads'
                        /\ \A i \in DOMAIN sent' :
                             sent'[i].type = "sample" /\ series'[Len(series')].n < sent'[i].samples[1].n
                        /\ sent' # <<>>
      BY <2>8, Zenon DEF InView, Pushes
    <3>1. series' = series /\ series[Len(series)].n <= reads /\ series[Len(series)].n \in Nat
      <4>1. series[Len(series)] \in Points
        BY <2>8, LastOne DEF TileInv, BrowserTyped
      <4> QED
        BY <2>8, <4>1 DEF InView, Points
    <3>2. \A i \in 1 .. Len(sent) : sent[i].type = "sample" /\ series[Len(series)].n < sent[i].samples[1].n
      BY <1>9, <2>8 DEF InView, Pushes
    <3> QED
      BY <1>1, <1>2, <1>5, <1>8, <1>10, <2>2, <2>3, <2>8, <3>1, <3>2
  <2> QED
    BY <1>4, <1>5, <1>6, <2>2, <2>7, <2>8
<1>11. CASE socket # "open"
  <2>1. sent' = <<>> /\ socket' # "open"
    BY <1>11 DEF Tiles!CollectAndStore, Tiles!Push, TileInv, InSocket
  <2>2. InSocket'
    BY <2>1 DEF InSocket
  <2>3. ASSUME InView, UNCHANGED heard PROVE InView'
    <3>1. ~heard
      BY <1>11, <2>3 DEF InView
    <3> QED
      BY <2>3, <3>1 DEF InView
  <2> QED
    BY <1>4, <1>5, <1>6, <2>1, <2>2, <2>3
<1> QED
  BY <1>10, <1>11

(* A poll, with a reading or without. *)
LEMMA PollTile == ASSUME Tiles!ReadingsAssumption, TileInv, Tiles!Poll PROVE TileInv'
<1>1. time' \in Nat /\ UNCHANGED <<offset, socket, latest, series, clockOffset, fetches, heard>>
  BY DEF TileInv, PiTyped, Tiles!Poll, Tiles!state
<1>2. CASE Tiles!CollectAndStore
  <2>1. PiTyped' /\ InSocket' /\ sent' \in Seq(Sendings)
    BY <1>1, <1>2, CollectKeeps DEF TileInv, PiTyped
  <2>2. InView'
    <3>1. CASE heard
      <4>1. series # <<>>
        BY <3>1 DEF TileInv, InView
      <4> QED
        BY <1>1, <1>2, <4>1, CollectKeeps DEF TileInv
    <3>2. CASE ~heard
      BY <1>1, <3>2 DEF InView
    <3> QED
      BY <3>1, <3>2
  <2> QED
    BY <1>1, <2>1, <2>2 DEF TileInv, BrowserTyped
<1>3. CASE UNCHANGED <<reads, metrics, sent>>
  BY <1>1, <1>3 DEF TileInv, PiTyped, BrowserTyped, InSocket, InView, Pushes, Tiles!LastReading, Tiles!ShowsThePresent,
     Tiles!Held, Tiles!Ascending
<1> QED
  BY <1>2, <1>3 DEF Tiles!Poll

(* Everything of the Pi and of the page that is not named stays.             *)
LEMMA NothingSeen ==
  ASSUME TileInv, UNCHANGED <<metrics, reads, socket, sent, series, latest, heard>>
  PROVE  InSocket' /\ InView'
BY DEF TileInv, InSocket, InView, Pushes, Tiles!LastReading, Tiles!ShowsThePresent, Tiles!Held, Tiles!Ascending

(* A history is answered, fails, or is read: then the page has heard nothing. *)
LEMMA FetchTile ==
  ASSUME Tiles!ReadingsAssumption, TileInv, NEW i \in DOMAIN fetches,
         Tiles!Answers(i) \/ Tiles!HistoryFails(i) \/ Tiles!HistoryRead(i)
  PROVE  TileInv'
<1>1. /\ UNCHANGED <<time, offset, metrics, reads, socket, sent, clockOffset>>
      /\ fetches \in Seq(Fetches) /\ fetches[i] \in Fetches
  BY DEF TileInv, BrowserTyped, Tiles!Answers, Tiles!HistoryFails, Tiles!HistoryRead, Tiles!pi, Tiles!bounds
<1>2. PiTyped'
  BY <1>1 DEF TileInv, PiTyped
<1>3. Tiles!Done \in Fetches
  <2>1. <<>> \in Climbing
    BY DEF Climbing
  <2> QED
    BY <2>1 DEF Tiles!Done, Fetches
<1>4. CASE Tiles!HistoryFails(i)
  <2>1. fetches' = [fetches EXCEPT ![i] = Tiles!Done] /\ UNCHANGED <<latest, series, heard>>
    BY <1>4 DEF Tiles!HistoryFails, Tiles!state
  <2>2. fetches' \in Seq(Fetches)
    BY <1>1, <1>3, <2>1, ExceptSeq
  <2> QED
    BY <1>1, <1>2, <2>1, <2>2, NothingSeen DEF TileInv, BrowserTyped
<1>5. CASE Tiles!Answers(i)
  <2> DEFINE f == IF fetches[i].from > Tiles!Now THEN Tiles!Done
                  ELSE [is |-> "answered", from |-> fetches[i].from, samples |-> Tiles!Between(fetches[i].from, Tiles!Now)]
  <2>1. f \in Fetches
    <3>1. Tiles!Between(fetches[i].from, Tiles!Now) \in Climbing
      BY BetweenClimbs DEF TileInv
    <3> QED
      BY <1>1, <1>3, <3>1 DEF Fetches
  <2>2. fetches' = [fetches EXCEPT ![i] = f] /\ UNCHANGED <<latest, series, heard>>
    BY <1>5 DEF Tiles!Answers, Tiles!state
  <2> HIDE DEF f
  <2>3. fetches' \in Seq(Fetches)
    BY <1>1, <2>1, <2>2, ExceptSeq
  <2> QED
    BY <1>1, <1>2, <2>2, <2>3, NothingSeen DEF TileInv, BrowserTyped
<1>6. CASE Tiles!HistoryRead(i)
  <2>1. fetches' = [fetches EXCEPT ![i] = Tiles!Done] /\ Tiles!ApplyHistory(fetches[i].samples) /\ heard' = FALSE
    BY <1>6 DEF Tiles!HistoryRead
  <2>2. fetches' \in Seq(Fetches)
    BY <1>1, <1>3, <2>1, ExceptSeq
  <2>3. series' \in Climbing /\ latest' \in Points \cup {None}
    <3>1. fetches[i].samples \in Climbing /\ series \in Climbing /\ latest \in Points \cup {None}
      BY <1>1 DEF Fetches, TileInv, BrowserTyped
    <3> QED
      BY <2>1, <3>1, HistoryShown
  <2>4. ~heard' /\ heard' \in BOOLEAN
    BY <2>1
  <2>5. InSocket'
    BY <1>1 DEF TileInv, InSocket, Pushes, Tiles!LastReading
  <2>6. InView'
    BY <2>4 DEF InView
  <2>7. BrowserTyped'
    <3>1. sent' \in Seq(Sendings) /\ clockOffset' \in Int
      BY <1>1 DEF TileInv, BrowserTyped
    <3> QED
      BY <2>2, <2>3, <2>4, <3>1, Zenon DEF BrowserTyped
  <2> QED
    BY <1>2, <2>5, <2>6, <2>7 DEF TileInv
<1> QED
  BY <1>4, <1>5, <1>6

LEMMA ClockTile ==
  ASSUME Tiles!ReadingsAssumption, TileInv, Tiles!ClockSet PROVE TileInv'
<1>1. UNCHANGED <<time, metrics, reads, socket, sent, series, latest, clockOffset, fetches, heard>>
  BY DEF Tiles!ClockSet, Tiles!state
<1>2. offset' \in Int
  BY DEF TileInv, PiTyped, Tiles!ClockSet, Tiles!ReadingsAssumption
<1>3. PiTyped' /\ BrowserTyped'
  BY <1>1, <1>2 DEF TileInv, PiTyped, BrowserTyped
<1> QED
  BY <1>1, <1>3, NothingSeen DEF TileInv

LEMMA SocketTile ==
  ASSUME Tiles!ReadingsAssumption, TileInv, Tiles!Connects \/ Tiles!Breaks PROVE TileInv'
<1>1. UNCHANGED <<time, offset, metrics, reads, latest, series, clockOffset, fetches>>
  BY DEF Tiles!Connects, Tiles!Breaks, Tiles!pi, Tiles!state, Tiles!bounds
<1>2. PiTyped'
  BY <1>1 DEF TileInv, PiTyped
<1>3. CASE Tiles!Connects
  <2>1. ~heard /\ ~heard' /\ heard' \in BOOLEAN /\ socket' = "open"
    BY <1>3 DEF TileInv, BrowserTyped, InView, Tiles!Connects
  <2> DEFINE live == [type |-> "live"]
             snapshot == [type |-> "snapshot", samples |-> Tiles!GetLatest]
  <2>2. Tiles!GetLatest \in Seq(Points)
    <3> DEFINE T == {r.ts : r \in Tiles!Recent}
    <3>1. Tiles!Recent \in SUBSET metrics /\ IsFiniteSet(Tiles!Recent)
      BY FS_Subset DEF Tiles!Recent, TileInv, PiTyped
    <3>2. [r \in Tiles!Recent |-> r.ts] \in Surjection(Tiles!Recent, T)
      BY DEF Surjection
    <3>3. IsFiniteSet(T) /\ T \in SUBSET Int
      BY <3>1, <3>2, FS_Surjection DEF TileInv, PiTyped, Points
    <3>4. CASE Tiles!Recent = {}
      BY <3>4 DEF Tiles!GetLatest
    <3>5. CASE Tiles!Recent # {}
      <4>1. PICK m \in T : \A k \in T : k <= m
        <5>1. T # {}
          BY <3>5
        <5> HIDE DEF T
        <5> QED
          BY <3>3, <5>1, Greatest
      <4>2. \E s \in Tiles!Recent : \A r \in Tiles!Recent : r.ts <= s.ts
        BY <4>1
      <4>3. Tiles!Newest(Tiles!Recent) \in Tiles!Recent
        BY <4>2 DEF Tiles!Newest
      <4>4. Tiles!Newest(Tiles!Recent) \in Points
        BY <3>1, <4>3 DEF TileInv, PiTyped
      <4> QED
        BY <3>5, <4>4 DEF Tiles!GetLatest
    <3> QED
      BY <3>4, <3>5
  <2>3. live \in Sendings /\ snapshot \in Sendings /\ live.type # "sample" /\ snapshot.type # "sample"
    BY <2>2 DEF Sendings
  <2>4. sent' = <<live, snapshot>>
    BY <1>3 DEF Tiles!Connects
  <2> HIDE DEF live, snapshot
  <2>5. sent' \in Seq(Sendings) /\ DOMAIN sent' = {1, 2} /\ Len(sent') = 2 /\ \A i \in {1, 2} : sent'[i].type # "sample"
    BY <2>3, <2>4
  <2>6. InSocket'
    BY <2>1, <2>5 DEF InSocket, Pushes
  <2>7. InView'
    BY <2>1 DEF InView
  <2>8. BrowserTyped'
    <3>1. fetches' \in Seq(Fetches) /\ latest' \in Points \cup {None} /\ series' \in Climbing /\ clockOffset' \in Int
      BY <1>1 DEF TileInv, BrowserTyped
    <3> QED
      BY <2>1, <2>5, <3>1, Zenon DEF BrowserTyped
  <2> QED
    BY <1>2, <2>6, <2>7, <2>8 DEF TileInv
<1>4. CASE Tiles!Breaks
  <2>1. sent' = <<>> /\ ~heard' /\ heard' \in BOOLEAN
    BY <1>4 DEF Tiles!Breaks
  <2>2. InSocket' /\ sent' \in Seq(Sendings)
    BY <2>1 DEF InSocket
  <2>3. InView'
    BY <2>1 DEF InView
  <2>4. BrowserTyped'
    <3>1. fetches' \in Seq(Fetches) /\ latest' \in Points \cup {None} /\ series' \in Climbing /\ clockOffset' \in Int
      BY <1>1 DEF TileInv, BrowserTyped
    <3> QED
      BY <2>1, <2>2, <3>1, Zenon DEF BrowserTyped
  <2> QED
    BY <1>2, <2>2, <2>3, <2>4 DEF TileInv
<1> QED
  BY <1>3, <1>4

LEMMA InOrderShown == ASSUME BrowserTyped PROVE Tiles!Ascending(series)
<1>1. series \in Seq(Points) /\ \A i, j \in DOMAIN series : i < j => series[i].ts < series[j].ts
  BY DEF BrowserTyped, Climbing
<1>2. \A i \in 1 .. Len(series) - 1 : i \in DOMAIN series /\ i + 1 \in DOMAIN series /\ i < i + 1
  BY <1>1
<1> QED
  BY <1>1, <1>2 DEF Tiles!Ascending

(* The page reads the socket. *)
LEMMA ReceiveTile == ASSUME Tiles!ReadingsAssumption, TileInv, Tiles!Receive PROVE TileInv'
<1> DEFINE m == Head(sent)
<1>1. /\ sent # <<>> /\ sent' = Tail(sent) /\ UNCHANGED <<time, offset, metrics, reads, socket>>
      /\ sent \in Seq(Sendings) /\ m \in Sendings /\ m = sent[1] /\ 1 \in DOMAIN sent
  BY DEF TileInv, BrowserTyped, Tiles!Receive, Tiles!pi, Tiles!bounds
<1>2. /\ sent' \in Seq(Sendings) /\ InSocket'
      /\ \A i \in DOMAIN sent' : i + 1 \in DOMAIN sent /\ sent'[i] = sent[i + 1]
      /\ Len(sent') = Len(sent) - 1 /\ Len(sent) \in Nat \ {0}
  BY <1>1, PopKeeps DEF TileInv
<1>3. PiTyped'
  BY <1>1 DEF TileInv, PiTyped
<1>4. CASE m.type = "live"
  <2>1. UNCHANGED <<latest, series, clockOffset, heard>> /\ (UNCHANGED fetches \/ Tiles!LoadHistory)
    BY <1>4 DEF Tiles!Receive, Tiles!state
  <2>2. ~heard
    BY <1>1, <1>4 DEF TileInv, InView, Pushes
  <2>3. fetches' \in Seq(Fetches)
    <3> DEFINE asked == [is |-> "asked", from |-> time + clockOffset - SPAN, samples |-> <<>>]
    <3>1. asked \in Fetches
      <4>1. <<>> \in Climbing
        BY DEF Climbing
      <4>2. time + clockOffset - SPAN \in Int
        BY DEF TileInv, PiTyped, BrowserTyped, Tiles!ReadingsAssumption
      <4> QED
        BY <4>1, <4>2 DEF Fetches
    <3>2. fetches \in Seq(Fetches) /\ (fetches' = fetches \/ fetches' = Append(fetches, asked))
      BY <2>1 DEF TileInv, BrowserTyped, Tiles!LoadHistory
    <3> HIDE DEF asked
    <3> QED
      BY <3>1, <3>2
  <2>4. InView' /\ BrowserTyped'
    BY <1>2, <2>1, <2>2, <2>3 DEF TileInv, BrowserTyped, InView
  <2> QED
    BY <1>2, <1>3, <2>4 DEF TileInv
<1>5. CASE m.type = "snapshot"
  <2>1. Tiles!ApplySnapshot(m.samples) /\ ~heard' /\ heard' \in BOOLEAN /\ UNCHANGED <<clockOffset, fetches>>
    BY <1>5 DEF Tiles!Receive
  <2>2. m.samples \in Seq(Points) /\ latest \in Points \cup {None} /\ series \in Climbing
    BY <1>1, <1>5 DEF Sendings, TileInv, BrowserTyped
  <2>3. latest' \in Points \cup {None} /\ series' = series
    <3>1. m.samples # <<>> => m.samples[1] \in Points
      BY <2>2
    <3> QED
      BY <2>1, <2>2, <3>1 DEF Tiles!ApplySnapshot, Tiles!Shown
  <2>4. InView'
    BY <2>1 DEF InView
  <2>5. BrowserTyped'
    <3>1. fetches' \in Seq(Fetches) /\ series' \in Climbing /\ clockOffset' \in Int
      BY <2>1, <2>3 DEF TileInv, BrowserTyped
    <3> QED
      BY <1>2, <2>1, <2>3, <3>1, Zenon DEF BrowserTyped
  <2> QED
    BY <1>2, <1>3, <2>4, <2>5 DEF TileInv
<1>6. CASE m.type = "sample"
  <2> DEFINE d == m.samples[1]
  <2>1. /\ Tiles!ApplySample(d) /\ heard' = (heard \/ ~Tiles!Duplicate(d))
        /\ clockOffset' = d.ts - time /\ UNCHANGED fetches
    BY <1>6 DEF Tiles!Receive
  <2>2. d \in Points /\ d.ts \in Int /\ d.n \in Nat /\ d.n <= reads /\ Pushes(1) /\ sent[1].samples[1] = d
    <3>1. d \in Points
      BY <1>1, <1>6 DEF Sendings
    <3>2. Pushes(1) /\ sent[1].samples[1] = d
      BY <1>1, <1>6 DEF Pushes
    <3>3. d.n <= reads
      BY <1>1, <3>2 DEF TileInv, InSocket
    <3> QED
      BY <3>1, <3>2, <3>3 DEF Points
  <2>3. \A i \in DOMAIN sent' :
          sent'[i].type = "sample" /\ d.n < sent'[i].samples[1].n /\ sent'[i].samples[1].n \in Nat
    <3> TAKE i \in DOMAIN sent'
    <3>1. i + 1 \in DOMAIN sent /\ sent'[i] = sent[i + 1] /\ 1 < i + 1 /\ sent'[i] \in Sendings
      BY <1>2
    <3>2. sent'[i].type = "sample" /\ d.n < sent'[i].samples[1].n
      BY <1>1, <2>2, <3>1 DEF TileInv, InSocket, Pushes
    <3>3. sent'[i].samples[1] \in Points
      BY <3>1, <3>2 DEF Sendings
    <3> QED
      BY <3>2, <3>3 DEF Points
  <2>4. sent' = <<>> => d = Tiles!LastReading /\ Tiles!LastReading' = Tiles!LastReading
    <3> SUFFICES ASSUME sent' = <<>> PROVE d = Tiles!LastReading /\ Tiles!LastReading' = Tiles!LastReading
      OBVIOUS
    <3>1. Len(sent) = 1
      BY <1>2
    <3> QED
      BY <1>1, <2>2, <3>1 DEF TileInv, InSocket, Tiles!LastReading
  <2>5. series \in Climbing /\ latest \in Points \cup {None}
    BY DEF TileInv, BrowserTyped
  <2> HIDE DEF d, m
  <2>6. /\ series' \in Climbing /\ series' # <<>> /\ latest' \in Points \cup {None}
        /\ Tiles!Duplicate(d) => series' = series /\ latest' = latest /\ Above(series[Len(series)], d)
        /\ ~Tiles!Duplicate(d) => series'[Len(series')] = d /\ (latest' = d \/ Above(latest', d))
    BY <2>1, <2>2, <2>5, SampleShown
  <2>7. heard' \in BOOLEAN /\ (heard' => heard \/ ~Tiles!Duplicate(d))
    BY <2>1
  <2>8. clockOffset' \in Int
    BY <2>1, <2>2 DEF TileInv, PiTyped
  <2>9. BrowserTyped'
    <3>1. fetches' \in Seq(Fetches)
      BY <2>1 DEF TileInv, BrowserTyped
    <3> QED
      BY <1>2, <2>6, <2>7, <2>8, <3>1, Zenon DEF BrowserTyped
  <2>10. ASSUME heard'
         PROVE  /\ series'[Len(series')].n \in Nat /\ series'[Len(series')].n <= d.n /\ socket = "open"
                /\ IF series'[Len(series')] = d THEN latest' = d \/ Above(latest', d) ELSE Above(series'[Len(series')], d)
    <3>1. socket = "open"
      BY <1>1 DEF TileInv, InSocket
    <3>2. CASE ~Tiles!Duplicate(d)
      BY <2>2, <2>6, <3>1, <3>2
    <3>3. CASE heard /\ Tiles!Duplicate(d)
      <4>1. series # <<>> /\ series[Len(series)].n < d.n
        BY <1>1, <2>2, <3>3 DEF TileInv, InView
      <4>2. series[Len(series)].n \in Nat
        BY <2>5, <4>1, LastOne DEF Points
      <4> QED
        BY <2>2, <2>6, <3>1, <3>3, <4>1, <4>2
    <3> QED
      BY <2>7, <2>10, <3>2, <3>3
  <2>11. ASSUME heard', sent' = <<>> PROVE Tiles!ShowsThePresent'
    <3>1. Tiles!LastReading' = d /\ Tiles!Last(series)' = series'[Len(series')]
      BY <2>4, <2>6, <2>11, LastOne
    <3>2. Tiles!Ascending(series)'
      <4>1. series' \in Seq(Points) /\ \A i, j \in DOMAIN series' : i < j => series'[i].ts < series'[j].ts
        BY <2>6 DEF Climbing
      <4>2. \A i \in 1 .. Len(series') - 1 : i \in DOMAIN series' /\ i + 1 \in DOMAIN series' /\ i < i + 1
        BY <4>1
      <4> QED
        BY <4>1, <4>2 DEF Tiles!Ascending
    <3> QED
      BY <2>10, <2>11, <3>1, <3>2 DEF Tiles!ShowsThePresent, Tiles!Held, Above
  <2>12. InView'
    <3> SUFFICES ASSUME heard'
                 PROVE  /\ socket' = "open" /\ series' # <<>> /\ series'[Len(series')].n <= reads'
                        /\ \A i \in DOMAIN sent' :
                             sent'[i].type = "sample" /\ series'[Len(series')].n < sent'[i].samples[1].n
                        /\ sent' = <<>> => Tiles!ShowsThePresent'
      BY Zenon DEF InView, Pushes
    <3>1. d.n <= reads' /\ reads' \in Nat
      BY <1>1, <2>2 DEF TileInv, PiTyped
    <3>2. series'[Len(series')].n \in Nat /\ series'[Len(series')].n <= d.n
      BY <2>10
    <3>3. \A i \in DOMAIN sent' : series'[Len(series')].n < sent'[i].samples[1].n
      BY <2>2, <2>3, <3>2
    <3> QED
      BY <1>1, <2>2, <2>3, <2>6, <2>10, <2>11, <3>1, <3>2, <3>3
  <2> QED
    BY <1>2, <1>3, <2>9, <2>12 DEF TileInv
<1> QED
  BY <1>1, <1>4, <1>5, <1>6 DEF Sendings

(* The tile and the sparkline come to show the last reading (store.ts:14-18, *)
(* 86-150).                                                                  *)
THEOREM PresentCorrect == ASSUME Tiles!ReadingsAssumption PROVE Tiles!Spec => []Tiles!ShowsThePresent
<1>1. Tiles!Init => TileInv
  BY InitTile
<1>2. ASSUME TileInv, [Tiles!Next]_(Tiles!vars) PROVE TileInv'
  <2>1. CASE UNCHANGED Tiles!vars
    <3>1. UNCHANGED <<time, offset, metrics, reads, socket, sent, series, latest, clockOffset, fetches, heard>>
      BY <2>1 DEF Tiles!vars, Tiles!pi, Tiles!state, Tiles!bounds
    <3> QED
      BY <1>2, <3>1, NothingSeen DEF TileInv, PiTyped, BrowserTyped
  <2>2. CASE Tiles!Next
    BY <1>2, <2>2, PollTile, ClockTile, SocketTile, ReceiveTile, FetchTile DEF Tiles!Next
  <2> QED
    BY <1>2, <2>1, <2>2
<1>3. TileInv => Tiles!ShowsThePresent
  <2> SUFFICES ASSUME TileInv PROVE Tiles!ShowsThePresent
    OBVIOUS
  <2>1. Tiles!Ascending(series)
    BY InOrderShown DEF TileInv
  <2> QED
    BY <2>1 DEF TileInv, InView, Tiles!ShowsThePresent
<1> QED
  BY <1>1, <1>2, <1>3, PTL DEF Tiles!Spec

-----------------------------------------------------------------------------
(***************************************************************************)
(* The charts.  The clock less what it was set by only goes on, and a run  *)
(* of housekeeping reads that unless it believed a wrong clock.  A minute is*)
(* made while its readings are there, an hour while its minutes are, and what*)
(* is pruned is past its retention and in the next level.                  *)
(***************************************************************************)
(* The clock less what it was set by: it only goes on. *)
Elapsed == wall - off
(* Not believed, a clock that is ahead is known to be. *)
ClockIs ==
  /\ wall \in Int /\ off \in Int /\ Elapsed \in Nat /\ zone \in DOMAIN Midnights
  /\ doubted \in (0 .. CLOCK_ACCEPT) \cup {None} /\ ahead \in Int \cup {None}
  /\ done \in Int /\ Charts!Minute(done) = done
  /\ ~low => off >= 0
  /\ ~(believed \/ low) => (ahead = None \/ ahead = off) /\ done <= Elapsed /\ ~late
Limits == retained \in [Charts!RESOLUTIONS -> Nat]
RowsAre ==
  /\ raw \in SUBSET Nat /\ IsFiniteSet(raw) /\ onTime \in SUBSET Nat
  /\ DOMAIN minutes \in SUBSET Nat /\ IsFiniteSet(DOMAIN minutes)
  /\ DOMAIN hours \in SUBSET Nat /\ IsFiniteSet(DOMAIN hours)
  /\ DOMAIN days \in SUBSET Int /\ IsFiniteSet(DOMAIN days)
  /\ \A m \in DOMAIN minutes : Charts!Minute(m) = m /\ m < done
  /\ \A h \in DOMAIN hours : Charts!Hour(h) = h /\ h < Charts!Hour(done)
(* A reading is raw till its minute is done and it is past its retention; *)
(* its minute is there till its hour is, and so on.                         *)
RawKept == \A r \in onTime : r >= done \/ r >= Elapsed - retained["raw"] => r \in raw
MinutesKept ==
  \A r \in onTime :
    /\ Charts!Minute(r) < done
    /\ Charts!Minute(r) >= Elapsed - retained["1m"] \/ Charts!Hour(r) >= Charts!Hour(done)
    => Charts!Minute(r) \in DOMAIN minutes
HoursKept ==
  \A r \in onTime :
    /\ Charts!Hour(r) < Charts!Hour(done) /\ Charts!Hour(r) >= Elapsed - retained["1h"]
    => Charts!Hour(r) \in DOMAIN hours
Plain == ~(believed \/ low \/ late \/ lengthened)
SeriesInv == ClockIs /\ Limits /\ (Plain => RowsAre /\ RawKept /\ MinutesKept /\ HoursKept)

(* Buckets: the last multiple of their length that is not later. *)
LEMMA Floors ==
  ASSUME NEW t \in Int, NEW s \in Nat \ {0}
  PROVE  Charts!Floor(t, s) \in Int /\ Charts!Floor(t, s) <= t /\ t < Charts!Floor(t, s) + s
<1>1. PICK q \in Int : q = t \div s
  OBVIOUS
<1>2. s * q <= t /\ t < s * (q + 1)
  BY <1>1
<1>3. s * (q + 1) = s * q + s /\ q * s = s * q /\ q * s \in Int
  OBVIOUS
<1> QED
  BY <1>1, <1>2, <1>3 DEF Charts!Floor

LEMMA FloorsClimb ==
  ASSUME NEW s \in Nat \ {0}, NEW t \in Int, NEW u \in Int
  PROVE  /\ t <= u => Charts!Floor(t, s) <= Charts!Floor(u, s)
         /\ Charts!Floor(t, s) < Charts!Floor(u, s) => Charts!Floor(t, s) + s <= Charts!Floor(u, s)
         /\ Charts!Floor(Charts!Floor(t, s), s) = Charts!Floor(t, s)
<1> DEFINE F(x) == Charts!Floor(x, s)
<1>1. ASSUME NEW x \in Int, NEW y \in Int, F(x) < F(y) PROVE F(x) + s <= F(y)
  <2>1. PICK a \in Int, b \in Int : F(x) = a * s /\ F(y) = b * s
    <3>1. x \div s \in Int /\ F(x) = (x \div s) * s /\ y \div s \in Int /\ F(y) = (y \div s) * s
      BY DEF Charts!Floor
    <3> HIDE DEF F
    <3> QED
      BY <3>1
  <2>2. a < b
    BY <1>1, <2>1
  <2>3. (a + 1) * s <= b * s
    BY <2>2
  <2> QED
    BY <2>1, <2>3
<1>2. ASSUME NEW x \in Int, NEW y \in Int, x <= y, ~(F(x) <= F(y)) PROVE FALSE
  <2>1. F(x) \in Int /\ F(y) \in Int /\ F(x) <= x /\ y < F(y) + s
    BY Floors
  <2>2. F(y) + s <= F(x)
    BY <1>1, <1>2, <2>1
  <2> HIDE DEF F
  <2> QED
    BY <1>2, <2>1, <2>2
<1>3. F(F(t)) = F(t)
  <2>1. F(t) \in Int /\ F(F(t)) \in Int /\ F(F(t)) <= F(t) /\ F(t) < F(F(t)) + s
    BY Floors
  <2>2. F(F(t)) < F(t) => F(F(t)) + s <= F(t)
    BY <1>1, <2>1
  <2> HIDE DEF F
  <2> QED
    BY <2>1, <2>2
<1> QED
  BY <1>1, <1>2, <1>3

(* A minute lies in the hour of its readings. *)
LEMMA Bucket ==
  ASSUME Charts!RollUpsAssumption, NEW t \in Int
  PROVE  /\ Charts!Minute(t) \in Int /\ Charts!Minute(t) <= t /\ t < Charts!Minute(t) + MIN
         /\ Charts!Hour(t) \in Int /\ Charts!Hour(t) <= t /\ t < Charts!Hour(t) + HOUR
         /\ Charts!Minute(Charts!Minute(t)) = Charts!Minute(t) /\ Charts!Hour(Charts!Hour(t)) = Charts!Hour(t)
         /\ Charts!Hour(t) <= Charts!Minute(t) /\ Charts!Hour(Charts!Minute(t)) = Charts!Hour(t)
         /\ Charts!Minute(Charts!Hour(t)) = Charts!Hour(t)
         /\ t \in Nat => Charts!Minute(t) \in Nat /\ Charts!Hour(t) \in Nat
<1> USE DEF Charts!Minute, Charts!Hour
<1>1. MIN \in Nat \ {0} /\ HOUR \in Nat \ {0} /\ HOUR % MIN = 0
  BY DEF Charts!RollUpsAssumption
<1> DEFINE m == Charts!Floor(t, MIN)
           h == Charts!Floor(t, HOUR)
<1>2. m \in Int /\ m <= t /\ t < m + MIN /\ h \in Int /\ h <= t /\ t < h + HOUR
  BY <1>1, Floors
<1>3. Charts!Floor(m, MIN) = m /\ Charts!Floor(h, HOUR) = h
  BY <1>1, FloorsClimb
<1>4. Charts!Floor(h, MIN) = h
  <2>1. PICK q \in Int : h = q * HOUR
    BY <1>1 DEF Charts!Floor
  <2>2. PICK k \in Int : HOUR = k * MIN
    <3>1. PICK k \in Int : k = HOUR \div MIN
      BY <1>1
    <3>2. HOUR = MIN * k
      BY <1>1, <3>1
    <3>3. MIN * k = k * MIN /\ k * MIN \in Int
      BY <1>1
    <3> QED
      BY <1>1, <3>2, <3>3
  <2>3. h = (q * k) * MIN /\ q * k \in Int
    BY <1>1, <2>1, <2>2
  <2>4. Charts!Floor(h, MIN) \in Int /\ Charts!Floor(h, MIN) <= h /\ h < Charts!Floor(h, MIN) + MIN
    BY <1>1, <1>2, Floors
  <2>5. PICK n \in Int : Charts!Floor(h, MIN) = n * MIN
    <3>1. h \div MIN \in Int /\ Charts!Floor(h, MIN) = (h \div MIN) * MIN
      <4> HIDE DEF h
      <4> QED
        BY <1>1, <1>2 DEF Charts!Floor
    <3> HIDE DEF h
    <3> QED
      BY <3>1
  <2> HIDE DEF h
  <2>6. ASSUME n * MIN < (q * k) * MIN PROVE FALSE
    <3>1. n < q * k
      BY <1>1, <2>3, <2>6
    <3>2. (n + 1) * MIN <= (q * k) * MIN
      BY <1>1, <2>3, <3>1
    <3> QED
      BY <1>1, <2>3, <2>4, <2>5, <3>2
  <2> QED
    BY <1>2, <2>3, <2>4, <2>5, <2>6
<1>5. h <= m
  BY <1>1, <1>2, <1>4, FloorsClimb
<1>6. Charts!Floor(m, HOUR) = h
  <2>1. Charts!Floor(h, HOUR) <= Charts!Floor(m, HOUR) /\ Charts!Floor(m, HOUR) <= h
    BY <1>1, <1>2, <1>5, FloorsClimb
  <2>2. Charts!Floor(m, HOUR) \in Int
    BY <1>1, <1>2, Floors
  <2> HIDE DEF m, h
  <2> QED
    BY <1>2, <1>3, <2>1, <2>2
<1>7. t \in Nat => h >= 0 /\ m >= 0
  <2>1. Charts!Floor(0, HOUR) = 0
    BY <1>1 DEF Charts!Floor
  <2>2. t \in Nat => Charts!Floor(0, HOUR) <= h
    BY <1>1, FloorsClimb
  <2> HIDE DEF m, h
  <2> QED
    BY <1>2, <1>5, <2>1, <2>2
<1> QED
  BY <1>2, <1>3, <1>4, <1>5, <1>6, <1>7

(* They climb with time. *)
LEMMA Buckets ==
  ASSUME Charts!RollUpsAssumption, NEW t \in Int, NEW u \in Int
  PROVE  /\ t <= u => Charts!Minute(t) <= Charts!Minute(u) /\ Charts!Hour(t) <= Charts!Hour(u)
         /\ Charts!Minute(t) < Charts!Minute(u) => Charts!Minute(t) + MIN <= Charts!Minute(u)
         /\ Charts!Hour(t) < Charts!Hour(u) => Charts!Hour(t) + HOUR <= Charts!Hour(u)
BY FloorsClimb DEF Charts!RollUpsAssumption, Charts!Minute, Charts!Hour

LEMMA Extremes ==
  ASSUME NEW S \in SUBSET Int, IsFiniteSet(S), S # {}
  PROVE  /\ Charts!Max(S) \in S /\ \A k \in S : k <= Charts!Max(S)
         /\ Charts!Min(S) \in S /\ \A k \in S : Charts!Min(S) <= k
<1>1. PICK m \in S : \A k \in S : k <= m
  BY Greatest
<1>2. \A k \in S : m >= k
  BY <1>1
<1>3. Charts!Max(S) \in S /\ \A k \in S : Charts!Max(S) >= k
  BY <1>2 DEF Charts!Max
<1> DEFINE T == {0 - k : k \in S}
<1>4. IsFiniteSet(T)
  <2>1. [k \in S |-> 0 - k] \in Surjection(S, T)
    BY DEF Surjection
  <2> QED
    BY <2>1, FS_Surjection
<1>5. PICK n \in T : \A k \in T : k <= n
  <2>1. T \in SUBSET Int /\ T # {}
    OBVIOUS
  <2> HIDE DEF T
  <2> QED
    BY <1>4, <2>1, Greatest
<1>6. PICK l \in S : n = 0 - l
  OBVIOUS
<1>7. \A k \in S : l <= k
  <2> TAKE k \in S
  <2>1. 0 - k \in T /\ k \in Int /\ l \in Int
    OBVIOUS
  <2> HIDE DEF T
  <2>2. 0 - k <= 0 - l
    BY <1>5, <1>6, <2>1
  <2> QED
    BY <2>1, <2>2
<1>8. Charts!Min(S) \in S /\ \A k \in S : Charts!Min(S) <= k
  BY <1>7 DEF Charts!Min
<1>9. \A k \in S : k <= Charts!Max(S)
  BY <1>3
<1> QED
  BY <1>3, <1>8, <1>9

(* Minutes up to end: every reading since the minutes done is in one.        *)
LEMMA MinutesMade ==
  ASSUME Charts!RollUpsAssumption, RowsAre, RawKept, done \in Int, Charts!Minute(done) = done,
         NEW end \in Int, Charts!Minute(end) = end, done <= end
  PROVE  LET mins == Charts!RollUpMinutes(end) IN
         /\ DOMAIN mins \in SUBSET Nat /\ IsFiniteSet(DOMAIN mins)
         /\ \A m \in DOMAIN mins : Charts!Minute(m) = m /\ m < end
         /\ \A r \in onTime : /\ Charts!Minute(r) < end
                              /\ Charts!Minute(r) >= done \/ Charts!Minute(r) \in DOMAIN minutes
                              => Charts!Minute(r) \in DOMAIN mins
<1> DEFINE mins == Charts!RollUpMinutes(end)
           start == Charts!NextStart(minutes, raw, end, MIN)
           from == {r \in raw : start <= r /\ r < end}
           new == {Charts!Minute(r) : r \in from}
<1>0. MIN \in Nat \ {0}
  BY DEF Charts!RollUpsAssumption
<1>1. DOMAIN mins = DOMAIN minutes \cup new
  BY DEF Charts!RollUpMinutes, Charts!Replaced
<1>2. from \in SUBSET Nat /\ IsFiniteSet(from)
  BY FS_Subset DEF RowsAre
<1>3. IsFiniteSet(new)
  <2> HIDE DEF from
  <2>1. [r \in from |-> Charts!Minute(r)] \in Surjection(from, new)
    BY DEF Surjection
  <2> QED
    BY <1>2, <2>1, FS_Surjection
<1>4. \A m \in new : m \in Nat /\ Charts!Minute(m) = m /\ m < end
  <2> TAKE m \in new
  <2>1. PICK r \in Nat : m = Charts!Minute(r) /\ r < end
    BY <1>2
  <2> QED
    BY <2>1, Bucket
<1>5. IsFiniteSet(DOMAIN mins)
  <2>1. IsFiniteSet(DOMAIN minutes)
    BY DEF RowsAre
  <2> HIDE DEF mins, new
  <2> QED
    BY <1>1, <1>3, <2>1, FS_Union
<1>6. \A m \in DOMAIN minutes : m \in Nat /\ Charts!Minute(m) = m /\ m < end
  BY DEF RowsAre
<1>7. ASSUME NEW r \in onTime, Charts!Minute(r) < end, Charts!Minute(r) >= done
      PROVE  Charts!Minute(r) \in new
  <2>1. r \in Nat /\ Charts!Minute(r) \in Int /\ Charts!Minute(r) <= r /\ r < Charts!Minute(r) + MIN
    BY Bucket DEF RowsAre
  <2>2. r < end
    BY <1>0, <1>7, <2>1, Buckets
  <2>3. r >= done /\ r \in raw
    BY <1>7, <2>1 DEF RawKept
  <2>4. start <= r
    <3> DEFINE newest == {t \in DOMAIN minutes : t < end}
    <3>1. newest \in SUBSET Int /\ IsFiniteSet(newest)
      BY FS_Subset DEF RowsAre
    <3>2. CASE newest # {}
      <4>1. start = Charts!Max(newest) + MIN
        BY <3>2 DEF Charts!NextStart
      <4>2. Charts!Max(newest) \in newest
        <5> HIDE DEF newest
        <5> QED
          BY <3>1, <3>2, Extremes
      <4>3. PICK m \in DOMAIN minutes : m = Charts!Max(newest)
        BY <4>2
      <4>4. m \in Nat /\ Charts!Minute(m) = m /\ m < done
        BY DEF RowsAre
      <4>5. m + MIN <= done
        BY <4>4, Buckets
      <4> HIDE DEF start
      <4> QED
        BY <1>0, <2>1, <2>3, <4>1, <4>3, <4>4, <4>5
    <3>3. CASE newest = {}
      <4>1. start = Charts!Floor(Charts!Min(raw), MIN)
        BY <2>3, <3>3 DEF Charts!NextStart
      <4>2. Charts!Min(raw) \in raw /\ Charts!Min(raw) <= r /\ Charts!Min(raw) \in Int
        <5>1. raw \in SUBSET Int /\ IsFiniteSet(raw) /\ raw # {}
          BY <2>3 DEF RowsAre
        <5> QED
          BY <2>3, <5>1, Extremes
      <4>3. start \in Int /\ start <= Charts!Min(raw)
        BY <1>0, <4>1, <4>2, Floors
      <4> HIDE DEF start
      <4> QED
        BY <2>1, <4>2, <4>3
    <3> QED
      BY <3>2, <3>3
  <2> QED
    BY <2>2, <2>3, <2>4
<1>8. DOMAIN mins \in SUBSET Nat /\ \A m \in DOMAIN mins : Charts!Minute(m) = m /\ m < end
  BY <1>1, <1>4, <1>6
<1> HIDE DEF mins, new
<1> QED
  BY <1>1, <1>5, <1>7, <1>8 DEF mins

(* Hours up to end: every minute since the hours done is in one.             *)
LEMMA HoursMade ==
  ASSUME Charts!RollUpsAssumption, RowsAre, done \in Int,
         NEW mins, DOMAIN mins \in SUBSET Nat, IsFiniteSet(DOMAIN mins),
         NEW end \in Int, Charts!Hour(end) = end, Charts!Hour(done) <= end
  PROVE  LET rows == Charts!RollUpHours(mins, end) IN
         /\ DOMAIN rows \in SUBSET Nat /\ IsFiniteSet(DOMAIN rows)
         /\ \A h \in DOMAIN rows : Charts!Hour(h) = h /\ h < end
         /\ DOMAIN hours \subseteq DOMAIN rows
         /\ \A m \in DOMAIN mins : m < end /\ Charts!Hour(m) >= Charts!Hour(done) => Charts!Hour(m) \in DOMAIN rows
<1> DEFINE rows == Charts!RollUpHours(mins, end)
           start == Charts!NextStart(hours, DOMAIN mins, end, HOUR)
           from == {m \in DOMAIN mins : start <= m /\ m < end}
           new == {Charts!Hour(m) : m \in from}
<1>0. HOUR \in Nat \ {0} /\ Charts!Hour(done) \in Int
  BY Bucket DEF Charts!RollUpsAssumption
<1>1. DOMAIN rows = DOMAIN hours \cup new
  BY DEF Charts!RollUpHours, Charts!Replaced, Charts!Within
<1>2. from \in SUBSET Nat /\ IsFiniteSet(from)
  BY FS_Subset
<1>3. IsFiniteSet(new)
  <2> HIDE DEF from
  <2>1. [m \in from |-> Charts!Hour(m)] \in Surjection(from, new)
    BY DEF Surjection
  <2> QED
    BY <1>2, <2>1, FS_Surjection
<1>4. \A h \in new : h \in Nat /\ Charts!Hour(h) = h /\ h < end
  <2> TAKE h \in new
  <2>1. PICK m \in Nat : h = Charts!Hour(m) /\ m < end
    BY <1>2
  <2> QED
    BY <2>1, Bucket
<1>5. IsFiniteSet(DOMAIN rows)
  <2>1. IsFiniteSet(DOMAIN hours)
    BY DEF RowsAre
  <2> HIDE DEF rows, new
  <2> QED
    BY <1>1, <1>3, <2>1, FS_Union
<1>6. \A h \in DOMAIN hours : h \in Nat /\ Charts!Hour(h) = h /\ h < end
  <2> TAKE h \in DOMAIN hours
  <2>1. h \in Nat /\ Charts!Hour(h) = h /\ h < Charts!Hour(done)
    BY DEF RowsAre
  <2> QED
    BY <1>0, <2>1
<1>7. ASSUME NEW m \in DOMAIN mins, m < end, Charts!Hour(m) >= Charts!Hour(done)
      PROVE  Charts!Hour(m) \in new
  <2>1. m \in Nat /\ Charts!Hour(m) \in Int /\ Charts!Hour(m) <= m
    BY Bucket
  <2>2. start <= m
    <3> DEFINE newest == {t \in DOMAIN hours : t < end}
    <3>1. newest \in SUBSET Int /\ IsFiniteSet(newest)
      BY FS_Subset DEF RowsAre
    <3>2. CASE newest # {}
      <4>1. start = Charts!Max(newest) + HOUR
        BY <3>2 DEF Charts!NextStart
      <4>2. Charts!Max(newest) \in newest
        <5> HIDE DEF newest
        <5> QED
          BY <3>1, <3>2, Extremes
      <4>3. PICK h \in DOMAIN hours : h = Charts!Max(newest)
        BY <4>2
      <4>4. h \in Nat /\ Charts!Hour(h) = h /\ h < Charts!Hour(done)
        BY DEF RowsAre
      <4>5. h + HOUR <= Charts!Hour(done)
        BY <4>4, Buckets
      <4> HIDE DEF start
      <4> QED
        BY <1>0, <1>7, <2>1, <4>1, <4>3, <4>4, <4>5
    <3>3. CASE newest = {}
      <4>1. start = Charts!Floor(Charts!Min(DOMAIN mins), HOUR)
        BY <3>3 DEF Charts!NextStart
      <4>2. Charts!Min(DOMAIN mins) \in DOMAIN mins /\ Charts!Min(DOMAIN mins) <= m
        <5>1. DOMAIN mins \in SUBSET Int /\ DOMAIN mins # {}
          OBVIOUS
        <5> QED
          BY <5>1, Extremes
      <4>3. PICK l \in Nat : l = Charts!Min(DOMAIN mins)
        BY <4>2
      <4>4. start \in Int /\ start <= l
        BY <1>0, <4>1, <4>3, Floors
      <4> HIDE DEF start
      <4> QED
        BY <2>1, <4>2, <4>3, <4>4
    <3> QED
      BY <3>2, <3>3
  <2> QED
    BY <1>7, <2>2
<1>8. DOMAIN rows \in SUBSET Nat /\ \A h \in DOMAIN rows : Charts!Hour(h) = h /\ h < end
  BY <1>1, <1>4, <1>6
<1> HIDE DEF rows, new
<1> QED
  BY <1>1, <1>5, <1>7, <1>8 DEF rows

(* Days begin when a zone says, at whole ticks.                              *)
LEMMA DayStarts ==
  ASSUME Charts!RollUpsAssumption, zone \in DOMAIN Midnights, NEW S \in SUBSET Nat, IsFiniteSet(S)
  PROVE  LET D == {Charts!LocalDayStart(t) : t \in S} IN  D \in SUBSET Int /\ IsFiniteSet(D)
<1> DEFINE D == {Charts!LocalDayStart(t) : t \in S}
<1>1. \A t \in S : Charts!LocalDayStart(t) \in Int
  <2> TAKE t \in S
  <2> DEFINE B == {m \in Midnights[zone] : m <= t}
  <2>1. Midnights[zone] \subseteq Int /\ IsFiniteSet(Midnights[zone]) /\ \E m \in Midnights[zone] : m <= 0
    BY DEF Charts!RollUpsAssumption, Charts!IsFiniteSet, IsFiniteSet
  <2>2. B \in SUBSET Int /\ IsFiniteSet(B) /\ B # {}
    BY <2>1, FS_Subset
  <2> HIDE DEF B
  <2>3. Charts!Max(B) \in Int
    BY <2>2, Extremes
  <2> QED
    BY <2>3 DEF B, Charts!LocalDayStart
<1>2. [t \in S |-> Charts!LocalDayStart(t)] \in Surjection(S, D)
  BY DEF Surjection
<1> QED
  BY <1>1, <1>2, FS_Surjection

LEMMA KeptOnes ==
  ASSUME NEW rows, NEW cutoff PROVE DOMAIN Charts!Kept(rows, cutoff) = {t \in DOMAIN rows : t >= cutoff}
BY DEF Charts!Kept, Charts!RestrictDomain, Charts!Restrict

(* A run of housekeeping at the time it is.                                  *)
LEMMA HouseKeeps ==
  ASSUME Charts!RollUpsAssumption, ClockIs, Limits, RowsAre, RawKept, MinutesKept, HoursKept, done <= Elapsed,
         Charts!RunHousekeeping(Elapsed), UNCHANGED <<wall, off, retained, onTime>>
  PROVE  RowsAre' /\ RawKept' /\ MinutesKept' /\ HoursKept'
<1>1. PICK now \in Nat : now = Elapsed
  BY DEF ClockIs
<1>2. Elapsed' = now /\ done \in Int /\ Charts!Minute(done) = done /\ done <= now
  BY <1>1 DEF Elapsed, ClockIs
<1>3. PICK end \in Nat : end = Charts!Minute(now)
  BY Bucket
<1>4. PICK full \in Nat : full = Charts!Hour(end)
  BY Bucket
<1>5. /\ Charts!Minute(end) = end /\ Charts!Hour(full) = full /\ end <= now /\ full <= end
      /\ done <= end /\ Charts!Hour(done) <= full /\ Charts!Hour(done) \in Int
  <2>1. Charts!Minute(done) <= Charts!Minute(now)
    BY <1>2, Buckets
  <2>2. done <= end
    BY <1>2, <1>3, <2>1
  <2> QED
    BY <1>2, <1>3, <1>4, <2>2, Bucket, Buckets
<1> DEFINE mins == Charts!RollUpMinutes(end)
           hrs == Charts!RollUpHours(mins, full)
           day == Charts!LocalDayStart(end)
           dys == Charts!RollUpDays(mins, day)
<1>6. /\ hours' = Charts!Kept(hrs, now - retained["1h"]) /\ days' = Charts!Kept(dys, now - retained["1d"])
      /\ minutes' = Charts!Kept(mins, Charts!Least(now - retained["1m"], Charts!MinuteCovered(full, day)))
      /\ raw' = {r \in raw : r >= Charts!Least(now - retained["raw"], end)}
      /\ done' = IF end > done THEN end ELSE done
  BY <1>1, <1>3, <1>4 DEF Charts!RunHousekeeping
<1>7. done' = end
  BY <1>2, <1>5, <1>6
<1>8. /\ DOMAIN mins \in SUBSET Nat /\ IsFiniteSet(DOMAIN mins)
      /\ \A m \in DOMAIN mins : Charts!Minute(m) = m /\ m < end
      /\ \A r \in onTime : /\ Charts!Minute(r) < end
                           /\ Charts!Minute(r) >= done \/ Charts!Minute(r) \in DOMAIN minutes
                           => Charts!Minute(r) \in DOMAIN mins
  BY <1>2, <1>5, MinutesMade
<1>9. DOMAIN dys \in SUBSET Int /\ IsFiniteSet(DOMAIN dys)
  <2> DEFINE W == Charts!Within(mins, Charts!NextDayStart(DOMAIN mins, day), day)
             D == {Charts!LocalDayStart(t) : t \in W}
  <2>1. DOMAIN dys = DOMAIN days \cup D
    BY DEF Charts!RollUpDays, Charts!MergeDay, Charts!DaysOf, Charts!Restrict
  <2>2. W \in SUBSET Nat /\ IsFiniteSet(W)
    <3>1. W \subseteq DOMAIN mins
      BY DEF Charts!Within
    <3> HIDE DEF W, mins
    <3> QED
      BY <1>8, <3>1, FS_Subset
  <2>3. D \in SUBSET Int /\ IsFiniteSet(D)
    <3> HIDE DEF W
    <3> QED
      BY <2>2, DayStarts DEF ClockIs
  <2>4. DOMAIN days \in SUBSET Int /\ IsFiniteSet(DOMAIN days)
    BY DEF RowsAre
  <2> HIDE DEF D, dys
  <2> QED
    BY <2>1, <2>3, <2>4, FS_Union
<1> HIDE DEF mins
<1>10. /\ DOMAIN hrs \in SUBSET Nat /\ IsFiniteSet(DOMAIN hrs)
       /\ \A h \in DOMAIN hrs : Charts!Hour(h) = h /\ h < full
       /\ DOMAIN hours \subseteq DOMAIN hrs
       /\ \A m \in DOMAIN mins : m < full /\ Charts!Hour(m) >= Charts!Hour(done) => Charts!Hour(m) \in DOMAIN hrs
  BY <1>2, <1>5, <1>8, HoursMade
<1>11. day \in Int
  <2>1. zone \in DOMAIN Midnights /\ {end} \in SUBSET Nat /\ IsFiniteSet({end})
    BY FS_Singleton DEF ClockIs
  <2>2. {Charts!LocalDayStart(t) : t \in {end}} \in SUBSET Int
    BY <2>1, DayStarts
  <2> QED
    BY <2>2
<1> HIDE DEF hrs, dys, day
<1>12. retained["raw"] \in Nat /\ retained["1m"] \in Nat /\ retained["1h"] \in Nat
  BY DEF Limits, Charts!RESOLUTIONS
<1> DEFINE cut == Charts!Least(now - retained["1m"], Charts!MinuteCovered(full, day))
<1>13. cut \in Int /\ cut <= now - retained["1m"] /\ cut <= full
  BY <1>11, <1>12 DEF Charts!Least, Charts!MinuteCovered
<1> HIDE DEF cut
<1>14. /\ DOMAIN hours' = {h \in DOMAIN hrs : h >= now - retained["1h"]}
       /\ DOMAIN days' = {d \in DOMAIN dys : d >= now - retained["1d"]}
       /\ DOMAIN minutes' = {m \in DOMAIN mins : m >= cut}
  BY <1>6, KeptOnes DEF cut
<1>15. RowsAre'
  <2>1. raw' \in SUBSET Nat /\ IsFiniteSet(raw')
    <3>1. raw' \subseteq raw
      BY <1>6
    <3> QED
      BY <3>1, FS_Subset DEF RowsAre
  <2>2. IsFiniteSet(DOMAIN minutes') /\ IsFiniteSet(DOMAIN hours') /\ IsFiniteSet(DOMAIN days')
    <3>1. DOMAIN minutes' \subseteq DOMAIN mins /\ DOMAIN hours' \subseteq DOMAIN hrs /\ DOMAIN days' \subseteq DOMAIN dys
      BY <1>14
    <3> QED
      BY <1>8, <1>9, <1>10, <3>1, FS_Subset
  <2>3. DOMAIN minutes' \in SUBSET Nat /\ DOMAIN hours' \in SUBSET Nat /\ DOMAIN days' \in SUBSET Int
    BY <1>8, <1>9, <1>10, <1>14
  <2>4. \A m \in DOMAIN minutes' : Charts!Minute(m) = m /\ m < end
    BY <1>8, <1>14
  <2>5. \A h \in DOMAIN hours' : Charts!Hour(h) = h /\ h < Charts!Hour(end)
    BY <1>4, <1>10, <1>14
  <2>6. onTime' \in SUBSET Nat
    BY DEF RowsAre
  <2>7. /\ \A m \in DOMAIN minutes' : Charts!Minute(m)' = m /\ m < done'
        /\ \A h \in DOMAIN hours' : Charts!Hour(h)' = h /\ h < Charts!Hour(done)'
    <3>1. \A x : Charts!Minute(x)' = Charts!Minute(x) /\ Charts!Hour(x)' = Charts!Hour(x)
      BY DEF Charts!Minute, Charts!Hour, Charts!Floor
    <3>2. Charts!Hour(done)' = Charts!Hour(end)
      BY <1>7 DEF Charts!Hour, Charts!Floor
    <3> QED
      BY <1>7, <2>4, <2>5, <3>1, <3>2
  <2> QED
    BY <2>1, <2>2, <2>3, <2>6, <2>7 DEF RowsAre
<1>16. RawKept'
  <2>1. ASSUME NEW r \in onTime, r >= end \/ r >= now - retained["raw"] PROVE r \in raw'
    <3>1. r \in Nat
      BY DEF RowsAre
    <3>2. r \in raw
      BY <1>1, <1>2, <1>5, <2>1, <3>1 DEF RawKept
    <3>3. r >= Charts!Least(now - retained["raw"], end)
      BY <1>12, <2>1, <3>1 DEF Charts!Least
    <3> QED
      BY <1>6, <3>2, <3>3
  <2> QED
    BY <1>2, <1>7, <2>1 DEF RawKept
<1>17. ASSUME NEW r \in onTime, Charts!Minute(r) < end,
              Charts!Minute(r) >= now - retained["1m"] \/ Charts!Hour(r) >= full
       PROVE  Charts!Minute(r) \in DOMAIN mins
  <2>1. r \in Nat /\ Charts!Minute(r) \in Nat /\ Charts!Hour(r) \in Nat
    BY Bucket DEF RowsAre
  <2>2. Charts!Minute(r) >= done \/ Charts!Minute(r) \in DOMAIN minutes
    <3> SUFFICES ASSUME Charts!Minute(r) < done PROVE Charts!Minute(r) \in DOMAIN minutes
      BY <1>2, <2>1
    <3>1. Charts!Minute(r) >= Elapsed - retained["1m"] \/ Charts!Hour(r) >= Charts!Hour(done)
      BY <1>1, <1>5, <1>17, <2>1
    <3> QED
      BY <3>1 DEF MinutesKept
  <2> QED
    BY <1>8, <1>17, <2>2
<1>18. MinutesKept'
  <2>1. ASSUME NEW r \in onTime, Charts!Minute(r) < end,
               Charts!Minute(r) >= now - retained["1m"] \/ Charts!Hour(r) >= full
        PROVE  Charts!Minute(r) \in DOMAIN minutes'
    <3>1. r \in Nat /\ Charts!Minute(r) \in Nat /\ Charts!Hour(r) \in Nat /\ Charts!Hour(r) <= Charts!Minute(r)
      BY Bucket DEF RowsAre
    <3>2. Charts!Minute(r) >= cut
      BY <1>12, <1>13, <2>1, <3>1
    <3> QED
      BY <1>14, <1>17, <2>1, <3>2
  <2>2. Charts!Hour(end) = full
    BY <1>4
  <2> QED
    BY <1>2, <1>7, <2>1, <2>2 DEF MinutesKept, Charts!Minute, Charts!Hour, Charts!Floor
<1>19. HoursKept'
  <2>1. ASSUME NEW r \in onTime, Charts!Hour(r) < full, Charts!Hour(r) >= now - retained["1h"]
        PROVE  Charts!Hour(r) \in DOMAIN hours'
    <3>1. /\ r \in Nat /\ Charts!Minute(r) \in Nat /\ Charts!Hour(r) \in Nat
          /\ Charts!Hour(r) <= Charts!Minute(r) /\ Charts!Hour(Charts!Minute(r)) = Charts!Hour(r)
      BY Bucket DEF RowsAre
    <3>2. CASE Charts!Hour(r) < Charts!Hour(done)
      <4>1. Charts!Hour(r) \in DOMAIN hours
        BY <1>1, <2>1, <3>2 DEF HoursKept
      <4> QED
        BY <1>10, <1>14, <2>1, <4>1
    <3>3. CASE Charts!Hour(r) >= Charts!Hour(done)
      <4>1. Charts!Minute(r) < full
        <5> SUFFICES ASSUME full <= Charts!Minute(r) PROVE FALSE
          BY <3>1
        <5>1. Charts!Hour(full) <= Charts!Hour(Charts!Minute(r))
          BY <3>1, Buckets
        <5> QED
          BY <1>5, <2>1, <3>1, <5>1
      <4>2. Charts!Minute(r) \in DOMAIN mins
        <5>1. Charts!Minute(r) < end
          BY <1>5, <3>1, <4>1
        <5>2. Charts!Minute(r) >= done \/ Charts!Minute(r) \in DOMAIN minutes
          BY <1>2, <3>1, <3>3 DEF MinutesKept
        <5> QED
          BY <1>8, <5>1, <5>2
      <4>3. Charts!Hour(r) \in DOMAIN hrs
        BY <1>10, <3>1, <3>3, <4>1, <4>2
      <4> QED
        BY <1>14, <2>1, <4>3
    <3> QED
      BY <1>5, <3>1, <3>2, <3>3
  <2>2. Charts!Hour(end) = full
    BY <1>4
  <2> QED
    BY <1>2, <1>7, <2>1, <2>2 DEF HoursKept, Charts!Hour, Charts!Floor
<1> QED
  BY <1>15, <1>16, <1>18, <1>19

(* Time goes on, and what is kept gets no longer.                            *)
LEMMA LaterKept ==
  ASSUME ClockIs, Limits, Limits', RowsAre, RawKept, MinutesKept, HoursKept, Charts!RollUpsAssumption,
         UNCHANGED <<raw, minutes, hours, days, onTime, done>>, Elapsed' \in Nat, Elapsed <= Elapsed',
         \A l \in Charts!RESOLUTIONS : retained'[l] <= retained[l]
  PROVE  RowsAre' /\ RawKept' /\ MinutesKept' /\ HoursKept'
<1>1. Elapsed \in Nat
  BY DEF ClockIs
<1>2. /\ retained["raw"] \in Nat /\ retained["1m"] \in Nat /\ retained["1h"] \in Nat
      /\ retained'["raw"] \in Nat /\ retained'["1m"] \in Nat /\ retained'["1h"] \in Nat
      /\ retained'["raw"] <= retained["raw"] /\ retained'["1m"] <= retained["1m"] /\ retained'["1h"] <= retained["1h"]
  BY DEF Limits, Charts!RESOLUTIONS
<1>3. \A r \in onTime : r \in Nat /\ Charts!Minute(r) \in Nat /\ Charts!Hour(r) \in Nat
  BY Bucket DEF RowsAre
<1>4. \A x : Charts!Minute(x)' = Charts!Minute(x) /\ Charts!Hour(x)' = Charts!Hour(x)
  BY DEF Charts!Minute, Charts!Hour, Charts!Floor
<1>5. Charts!Hour(done)' = Charts!Hour(done)
  BY DEF Charts!Hour, Charts!Floor
<1> DEFINE now == Elapsed
<1>6. PICK old \in Nat, new \in Nat : old = Elapsed /\ new = Elapsed' /\ old <= new
  BY <1>1
<1>7. RowsAre'
  BY <1>4, <1>5 DEF RowsAre
<1>8. RawKept'
  BY <1>2, <1>3, <1>6 DEF RawKept
<1>9. MinutesKept'
  <2>1. ASSUME NEW r \in onTime, Charts!Minute(r) < done,
               Charts!Minute(r) >= new - retained'["1m"] \/ Charts!Hour(r) >= Charts!Hour(done)
        PROVE  Charts!Minute(r) \in DOMAIN minutes
    <3>1. Charts!Minute(r) >= new - retained'["1m"] => Charts!Minute(r) >= old - retained["1m"]
      BY <1>2, <1>3, <1>6
    <3> QED
      BY <1>6, <2>1, <3>1 DEF MinutesKept
  <2> QED
    BY <1>4, <1>5, <1>6, <2>1 DEF MinutesKept
<1>10. HoursKept'
  <2>1. ASSUME NEW r \in onTime, Charts!Hour(r) < Charts!Hour(done), Charts!Hour(r) >= new - retained'["1h"]
        PROVE  Charts!Hour(r) \in DOMAIN hours
    <3>1. Charts!Hour(r) >= old - retained["1h"]
      BY <1>2, <1>3, <1>6, <2>1
    <3> QED
      BY <1>6, <2>1, <3>1 DEF HoursKept
  <2> QED
    BY <1>4, <1>5, <1>6, <2>1 DEF HoursKept
<1> QED
  BY <1>7, <1>8, <1>9, <1>10

(* A clock that is ahead is not believed, or that is on record.              *)
LEMMA RunSeries == ASSUME Charts!RollUpsAssumption, SeriesInv, Charts!Housekeeping PROVE SeriesInv'
<1>1. /\ UNCHANGED <<wall, off, retained, zone, onTime, late, low, lengthened>>
      /\ believed' = (believed \/ (off > 0 /\ Charts!MayBeBelieved)) /\ Charts!ReadTrusted
      /\ Charts!RunHousekeeping(Charts!TrustedNow) \/ UNCHANGED <<raw, minutes, hours, days, done>>
  BY DEF Charts!Housekeeping, Charts!Run, Charts!ReadTrusted, Charts!settings, Charts!tables
<1>2. Charts!TrustedNow \in Int
  BY DEF SeriesInv, ClockIs, Charts!TrustedNow, Charts!Disbelieved
<1>3. CLOCK_JUMP \in Nat /\ CLOCK_ACCEPT \in Nat
  BY DEF Charts!RollUpsAssumption
<1>4. ~(believed' \/ low') => ~(believed \/ low) /\ ~(off > 0 /\ Charts!MayBeBelieved)
  BY <1>1
<1>5. ~(believed' \/ low') => Charts!TrustedNow = Elapsed
  <2> SUFFICES ASSUME ~(believed' \/ low') PROVE Charts!TrustedNow = Elapsed
    OBVIOUS
  <2>1. (ahead = None \/ ahead = off) /\ off \in Int /\ off >= 0 /\ wall \in Int
    BY <1>4 DEF SeriesInv, ClockIs
  <2>2. CASE off = 0
    <3>1. ~Charts!Disbelieved
      BY <1>3, <2>1, <2>2 DEF Charts!Disbelieved
    <3> QED
      BY <2>1, <2>2, <3>1 DEF Charts!TrustedNow, Elapsed
  <2>3. CASE off > 0
    <3>1. ahead # None /\ ahead = off /\ ~(ahead <= CLOCK_JUMP) /\ doubted # CLOCK_ACCEPT
      BY <1>4, <2>1, <2>3 DEF Charts!MayBeBelieved
    <3>2. doubted # None => doubted < CLOCK_ACCEPT
      BY <1>3, <3>1 DEF SeriesInv, ClockIs
    <3>3. Charts!Disbelieved
      BY <1>3, <2>1, <3>1, <3>2 DEF Charts!Disbelieved
    <3> QED
      BY <3>1, <3>3 DEF Charts!TrustedNow, Elapsed
  <2> QED
    BY <2>1, <2>2, <2>3
<1>6. doubted' \in (0 .. CLOCK_ACCEPT) \cup {None} /\ ahead' \in Int \cup {None}
  BY <1>1, <1>3 DEF SeriesInv, ClockIs, Charts!ReadTrusted
<1>7. ~(believed' \/ low') => (ahead' = None \/ ahead' = off')
  <2> SUFFICES ASSUME ~(believed' \/ low') PROVE ahead' = None \/ ahead' = off'
    OBVIOUS
  <2>1. (ahead = None \/ ahead = off) /\ off \in Int /\ off >= 0 /\ off' = off
    BY <1>1, <1>4 DEF SeriesInv, ClockIs
  <2>2. CASE Charts!Disbelieved
    BY <1>1, <2>1, <2>2 DEF Charts!ReadTrusted
  <2>3. CASE ~Charts!Disbelieved
    <3>1. ahead' = 0
      BY <1>1, <2>3 DEF Charts!ReadTrusted
    <3>2. wall - off = IF Charts!Disbelieved THEN wall - ahead ELSE wall
      BY <1>5 DEF Charts!TrustedNow, Elapsed
    <3>3. off = 0
      BY <2>1, <2>3, <3>2 DEF SeriesInv, ClockIs
    <3> QED
      BY <2>1, <3>1, <3>3
  <2> QED
    BY <2>2, <2>3
<1>8. /\ done' \in Int /\ Charts!Minute(done)' = done'
      /\ (~(believed' \/ low') => done' <= Elapsed)
  <2>1. PICK m \in Int : m = Charts!Minute(Charts!TrustedNow) /\ m <= Charts!TrustedNow /\ Charts!Minute(m) = m
    BY <1>2, Bucket
  <2>2. done \in Int /\ Charts!Minute(done) = done /\ (~(believed \/ low) => done <= Elapsed)
    BY DEF SeriesInv, ClockIs
  <2>3. done' = m \/ done' = done
    BY <1>1, <2>1 DEF Charts!RunHousekeeping
  <2>4. Charts!Minute(done)' = Charts!Minute(done')
    BY DEF Charts!Minute, Charts!Floor
  <2>5. CASE done' = m
    BY <1>5, <2>1, <2>4, <2>5
  <2>6. CASE done' = done
    BY <1>4, <2>2, <2>4, <2>6
  <2> QED
    BY <2>3, <2>5, <2>6
<1>9. Elapsed' = Elapsed
  BY <1>1 DEF Elapsed
<1>10. ClockIs'
  <2>1. /\ wall' \in Int /\ off' \in Int /\ Elapsed' \in Nat /\ zone' \in DOMAIN Midnights /\ (~low' => off' >= 0)
        /\ (~(believed' \/ low') => ~late')
    BY <1>1, <1>4, <1>9 DEF SeriesInv, ClockIs
  <2> QED
    BY <1>6, <1>7, <1>8, <1>9, <2>1 DEF ClockIs
<1>11. Limits'
  BY <1>1 DEF SeriesInv, Limits
<1>12. ASSUME Plain' PROVE RowsAre' /\ RawKept' /\ MinutesKept' /\ HoursKept'
  <2>1. Plain /\ Charts!TrustedNow = Elapsed /\ done <= Elapsed
    BY <1>1, <1>4, <1>5, <1>12 DEF Plain, SeriesInv, ClockIs
  <2>2. CASE Charts!RunHousekeeping(Charts!TrustedNow)
    BY <1>1, <2>1, <2>2, HouseKeeps DEF SeriesInv
  <2>3. CASE UNCHANGED <<raw, minutes, hours, days, done>>
    <3>1. /\ Elapsed' \in Nat /\ Elapsed <= Elapsed' /\ \A l \in Charts!RESOLUTIONS : retained'[l] <= retained[l]
      BY <1>1, <1>9 DEF SeriesInv, ClockIs, Limits
    <3> QED
      BY <1>1, <1>11, <2>1, <2>3, <3>1, LaterKept DEF SeriesInv
  <2> QED
    BY <1>1, <2>2, <2>3
<1> QED
  BY <1>10, <1>11, <1>12 DEF SeriesInv

(* A reading in a minute that is done is late.                               *)
LEMMA ReadSeries == ASSUME Charts!RollUpsAssumption, SeriesInv, Charts!Reads PROVE SeriesInv'
<1>1. /\ raw' = raw \cup {wall} /\ late' = (late \/ wall < done)
      /\ onTime' = IF wall >= done THEN onTime \cup {wall} ELSE onTime
      /\ UNCHANGED <<minutes, hours, days, retained, zone, wall, ahead, doubted, done, off, believed, low, lengthened>>
  BY DEF Charts!Reads, Charts!settings, Charts!clock
<1>2. Elapsed' = Elapsed /\ Charts!Minute(done)' = Charts!Minute(done)
  BY <1>1 DEF Elapsed, Charts!Minute, Charts!Floor
<1>3. ~(believed \/ low) => wall >= done
  BY DEF SeriesInv, ClockIs, Elapsed
<1>4. ClockIs' /\ Limits'
  <2>1. wall \in Int /\ done \in Int /\ ~(believed \/ low) => ~(wall < done)
    BY <1>3
  <2>2. ~(believed' \/ low') => ~late'
    BY <1>1, <2>1 DEF SeriesInv, ClockIs
  <2>3. /\ wall' \in Int /\ off' \in Int /\ Elapsed' \in Nat /\ zone' \in DOMAIN Midnights
        /\ doubted' \in (0 .. CLOCK_ACCEPT) \cup {None} /\ ahead' \in Int \cup {None}
        /\ done' \in Int /\ Charts!Minute(done)' = done' /\ (~low' => off' >= 0)
        /\ (~(believed' \/ low') => (ahead' = None \/ ahead' = off') /\ done' <= Elapsed')
    BY <1>1, <1>2 DEF SeriesInv, ClockIs
  <2> QED
    BY <1>1, <2>2, <2>3 DEF SeriesInv, ClockIs, Limits
<1>5. ASSUME Plain' PROVE RowsAre' /\ RawKept' /\ MinutesKept' /\ HoursKept'
  <2>1. /\ RowsAre /\ RawKept /\ MinutesKept /\ HoursKept /\ wall >= done /\ onTime' = onTime \cup {wall}
        /\ wall \in Int /\ off \in Int /\ off >= 0 /\ wall - off \in Nat /\ done \in Int /\ Charts!Minute(done) = done
    BY <1>1, <1>3, <1>5 DEF Plain, SeriesInv, ClockIs, Elapsed
  <2>2. wall \in Nat
    BY <2>1
  <2>3. Charts!Minute(wall) >= done /\ Charts!Hour(wall) >= Charts!Hour(done)
    BY <2>1, <2>2, Bucket, Buckets
  <2>4. Charts!Minute(wall) \in Int /\ Charts!Hour(wall) \in Int /\ Charts!Hour(done) \in Int
    BY <2>1, Bucket
  <2>5. \A x : Charts!Minute(x)' = Charts!Minute(x) /\ Charts!Hour(x)' = Charts!Hour(x)
    BY DEF Charts!Minute, Charts!Hour, Charts!Floor
  <2>6. Charts!Hour(done)' = Charts!Hour(done)
    BY <1>1 DEF Charts!Hour, Charts!Floor
  <2>7. RowsAre'
    <3>1. IsFiniteSet(raw')
      BY <1>1, <2>1, FS_AddElement DEF RowsAre
    <3> QED
      BY <1>1, <2>1, <2>2, <2>5, <2>6, <3>1 DEF RowsAre
  <2>8. RawKept'
    BY <1>1, <1>2, <2>1 DEF RawKept
  <2>9. MinutesKept'
    <3>1. ASSUME NEW r \in onTime', Charts!Minute(r) < done,
                 Charts!Minute(r) >= Elapsed - retained["1m"] \/ Charts!Hour(r) >= Charts!Hour(done)
          PROVE  Charts!Minute(r) \in DOMAIN minutes
      <4>1. r # wall
        BY <2>1, <2>3, <2>4, <3>1
      <4> QED
        BY <2>1, <3>1, <4>1 DEF MinutesKept
    <3> QED
      BY <1>1, <1>2, <2>5, <2>6, <3>1 DEF MinutesKept
  <2>10. HoursKept'
    <3>1. ASSUME NEW r \in onTime', Charts!Hour(r) < Charts!Hour(done), Charts!Hour(r) >= Elapsed - retained["1h"]
          PROVE  Charts!Hour(r) \in DOMAIN hours
      <4>1. r # wall
        BY <2>3, <2>4, <3>1
      <4> QED
        BY <2>1, <3>1, <4>1 DEF HoursKept
    <3> QED
      BY <1>1, <1>2, <2>5, <2>6, <3>1 DEF HoursKept
  <2> QED
    BY <2>7, <2>8, <2>9, <2>10
<1> QED
  BY <1>4, <1>5 DEF SeriesInv

(* A new process, a retention saved, time, and a clock that is set. *)
LEMMA WorldSeries ==
  ASSUME Charts!RollUpsAssumption, SeriesInv,
         Charts!Restart \/ Charts!SavesRetention \/ Charts!Tick \/ Charts!ClockSet
  PROVE  SeriesInv'
<1>1. UNCHANGED <<raw, minutes, hours, days, done, onTime, late, believed>>
  BY DEF Charts!Restart, Charts!SavesRetention, Charts!Tick, Charts!ClockSet, Charts!tables, Charts!history
<1>2. Charts!Minute(done)' = Charts!Minute(done)
  BY <1>1 DEF Charts!Minute, Charts!Floor
<1>3. /\ wall \in Int /\ off \in Int /\ wall - off \in Nat /\ Elapsed = wall - off /\ Elapsed' = wall' - off'
      /\ doubted \in (0 .. CLOCK_ACCEPT) \cup {None} /\ ahead \in Int \cup {None} /\ CLOCK_ACCEPT \in Nat
  BY DEF SeriesInv, ClockIs, Elapsed, Charts!RollUpsAssumption
<1>4. /\ wall' \in Int /\ off' \in Int /\ zone' \in DOMAIN Midnights
      /\ doubted' \in (0 .. CLOCK_ACCEPT) \cup {None} /\ ahead' \in Int \cup {None}
      /\ wall' - off' \in Nat /\ wall - off <= wall' - off' /\ (~low' => off' >= 0)
      /\ (~(believed \/ low') => (ahead' = None \/ ahead' = off') /\ ~low)
  <2>1. CASE Charts!Restart
    BY <1>3, <2>1 DEF Charts!Restart, Charts!history, SeriesInv, ClockIs
  <2>2. CASE Charts!SavesRetention
    BY <1>3, <2>2 DEF Charts!SavesRetention, Charts!clock, SeriesInv, ClockIs
  <2>3. CASE Charts!Tick
    BY <1>3, <2>3 DEF Charts!Tick, Charts!settings, Charts!history, SeriesInv, ClockIs
  <2>4. CASE Charts!ClockSet
    <3>1. PICK by \in Int : /\ wall' = wall + by /\ off' = off + by /\ low' = (low \/ off + by < 0)
                            /\ ahead' = IF ahead = None THEN None ELSE ahead + by
      BY <2>4 DEF Charts!ClockSet, Charts!RollUpsAssumption
    <3>2. zone' = zone /\ doubted' = doubted
      BY <2>4 DEF Charts!ClockSet, Charts!settings
    <3>3. ~low' => off' >= 0 /\ ~low
      <4>1. (off + by < 0) => low'
        BY <3>1
      <4>2. ~(off + by < 0) => off' >= 0
        BY <1>3, <3>1
      <4> QED
        BY <3>1, <4>1, <4>2
    <3> QED
      BY <1>3, <3>1, <3>2, <3>3 DEF SeriesInv, ClockIs
  <2> QED
    BY <2>1, <2>2, <2>3, <2>4
<1>5. ClockIs'
  <2>1. done' \in Int /\ Charts!Minute(done)' = done'
    BY <1>1, <1>2 DEF SeriesInv, ClockIs
  <2>2. ASSUME ~(believed' \/ low') PROVE done' <= Elapsed' /\ ~late'
    <3>1. ~(believed \/ low)
      BY <1>1, <1>4, <2>2
    <3>2. done <= Elapsed /\ ~late
      BY <3>1 DEF SeriesInv, ClockIs
    <3>3. ~late'
      BY <1>1, <3>2
    <3>4. done' = done /\ done \in Int
      BY <1>1 DEF SeriesInv, ClockIs
    <3>5. done' <= Elapsed'
      <4>1. done <= wall - off /\ wall - off <= wall' - off'
        BY <1>3, <1>4, <3>2
      <4>2. wall \in Int /\ off \in Int /\ wall' \in Int /\ off' \in Int
        BY <1>3, <1>4
      <4>3. Elapsed' = wall' - off'
        BY DEF Elapsed
      <4>4. \A a, b, c, d, e \in Int : c <= a - b /\ a - b <= d - e => c <= d - e
        OBVIOUS
      <4>5. done <= wall' - off'
        BY <3>4, <4>1, <4>2, <4>4
      <4> QED
        BY <3>4, <4>3, <4>5
    <3> QED
      BY <3>3, <3>5
  <2> QED
    BY <1>1, <1>3, <1>4, <2>1, <2>2 DEF ClockIs
<1>6. Limits' /\ (~lengthened' => ~lengthened /\ \A l \in Charts!RESOLUTIONS : retained'[l] <= retained[l])
  <2>1. CASE Charts!SavesRetention
    <3>1. retained' \in Retentions /\ lengthened' = (lengthened \/ \E l \in Charts!RESOLUTIONS : retained'[l] > retained[l])
      BY <2>1 DEF Charts!SavesRetention
    <3>2. Limits'
      BY <3>1 DEF Limits, Charts!RollUpsAssumption
    <3>3. ASSUME ~lengthened', NEW l \in Charts!RESOLUTIONS PROVE retained'[l] <= retained[l]
      <4>1. retained'[l] \in Nat /\ retained[l] \in Nat
        BY <3>2 DEF Limits, SeriesInv
      <4>2. ~(retained'[l] > retained[l])
        BY <3>1, <3>3
      <4> QED
        BY <4>1, <4>2
    <3> QED
      BY <3>1, <3>2, <3>3
  <2>2. CASE Charts!Restart \/ Charts!Tick \/ Charts!ClockSet
    <3>1. retained' = retained /\ lengthened' = lengthened
      BY <2>2 DEF Charts!Restart, Charts!Tick, Charts!ClockSet, Charts!settings, Charts!history
    <3> QED
      BY <3>1 DEF SeriesInv, Limits
  <2> QED
    BY <2>1, <2>2
<1>7. ASSUME Plain' PROVE RowsAre' /\ RawKept' /\ MinutesKept' /\ HoursKept'
  <2>1. Plain
    BY <1>1, <1>4, <1>6, <1>7 DEF Plain
  <2>2. Elapsed' \in Nat /\ Elapsed <= Elapsed' /\ \A l \in Charts!RESOLUTIONS : retained'[l] <= retained[l]
    BY <1>3, <1>4, <1>6, <1>7 DEF Plain
  <2> QED
    BY <1>1, <1>6, <2>1, <2>2, LaterKept DEF SeriesInv
<1> QED
  BY <1>5, <1>6, <1>7 DEF SeriesInv

(* What the version before left. *)
LEMMA CountsOf ==
  ASSUME NEW rows, DOMAIN rows \in SUBSET Nat, IsFiniteSet(DOMAIN rows), NEW step \in Nat \ {0}
  PROVE  DOMAIN Charts!Counts(rows, step) \in SUBSET Nat /\ IsFiniteSet(DOMAIN Charts!Counts(rows, step))
<1> DEFINE S == DOMAIN rows
           B == {Charts!Floor(t, step) : t \in S}
<1>1. DOMAIN Charts!Counts(rows, step) = B
  BY DEF Charts!Counts
<1>2. \A t \in S : Charts!Floor(t, step) \in Nat
  <2> TAKE t \in S
  <2>1. Charts!Floor(0, step) = 0
    BY DEF Charts!Floor
  <2>2. t \in Nat /\ 0 \in Int /\ 0 <= t
    OBVIOUS
  <2>3. Charts!Floor(t, step) \in Int
    BY <2>2, Floors
  <2>4. Charts!Floor(0, step) <= Charts!Floor(t, step)
    <3>1. t \in Int
      BY <2>2
    <3> QED
      BY <2>2, <3>1, FloorsClimb
  <2> QED
    BY <2>1, <2>3, <2>4
<1>3. [t \in S |-> Charts!Floor(t, step)] \in Surjection(S, B)
  BY DEF Surjection
<1> QED
  BY <1>1, <1>2, <1>3, FS_Surjection

LEMMA MigratedDays ==
  ASSUME Charts!RollUpsAssumption, zone \in DOMAIN Midnights,
         NEW mins, DOMAIN mins \in SUBSET Nat, IsFiniteSet(DOMAIN mins),
         NEW hrs, DOMAIN hrs \in SUBSET Nat, IsFiniteSet(DOMAIN hrs),
         NEW utc, DOMAIN utc \in SUBSET Nat, IsFiniteSet(DOMAIN utc)
  PROVE  LET rows == Charts!Migrated(mins, hrs, utc).days
         IN  DOMAIN rows \in SUBSET Int /\ IsFiniteSet(DOMAIN rows)
<1> DEFINE rows == Charts!Migrated(mins, hrs, utc).days
           kept == Charts!DropDays(mins, utc)
<1>1. DOMAIN kept \in SUBSET Int /\ IsFiniteSet(DOMAIN kept)
  <2>1. DOMAIN kept \subseteq DOMAIN utc
    BY DEF Charts!DropDays, Charts!RestrictDomain, Charts!Restrict
  <2> HIDE DEF kept
  <2> QED
    BY <2>1, FS_Subset
<1> HIDE DEF kept
<1>2. \/ rows = utc \/ rows = kept
      \/ \E H, M : /\ H \subseteq DOMAIN hrs /\ M \subseteq DOMAIN mins
                   /\ rows = Charts!MergeDay(kept, Charts!MergeDay(Charts!DaysOf(Charts!Restrict(hrs, H)),
                                                                   Charts!DaysOf(Charts!Restrict(mins, M))))
  <2>1. \A from, to : Charts!Within(hrs, from, to) \subseteq DOMAIN hrs /\ Charts!Within(mins, from, to) \subseteq DOMAIN mins
    BY DEF Charts!Within
  <2> QED
    BY <2>1, Zenon DEF Charts!Migrated, kept
<1>3. ASSUME NEW H, NEW M, H \subseteq DOMAIN hrs, M \subseteq DOMAIN mins,
             rows = Charts!MergeDay(kept, Charts!MergeDay(Charts!DaysOf(Charts!Restrict(hrs, H)),
                                                          Charts!DaysOf(Charts!Restrict(mins, M))))
      PROVE  DOMAIN rows \in SUBSET Int /\ IsFiniteSet(DOMAIN rows)
  <2> DEFINE D == {Charts!LocalDayStart(t) : t \in H}
             E == {Charts!LocalDayStart(t) : t \in M}
  <2>1. DOMAIN rows = DOMAIN kept \cup (D \cup E)
    <3> DEFINE f == Charts!DaysOf(Charts!Restrict(hrs, H))
               g == Charts!DaysOf(Charts!Restrict(mins, M))
               h == Charts!MergeDay(f, g)
    <3>1. DOMAIN f = D /\ DOMAIN g = E
      BY DEF Charts!DaysOf, Charts!Restrict
    <3>2. rows = Charts!MergeDay(kept, h)
      BY <1>3
    <3> HIDE DEF D, E, rows, f, g
    <3>3. DOMAIN h = DOMAIN f \cup DOMAIN g
      BY DEF Charts!MergeDay
    <3> HIDE DEF h
    <3>4. DOMAIN rows = DOMAIN kept \cup DOMAIN h
      BY <3>2 DEF Charts!MergeDay
    <3> QED
      BY <3>1, <3>3, <3>4
  <2>2. H \in SUBSET Nat /\ IsFiniteSet(H) /\ M \in SUBSET Nat /\ IsFiniteSet(M)
    BY <1>3, FS_Subset
  <2>3. D \in SUBSET Int /\ IsFiniteSet(D) /\ E \in SUBSET Int /\ IsFiniteSet(E)
    BY <2>2, DayStarts
  <2> HIDE DEF D, E, rows
  <2>4. IsFiniteSet(D \cup E)
    BY <2>3, FS_Union
  <2>5. IsFiniteSet(DOMAIN kept \cup (D \cup E))
    BY <1>1, <2>4, FS_Union
  <2> QED
    BY <1>1, <2>1, <2>3, <2>5
<1>4. DOMAIN utc \in SUBSET Int
  OBVIOUS
<1>5. DOMAIN rows \in SUBSET Int /\ IsFiniteSet(DOMAIN rows)
  <2> HIDE DEF rows
  <2> QED
    BY <1>1, <1>2, <1>3, <1>4
<1> QED
  BY <1>5

(* A database is new, or the version before left it as its runs did.         *)
LEMMA InitSeries == ASSUME Charts!RollUpsAssumption, Charts!Init PROVE SeriesInv
<1>1. /\ retained = DEFAULT_RETENTION /\ zone = HomeZone /\ ahead = None /\ doubted = None
      /\ late = FALSE /\ off = 0 /\ believed = FALSE /\ low = FALSE
  BY DEF Charts!Init
<1>2. Limits /\ zone \in DOMAIN Midnights /\ MIN \in Nat \ {0} /\ HOUR \in Nat \ {0} /\ OldHorizon \in Nat
  BY <1>1 DEF Limits, Charts!RollUpsAssumption
<1>3. CASE Charts!NewDatabase
  <2>1. /\ wall = 0 /\ onTime = {} /\ raw = {} /\ done = 0
        /\ DOMAIN minutes = {} /\ DOMAIN hours = {} /\ DOMAIN days = {}
    BY <1>3 DEF Charts!NewDatabase, Charts!NoRows
  <2>2. Charts!Minute(0) = 0
    BY <1>2 DEF Charts!Minute, Charts!Floor
  <2>3. ClockIs
    BY <1>1, <1>2, <2>1, <2>2 DEF ClockIs, Elapsed
  <2>4. RowsAre /\ RawKept /\ MinutesKept /\ HoursKept
    BY <2>1, FS_EmptySet DEF RowsAre, RawKept, MinutesKept, HoursKept
  <2> QED
    BY <1>2, <2>3, <2>4 DEF SeriesInv
<1>4. CASE Charts!OldDatabase
  <2>1. /\ wall \in Nat /\ done = Charts!Minute(wall) /\ onTime \in SUBSET (0 .. wall - 1)
        /\ raw = {r \in onTime : r >= Charts!Least(wall - retained["raw"], Charts!Minute(wall))}
    BY <1>2, <1>4 DEF Charts!OldDatabase
  <2>2. PICK pruned \in 0 .. Charts!Least(wall - retained["1m"], Charts!Hour(Charts!Minute(wall))) :
          LET old == Charts!Old(onTime, wall, pruned)
              new == Charts!Migrated(old.minutes, old.hours, old.days)
          IN  minutes = old.minutes /\ hours = old.hours /\ days = new.days
    BY <1>4 DEF Charts!OldDatabase
  <2>3. PICK end \in Nat : end = done
    BY <2>1, Bucket
  <2>4. PICK full \in Nat : full = Charts!Hour(wall)
    BY <2>1, Bucket
  <2>5. /\ Charts!Minute(end) = end /\ end <= wall /\ Charts!Hour(end) = full /\ Charts!Hour(full) = full
        /\ Charts!Hour(Charts!Minute(wall)) = full
    BY <2>1, <2>3, <2>4, Bucket
  <2> DEFINE ones == [r \in onTime |-> 1]
             mins == Charts!Counts(Charts!Restrict(ones, Charts!Within(ones, 0, end)), MIN)
             hrs == Charts!Counts(Charts!Restrict(mins, Charts!Within(mins, 0, full)), HOUR)
             utc == Charts!Counts(Charts!Restrict(hrs, Charts!Within(hrs, 0, Charts!UtcDay(wall))), DAY)
  <2>6. /\ minutes = Charts!Kept(mins, pruned) /\ hours = hrs
        /\ days = Charts!Migrated(minutes, hrs, utc).days
    BY <2>1, <2>2, <2>3, <2>4 DEF Charts!Old
  <2>7. onTime \in SUBSET Nat /\ IsFiniteSet(onTime)
    <3>1. 0 \in Int /\ wall - 1 \in Int /\ 0 .. wall - 1 \in SUBSET Nat
      BY <2>1
    <3>2. IsFiniteSet(0 .. wall - 1)
      BY <3>1, FS_Interval
    <3>3. onTime \subseteq 0 .. wall - 1
      BY <2>1
    <3> QED
      BY <3>1, <3>2, <3>3, FS_Subset
  <2>8. DOMAIN mins = {Charts!Minute(r) : r \in {t \in onTime : 0 <= t /\ t < end}}
    BY DEF Charts!Counts, Charts!Restrict, Charts!Within, Charts!Minute
  <2>9. DOMAIN mins \in SUBSET Nat /\ IsFiniteSet(DOMAIN mins)
    <3> DEFINE R == Charts!Restrict(ones, Charts!Within(ones, 0, end))
    <3>1. DOMAIN R \in SUBSET onTime
      BY DEF Charts!Restrict, Charts!Within
    <3>2. DOMAIN R \in SUBSET Nat /\ IsFiniteSet(DOMAIN R)
      BY <2>7, <3>1, FS_Subset
    <3> HIDE DEF R
    <3> QED
      BY <1>2, <3>2, CountsOf DEF R
  <2> HIDE DEF mins
  <2>10. DOMAIN hrs = {Charts!Hour(m) : m \in {t \in DOMAIN mins : 0 <= t /\ t < full}}
    BY DEF Charts!Counts, Charts!Restrict, Charts!Within, Charts!Hour
  <2>11. DOMAIN hrs \in SUBSET Nat /\ IsFiniteSet(DOMAIN hrs)
    <3> DEFINE R == Charts!Restrict(mins, Charts!Within(mins, 0, full))
    <3>1. DOMAIN R \in SUBSET DOMAIN mins
      BY DEF Charts!Restrict, Charts!Within
    <3>2. DOMAIN R \in SUBSET Nat /\ IsFiniteSet(DOMAIN R)
      BY <2>9, <3>1, FS_Subset
    <3> HIDE DEF R
    <3> QED
      BY <1>2, <3>2, CountsOf DEF R
  <2> HIDE DEF hrs
  <2>12. DOMAIN utc \in SUBSET Nat /\ IsFiniteSet(DOMAIN utc)
    <3> DEFINE R == Charts!Restrict(hrs, Charts!Within(hrs, 0, Charts!UtcDay(wall)))
    <3>1. DOMAIN R \in SUBSET DOMAIN hrs
      BY DEF Charts!Restrict, Charts!Within
    <3>2. DOMAIN R \in SUBSET Nat /\ IsFiniteSet(DOMAIN R) /\ DAY \in Nat \ {0}
      BY <2>11, <3>1, FS_Subset DEF Charts!RollUpsAssumption
    <3> HIDE DEF R
    <3> QED
      BY <3>2, CountsOf DEF R
  <2> HIDE DEF utc
  <2>13. DOMAIN minutes = {m \in DOMAIN mins : m >= pruned}
    BY <2>6, KeptOnes
  <2>14. DOMAIN minutes \in SUBSET Nat /\ IsFiniteSet(DOMAIN minutes)
    <3>1. DOMAIN minutes \in SUBSET DOMAIN mins
      BY <2>13
    <3> QED
      BY <2>9, <3>1, FS_Subset
  <2>15. DOMAIN days \in SUBSET Int /\ IsFiniteSet(DOMAIN days)
    BY <1>2, <2>6, <2>11, <2>12, <2>14, MigratedDays
  <2>16. retained["raw"] \in Nat /\ retained["1m"] \in Nat /\ retained["1h"] \in Nat
    BY <1>2 DEF Limits, Charts!RESOLUTIONS
  <2>17. pruned \in Nat /\ pruned <= wall - retained["1m"] /\ pruned <= full
    BY <2>1, <2>4, <2>5, <2>16 DEF Charts!Least
  <2>18. Elapsed = wall /\ Charts!Hour(done) = full
    BY <1>1, <2>1, <2>3, <2>5 DEF Elapsed
  <2>19. ClockIs
    BY <1>1, <1>2, <2>1, <2>3, <2>5, <2>18 DEF ClockIs
  <2>20. \A m \in DOMAIN mins : Charts!Minute(m) = m /\ m < end
    <3> TAKE m \in DOMAIN mins
    <3>1. PICK r \in onTime : m = Charts!Minute(r) /\ r < end /\ r \in Nat
      BY <2>7, <2>8
    <3> QED
      BY <3>1, Bucket
  <2>21. \A h \in DOMAIN hrs : Charts!Hour(h) = h /\ h < full
    <3> TAKE h \in DOMAIN hrs
    <3>1. PICK m \in DOMAIN mins : h = Charts!Hour(m) /\ m < full /\ m \in Nat
      BY <2>9, <2>10
    <3> QED
      BY <3>1, Bucket
  <2>22. RowsAre
    <3>1. raw \in SUBSET onTime
      BY <2>1
    <3>2. raw \in SUBSET Nat /\ IsFiniteSet(raw)
      BY <2>7, <3>1, FS_Subset
    <3> QED
      BY <2>3, <2>6, <2>7, <2>11, <2>13, <2>14, <2>15, <2>18, <2>20, <2>21, <3>2 DEF RowsAre
  <2>23. RawKept
    <3> SUFFICES ASSUME NEW r \in onTime, r >= end \/ r >= wall - retained["raw"] PROVE r \in raw
      BY <2>3, <2>18 DEF RawKept
    <3>1. r >= Charts!Least(wall - retained["raw"], end)
      BY <2>1, <2>7, <2>16 DEF Charts!Least
    <3> QED
      BY <2>1, <2>3, <3>1
  <2>24. ASSUME NEW r \in onTime, Charts!Minute(r) < end
         PROVE  /\ Charts!Minute(r) \in DOMAIN mins /\ r \in Nat /\ Charts!Minute(r) \in Nat
                /\ Charts!Hour(r) \in Nat /\ Charts!Hour(r) <= Charts!Minute(r)
                /\ Charts!Hour(Charts!Minute(r)) = Charts!Hour(r)
    <3>1. r \in Nat
      BY <2>7
    <3>2. r < end
      <4> SUFFICES ASSUME end <= r PROVE FALSE
        BY <3>1
      <4>1. Charts!Minute(end) <= Charts!Minute(r) /\ Charts!Minute(r) \in Int
        BY <3>1, Bucket, Buckets
      <4> QED
        BY <2>5, <2>24, <4>1
    <3> QED
      BY <2>8, <3>1, <3>2, Bucket
  <2>25. MinutesKept
    <3> SUFFICES ASSUME NEW r \in onTime, Charts!Minute(r) < end,
                        Charts!Minute(r) >= wall - retained["1m"] \/ Charts!Hour(r) >= full
                 PROVE  Charts!Minute(r) \in DOMAIN minutes
      BY <2>3, <2>18 DEF MinutesKept
    <3>1. Charts!Minute(r) >= pruned
      BY <2>1, <2>16, <2>17, <2>24
    <3> QED
      BY <2>13, <2>24, <3>1
  <2>26. HoursKept
    <3> SUFFICES ASSUME NEW r \in onTime, Charts!Hour(r) < full PROVE Charts!Hour(r) \in DOMAIN hours
      BY <2>18 DEF HoursKept
    <3>1. r \in Nat /\ Charts!Minute(r) \in Nat /\ Charts!Hour(Charts!Minute(r)) = Charts!Hour(r)
      BY <2>7, Bucket
    <3>2. Charts!Minute(r) < full
      <4> SUFFICES ASSUME full <= Charts!Minute(r) PROVE FALSE
        BY <3>1
      <4>1. Charts!Hour(full) <= Charts!Hour(Charts!Minute(r)) /\ Charts!Hour(r) \in Int
        BY <3>1, Bucket, Buckets
      <4> QED
        BY <2>5, <3>1, <4>1
    <3>3. full <= end
      BY <2>1, <2>3, <2>4, Bucket
    <3>4. Charts!Minute(r) \in DOMAIN mins
      BY <2>24, <3>1, <3>2, <3>3
    <3> QED
      BY <2>6, <2>10, <3>1, <3>2, <3>4
  <2> QED
    BY <1>2, <2>19, <2>22, <2>23, <2>25, <2>26 DEF SeriesInv
<1> QED
  BY <1>3, <1>4 DEF Charts!Init

(* What is within a level's retention is in it. *)
LEMMA SeriesWhole == ASSUME Charts!RollUpsAssumption, SeriesInv PROVE Charts!WholeSeries
<1> SUFFICES ASSUME Plain, NEW from \in 0 .. wall, NEW level, level = Charts!ChooseResolution(from, wall), level # "1d",
                    NEW r \in onTime, NEW b, b = Charts!BucketOf(level, r),
                    from <= b, Charts!Closed(level, b), Charts!Min(Charts!AllTimes) <= b
             PROVE  Charts!Shown(level, r)
  BY Zenon DEF Charts!WholeSeries, Plain
<1>1. /\ RowsAre /\ RawKept /\ MinutesKept /\ HoursKept
      /\ wall \in Int /\ off \in Int /\ off >= 0 /\ wall - off \in Nat /\ Elapsed = wall - off /\ done \in Int
  BY DEF SeriesInv, ClockIs, Plain, Elapsed
<1>2. /\ r \in Nat /\ Charts!Minute(r) \in Nat /\ Charts!Hour(r) \in Nat
  BY <1>1, Bucket DEF RowsAre
<1>3. retained["raw"] \in Nat /\ retained["1m"] \in Nat /\ retained["1h"] \in Nat
  BY DEF SeriesInv, Limits, Charts!RESOLUTIONS
<1>4. level \in {"raw", "1m", "1h"} /\ Charts!Whole(level, from, wall)
  BY DEF Charts!ChooseResolution, Charts!Serves
<1>5. b \in Nat /\ retained[level] \in Nat
  BY <1>2, <1>3, <1>4 DEF Charts!BucketOf
<1>6. b >= wall - retained[level]
  <2>1. CASE from >= wall - retained[level]
    BY <1>1, <1>5, <2>1
  <2>2. CASE Charts!AllTimes # {} /\ Charts!Min(Charts!AllTimes) >= wall - retained[level]
    <3>1. Charts!AllTimes \in SUBSET Int /\ IsFiniteSet(Charts!AllTimes)
      <4>1. /\ raw \in SUBSET Int /\ DOMAIN minutes \in SUBSET Int /\ DOMAIN hours \in SUBSET Int
            /\ DOMAIN days \in SUBSET Int /\ IsFiniteSet(DOMAIN days)
            /\ IsFiniteSet(raw) /\ IsFiniteSet(DOMAIN minutes) /\ IsFiniteSet(DOMAIN hours)
        BY <1>1 DEF RowsAre
      <4>2. IsFiniteSet(raw \cup DOMAIN minutes)
        BY <4>1, FS_Union
      <4>3. IsFiniteSet((raw \cup DOMAIN minutes) \cup DOMAIN hours)
        BY <4>1, <4>2, FS_Union
      <4>4. IsFiniteSet(((raw \cup DOMAIN minutes) \cup DOMAIN hours) \cup DOMAIN days)
        BY <4>1, <4>3, FS_Union
      <4> QED
        BY <4>1, <4>4 DEF Charts!AllTimes
    <3>2. Charts!Min(Charts!AllTimes) \in Int
      BY <2>2, <3>1, Extremes
    <3> QED
      BY <1>1, <1>5, <2>2, <3>2
  <2> QED
    BY <1>4, <2>1, <2>2 DEF Charts!Whole
<1>7. b >= Elapsed - retained[level]
  BY <1>1, <1>5, <1>6
<1>8. CASE level = "raw"
  <2>1. b = r
    BY <1>8 DEF Charts!BucketOf
  <2>2. r \in raw
    BY <1>1, <1>7, <1>8, <2>1 DEF RawKept
  <2> QED
    BY <1>8, <2>2 DEF Charts!Shown
<1>9. CASE level = "1m"
  <2>1. b = Charts!Minute(r) /\ b < done
    BY <1>9 DEF Charts!BucketOf, Charts!Closed
  <2>2. Charts!Minute(r) \in DOMAIN minutes
    BY <1>1, <1>7, <1>9, <2>1 DEF MinutesKept
  <2> QED
    BY <1>9, <2>2 DEF Charts!Shown
<1>10. CASE level = "1h"
  <2>1. b = Charts!Hour(r) /\ b < Charts!Hour(done)
    BY <1>10 DEF Charts!BucketOf, Charts!Closed
  <2>2. Charts!Hour(r) \in DOMAIN hours
    BY <1>1, <1>7, <1>10, <2>1 DEF HoursKept
  <2> QED
    BY <1>10, <2>2 DEF Charts!Shown
<1> QED
  BY <1>4, <1>8, <1>9, <1>10

LEMMA SeriesStep == ASSUME Charts!RollUpsAssumption, SeriesInv, [Charts!Next]_(Charts!vars) PROVE SeriesInv'
<1>1. CASE UNCHANGED Charts!vars
  BY <1>1 DEF Charts!vars, Charts!tables, Charts!settings, Charts!clock, Charts!history, SeriesInv, ClockIs, Limits,
     RowsAre, RawKept, MinutesKept, HoursKept, Plain, Elapsed, Charts!Minute, Charts!Hour, Charts!Floor
<1>2. CASE Charts!Next
  BY <1>2, RunSeries, ReadSeries, WorldSeries DEF Charts!Next
<1> QED
  BY <1>1, <1>2

(* A chart's level is whole as far as it is said to be (rollup.ts:305-330),  *)
(* and a clock that leapt ahead and was not believed leaves no reading late  *)
(* for its minute (380-400).                                                 *)
THEOREM SeriesCorrect ==
  ASSUME Charts!RollUpsAssumption PROVE Charts!Spec => [](Charts!WholeSeries /\ Charts!LeapsDoNoHarm)
<1>1. Charts!Init => SeriesInv
  BY InitSeries
<1>2. SeriesInv /\ [Charts!Next]_(Charts!vars) => SeriesInv'
  BY SeriesStep
<1>3. SeriesInv => Charts!WholeSeries /\ Charts!LeapsDoNoHarm
  BY SeriesWhole DEF SeriesInv, ClockIs, Charts!LeapsDoNoHarm
<1> QED
  BY <1>1, <1>2, <1>3, PTL DEF Charts!Spec
-----------------------------------------------------------------------------
(***************************************************************************)
(* The counts.  A reading is raw till its minute is made, a minute is there *)
(* till its hour and its day are made, and what is made is not made again: *)
(* a row goes no sooner than what it was made from.                        *)
(***************************************************************************)
Kinds == Retentions \cup {DEFAULT_RETENTION}
(* Trusted, the clock is a time: what it is ahead is what it was set by. *)
ClockCounts ==
  /\ wall \in 0 .. Horizon /\ zone \in DOMAIN Midnights /\ retained \in Kinds
  /\ done \in Nat /\ Charts!Minute(done) = done
  /\ ahead = None \/ (ahead \in Int /\ wall - ahead \in Nat)
RowsCount ==
  /\ onTime \in SUBSET Nat /\ IsFiniteSet(onTime) /\ raw \subseteq onTime
  /\ DOMAIN minutes \in SUBSET Nat /\ IsFiniteSet(DOMAIN minutes)
  /\ DOMAIN hours \in SUBSET Nat /\ IsFiniteSet(DOMAIN hours)
  /\ \A m \in DOMAIN minutes : Charts!Minute(m) = m /\ m < done
  /\ \A h \in DOMAIN hours : Charts!Hour(h) = h /\ h < Charts!Hour(done)
DaysStay ==
  /\ days \in [DOMAIN days -> Nat] /\ DOMAIN days \in SUBSET Int /\ IsFiniteSet(DOMAIN days)
  /\ \A d \in DOMAIN days, p \in Kinds : d + p["1d"] >= Horizon
  /\ until = None => DOMAIN days = {}
  /\ until # None => until \in Int /\ until <= done /\ Charts!Minute(until) = until
(* A reading whose minute is not done is raw; a raw one whose minute is done *)
(* is in it still; a minute is there till its hour and its day are, and as   *)
(* long as it is there its hour is, if that is done.                         *)
RawWaits == \A r \in onTime : r >= done => r \in raw
RawIsMade == \A r \in raw : Charts!Minute(r) < done => Charts!Minute(r) \in DOMAIN minutes
MinutesWait ==
  \A r \in onTime :
    /\ Charts!Minute(r) < done
    /\ Charts!Hour(r) >= Charts!Hour(done) \/ until = None \/ Charts!Minute(r) >= until
    => Charts!Minute(r) \in DOMAIN minutes
MinutesAreMade ==
  \A m \in DOMAIN minutes : Charts!Hour(m) < Charts!Hour(done) => Charts!Hour(m) \in DOMAIN hours
InMinutes == \A m \in DOMAIN minutes : minutes[m] = Cardinality({r \in onTime : Charts!Minute(r) = m})
InHours == \A h \in DOMAIN hours : hours[h] = Cardinality({r \in onTime : Charts!Hour(r) = h})
InDays == until # None => Charts!SumFunction(days) = Cardinality({r \in onTime : r < until})
Counted ==
  /\ RowsCount /\ DaysStay /\ RawWaits /\ RawIsMade /\ MinutesWait /\ MinutesAreMade
  /\ InMinutes /\ InHours /\ InDays
CountInv == ClockCounts /\ (~late => Counted)

(* A sum is what adds up, one at a time, to it.                              *)
LEMMA SumIs ==
  ASSUME NEW f, NEW S, IsFiniteSet(S), NEW g, g \in [SUBSET S -> Nat], g[{}] = 0, \A x \in S : f[x] \in Nat,
         \A s \in SUBSET S : \A x \in s : g[s] = f[x] + g[s \ {x}]
  PROVE  Charts!Total(f, S) = g[S]
<1> DEFINE Steps(h) == h = [s \in SUBSET S |-> IF s = {} THEN 0
                              ELSE f[CHOOSE x \in s : TRUE] + h[s \ {CHOOSE x \in s : TRUE}]]
           iter == CHOOSE h : Steps(h)
<1>1. Charts!Total(f, S) = iter[S]
  BY DEF Charts!Total, Charts!SumFunctionOnSet, Charts!FoldFunctionOnSet, Charts!MapThenFoldSet
<1>2. Steps(g)
  <2>1. \A s \in SUBSET S : g[s] = IF s = {} THEN 0
                              ELSE f[CHOOSE x \in s : TRUE] + g[s \ {CHOOSE x \in s : TRUE}]
    <3> TAKE s \in SUBSET S
    <3>1. s # {} => (CHOOSE x \in s : TRUE) \in s
      OBVIOUS
    <3> QED
      BY <3>1
  <2> QED
    BY <2>1
<1>3. Steps(iter)
  <2> HIDE DEF Steps
  <2>1. \E h : Steps(h)
    BY <1>2
  <2> QED
    BY <2>1, Zenon
<1> HIDE DEF iter
<1> DEFINE F == {s \in SUBSET S : iter[s] # g[s]}
<1>4. F = {}
  <2> SUFFICES ASSUME F # {} PROVE FALSE
    OBVIOUS
  <2>1. F \subseteq FiniteSubsetsOf(S)
    BY FS_Subset DEF FiniteSubsetsOf
  <2>2. PICK s \in F : \A v \in F : ~(v \subseteq s /\ v # s)
    <3> HIDE DEF F
    <3> QED
      BY <2>1, SmallestSet
  <2>3. CASE s = {}
    BY <1>3, <2>3
  <2>4. CASE s # {}
    <3>1. PICK x \in s : x = CHOOSE y \in s : TRUE
      BY <2>4
    <3>2. iter[s] = f[x] + iter[s \ {x}]
      BY <1>3, <2>4, <3>1
    <3>3. iter[s \ {x}] = g[s \ {x}]
      BY <2>2
    <3> QED
      BY <3>2, <3>3
  <2> QED
    BY <2>3, <2>4
<1> QED
  BY <1>1, <1>4

(* Apart, two finite sets count together.                                    *)
LEMMA CountApart ==
  ASSUME NEW A, NEW B, IsFiniteSet(A), IsFiniteSet(B), A \cap B = {}
  PROVE  IsFiniteSet(A \cup B) /\ Cardinality(A \cup B) = Cardinality(A) + Cardinality(B)
<1>1. Cardinality(A) \in Nat /\ Cardinality(B) \in Nat
  BY FS_CardinalityType
<1>2. Cardinality(A \cap B) = 0
  BY FS_EmptySet
<1>3. IsFiniteSet(A \cup B) /\ Cardinality(A \cup B) = Cardinality(A) + Cardinality(B) - Cardinality(A \cap B)
  BY FS_Union
<1> QED
  BY <1>1, <1>2, <1>3

(* What is counted by a key adds up over the keys.                           *)
Keyed(R, key, S) == {r \in R : key[r] \in S}
Tallies(f, S, R, key) == IsFiniteSet(R) /\ \A x \in S : f[x] = Cardinality(Keyed(R, key, {x}))
LEMMA SumCounts ==
  ASSUME NEW f, NEW S, IsFiniteSet(S), NEW R, NEW key, Tallies(f, S, R, key)
  PROVE  Charts!Total(f, S) = Cardinality(Keyed(R, key, S)) /\ Charts!Total(f, S) \in Nat
<1> DEFINE At(s) == Keyed(R, key, s)
           g == [s \in SUBSET S |-> Cardinality(At(s))]
<1>1. \A s : IsFiniteSet(At(s)) /\ Cardinality(At(s)) \in Nat
  BY FS_Subset, FS_CardinalityType DEF Keyed, Tallies
<1>2. g \in [SUBSET S -> Nat]
  BY <1>1
<1>3. g[{}] = 0
  <2>1. At({}) = {}
    BY DEF Keyed
  <2> QED
    BY <2>1, FS_EmptySet
<1>4. ASSUME NEW s \in SUBSET S, NEW x \in s PROVE g[s] = f[x] + g[s \ {x}]
  <2>1. At(s) = At({x}) \cup At(s \ {x}) /\ At({x}) \cap At(s \ {x}) = {}
    BY DEF Keyed
  <2>2. Cardinality(At(s)) = Cardinality(At({x})) + Cardinality(At(s \ {x}))
    BY <1>1, <2>1, CountApart
  <2> QED
    BY <2>2 DEF Tallies
<1>5. \A x \in S : f[x] \in Nat
  BY <1>1 DEF Tallies
<1>6. g[S] = Cardinality(At(S)) /\ \A s \in SUBSET S : \A x \in s : g[s] = f[x] + g[s \ {x}]
  BY <1>4
<1> HIDE DEF g
<1>7. Charts!Total(f, S) = g[S]
  BY <1>2, <1>3, <1>5, <1>6, SumIs
<1> QED
  BY <1>1, <1>6, <1>7

(* A sum of nothing is 0.                                                    *)
LEMMA SumNone ==
  ASSUME NEW f
  PROVE  Charts!Total(f, {}) = 0
<1>1. PICK key : key = [r \in {} |-> 0]
  OBVIOUS
<1>2. IsFiniteSet({}) /\ Cardinality({}) = 0
  BY FS_EmptySet
<1>3. Tallies(f, {}, {}, key) /\ Keyed({}, key, {}) = {}
  BY <1>2 DEF Tallies, Keyed
<1>4. Charts!Total(f, {}) = Cardinality(Keyed({}, key, {}))
  BY <1>2, <1>3, SumCounts
<1> QED
  BY <1>2, <1>3, <1>4

(* Any natural numbers count something: so many pairs with each key.         *)
Natural(f, S) == \A x \in S : f[x] \in Nat
LEMMA SumOfPairs ==
  ASSUME NEW f, NEW S, IsFiniteSet(S), Natural(f, S)
  PROVE  \E R, key : Tallies(f, S, R, key)
<1> USE DEF Natural
<1>1. PICK n \in Nat : \A x \in S : f[x] <= n
  <2>1. CASE S = {}
    BY <2>1
  <2>2. CASE S # {}
    <3> DEFINE V == {f[x] : x \in S}
    <3>1. V \in SUBSET Int /\ V # {}
      BY <2>2
    <3>2. IsFiniteSet(V)
      <4>1. [x \in S |-> f[x]] \in Surjection(S, V)
        BY DEF Surjection
      <4> QED
        BY <4>1, FS_Surjection
    <3>3. PICK n \in V : \A k \in V : k <= n
      <4> HIDE DEF V
      <4> QED
        BY <3>1, <3>2, Greatest
    <3> QED
      BY <3>3
  <2> QED
    BY <2>1, <2>2
<1> DEFINE R == {r \in S \X (1 .. n) : r[2] <= f[r[1]]}
           key == [r \in R |-> r[1]]
<1>2. IsFiniteSet(R)
  <2>1. IsFiniteSet(1 .. n)
    BY FS_Interval
  <2>2. IsFiniteSet(S \X (1 .. n))
    BY <2>1, FS_Product
  <2>3. R \in SUBSET (S \X (1 .. n))
    OBVIOUS
  <2> HIDE DEF R
  <2> QED
    BY <2>2, <2>3, FS_Subset
<1>3. ASSUME NEW x \in S PROVE f[x] = Cardinality(Keyed(R, key, {x}))
  <2> DEFINE T == Keyed(R, key, {x})
             b == [i \in 1 .. f[x] |-> <<x, i>>]
  <2>1. f[x] \in Nat /\ f[x] <= n
    BY <1>1
  <2>2. \A i \in 1 .. f[x] : b[i] \in T
    BY <2>1 DEF Keyed
  <2>3. \A r \in T : r[2] \in 1 .. f[x] /\ b[r[2]] = r
    BY <2>1 DEF Keyed
  <2>4. \A i, j \in 1 .. f[x] : b[i] = b[j] => i = j
    OBVIOUS
  <2>5. DOMAIN b = 1 .. f[x]
    OBVIOUS
  <2> HIDE DEF T
  <2>6. b \in Bijection(1 .. f[x], T)
    BY <2>2, <2>3, <2>4, <2>5 DEF Bijection, Injection, Surjection, IsInjective
  <2>7. ExistsBijection(1 .. f[x], T)
    BY <2>6 DEF ExistsBijection
  <2>8. Cardinality(T) = f[x]
    BY <2>1, <2>7, FS_CountingElements
  <2> QED
    BY <2>8 DEF T
<1> HIDE DEF R, key
<1>4. Tallies(f, S, R, key)
  BY <1>2, <1>3 DEF Tallies
<1> QED
  BY <1>4

(* A sum in two parts.                                                       *)
LEMMA SumApart ==
  ASSUME NEW f, NEW A, NEW B, IsFiniteSet(A), IsFiniteSet(B), A \cap B = {}, Natural(f, A \cup B)
  PROVE  /\ Charts!Total(f, A \cup B) = Charts!Total(f, A) + Charts!Total(f, B)
         /\ Charts!Total(f, A) \in Nat /\ Charts!Total(f, B) \in Nat
<1>1. IsFiniteSet(A \cup B)
  BY CountApart
<1>2. PICK R, key : Tallies(f, A \cup B, R, key)
  BY <1>1, SumOfPairs
<1> DEFINE At(s) == Keyed(R, key, s)
<1>3. /\ Charts!Total(f, A \cup B) = Cardinality(At(A \cup B))
      /\ Charts!Total(f, A) = Cardinality(At(A)) /\ Charts!Total(f, A) \in Nat
      /\ Charts!Total(f, B) = Cardinality(At(B)) /\ Charts!Total(f, B) \in Nat
  <2>1. Tallies(f, A, R, key) /\ Tallies(f, B, R, key)
    BY <1>2 DEF Tallies
  <2> QED
    BY <1>1, <1>2, <2>1, SumCounts
<1>4. At(A \cup B) = At(A) \cup At(B) /\ At(A) \cap At(B) = {}
  BY DEF Keyed
<1>5. IsFiniteSet(At(A)) /\ IsFiniteSet(At(B))
  BY <1>2, FS_Subset DEF Keyed, Tallies
<1>6. Cardinality(At(A \cup B)) = Cardinality(At(A)) + Cardinality(At(B))
  BY <1>4, <1>5, CountApart
<1> QED
  BY <1>3, <1>6

LEMMA SumOne ==
  ASSUME NEW f, NEW x, f[x] \in Nat PROVE Charts!Total(f, {x}) = f[x] /\ Charts!Total(f, {}) = 0
<1> DEFINE g == [s \in SUBSET {x} |-> IF x \in s THEN f[x] ELSE 0]
           h == [s \in SUBSET {} |-> 0]
<1>1. g \in [SUBSET {x} -> Nat] /\ g[{}] = 0 /\ g[{x}] = f[x] /\ h \in [SUBSET {} -> Nat] /\ h[{}] = 0
  OBVIOUS
<1>2. ASSUME NEW s \in SUBSET {x}, NEW y \in s PROVE g[s] = f[y] + g[s \ {y}]
  <2>1. y = x /\ g[s] = f[x] /\ g[s \ {y}] = 0
    OBVIOUS
  <2> HIDE DEF g
  <2> QED
    BY <2>1
<1>3. IsFiniteSet({x}) /\ IsFiniteSet({})
  BY FS_Singleton, FS_EmptySet
<1> HIDE DEF g, h
<1>4. Charts!Total(f, {x}) = g[{x}]
  BY <1>1, <1>2, <1>3, SumIs
<1>5. Charts!Total(f, {}) = h[{}]
  BY <1>1, <1>3, SumIs
<1> QED
  BY <1>1, <1>4, <1>5

(* Pieces of days add to days.                                               *)
LEMMA SumMerged ==
  ASSUME NEW f, NEW h, IsFiniteSet(DOMAIN f), IsFiniteSet(DOMAIN h), f \in [DOMAIN f -> Nat], h \in [DOMAIN h -> Nat]
  PROVE  LET both == Charts!MergeDay(f, h) IN
         /\ DOMAIN both = DOMAIN f \cup DOMAIN h /\ both \in [DOMAIN both -> Nat]
         /\ Charts!SumFunction(both) = Charts!SumFunction(f) + Charts!SumFunction(h)
         /\ Charts!SumFunction(f) \in Nat /\ Charts!SumFunction(h) \in Nat
<1> DEFINE both == Charts!MergeDay(f, h)
           A == DOMAIN f
           B == DOMAIN h
           S == A \cup B
           SumF(s) == Charts!Total(f, s \cap A)
           SumH(s) == Charts!Total(h, s \cap B)
           g == [s \in SUBSET S |-> SumF(s) + SumH(s)]
<1>1. /\ DOMAIN both = S
      /\ \A x \in S : both[x] = (IF x \in A THEN f[x] ELSE 0) + (IF x \in B THEN h[x] ELSE 0)
      /\ \A x \in S : both[x] \in Nat
      /\ both = [x \in S |-> both[x]]
  BY DEF Charts!MergeDay
<1>2. \A s \in SUBSET S : IsFiniteSet(s \cap A) /\ IsFiniteSet(s \cap B)
  BY FS_Subset
<1>3. \A s \in SUBSET S : SumF(s) \in Nat /\ SumH(s) \in Nat
  <2> TAKE s \in SUBSET S
  <2>1. IsFiniteSet(s \cap A) /\ IsFiniteSet(s \cap B) /\ IsFiniteSet({})
    BY <1>2, FS_EmptySet
  <2>2. Natural(f, (s \cap A) \cup {}) /\ Natural(h, (s \cap B) \cup {}) /\ (s \cap A) \cap {} = {} /\ (s \cap B) \cap {} = {}
    BY DEF Natural
  <2>3. Charts!Total(f, s \cap A) \in Nat /\ Charts!Total(h, s \cap B) \in Nat
    BY <2>1, <2>2, SumApart
  <2> QED
    BY <2>3
<1> HIDE DEF both
<1>4. g \in [SUBSET S -> Nat]
  <2> HIDE DEF SumF, SumH, S
  <2> QED
    BY <1>3
<1>5. g[{}] = 0
  <2>1. {} \cap A = {} /\ {} \cap B = {} /\ {} \in SUBSET S
    OBVIOUS
  <2>2. Charts!Total(f, {}) = 0 /\ Charts!Total(h, {}) = 0
    <3>1. IsFiniteSet({}) /\ [s \in SUBSET {} |-> 0] \in [SUBSET {} -> Nat] /\ [s \in SUBSET {} |-> 0][{}] = 0
      BY FS_EmptySet
    <3> DEFINE e == [s \in SUBSET {} |-> 0]
    <3>2. e \in [SUBSET {} -> Nat] /\ e[{}] = 0
      OBVIOUS
    <3> HIDE DEF e
    <3> QED
      BY <3>1, <3>2, SumIs
  <2> QED
    BY <2>1, <2>2
<1>6. ASSUME NEW s \in SUBSET S, NEW x \in s PROVE g[s] = both[x] + g[s \ {x}]
  <2>1. g[s] = SumF(s) + SumH(s) /\ g[s \ {x}] = SumF(s \ {x}) + SumH(s \ {x})
    OBVIOUS
  <2>2. SumF(s) = (IF x \in A THEN f[x] ELSE 0) + SumF(s \ {x})
    <3>1. CASE x \in A
      <4>1. s \cap A = {x} \cup ((s \ {x}) \cap A) /\ {x} \cap ((s \ {x}) \cap A) = {}
        BY <3>1
      <4>2. IsFiniteSet({x}) /\ IsFiniteSet((s \ {x}) \cap A) /\ f[x] \in Nat
        BY <1>2, <3>1, FS_Singleton
      <4>3. Natural(f, {x} \cup ((s \ {x}) \cap A))
        BY <3>1 DEF Natural
      <4>4. Charts!Total(f, {x} \cup ((s \ {x}) \cap A)) = Charts!Total(f, {x}) + Charts!Total(f, (s \ {x}) \cap A)
        BY <4>1, <4>2, <4>3, SumApart
      <4>5. Charts!Total(f, {x}) = f[x]
        BY <4>2, SumOne
      <4> QED
        BY <3>1, <4>1, <4>4, <4>5
    <3>2. CASE x \notin A
      <4>1. s \cap A = (s \ {x}) \cap A
        BY <3>2
      <4>2. SumF(s \ {x}) \in Nat
        BY <1>3
      <4> QED
        BY <3>2, <4>1, <4>2
    <3> QED
      BY <3>1, <3>2
  <2>3. SumH(s) = (IF x \in B THEN h[x] ELSE 0) + SumH(s \ {x})
    <3>1. CASE x \in B
      <4>1. s \cap B = {x} \cup ((s \ {x}) \cap B) /\ {x} \cap ((s \ {x}) \cap B) = {}
        BY <3>1
      <4>2. IsFiniteSet({x}) /\ IsFiniteSet((s \ {x}) \cap B) /\ h[x] \in Nat
        BY <1>2, <3>1, FS_Singleton
      <4>3. Natural(h, {x} \cup ((s \ {x}) \cap B))
        BY <3>1 DEF Natural
      <4>4. Charts!Total(h, {x} \cup ((s \ {x}) \cap B)) = Charts!Total(h, {x}) + Charts!Total(h, (s \ {x}) \cap B)
        BY <4>1, <4>2, <4>3, SumApart
      <4>5. Charts!Total(h, {x}) = h[x]
        BY <4>2, SumOne
      <4> QED
        BY <3>1, <4>1, <4>4, <4>5
    <3>2. CASE x \notin B
      <4>1. s \cap B = (s \ {x}) \cap B
        BY <3>2
      <4>2. SumH(s \ {x}) \in Nat
        BY <1>3
      <4> QED
        BY <3>2, <4>1, <4>2
    <3> QED
      BY <3>1, <3>2
  <2>4. both[x] = (IF x \in A THEN f[x] ELSE 0) + (IF x \in B THEN h[x] ELSE 0)
    BY <1>1
  <2>5. SumF(s \ {x}) \in Nat /\ SumH(s \ {x}) \in Nat /\ (x \in A => f[x] \in Nat) /\ (x \in B => h[x] \in Nat)
    BY <1>3
  <2> HIDE DEF g, SumF, SumH, A, B
  <2> QED
    BY <2>1, <2>2, <2>3, <2>4, <2>5
<1>7. g[S] = Charts!Total(f, A) + Charts!Total(h, B)
  <2>1. S \cap A = A /\ S \cap B = B
    OBVIOUS
  <2> QED
    BY <2>1
<1>8. IsFiniteSet(S)
  BY FS_Union
<1>9. Charts!Total(f, A) \in Nat /\ Charts!Total(h, B) \in Nat
  <2>1. S \in SUBSET S /\ S \cap A = A /\ S \cap B = B
    OBVIOUS
  <2> QED
    BY <1>3, <2>1
<1>10. /\ \A x \in S : both[x] \in Nat
       /\ \A s \in SUBSET S : \A x \in s : g[s] = both[x] + g[s \ {x}]
  BY <1>1, <1>6
<1> HIDE DEF g, S, A, B
<1>11. Charts!Total(both, S) = g[S]
  BY <1>4, <1>5, <1>8, <1>10, SumIs
<1> QED
  BY <1>1, <1>7, <1>9, <1>11 DEF Charts!Total, Charts!SumFunction, S, A, B, both

(* The days of some rows add up to what the rows count.                      *)
ByDays(whole, W, n) ==
  /\ DOMAIN whole = {Charts!LocalDayStart(t) : t \in W} /\ IsFiniteSet(DOMAIN whole)
  /\ whole \in [DOMAIN whole -> Nat]
  /\ Charts!SumFunction(whole) = n
LEMMA DaysTally ==
  ASSUME NEW rows, NEW W, DOMAIN rows = W, IsFiniteSet(W), NEW R, NEW key, Tallies(rows, W, R, key)
  PROVE  ByDays(Charts!DaysOf(rows), W, Cardinality(Keyed(R, key, W)))
<1> DEFINE Day(t) == Charts!LocalDayStart(t)
           whole == Charts!DaysOf(rows)
           D == {Day(t) : t \in W}
           Of(d) == {t \in W : Day(t) = d}
           R2 == Keyed(R, key, W)
           day == [r \in R2 |-> Day(key[r])]
<1>1. whole = [d \in D |-> Charts!Total(rows, Of(d))]
  BY DEF Charts!DaysOf
<1>2. IsFiniteSet(D)
  <2>1. [t \in W |-> Day(t)] \in Surjection(W, D)
    BY DEF Surjection
  <2> QED
    BY <2>1, FS_Surjection
<1>3. \A d : IsFiniteSet(Of(d)) /\ Tallies(rows, Of(d), R, key)
  BY FS_Subset DEF Tallies
<1>4. \A d \in D : /\ whole[d] = Cardinality(Keyed(R, key, Of(d))) /\ whole[d] \in Nat
  <2> TAKE d \in D
  <2>1. whole[d] = Charts!Total(rows, Of(d))
    BY <1>1
  <2> HIDE DEF Of
  <2> QED
    BY <1>3, <2>1, SumCounts
<1>5. ASSUME NEW d \in D PROVE Keyed(R2, day, {d}) = Keyed(R, key, Of(d))
  BY DEF Keyed
<1>6. Tallies(whole, D, R2, day)
  <2>1. IsFiniteSet(R2)
    BY FS_Subset DEF Tallies, Keyed
  <2> HIDE DEF whole, D, R2, day, Of
  <2> QED
    BY <1>4, <1>5, <2>1 DEF Tallies
<1>7. Keyed(R2, day, D) = R2
  BY DEF Keyed
<1> HIDE DEF D, R2, day, Of
<1>8. DOMAIN whole = D
  BY <1>1
<1> HIDE DEF whole
<1>9. Charts!Total(whole, D) = Cardinality(R2)
  BY <1>2, <1>6, <1>7, SumCounts
<1>10. whole \in [D -> Nat]
  <2>1. whole = [d \in D |-> whole[d]]
    BY <1>1
  <2> QED
    BY <1>4, <2>1
<1> QED
  BY <1>2, <1>8, <1>9, <1>10 DEF ByDays, Charts!Total, Charts!SumFunction, whole, D, R2

(* What is counted by minute, and by hour.                                   *)
MinuteOf == [r \in onTime |-> Charts!Minute(r)]
LEMMA MinutesTally ==
  ASSUME NEW rows, NEW S, IsFiniteSet(S), IsFiniteSet(onTime),
         \A m \in S : rows[m] = Cardinality({r \in onTime : Charts!Minute(r) = m})
  PROVE  /\ Tallies(rows, S, onTime, MinuteOf)
         /\ Keyed(onTime, MinuteOf, S) = {r \in onTime : Charts!Minute(r) \in S}
         /\ Charts!Total(rows, S) = Cardinality({r \in onTime : Charts!Minute(r) \in S})
<1>1. \A m : Keyed(onTime, MinuteOf, {m}) = {r \in onTime : Charts!Minute(r) = m}
  BY DEF Keyed, MinuteOf
<1>2. Tallies(rows, S, onTime, MinuteOf)
  BY <1>1 DEF Tallies
<1>3. Keyed(onTime, MinuteOf, S) = {r \in onTime : Charts!Minute(r) \in S}
  BY DEF Keyed, MinuteOf
<1> QED
  BY <1>2, <1>3, SumCounts

LEMMA SameCount == ASSUME NEW S PROVE Charts!Cardinality(S) = Cardinality(S)
BY DEF Charts!Cardinality, Cardinality, Charts!IsFiniteSet, IsFiniteSet

(* A run of housekeeping makes the minutes of the readings since it was last *)
(* done, of all their readings, and no other.                                *)
LEMMA MinutesCounted ==
  ASSUME Charts!RollUpsAssumption, ClockCounts, RowsCount, RawWaits, RawIsMade, InMinutes,
         NEW end \in Nat, Charts!Minute(end) = end
  PROVE  LET mins == Charts!RollUpMinutes(end) IN
         /\ DOMAIN mins = DOMAIN minutes \cup {Charts!Minute(r) : r \in {o \in onTime : done <= o /\ o < end}}
         /\ \A m \in DOMAIN mins : mins[m] = Cardinality({r \in onTime : Charts!Minute(r) = m})
<1> DEFINE mins == Charts!RollUpMinutes(end)
           start == Charts!NextStart(minutes, raw, end, MIN)
           from == {r \in raw : start <= r /\ r < end}
           new == {Charts!Minute(r) : r \in from}
           fresh == {o \in onTime : done <= o /\ o < end}
<1>0. MIN \in Nat \ {0} /\ done \in Nat /\ Charts!Minute(done) = done
  BY DEF Charts!RollUpsAssumption, ClockCounts
<1>1. \A r \in onTime : r \in Nat /\ Charts!Minute(r) \in Nat /\ Charts!Minute(r) <= r /\ r < Charts!Minute(r) + MIN
  BY Bucket DEF RowsCount
<1>2. raw \in SUBSET Int /\ IsFiniteSet(raw)
  <2>1. raw \in SUBSET onTime /\ onTime \in SUBSET Nat /\ IsFiniteSet(onTime)
    BY DEF RowsCount
  <2>2. IsFiniteSet(raw)
    BY <2>1, FS_Subset
  <2> QED
    BY <2>1, <2>2
<1>3. \A r \in raw : r \in onTime
  BY DEF RowsCount
<1> DEFINE newest == {t \in DOMAIN minutes : t < end}
<1>4. newest \in SUBSET Int /\ IsFiniteSet(newest)
  <2>1. newest \in SUBSET DOMAIN minutes
    OBVIOUS
  <2> QED
    BY <2>1, FS_Subset DEF RowsCount
<1>5. from = fresh
  <2>5. CASE newest # {}
    <3>1. start = Charts!Max(newest) + MIN
      BY <2>5 DEF Charts!NextStart
    <3>2. Charts!Max(newest) \in newest /\ \A k \in newest : k <= Charts!Max(newest)
      <4> HIDE DEF newest
      <4> QED
        BY <1>4, <2>5, Extremes
    <3>3. PICK last \in DOMAIN minutes : last = Charts!Max(newest) /\ last < end
      BY <3>2
    <3>4. last \in Nat /\ Charts!Minute(last) = last /\ last < done
      BY <3>3 DEF RowsCount
    <3>5. last + MIN <= done
      BY <1>0, <3>4, Buckets
    <3>6. start \in Nat /\ start <= done
      BY <1>0, <3>1, <3>3, <3>4, <3>5
    <3> HIDE DEF start
    <3>7. ASSUME NEW r \in from, r < done PROVE FALSE
      <4>1. r \in onTime /\ r \in raw /\ start <= r /\ r < end
        BY <1>3
      <4>2. Charts!Minute(r) < done
        BY <1>0, <1>1, <3>7, <4>1
      <4>3. Charts!Minute(r) \in newest
        <5>1. Charts!Minute(r) \in DOMAIN minutes
          BY <4>1, <4>2 DEF RawIsMade
        <5> QED
          BY <1>1, <4>1, <5>1
      <4>4. Charts!Minute(r) <= last
        BY <3>2, <3>3, <4>3
      <4>5. last + MIN <= r
        BY <3>1, <3>3, <4>1
      <4> QED
        BY <1>0, <1>1, <3>4, <4>1, <4>4, <4>5
    <3>8. from = fresh
      <4>1. \A r \in from : r \in fresh
        BY <1>0, <1>1, <1>3, <3>7
      <4>2. \A r \in fresh : r \in from
        BY <1>0, <1>1, <3>6 DEF RawWaits
      <4> QED
        BY <4>1, <4>2
    <3> QED
      BY <3>8
  <2>6. CASE newest = {}
    <3>1. ASSUME NEW r \in raw, r < end, r < done PROVE FALSE
      <4>1. Charts!Minute(r) \in DOMAIN minutes
        BY <1>0, <1>1, <1>3, <3>1 DEF RawIsMade
      <4>2. Charts!Minute(r) < end
        BY <1>1, <1>3, <3>1
      <4> QED
        BY <2>6, <4>1, <4>2
    <3>2. CASE raw = {}
      <4>1. from = {} /\ fresh = {}
        BY <3>2 DEF RawWaits
      <4> QED
        BY <4>1
    <3>3. CASE raw # {}
      <4>1. start = Charts!Floor(Charts!Min(raw), MIN)
        BY <2>6, <3>3 DEF Charts!NextStart
      <4>2. Charts!Min(raw) \in Int /\ \A r \in raw : Charts!Min(raw) <= r
        BY <1>2, <3>3, Extremes
      <4>3. start \in Int /\ start <= Charts!Min(raw)
        BY <1>0, <4>1, <4>2, Floors
      <4> HIDE DEF start
      <4>4. \A r \in raw : start <= r
        BY <1>1, <1>3, <4>2, <4>3
      <4>5. \A r \in from : r \in fresh
        BY <1>0, <1>1, <1>3, <3>1
      <4>6. \A r \in fresh : r \in from
        BY <4>4 DEF RawWaits
      <4>7. from = fresh
        BY <4>5, <4>6
      <4> QED
        BY <4>7
    <3> QED
      BY <3>2, <3>3
  <2> QED
    BY <2>5, <2>6
<1>7. from = fresh
  BY <1>5
<1>8. DOMAIN mins = DOMAIN minutes \cup {Charts!Minute(r) : r \in fresh}
  <2>1. DOMAIN mins = DOMAIN minutes \cup new
    BY DEF Charts!RollUpMinutes, Charts!Replaced
  <2> HIDE DEF mins, from, fresh
  <2> QED
    BY <1>7, <2>1
<1>9. ASSUME NEW m \in DOMAIN mins PROVE mins[m] = Cardinality({r \in onTime : Charts!Minute(r) = m})
  <2>1. mins[m] = IF m \in new THEN Cardinality({r \in from : Charts!Minute(r) = m}) ELSE minutes[m]
    BY SameCount DEF Charts!RollUpMinutes, Charts!Replaced
  <2>2. CASE m \in new
    <3>1. PICK o \in from : m = Charts!Minute(o)
      BY <2>2
    <3>2. o \in onTime /\ done <= o /\ o < end
      BY <1>7, <3>1
    <3>3. done <= m /\ m < end
      <4>1. Charts!Minute(done) <= Charts!Minute(o)
        BY <1>0, <1>1, <3>2, Buckets
      <4> QED
        BY <1>0, <1>1, <3>1, <3>2, <4>1
    <3>4. ASSUME NEW r \in onTime, Charts!Minute(r) = m PROVE r \in from
      <4>1. done <= r
        BY <1>0, <1>1, <3>3, <3>4
      <4>2. r < end
        <5> SUFFICES ASSUME end <= r PROVE FALSE
          BY <1>1
        <5>1. Charts!Minute(end) <= Charts!Minute(r)
          BY <1>1, Buckets
        <5> QED
          BY <1>1, <3>3, <3>4, <5>1
      <4> QED
        BY <1>7, <4>1, <4>2
    <3>5. {r \in from : Charts!Minute(r) = m} = {r \in onTime : Charts!Minute(r) = m}
      BY <1>3, <3>4
    <3> QED
      BY <2>1, <2>2, <3>5
  <2>3. CASE m \notin new
    <3>1. m \in DOMAIN minutes
      BY <1>7, <1>8, <2>3
    <3> QED
      BY <2>1, <2>3, <3>1 DEF InMinutes
  <2> QED
    BY <2>2, <2>3
<1> QED
  BY <1>8, <1>9

(* All the minutes up to an end, each with all its readings.                 *)
AllMinutes(mins, end) ==
  /\ DOMAIN mins \in SUBSET Nat /\ IsFiniteSet(DOMAIN mins)
  /\ DOMAIN mins = DOMAIN minutes \cup {Charts!Minute(r) : r \in {o \in onTime : done <= o /\ o < end}}
  /\ \A m \in DOMAIN mins : mins[m] = Cardinality({r \in onTime : Charts!Minute(r) = m})

(* And the hours of all the minutes there are since.                         *)
AllHours(hrs, mins, full) ==
  /\ DOMAIN hrs = DOMAIN hours \cup {Charts!Hour(m) : m \in {n \in DOMAIN mins : Charts!Hour(done) <= n /\ n < full}}
  /\ \A h \in DOMAIN hrs : hrs[h] = Cardinality({r \in onTime : Charts!Hour(r) = h})

LEMMA HoursCounted ==
  ASSUME Charts!RollUpsAssumption, ClockCounts, RowsCount, MinutesWait, MinutesAreMade, InHours,
         NEW end \in Nat, Charts!Minute(end) = end, NEW full \in Nat, full = Charts!Hour(end),
         NEW mins, AllMinutes(mins, end)
  PROVE  AllHours(Charts!RollUpHours(mins, full), mins, full)
<1> USE DEF AllMinutes
<1> DEFINE hrs == Charts!RollUpHours(mins, full)
           start == Charts!NextStart(hours, DOMAIN mins, full, HOUR)
           from == {m \in DOMAIN mins : start <= m /\ m < full}
           fresh == {m \in DOMAIN mins : Charts!Hour(done) <= m /\ m < full}
           new == {Charts!Hour(m) : m \in from}
<1>0. HOUR \in Nat \ {0} /\ done \in Nat /\ Charts!Minute(done) = done /\ Charts!Hour(done) \in Nat
      /\ Charts!Hour(done) <= done /\ Charts!Hour(Charts!Hour(done)) = Charts!Hour(done)
      /\ Charts!Hour(full) = full /\ full <= end
  BY Bucket DEF Charts!RollUpsAssumption, ClockCounts
<1>1. \A r \in onTime : /\ r \in Nat /\ Charts!Minute(r) \in Nat /\ Charts!Minute(r) <= r
                        /\ Charts!Hour(r) \in Nat /\ Charts!Hour(r) <= Charts!Minute(r)
                        /\ Charts!Hour(Charts!Minute(r)) = Charts!Hour(r)
  BY Bucket DEF RowsCount
<1>2. \A m \in DOMAIN mins : m \in Nat /\ Charts!Hour(m) \in Nat /\ Charts!Hour(m) <= m /\ m < Charts!Hour(m) + HOUR
  BY Bucket
<1>3. \A m \in DOMAIN mins : Charts!Hour(m) < Charts!Hour(done) => Charts!Hour(m) \in DOMAIN hours
  <2> SUFFICES ASSUME NEW m \in DOMAIN mins, Charts!Hour(m) < Charts!Hour(done), m \notin DOMAIN minutes PROVE FALSE
    BY DEF MinutesAreMade
  <2>1. PICK r \in onTime : m = Charts!Minute(r) /\ done <= r
    OBVIOUS
  <2>2. Charts!Hour(done) <= Charts!Hour(r)
    BY <1>0, <1>1, <2>1, Buckets
  <2> QED
    BY <1>0, <1>1, <2>1, <2>2
<1>4. \A m \in DOMAIN mins : Charts!Hour(done) <= m => Charts!Hour(done) <= Charts!Hour(m)
  <2> TAKE m \in DOMAIN mins
  <2>1. Charts!Hour(done) <= m => Charts!Hour(Charts!Hour(done)) <= Charts!Hour(m)
    BY <1>0, <1>2, Buckets
  <2> QED
    BY <1>0, <2>1
<1>5. from = fresh
  <2> DEFINE newest == {t \in DOMAIN hours : t < full}
  <2>1. newest \in SUBSET Int /\ IsFiniteSet(newest)
    BY FS_Subset DEF RowsCount
  <2>2. ASSUME NEW m \in DOMAIN mins, m < full, m < Charts!Hour(done) PROVE Charts!Hour(m) \in newest
    <3>1. Charts!Hour(m) < Charts!Hour(done) /\ Charts!Hour(m) < full
      BY <1>0, <1>2, <2>2
    <3> QED
      BY <1>3, <3>1
  <2>3. CASE newest # {}
    <3>1. start = Charts!Max(newest) + HOUR
      BY <2>3 DEF Charts!NextStart
    <3>2. Charts!Max(newest) \in newest /\ \A k \in newest : k <= Charts!Max(newest)
      <4> HIDE DEF newest
      <4> QED
        BY <2>1, <2>3, Extremes
    <3>3. PICK last \in DOMAIN hours : last = Charts!Max(newest)
      BY <3>2
    <3>4. last \in Nat /\ Charts!Hour(last) = last /\ last < Charts!Hour(done)
      BY DEF RowsCount
    <3>5. last + HOUR <= Charts!Hour(done)
      BY <1>0, <3>4, Buckets
    <3>6. start = last + HOUR /\ start \in Nat /\ start <= Charts!Hour(done)
      BY <1>0, <3>1, <3>3, <3>4, <3>5
    <3> HIDE DEF start
    <3>7. \A m \in from : m \in fresh
      <4> SUFFICES ASSUME NEW m \in from, m < Charts!Hour(done) PROVE FALSE
        BY <1>0, <1>2
      <4>1. Charts!Hour(m) <= last
        BY <2>2, <3>2, <3>3
      <4>2. last + HOUR <= m
        BY <3>6
      <4> QED
        BY <1>0, <1>2, <3>4, <4>1, <4>2
    <3>8. \A m \in fresh : m \in from
      BY <1>0, <1>2, <3>6
    <3> QED
      BY <3>7, <3>8
  <2>4. CASE newest = {}
    <3>1. \A m \in from : m \in fresh
      BY <1>0, <1>2, <2>2, <2>4
    <3>2. CASE DOMAIN mins = {}
      BY <3>2
    <3>3. CASE DOMAIN mins # {}
      <4>1. start = Charts!Floor(Charts!Min(DOMAIN mins), HOUR)
        BY <2>4, <3>3 DEF Charts!NextStart
      <4>2. Charts!Min(DOMAIN mins) \in Int /\ \A m \in DOMAIN mins : Charts!Min(DOMAIN mins) <= m
        <5>1. DOMAIN mins \in SUBSET Int
          OBVIOUS
        <5> QED
          BY <3>3, <5>1, Extremes
      <4>3. PICK l \in Int : l = Charts!Min(DOMAIN mins)
        BY <4>2
      <4>4. start \in Int /\ start <= l
        BY <1>0, <4>1, <4>3, Floors
      <4> HIDE DEF start
      <4>5. \A m \in DOMAIN mins : start <= m
        <5> TAKE m \in DOMAIN mins
        <5>1. l <= m /\ m \in Nat
          BY <1>2, <4>2, <4>3
        <5> QED
          BY <4>4, <5>1
      <4>6. \A m \in fresh : m \in from
        BY <4>5
      <4> QED
        BY <3>1, <4>6
    <3> QED
      BY <3>2, <3>3
  <2> QED
    BY <2>3, <2>4
<1>6. DOMAIN hrs = DOMAIN hours \cup {Charts!Hour(m) : m \in fresh}
  <2>1. DOMAIN hrs = DOMAIN hours \cup new
    BY DEF Charts!RollUpHours, Charts!Replaced, Charts!Within
  <2> HIDE DEF hrs, from, fresh
  <2> QED
    BY <1>5, <2>1
<1>7. ASSUME NEW h \in DOMAIN hrs PROVE hrs[h] = Cardinality({r \in onTime : Charts!Hour(r) = h})
  <2> DEFINE M == {m \in from : Charts!Hour(m) = h}
  <2>1. hrs[h] = IF h \in new THEN Charts!Total(mins, M) ELSE hours[h]
    BY DEF Charts!RollUpHours, Charts!Replaced, Charts!Within
  <2>2. CASE h \in new
    <3>1. PICK m \in fresh : h = Charts!Hour(m)
      BY <1>5, <2>2
    <3>2. h \in Nat /\ Charts!Hour(done) <= h /\ h < full
      BY <1>0, <1>2, <1>4, <3>1
    <3>3. IsFiniteSet(M) /\ \A x \in M : x \in DOMAIN mins
      BY FS_Subset
    <3>4. ASSUME NEW r \in onTime, Charts!Hour(r) = h PROVE Charts!Minute(r) \in fresh
      <4>1. Charts!Minute(r) < full
        <5> SUFFICES ASSUME full <= Charts!Minute(r) PROVE FALSE
          BY <1>1
        <5>1. Charts!Hour(full) <= Charts!Hour(Charts!Minute(r))
          BY <1>1, Buckets
        <5> QED
          BY <1>0, <1>1, <3>2, <3>4, <5>1
      <4>2. Charts!Hour(done) <= Charts!Minute(r)
        BY <1>0, <1>1, <3>2, <3>4
      <4>3. CASE Charts!Minute(r) < done
        <5>1. Charts!Hour(r) >= Charts!Hour(done)
          BY <1>0, <3>2, <3>4
        <5>2. Charts!Minute(r) \in DOMAIN minutes
          BY <4>3, <5>1 DEF MinutesWait
        <5>3. Charts!Minute(r) \in DOMAIN mins
          BY <5>2
        <5> HIDE DEF new, from, start
        <5> QED
          BY <4>1, <4>2, <5>3
      <4>4. CASE done <= Charts!Minute(r)
        <5>1. done <= r
          BY <1>0, <1>1, <4>4
        <5>2. r < end
          <6> SUFFICES ASSUME end <= r PROVE FALSE
            BY <1>1
          <6>1. Charts!Minute(end) <= Charts!Minute(r)
            BY <1>1, Buckets
          <6> QED
            BY <1>0, <1>1, <4>1, <6>1
        <5> QED
          BY <4>1, <4>2, <5>1, <5>2
      <4> QED
        BY <1>0, <1>1, <4>3, <4>4
    <3>5. {r \in onTime : Charts!Minute(r) \in M} = {r \in onTime : Charts!Hour(r) = h}
      <4> HIDE DEF from, fresh
      <4>1. \A r \in onTime : Charts!Minute(r) \in M <=> Charts!Hour(r) = h
        BY <1>1, <1>5, <3>4
      <4> HIDE DEF M
      <4> QED
        BY <4>1
    <3>6. IsFiniteSet(onTime)
      BY DEF RowsCount
    <3> HIDE DEF M
    <3>7. Charts!Total(mins, M) = Cardinality({r \in onTime : Charts!Minute(r) \in M})
      BY <3>3, <3>6, MinutesTally
    <3> QED
      BY <2>1, <2>2, <3>5, <3>7
  <2>3. CASE h \notin new
    <3>1. h \in DOMAIN hours
      BY <1>5, <1>6, <2>3
    <3> QED
      BY <2>1, <2>3, <3>1 DEF InHours
  <2> QED
    BY <2>2, <2>3
<1> QED
  BY <1>6, <1>7 DEF AllHours

(* A day begins at a midnight of the zone, the last there was.               *)
LEMMA DayBegins ==
  ASSUME Charts!RollUpsAssumption, Charts!CountingAssumption, zone \in DOMAIN Midnights, NEW t \in Nat
  PROVE  /\ Charts!LocalDayStart(t) \in Midnights[zone] /\ Charts!LocalDayStart(t) \in Int
         /\ Charts!LocalDayStart(t) <= t /\ Charts!Minute(Charts!LocalDayStart(t)) = Charts!LocalDayStart(t)
         /\ \A m \in Midnights[zone] : m <= t => m <= Charts!LocalDayStart(t)
         /\ \A p \in Kinds : Charts!LocalDayStart(t) + p["1d"] >= Horizon
<1> DEFINE B == {m \in Midnights[zone] : m <= t}
<1>1. /\ Midnights[zone] \subseteq Int /\ \E m \in Midnights[zone] : m <= 0
      /\ \A m \in Midnights[zone] : Charts!Minute(m) = m /\ \A p \in Kinds : m + p["1d"] >= Horizon
  BY DEF Charts!RollUpsAssumption, Charts!CountingAssumption, Kinds
<1>2. B \in SUBSET Int /\ B # {}
  BY <1>1
<1>3. IsFiniteSet(B)
  <2>1. IsFiniteSet(Midnights[zone]) /\ B \in SUBSET Midnights[zone]
    BY DEF Charts!RollUpsAssumption, Charts!IsFiniteSet, IsFiniteSet
  <2> HIDE DEF B
  <2> QED
    BY <2>1, FS_Subset
<1>4. Charts!LocalDayStart(t) = Charts!Max(B)
  BY DEF Charts!LocalDayStart
<1> HIDE DEF B
<1>5. Charts!Max(B) \in B /\ \A k \in B : k <= Charts!Max(B)
  BY <1>2, <1>3, Extremes
<1> QED
  BY <1>1, <1>4, <1>5 DEF B

(* What a policy keeps, it keeps longer than what it was made from.          *)
LEMMA KindsKeep ==
  ASSUME Charts!RollUpsAssumption, Charts!CountingAssumption, NEW p \in Kinds
  PROVE  /\ p["raw"] \in Nat /\ p["1m"] \in Nat /\ p["1h"] \in Nat /\ p["1d"] \in Nat
         /\ p["raw"] + MIN <= p["1m"] /\ p["1m"] + HOUR <= p["1h"]
BY DEF Charts!RollUpsAssumption, Charts!CountingAssumption, Kinds, Charts!RESOLUTIONS

(* An hour goes no sooner than the day that begins in it is over.            *)
LEMMA HoursOutlast ==
  ASSUME Charts!RollUpsAssumption, Charts!CountingAssumption, zone \in DOMAIN Midnights,
         NEW p \in Kinds, NEW now \in 0 .. Horizon
  PROVE  Charts!Hour(Charts!LocalDayStart(Charts!Minute(now))) >= now - p["1h"]
<1>1. PICK end \in Nat : end = Charts!Minute(now)
  BY Bucket DEF Charts!CountingAssumption
<1>2. PICK day \in Int : /\ day = Charts!LocalDayStart(end) /\ day \in Midnights[zone]
                         /\ \A m \in Midnights[zone] : m <= end => m <= day
  BY DayBegins
<1>3. Charts!Hour(day) \in Int /\ now - p["1h"] \in Int
  BY Bucket, KindsKeep DEF Charts!CountingAssumption
<1>4. ASSUME Charts!Hour(day) < now - p["1h"] PROVE FALSE
  <2>1. PICK n \in Midnights[zone] : day < n /\ n <= end
    BY <1>1, <1>2, <1>4 DEF Charts!CountingAssumption, Kinds
  <2>2. n \in Int
    BY DEF Charts!RollUpsAssumption
  <2> QED
    BY <1>2, <2>1, <2>2
<1> QED
  BY <1>1, <1>2, <1>3, <1>4

LEMMA KeptAs ==
  ASSUME NEW rows, NEW cutoff
  PROVE  /\ DOMAIN Charts!Kept(rows, cutoff) = {t \in DOMAIN rows : t >= cutoff}
         /\ \A t \in DOMAIN Charts!Kept(rows, cutoff) : Charts!Kept(rows, cutoff)[t] = rows[t]
BY DEF Charts!Kept, Charts!RestrictDomain, Charts!Restrict

(* The days go on where they stopped, up to the day it is, with all minutes. *)
AllDays(dys, stop, mins, day) ==
  /\ DOMAIN dys \in SUBSET Int /\ IsFiniteSet(DOMAIN dys) /\ dys \in [DOMAIN dys -> Nat]
  /\ \A d \in DOMAIN dys, p \in Kinds : d + p["1d"] >= Horizon
  /\ stop = None => DOMAIN dys = {} /\ until = None /\ \A m \in DOMAIN mins : m >= day
  /\ stop # None => /\ stop \in Int /\ stop >= day /\ (stop = until \/ stop = day) /\ Charts!Minute(stop) = stop
                    /\ until # None => until <= stop
                    /\ Charts!SumFunction(dys) = Cardinality({r \in onTime : r < stop})

LEMMA DaysCounted ==
  ASSUME Charts!RollUpsAssumption, Charts!CountingAssumption, ClockCounts, RowsCount, DaysStay, MinutesWait, InDays,
         NEW end \in Nat, Charts!Minute(end) = end,
         NEW mins, AllMinutes(mins, end),
         NEW day \in Int, day = Charts!LocalDayStart(end),
         NEW begin, begin = Charts!NextDayStart(DOMAIN mins, day),
         NEW stop, stop = IF begin < day THEN day ELSE until,
         NEW dys, dys = Charts!RollUpDays(mins, day)
  PROVE  AllDays(dys, stop, mins, day)
<1> USE DEF AllDays
<1> DEFINE W == {m \in DOMAIN mins : begin <= m /\ m < day}
           some == Charts!Restrict(mins, W)
           pieces == Charts!DaysOf(some)
           In == {r \in onTime : Charts!Minute(r) \in W}
           First(t) == {r \in onTime : r < t}
<1>0. /\ None \notin Int /\ done \in Nat /\ Charts!Minute(done) = done /\ zone \in DOMAIN Midnights
      /\ Charts!Minute(day) = day /\ day <= end
  BY DayBegins DEF Charts!CountingAssumption, ClockCounts
<1> DEFINE fresh == {o \in onTime : done <= o /\ o < end}
<1>a. /\ DOMAIN mins \in SUBSET Nat /\ IsFiniteSet(DOMAIN mins)
      /\ DOMAIN mins = DOMAIN minutes \cup {Charts!Minute(r) : r \in fresh}
      /\ \A m \in DOMAIN mins : mins[m] = Cardinality({r \in onTime : Charts!Minute(r) = m})
  BY DEF AllMinutes
<1> HIDE DEF fresh
<1>1. \A r \in onTime : r \in Nat /\ Charts!Minute(r) \in Nat /\ Charts!Minute(r) <= r
  BY Bucket DEF RowsCount
<1>2. IsFiniteSet(onTime)
  BY DEF RowsCount
<1>3. W \in SUBSET Nat /\ IsFiniteSet(W) /\ W \in SUBSET DOMAIN mins
  <2>1. W \in SUBSET DOMAIN mins
    OBVIOUS
  <2> QED
    BY <1>a, <2>1, FS_Subset
<1>4. dys = Charts!MergeDay(days, pieces)
  BY DEF Charts!RollUpDays, Charts!Within
<1>5. DOMAIN some = W /\ \A m \in W : some[m] = Cardinality({r \in onTime : Charts!Minute(r) = m})
  BY <1>a, <1>3 DEF Charts!Restrict
<1> HIDE DEF some, W
<1>6. /\ DOMAIN pieces = {Charts!LocalDayStart(t) : t \in W} /\ IsFiniteSet(DOMAIN pieces)
      /\ pieces \in [DOMAIN pieces -> Nat]
      /\ Charts!SumFunction(pieces) = Cardinality(In)
  <2>1. Tallies(some, W, onTime, MinuteOf)
    BY <1>2, <1>3, <1>5, MinutesTally
  <2>2. Keyed(onTime, MinuteOf, W) = In
    BY <1>2, <1>3, <1>5, MinutesTally
  <2> HIDE DEF In, pieces
  <2>3. ByDays(Charts!DaysOf(some), W, Cardinality(Keyed(onTime, MinuteOf, W)))
    <3> HIDE DEF MinuteOf
    <3>1. DOMAIN some = W /\ IsFiniteSet(W) /\ Tallies(some, W, onTime, MinuteOf)
      BY <1>3, <1>5, <2>1
    <3> QED
      BY <3>1, DaysTally
  <2> QED
    BY <2>2, <2>3 DEF ByDays, pieces
<1>7. /\ days \in [DOMAIN days -> Nat] /\ DOMAIN days \in SUBSET Int /\ IsFiniteSet(DOMAIN days)
      /\ \A d \in DOMAIN days, p \in Kinds : d + p["1d"] >= Horizon
  BY DEF DaysStay
<1> HIDE DEF pieces
<1>8. /\ DOMAIN dys = DOMAIN days \cup DOMAIN pieces /\ dys \in [DOMAIN dys -> Nat]
      /\ Charts!SumFunction(dys) = Charts!SumFunction(days) + Cardinality(In)
      /\ Charts!SumFunction(days) \in Nat
  BY <1>4, <1>6, <1>7, SumMerged
<1>9. \A d \in DOMAIN pieces : d \in Int /\ \A p \in Kinds : d + p["1d"] >= Horizon
  <2> TAKE d \in DOMAIN pieces
  <2>1. PICK t \in W : d = Charts!LocalDayStart(t)
    BY <1>6
  <2> QED
    BY <1>0, <1>3, <2>1, DayBegins
<1>10. /\ DOMAIN dys \in SUBSET Int /\ IsFiniteSet(DOMAIN dys)
       /\ \A d \in DOMAIN dys, p \in Kinds : d + p["1d"] >= Horizon
  <2>1. IsFiniteSet(DOMAIN days \cup DOMAIN pieces)
    BY <1>6, <1>7, FS_Union
  <2> QED
    BY <1>7, <1>8, <1>9, <2>1
(* The readings of a stretch that is whole. *)
<1>11. ASSUME NEW from \in Int, from <= day, Charts!Minute(from) = from,
              \A r \in onTime : from <= Charts!Minute(r) /\ Charts!Minute(r) < day => Charts!Minute(r) \in DOMAIN mins,
              \A m \in DOMAIN mins : m < day => (begin <= m <=> from <= m)
       PROVE  Cardinality(First(from)) + Cardinality(In) = Cardinality(First(day))
  <2>1. ASSUME NEW r \in onTime PROVE (Charts!Minute(r) < day <=> r < day) /\ (from <= Charts!Minute(r) <=> from <= r)
    <3>1. \A b \in Int : Charts!Minute(b) = b /\ b <= r => b <= Charts!Minute(r)
      <4> TAKE b \in Int
      <4>1. b <= r => Charts!Minute(b) <= Charts!Minute(r)
        BY <1>1, Buckets
      <4> QED
        BY <4>1
    <3> QED
      BY <1>0, <1>1, <1>11, <3>1
  <2>2. \A r \in onTime : r \in In <=> from <= r /\ r < day
    <3> TAKE r \in onTime
    <3>1. r \in In => from <= r /\ r < day
      BY <1>3, <1>11, <2>1 DEF W
    <3>2. from <= r /\ r < day => r \in In
      BY <1>3, <1>11, <2>1 DEF W
    <3> QED
      BY <3>1, <3>2
  <2>3. First(day) = First(from) \cup In /\ First(from) \cap In = {}
    BY <1>1, <1>11, <2>2
  <2>4. IsFiniteSet(First(from)) /\ IsFiniteSet(In)
    BY <1>2, FS_Subset
  <2> HIDE DEF First, In
  <2> QED
    BY <2>3, <2>4, CountApart
<1>12. ASSUME NEW r \in onTime, Charts!Minute(r) < day,
              done <= Charts!Minute(r) \/ Charts!Minute(r) \in DOMAIN minutes
       PROVE  Charts!Minute(r) \in DOMAIN mins
  <2>1. CASE Charts!Minute(r) \in DOMAIN minutes
    BY <1>a, <2>1
  <2>2. CASE done <= Charts!Minute(r)
    <3>1. r < end
      <4> SUFFICES ASSUME end <= r PROVE FALSE
        BY <1>1
      <4>1. Charts!Minute(end) <= Charts!Minute(r)
        BY <1>1, Buckets
      <4> QED
        BY <1>0, <1>1, <1>12, <4>1
    <3>2. done <= r
      BY <1>0, <1>1, <2>2
    <3>3. r \in fresh
      BY <3>1, <3>2 DEF fresh
    <3> QED
      BY <1>a, <3>3
  <2> QED
    BY <1>12, <2>1, <2>2
<1>13. CASE until # None
  <2>1. until \in Int /\ until <= done /\ Charts!Minute(until) = until /\ begin = until
    BY <1>13 DEF DaysStay, Charts!NextDayStart
  <2>2. Charts!SumFunction(days) = Cardinality(First(until))
    BY <1>13 DEF InDays
  <2>3. CASE until < day
    <3>1. \A r \in onTime : until <= Charts!Minute(r) /\ Charts!Minute(r) < day => Charts!Minute(r) \in DOMAIN mins
      <4> SUFFICES ASSUME NEW r \in onTime, until <= Charts!Minute(r), Charts!Minute(r) < day
                   PROVE  Charts!Minute(r) \in DOMAIN mins
        OBVIOUS
      <4>1. done <= Charts!Minute(r) \/ Charts!Minute(r) \in DOMAIN minutes
        BY <1>0, <1>1, <2>1 DEF MinutesWait
      <4> QED
        BY <1>12, <4>1
    <3>2. Cardinality(First(until)) + Cardinality(In) = Cardinality(First(day))
      <4>1. \A m \in DOMAIN mins : m < day => (begin <= m <=> until <= m)
        BY <2>1
      <4> QED
        BY <1>11, <2>1, <2>3, <3>1, <4>1
    <3>3. stop = day
      BY <2>1, <2>3
    <3>4. Charts!SumFunction(dys) = Cardinality(First(day))
      BY <1>8, <2>2, <3>2
    <3> HIDE DEF First, In
    <3>5. Charts!SumFunction(dys) = Cardinality({r \in onTime : r < stop})
      BY <3>3, <3>4 DEF First
    <3> QED
      BY <3>5, <1>0, <1>8, <1>10, <2>1, <2>2, <2>3, <3>2, <3>3
  <2>4. CASE day <= until
    <3>1. W = {}
      BY <1>3, <2>1, <2>4 DEF W
    <3>2. In = {}
      BY <3>1
    <3>3. stop = until /\ Cardinality(In) = 0
      BY <2>1, <2>4, <3>2, FS_EmptySet
    <3>4. Charts!SumFunction(dys) = Cardinality({r \in onTime : r < stop})
      BY <1>8, <1>13, <2>2, <3>3 DEF First
    <3> HIDE DEF First, In
    <3> QED
      BY <1>8, <1>10, <1>13, <2>1, <2>4, <3>3, <3>4
  <2> QED
    BY <2>1, <2>3, <2>4
<1>14. CASE until = None
  <2>1. DOMAIN days = {}
    BY <1>14 DEF DaysStay
  <2>2. Charts!SumFunction(days) = 0
    <3>1. Charts!Total(days, {}) = 0
      BY SumNone
    <3> QED
      BY <2>1, <3>1 DEF Charts!Total, Charts!SumFunction
  <2>3. CASE begin < day
    <3>1. DOMAIN mins # {}
      <4>1. DOMAIN mins = {} => begin = day
        BY <1>14 DEF Charts!NextDayStart
      <4>2. ~(day < day)
        OBVIOUS
      <4> QED
        BY <2>3, <4>1, <4>2, Zenon
    <3>2. DOMAIN mins \in SUBSET Int
      BY <1>a
    <3>3. PICK l \in DOMAIN mins : l = Charts!Min(DOMAIN mins) /\ \A m \in DOMAIN mins : l <= m
      BY <1>a, <3>1, <3>2, Extremes
    <3>4. begin = Charts!LocalDayStart(l)
      BY <1>14, <3>1, <3>3 DEF Charts!NextDayStart
    <3>5. begin \in Int /\ begin <= l /\ Charts!Minute(begin) = begin
      BY <1>0, <1>a, <3>3, <3>4, DayBegins
    <3>6. \A r \in onTime : Charts!Minute(r) < day => Charts!Minute(r) \in DOMAIN mins
      <4> SUFFICES ASSUME NEW r \in onTime, Charts!Minute(r) < day PROVE Charts!Minute(r) \in DOMAIN mins
        OBVIOUS
      <4>1. done <= Charts!Minute(r) \/ Charts!Minute(r) \in DOMAIN minutes
        BY <1>0, <1>1, <1>14 DEF MinutesWait
      <4> QED
        BY <1>12, <4>1
    <3>7. First(begin) = {}
      <4> SUFFICES ASSUME NEW r \in onTime, r < begin PROVE FALSE
        OBVIOUS
      <4>0. l \in Nat /\ day \in Int
        BY <1>a
      <4>1. Charts!Minute(r) < day /\ Charts!Minute(r) < l
        BY <1>1, <2>3, <3>3, <3>5, <4>0
      <4>2. Charts!Minute(r) \in DOMAIN mins
        BY <3>6, <4>1
      <4> QED
        BY <1>1, <3>3, <4>0, <4>1, <4>2
    <3>8. Cardinality(First(begin)) = 0
      BY <3>7, FS_EmptySet
    <3>9. Cardinality(First(begin)) + Cardinality(In) = Cardinality(First(day))
      BY <1>11, <2>3, <3>5, <3>6
    <3>10. stop = day /\ Cardinality(In) \in Nat
      <4>1. IsFiniteSet(In)
        BY <1>2, FS_Subset
      <4> QED
        BY <2>3, <4>1, FS_CardinalityType
    <3> HIDE DEF In, First
    <3>11. Charts!SumFunction(dys) = Cardinality(First(day))
      BY <1>8, <2>2, <3>8, <3>9, <3>10
    <3> QED
      BY <1>0, <1>8, <1>10, <1>14, <3>10, <3>11 DEF First
  <2>4. CASE ~(begin < day)
    <3>1. stop = None
      BY <1>14, <2>4
    <3>2. \A m \in DOMAIN mins : m >= day
      <4> SUFFICES ASSUME NEW m \in DOMAIN mins PROVE m >= day
        OBVIOUS
      <4>1. DOMAIN mins \in SUBSET Int /\ DOMAIN mins # {}
        BY <1>a
      <4>2. PICK l \in DOMAIN mins : l = Charts!Min(DOMAIN mins) /\ \A k \in DOMAIN mins : l <= k
        BY <1>a, <4>1, Extremes
      <4>3. begin = Charts!LocalDayStart(l)
        BY <1>14, <4>1, <4>2 DEF Charts!NextDayStart
      <4>4. begin \in Int /\ begin <= l
        BY <1>0, <1>a, <4>2, <4>3, DayBegins
      <4>5. l \in Nat /\ m \in Nat /\ l <= m
        BY <1>a, <4>2
      <4> QED
        BY <2>4, <4>4, <4>5
    <3>3. W = {}
      BY <1>3, <3>2 DEF W
    <3>4. DOMAIN pieces = {}
      BY <1>6, <3>3
    <3>5. DOMAIN dys = {}
      BY <1>8, <2>1, <3>4
    <3> HIDE DEF In, First
    <3> QED
      BY <1>8, <1>10, <1>14, <3>1, <3>2, <3>5
  <2> QED
    BY <2>3, <2>4
<1> QED
  BY <1>13, <1>14

(* A run leaves what is counted counted: a row that goes is in the next level. *)
LEMMA RunCounts ==
  ASSUME Charts!RollUpsAssumption, Charts!CountingAssumption, ClockCounts, Counted,
         NEW now \in 0 .. Horizon, Charts!RunHousekeeping(now), UNCHANGED onTime
  PROVE  Counted'
<1> USE DEF Counted
<1>1. now \in Nat /\ now <= Horizon /\ Horizon \in Nat /\ None \notin Int
  BY DEF Charts!CountingAssumption
<1>2. PICK end \in Nat : end = Charts!Minute(now)
  BY <1>1, Bucket
<1>3. PICK full \in Nat : full = Charts!Hour(end)
  BY Bucket
<1>4. PICK day \in Int : day = Charts!LocalDayStart(end)
  BY DayBegins DEF ClockCounts
<1>5. /\ Charts!Minute(end) = end /\ Charts!Hour(full) = full /\ full <= end /\ end <= now /\ now < full + HOUR
      /\ MIN \in Nat /\ HOUR \in Nat
  <2>1. full = Charts!Hour(now)
    BY <1>1, <1>2, <1>3, Bucket
  <2> QED
    BY <1>1, <1>2, <1>3, <2>1, Bucket DEF Charts!RollUpsAssumption
<1>6. done \in Nat /\ Charts!Minute(done) = done /\ Charts!Hour(done) \in Nat /\ Charts!Hour(done) <= done
  BY Bucket DEF ClockCounts
<1>7. PICK new \in Nat : new = IF end > done THEN end ELSE done
  BY <1>6
<1>8. /\ done <= new /\ end <= new /\ (new = end \/ new = done) /\ Charts!Minute(new) = new
      /\ Charts!Hour(new) \in Nat /\ Charts!Hour(done) <= Charts!Hour(new) /\ full <= Charts!Hour(new)
      /\ (new = end => Charts!Hour(new) = full)
  <2>1. done <= new /\ end <= new /\ (new = end \/ new = done) /\ Charts!Minute(new) = new
    BY <1>5, <1>6, <1>7
  <2> QED
    BY <1>3, <1>6, <2>1, Bucket, Buckets
<1>9. PICK r1, r2, r3, r4 \in Nat :
        /\ r1 = retained["raw"] /\ r2 = retained["1m"] /\ r3 = retained["1h"] /\ r4 = retained["1d"]
        /\ r1 + MIN <= r2 /\ r2 + HOUR <= r3
  BY KindsKeep DEF ClockCounts
<1>10. PICK mins : mins = Charts!RollUpMinutes(end)
  OBVIOUS
<1>11. PICK hrs : hrs = Charts!RollUpHours(mins, full)
  OBVIOUS
<1>12. PICK begin : begin = Charts!NextDayStart(DOMAIN mins, day)
  OBVIOUS
<1>13. PICK stop : stop = IF begin < day THEN day ELSE until
  OBVIOUS
<1>14. PICK dys : dys = Charts!RollUpDays(mins, day)
  OBVIOUS
<1>15. PICK cut \in Int : cut = Charts!Least(now - r2, Charts!MinuteCovered(full, day))
  BY <1>1, <1>9 DEF Charts!Least, Charts!MinuteCovered
<1>16. cut <= now - r2 /\ cut <= full /\ cut <= day /\ (cut = now - r2 \/ cut = full \/ cut = day)
  BY <1>1, <1>9, <1>15 DEF Charts!Least, Charts!MinuteCovered
<1>17. PICK old \in Int : old = Charts!Least(now - r1, end)
  BY <1>1, <1>9 DEF Charts!Least
<1>18. old <= end /\ (old = now - r1 \/ old = end)
  BY <1>1, <1>9, <1>17 DEF Charts!Least
<1>19. /\ hours' = Charts!Kept(hrs, now - r3) /\ days' = Charts!Kept(dys, now - r4) /\ until' = stop
       /\ minutes' = Charts!Kept(mins, cut) /\ raw' = {r \in raw : r >= old} /\ done' = new /\ onTime' = onTime
  BY <1>2, <1>3, <1>4, <1>7, <1>9, <1>10, <1>11, <1>12, <1>13, <1>14, <1>15, <1>17 DEF Charts!RunHousekeeping
(* What there is before anything goes. *)
<1>20. \A r \in onTime : /\ r \in Nat /\ Charts!Minute(r) \in Nat /\ Charts!Minute(r) <= r /\ r < Charts!Minute(r) + MIN
                         /\ Charts!Hour(r) \in Nat /\ Charts!Hour(r) <= Charts!Minute(r)
                         /\ Charts!Hour(Charts!Minute(r)) = Charts!Hour(r)
                         /\ Charts!Minute(Charts!Minute(r)) = Charts!Minute(r)
                         /\ (end <= r => end <= Charts!Minute(r)) /\ (done <= r => done <= Charts!Minute(r))
  <2> TAKE r \in onTime
  <2>1. r \in Nat
    BY DEF RowsCount
  <2>2. (end <= r => Charts!Minute(end) <= Charts!Minute(r)) /\ (done <= r => Charts!Minute(done) <= Charts!Minute(r))
    BY <1>6, <2>1, Buckets
  <2> QED
    BY <1>5, <1>6, <2>1, <2>2, Bucket
<1> DEFINE fresh == {o \in onTime : done <= o /\ o < end}
<1>21. /\ DOMAIN mins = DOMAIN minutes \cup {Charts!Minute(r) : r \in fresh}
       /\ \A m \in DOMAIN mins : mins[m] = Cardinality({r \in onTime : Charts!Minute(r) = m})
  BY <1>5, <1>10, MinutesCounted
<1>22. DOMAIN mins \in SUBSET Nat /\ IsFiniteSet(DOMAIN mins)
  <2> DEFINE F == {Charts!Minute(r) : r \in fresh}
  <2>1. [r \in fresh |-> Charts!Minute(r)] \in Surjection(fresh, F)
    BY DEF Surjection
  <2>2. IsFiniteSet(fresh)
    BY FS_Subset DEF RowsCount
  <2>3. IsFiniteSet(F)
    BY <2>1, <2>2, FS_Surjection
  <2>4. F \in SUBSET Nat
    BY <1>20
  <2>5. DOMAIN minutes \in SUBSET Nat /\ IsFiniteSet(DOMAIN minutes)
    BY DEF RowsCount
  <2> HIDE DEF F, fresh
  <2>6. IsFiniteSet(DOMAIN minutes \cup F)
    BY <2>3, <2>5, FS_Union
  <2> QED
    BY <1>21, <2>4, <2>5, <2>6 DEF F
<1>23. AllMinutes(mins, end)
  BY <1>21, <1>22 DEF AllMinutes
<1>24. \A m \in DOMAIN mins : /\ m \in Nat /\ Charts!Minute(m) = m /\ m < new
                              /\ Charts!Hour(m) \in Nat /\ Charts!Hour(m) <= m /\ m < Charts!Hour(m) + HOUR
                              /\ m \in DOMAIN minutes \/ Charts!Hour(done) <= Charts!Hour(m)
  <2> TAKE m \in DOMAIN mins
  <2>1. m \in Nat
    BY <1>22
  <2>2. Charts!Hour(m) \in Nat /\ Charts!Hour(m) <= m /\ m < Charts!Hour(m) + HOUR
    BY <2>1, Bucket
  <2>3. CASE m \in DOMAIN minutes
    BY <1>6, <1>8, <2>1, <2>2, <2>3 DEF RowsCount
  <2>4. CASE m \notin DOMAIN minutes
    <3>1. PICK r \in onTime : m = Charts!Minute(r) /\ done <= r /\ r < end
      BY <1>21, <2>4
    <3>2. Charts!Hour(done) <= Charts!Hour(r)
      BY <1>6, <1>20, <3>1, Buckets
    <3> QED
      BY <1>8, <1>20, <2>1, <2>2, <3>1, <3>2
  <2> QED
    BY <2>3, <2>4
<1>25. ASSUME NEW r \in onTime, Charts!Minute(r) < new, Charts!Minute(r) >= done
       PROVE  Charts!Minute(r) \in DOMAIN mins
  <2>1. new = end
    BY <1>6, <1>8, <1>20, <1>25
  <2>2. r \in fresh
    BY <1>6, <1>20, <1>25, <2>1
  <2> QED
    BY <1>21, <2>2
<1> HIDE DEF fresh
<1>26. /\ DOMAIN hrs = DOMAIN hours \cup {Charts!Hour(m) : m \in {n \in DOMAIN mins : Charts!Hour(done) <= n /\ n < full}}
       /\ \A h \in DOMAIN hrs : hrs[h] = Cardinality({r \in onTime : Charts!Hour(r) = h})
  <2>1. Charts!Minute(end) = end
    BY <1>5
  <2>2. AllHours(hrs, mins, full)
    BY <1>3, <2>1, <1>11, <1>23, HoursCounted
  <2> QED
    BY <2>2 DEF AllHours
<1>27. /\ DOMAIN dys \in SUBSET Int /\ IsFiniteSet(DOMAIN dys) /\ dys \in [DOMAIN dys -> Nat]
       /\ \A d \in DOMAIN dys, p \in Kinds : d + p["1d"] >= Horizon
       /\ stop = None => DOMAIN dys = {} /\ until = None /\ \A m \in DOMAIN mins : m >= day
       /\ stop # None => /\ stop \in Int /\ stop >= day /\ (stop = until \/ stop = day) /\ Charts!Minute(stop) = stop
                         /\ until # None => until <= stop
                         /\ Charts!SumFunction(dys) = Cardinality({r \in onTime : r < stop})
  <2>1. Charts!Minute(end) = end
    BY <1>5
  <2>2. AllDays(dys, stop, mins, day)
    BY <1>4, <2>1, <1>12, <1>13, <1>14, <1>23, DaysCounted
  <2> QED
    BY <2>2 DEF AllDays
<1>28. DOMAIN hrs \in SUBSET Nat /\ IsFiniteSet(DOMAIN hrs) /\ \A h \in DOMAIN hrs : Charts!Hour(h) = h /\ h < Charts!Hour(new)
  <2> DEFINE M == {n \in DOMAIN mins : Charts!Hour(done) <= n /\ n < full}
             F == {Charts!Hour(m) : m \in M}
  <2>1. [m \in M |-> Charts!Hour(m)] \in Surjection(M, F)
    BY DEF Surjection
  <2>2. IsFiniteSet(M)
    BY <1>22, FS_Subset
  <2>3. IsFiniteSet(F)
    BY <2>1, <2>2, FS_Surjection
  <2>4. \A h \in F : h \in Nat /\ Charts!Hour(h) = h /\ h < Charts!Hour(new)
    <3> TAKE h \in F
    <3>1. PICK m \in M : h = Charts!Hour(m)
      OBVIOUS
    <3>2. m \in Nat /\ m < full
      BY <1>24
    <3> QED
      BY <1>8, <3>1, <3>2, Bucket
  <2>5. /\ DOMAIN hours \in SUBSET Nat /\ IsFiniteSet(DOMAIN hours)
        /\ \A h \in DOMAIN hours : Charts!Hour(h) = h /\ h < Charts!Hour(done)
    BY DEF RowsCount
  <2>6. DOMAIN hrs = DOMAIN hours \cup F
    BY <1>26
  <2> HIDE DEF F
  <2>7. IsFiniteSet(DOMAIN hours \cup F)
    BY <2>3, <2>5, FS_Union
  <2>8. DOMAIN hrs \in SUBSET Nat
    BY <2>4, <2>5, <2>6
  <2>9. \A h \in DOMAIN hrs : Charts!Hour(h) = h /\ h < Charts!Hour(new)
    BY <1>6, <1>8, <2>4, <2>5, <2>6
  <2> QED
    BY <2>6, <2>7, <2>8, <2>9
(* What is left of it. *)
<1>29. /\ DOMAIN minutes' = {m \in DOMAIN mins : m >= cut} /\ \A m \in DOMAIN minutes' : minutes'[m] = mins[m]
       /\ DOMAIN hours' = {h \in DOMAIN hrs : h >= now - r3} /\ \A h \in DOMAIN hours' : hours'[h] = hrs[h]
  BY <1>19, KeptAs
<1>30. days' = dys
  <2>1. \A d \in DOMAIN dys : d >= now - r4
    <3> TAKE d \in DOMAIN dys
    <3>1. d \in Int /\ d + r4 >= Horizon
      BY <1>9, <1>27 DEF ClockCounts
    <3> QED
      BY <1>1, <3>1
  <2>2. Charts!Kept(dys, now - r4) = [d \in {t \in DOMAIN dys : t >= now - r4} |-> dys[d]]
    BY DEF Charts!Kept, Charts!RestrictDomain, Charts!Restrict
  <2>3. {t \in DOMAIN dys : t >= now - r4} = DOMAIN dys
    BY <2>1
  <2>4. dys = [d \in DOMAIN dys |-> dys[d]]
    BY <1>27
  <2> QED
    BY <1>19, <2>2, <2>3, <2>4
<1>31. \A x : Charts!Minute(x)' = Charts!Minute(x) /\ Charts!Hour(x)' = Charts!Hour(x)
  BY DEF Charts!Minute, Charts!Hour, Charts!Floor
<1>32. Charts!Hour(done)' = Charts!Hour(new) /\ Charts!Minute(done)' = new
  BY <1>8, <1>19 DEF Charts!Hour, Charts!Minute, Charts!Floor
<1>33. RowsCount'
  <2>1. raw' \subseteq onTime' /\ onTime' \in SUBSET Nat /\ IsFiniteSet(onTime')
    BY <1>19 DEF RowsCount
  <2>2. /\ DOMAIN minutes' \in SUBSET Nat /\ IsFiniteSet(DOMAIN minutes')
        /\ DOMAIN hours' \in SUBSET Nat /\ IsFiniteSet(DOMAIN hours')
    <3>1. DOMAIN minutes' \subseteq DOMAIN mins /\ DOMAIN hours' \subseteq DOMAIN hrs
      BY <1>29
    <3> QED
      BY <1>22, <1>28, <3>1, FS_Subset
  <2>3. /\ \A m \in DOMAIN minutes' : Charts!Minute(m)' = m /\ m < done'
        /\ \A h \in DOMAIN hours' : Charts!Hour(h)' = h /\ h < Charts!Hour(done)'
    BY <1>19, <1>24, <1>28, <1>29, <1>31, <1>32
  <2> QED
    BY <2>1, <2>2, <2>3 DEF RowsCount
<1>34. DaysStay'
  <2>1. /\ days' \in [DOMAIN days' -> Nat] /\ DOMAIN days' \in SUBSET Int /\ IsFiniteSet(DOMAIN days')
        /\ \A d \in DOMAIN days', p \in Kinds : d + p["1d"] >= Horizon
        /\ until' = None => DOMAIN days' = {}
    BY <1>19, <1>27, <1>30
  <2>2. ASSUME until' # None PROVE until' \in Int /\ until' <= done' /\ Charts!Minute(until)' = until'
    <3>1. stop \in Int /\ (stop = until \/ stop = day) /\ Charts!Minute(stop) = stop
      BY <1>19, <1>27, <2>2
    <3>2. day <= end
      BY <1>4, DayBegins DEF ClockCounts
    <3>3. stop = until => until # None /\ until <= done
      BY <1>19, <2>2 DEF DaysStay
    <3>4. stop <= new
      BY <1>6, <1>8, <3>1, <3>2, <3>3
    <3>5. Charts!Minute(until)' = Charts!Minute(stop)
      BY <1>19 DEF Charts!Minute, Charts!Floor
    <3> QED
      BY <1>19, <3>1, <3>4, <3>5
  <2> QED
    BY <2>1, <2>2 DEF DaysStay
<1>35. RawWaits'
  <2>1. ASSUME NEW r \in onTime, r >= new PROVE r \in raw'
    BY <1>6, <1>8, <1>18, <1>19, <1>20, <2>1 DEF RawWaits
  <2> QED
    BY <1>19, <2>1 DEF RawWaits
<1>36. RawIsMade'
  <2>1. ASSUME NEW r \in raw', Charts!Minute(r) < new PROVE Charts!Minute(r) \in DOMAIN minutes'
    <3>1. r \in raw /\ r >= old /\ r \in onTime
      BY <1>19 DEF RowsCount
    <3>2. Charts!Minute(r) \in DOMAIN mins
      <4>1. CASE Charts!Minute(r) < done
        BY <1>21, <3>1, <4>1 DEF RawIsMade
      <4>2. CASE Charts!Minute(r) >= done
        BY <1>25, <2>1, <3>1, <4>2
      <4> QED
        BY <1>6, <1>20, <3>1, <4>1, <4>2
    <3>3. Charts!Minute(r) >= cut
      <4>1. CASE old = end
        BY <1>5, <1>16, <1>20, <3>1, <4>1
      <4>2. CASE old = now - r1
        BY <1>1, <1>5, <1>9, <1>16, <1>20, <3>1, <4>2
      <4> QED
        BY <1>18, <4>1, <4>2
    <3> QED
      BY <1>29, <3>2, <3>3
  <2> QED
    BY <1>19, <1>31, <2>1 DEF RawIsMade
<1>37. MinutesWait'
  <2>1. ASSUME NEW r \in onTime, Charts!Minute(r) < new,
               Charts!Hour(r) >= Charts!Hour(new) \/ stop = None \/ Charts!Minute(r) >= stop
        PROVE  Charts!Minute(r) \in DOMAIN minutes'
    <3>1. Charts!Minute(r) \in DOMAIN mins
      <4>1. CASE Charts!Minute(r) < done
        <5>1. stop # None /\ until # None => stop \in Int /\ until \in Int /\ until <= stop
          BY <1>27 DEF DaysStay
        <5>2. stop = None => until = None
          BY <1>27
        <5>3. Charts!Hour(r) >= Charts!Hour(done) \/ until = None \/ Charts!Minute(r) >= until
          BY <1>6, <1>8, <1>20, <2>1, <5>1, <5>2
        <5> QED
          BY <1>21, <4>1, <5>3 DEF MinutesWait
      <4>2. CASE Charts!Minute(r) >= done
        BY <1>25, <2>1, <4>2
      <4> QED
        BY <1>6, <1>20, <4>1, <4>2
    <3>2. Charts!Minute(r) >= cut
      <4>1. CASE Charts!Hour(r) >= Charts!Hour(new)
        BY <1>8, <1>16, <1>20, <4>1
      <4>2. CASE stop = None
        <5>1. Charts!Minute(r) \in Nat /\ Charts!Minute(r) >= day
          BY <1>20, <1>27, <3>1, <4>2
        <5> QED
          BY <1>16, <5>1
      <4>3. CASE stop # None /\ Charts!Minute(r) >= stop
        <5>1. stop \in Int /\ stop >= day
          BY <1>27, <4>3
        <5>2. Charts!Minute(r) \in Nat
          BY <1>20
        <5> QED
          BY <1>16, <4>3, <5>1, <5>2
      <4> QED
        BY <2>1, <4>1, <4>2, <4>3
    <3> QED
      BY <1>29, <3>1, <3>2
  <2> QED
    BY <1>19, <1>31, <1>32, <2>1 DEF MinutesWait
<1>38. MinutesAreMade'
  <2>1. ASSUME NEW m \in DOMAIN minutes', Charts!Hour(m) < Charts!Hour(new) PROVE Charts!Hour(m) \in DOMAIN hours'
    <3>1. m \in DOMAIN mins /\ m >= cut
      BY <1>29
    <3>2. m \in Nat /\ Charts!Hour(m) \in Nat /\ Charts!Hour(m) <= m /\ m < Charts!Hour(m) + HOUR
      BY <1>24, <3>1
    <3>3. Charts!Hour(m) \in DOMAIN hrs
      <4>1. CASE Charts!Hour(m) < Charts!Hour(done)
        <5>1. m \in DOMAIN minutes
          BY <1>6, <1>24, <3>1, <3>2, <4>1
        <5> QED
          BY <1>26, <4>1, <5>1 DEF MinutesAreMade
      <4>2. CASE Charts!Hour(m) >= Charts!Hour(done)
        <5>1. Charts!Hour(new) = full
          BY <1>6, <1>8, <2>1, <3>2, <4>2
        <5>2. m < full
          <6>1. full <= m => Charts!Hour(full) <= Charts!Hour(m)
            BY <3>2, Buckets
          <6> QED
            BY <1>5, <2>1, <3>2, <5>1, <6>1
        <5>3. m \in {n \in DOMAIN mins : Charts!Hour(done) <= n /\ n < full}
          BY <1>6, <3>1, <3>2, <4>2, <5>2
        <5> QED
          BY <1>26, <5>3
      <4> QED
        BY <1>6, <3>2, <4>1, <4>2
    <3>4. Charts!Hour(m) >= now - r3
      <4>1. CASE cut = now - r2
        BY <1>1, <1>5, <1>9, <3>1, <3>2, <4>1
      <4>2. CASE cut = full
        <5>1. Charts!Hour(full) <= Charts!Hour(m)
          BY <3>1, <3>2, <4>2, Buckets
        <5> QED
          BY <1>1, <1>5, <1>9, <3>2, <5>1
      <4>3. CASE cut = day
        <5>1. Charts!Hour(day) <= Charts!Hour(m) /\ Charts!Hour(day) \in Int
          BY <3>1, <3>2, <4>3, Bucket, Buckets
        <5>2. Charts!Hour(day) >= now - r3
          BY <1>2, <1>4, <1>9, HoursOutlast DEF ClockCounts
        <5> QED
          BY <1>1, <1>9, <3>2, <5>1, <5>2
      <4> QED
        BY <1>16, <4>1, <4>2, <4>3
    <3> QED
      BY <1>29, <3>3, <3>4
  <2> QED
    BY <1>31, <1>32, <2>1 DEF MinutesAreMade
<1>39. InMinutes'
  <2>1. \A m \in DOMAIN minutes' : minutes'[m] = Cardinality({r \in onTime : Charts!Minute(r) = m})
    BY <1>21, <1>29
  <2> QED
    BY <1>19, <2>1 DEF InMinutes, Charts!Minute, Charts!Floor
<1>40. InHours'
  <2>1. \A h \in DOMAIN hours' : hours'[h] = Cardinality({r \in onTime : Charts!Hour(r) = h})
    BY <1>26, <1>29
  <2> QED
    BY <1>19, <2>1 DEF InHours, Charts!Hour, Charts!Floor
<1>41. InDays'
  <2>1. Charts!SumFunction(days)' = Charts!SumFunction(dys)
    BY <1>30 DEF Charts!SumFunction, Charts!SumFunctionOnSet, Charts!FoldFunctionOnSet, Charts!MapThenFoldSet
  <2>2. until' # None => Charts!SumFunction(days)' = Cardinality({r \in onTime' : r < until'})
    BY <1>19, <1>27, <2>1
  <2> QED
    BY <2>2 DEF InDays
<1> QED
  BY <1>33, <1>34, <1>35, <1>36, <1>37, <1>38, <1>39, <1>40, <1>41

(* Rows and readings that stay are counted as they were.                     *)
LEMMA SameCounts ==
  ASSUME Counted, UNCHANGED <<raw, minutes, hours, days, until, onTime, done>> PROVE Counted'
<1>1. \A x : Charts!Minute(x)' = Charts!Minute(x) /\ Charts!Hour(x)' = Charts!Hour(x)
  BY DEF Charts!Minute, Charts!Hour, Charts!Floor
<1>2. /\ Charts!Hour(done)' = Charts!Hour(done) /\ Charts!Minute(done)' = Charts!Minute(done)
      /\ Charts!Minute(until)' = Charts!Minute(until)
  BY DEF Charts!Minute, Charts!Hour, Charts!Floor
<1>3. Charts!SumFunction(days)' = Charts!SumFunction(days)
  BY DEF Charts!SumFunction, Charts!SumFunctionOnSet, Charts!FoldFunctionOnSet, Charts!MapThenFoldSet
<1>4. RowsCount' /\ DaysStay'
  BY <1>1, <1>2 DEF Counted, RowsCount, DaysStay
<1>5. RawWaits' /\ RawIsMade' /\ MinutesWait' /\ MinutesAreMade'
  BY <1>1, <1>2 DEF Counted, RawWaits, RawIsMade, MinutesWait, MinutesAreMade
<1>6. InMinutes' /\ InHours'
  BY DEF Counted, InMinutes, InHours, Charts!Minute, Charts!Hour, Charts!Floor
<1>7. InDays'
  BY <1>3 DEF Counted, InDays
<1> QED
  BY <1>4, <1>5, <1>6, <1>7 DEF Counted

(* A run, at a time that is trusted: now, or before.                         *)
LEMMA HouseCounts ==
  ASSUME Charts!RollUpsAssumption, Charts!CountingAssumption, CountInv, Charts!Housekeeping PROVE CountInv'
<1>1. /\ UNCHANGED <<wall, retained, zone, onTime, late>> /\ Charts!ReadTrusted
      /\ Charts!RunHousekeeping(Charts!TrustedNow) \/ UNCHANGED <<raw, minutes, hours, days, until, done>>
  BY DEF Charts!Housekeeping, Charts!Run, Charts!ReadTrusted, Charts!settings, Charts!tables
<1>2. /\ wall \in Nat /\ wall <= Horizon /\ Horizon \in Nat /\ CLOCK_JUMP \in Nat
      /\ done \in Nat /\ Charts!Minute(done) = done /\ (ahead = None \/ (ahead \in Int /\ wall - ahead \in Nat))
  BY DEF CountInv, ClockCounts, Charts!CountingAssumption, Charts!RollUpsAssumption
<1>3. Charts!TrustedNow \in 0 .. Horizon
  BY <1>2 DEF Charts!TrustedNow, Charts!Disbelieved
<1>4. done' \in Nat /\ Charts!Minute(done)' = done'
  <2>1. PICK end \in Nat : end = Charts!Minute(Charts!TrustedNow) /\ Charts!Minute(end) = end
    BY <1>2, <1>3, Bucket
  <2>2. done' = end \/ done' = done
    BY <1>1, <2>1 DEF Charts!RunHousekeeping
  <2>3. Charts!Minute(done)' = Charts!Minute(done')
    BY DEF Charts!Minute, Charts!Floor
  <2> QED
    BY <1>2, <2>1, <2>2, <2>3
<1>5. ahead' = None \/ (ahead' \in Int /\ wall' - ahead' \in Nat)
  BY <1>1, <1>2 DEF Charts!ReadTrusted
<1>6. ClockCounts'
  BY <1>1, <1>4, <1>5 DEF CountInv, ClockCounts
<1>7. ASSUME ~late' PROVE Counted'
  <2>1. ClockCounts /\ Counted
    BY <1>1, <1>7 DEF CountInv
  <2> QED
    BY <1>1, <1>3, <2>1, RunCounts, SameCounts
<1> QED
  BY <1>6, <1>7 DEF CountInv

(* A reading that is not late is in no minute, hour or day that is made.     *)
LEMMA ReadCounts ==
  ASSUME Charts!RollUpsAssumption, Charts!CountingAssumption, CountInv, Charts!Reads PROVE CountInv'
<1>1. /\ raw' = raw \cup {wall} /\ late' = (late \/ wall < done)
      /\ onTime' = IF wall >= done THEN onTime \cup {wall} ELSE onTime
      /\ UNCHANGED <<minutes, hours, days, until, retained, zone, wall, ahead, done>>
  BY DEF Charts!Reads, Charts!settings, Charts!clock
<1>2. wall \in Nat /\ done \in Nat /\ Charts!Minute(done) = done
  BY DEF CountInv, ClockCounts, Charts!CountingAssumption
<1>3. ClockCounts'
  BY <1>1 DEF CountInv, ClockCounts, Charts!Minute, Charts!Floor
<1>4. ASSUME ~late' PROVE Counted'
  <2>1. wall >= done /\ Counted /\ onTime' = onTime \cup {wall}
    <3>1. ~(wall < done) /\ ~late
      BY <1>1, <1>4
    <3> QED
      BY <1>1, <1>2, <3>1 DEF CountInv
  <2>2. Charts!Minute(wall) >= done /\ Charts!Hour(wall) >= Charts!Hour(done)
    BY <1>2, <2>1, Bucket, Buckets
  <2>3. Charts!Minute(wall) \in Nat /\ Charts!Hour(wall) \in Nat /\ Charts!Hour(done) \in Nat
    BY <1>2, Bucket
  <2>4. \A x : Charts!Minute(x)' = Charts!Minute(x) /\ Charts!Hour(x)' = Charts!Hour(x)
    BY DEF Charts!Minute, Charts!Hour, Charts!Floor
  <2>5. /\ Charts!Hour(done)' = Charts!Hour(done) /\ Charts!Minute(until)' = Charts!Minute(until)
        /\ Charts!SumFunction(days)' = Charts!SumFunction(days)
    BY <1>1 DEF Charts!Minute, Charts!Hour, Charts!Floor, Charts!SumFunction, Charts!SumFunctionOnSet,
                Charts!FoldFunctionOnSet, Charts!MapThenFoldSet
  <2>6. RowsCount'
    <3>1. onTime' \in SUBSET Nat /\ raw' \subseteq onTime'
      BY <1>1, <1>2, <2>1 DEF Counted, RowsCount
    <3>2. IsFiniteSet(onTime')
      BY <2>1, FS_AddElement DEF Counted, RowsCount
    <3> QED
      BY <1>1, <2>1, <2>4, <2>5, <3>1, <3>2 DEF Counted, RowsCount
  <2>7. DaysStay'
    BY <1>1, <2>1, <2>5 DEF Counted, DaysStay
  <2>8. RawWaits'
    BY <1>1, <2>1 DEF Counted, RawWaits
  <2>9. RawIsMade'
    <3>1. ASSUME NEW r \in raw', Charts!Minute(r) < done PROVE Charts!Minute(r) \in DOMAIN minutes
      <4>1. r # wall
        BY <1>2, <2>2, <2>3, <3>1
      <4> QED
        BY <1>1, <2>1, <3>1, <4>1 DEF Counted, RawIsMade
    <3> QED
      BY <1>1, <2>4, <3>1 DEF RawIsMade
  <2>10. MinutesWait'
    <3>1. ASSUME NEW r \in onTime', Charts!Minute(r) < done,
                 Charts!Hour(r) >= Charts!Hour(done) \/ until = None \/ Charts!Minute(r) >= until
          PROVE  Charts!Minute(r) \in DOMAIN minutes
      <4>1. r # wall
        BY <1>2, <2>2, <2>3, <3>1
      <4> QED
        BY <2>1, <3>1, <4>1 DEF Counted, MinutesWait
    <3> QED
      BY <1>1, <2>4, <2>5, <3>1 DEF MinutesWait
  <2>11. MinutesAreMade'
    BY <1>1, <2>1, <2>4, <2>5 DEF Counted, MinutesAreMade
  <2>12. InMinutes'
    <3>1. \A m \in DOMAIN minutes : {r \in onTime' : Charts!Minute(r) = m} = {r \in onTime : Charts!Minute(r) = m}
      <4> TAKE m \in DOMAIN minutes
      <4>1. m \in Nat /\ m < done
        BY <2>1 DEF Counted, RowsCount
      <4> QED
        BY <1>2, <2>1, <2>2, <2>3, <4>1
    <3>2. \A m \in DOMAIN minutes : minutes[m] = Cardinality({r \in onTime' : Charts!Minute(r) = m})
      BY <2>1, <3>1 DEF Counted, InMinutes
    <3> QED
      BY <1>1, <3>2 DEF InMinutes, Charts!Minute, Charts!Floor
  <2>13. InHours'
    <3>1. \A h \in DOMAIN hours : {r \in onTime' : Charts!Hour(r) = h} = {r \in onTime : Charts!Hour(r) = h}
      <4> TAKE h \in DOMAIN hours
      <4>1. h \in Nat /\ h < Charts!Hour(done)
        BY <2>1 DEF Counted, RowsCount
      <4> QED
        BY <2>1, <2>2, <2>3, <4>1
    <3>2. \A h \in DOMAIN hours : hours[h] = Cardinality({r \in onTime' : Charts!Hour(r) = h})
      BY <2>1, <3>1 DEF Counted, InHours
    <3> QED
      BY <1>1, <3>2 DEF InHours, Charts!Hour, Charts!Floor
  <2>14. InDays'
    <3>1. ASSUME until # None PROVE {r \in onTime' : r < until} = {r \in onTime : r < until}
      <4>1. until \in Int /\ until <= done
        BY <2>1, <3>1 DEF Counted, DaysStay
      <4> QED
        BY <1>2, <2>1, <4>1
    <3> QED
      BY <1>1, <2>1, <2>5, <3>1 DEF Counted, InDays
  <2> QED
    BY <2>6, <2>7, <2>8, <2>9, <2>10, <2>11, <2>12, <2>13, <2>14 DEF Counted
<1> QED
  BY <1>3, <1>4 DEF CountInv

(* A new process, a retention saved, time, and a clock that is set.          *)
LEMMA WorldCounts ==
  ASSUME Charts!RollUpsAssumption, Charts!CountingAssumption, CountInv,
         Charts!Restart \/ Charts!SavesRetention \/ Charts!Tick \/ Charts!ClockSet
  PROVE  CountInv'
<1>1. UNCHANGED <<raw, minutes, hours, days, until, done, onTime, late>>
  BY DEF Charts!Restart, Charts!SavesRetention, Charts!Tick, Charts!ClockSet, Charts!tables, Charts!history
<1>2. /\ wall \in Nat /\ wall <= Horizon /\ Horizon \in Nat /\ zone \in DOMAIN Midnights /\ retained \in Kinds
      /\ (ahead = None \/ (ahead \in Int /\ wall - ahead \in Nat)) /\ None \notin Int
  BY DEF CountInv, ClockCounts, Charts!CountingAssumption
<1>3. /\ wall' \in 0 .. Horizon /\ zone' \in DOMAIN Midnights /\ retained' \in Kinds
      /\ ahead' = None \/ (ahead' \in Int /\ wall' - ahead' \in Nat)
  <2>1. CASE Charts!Restart
    BY <1>2, <2>1 DEF Charts!Restart
  <2>2. CASE Charts!SavesRetention
    BY <1>2, <2>2 DEF Charts!SavesRetention, Charts!clock, Kinds
  <2>3. CASE Charts!Tick
    BY <1>2, <2>3 DEF Charts!Tick, Charts!settings
  <2>4. CASE Charts!ClockSet
    <3>1. PICK by \in Int : /\ wall' = wall + by /\ wall + by \in 0 .. Horizon
                            /\ ahead' = IF ahead = None THEN None ELSE ahead + by
      BY <2>4 DEF Charts!ClockSet, Charts!RollUpsAssumption
    <3>2. zone' = zone /\ retained' = retained
      BY <2>4 DEF Charts!ClockSet, Charts!settings
    <3> QED
      BY <1>2, <3>1, <3>2
  <2> QED
    BY <2>1, <2>2, <2>3, <2>4
<1>4. ClockCounts'
  BY <1>1, <1>3 DEF CountInv, ClockCounts, Charts!Minute, Charts!Floor
<1> QED
  BY <1>1, <1>4, SameCounts DEF CountInv

LEMMA CountStep ==
  ASSUME Charts!RollUpsAssumption, Charts!CountingAssumption, CountInv, [Charts!Next]_(Charts!vars) PROVE CountInv'
<1>1. CASE UNCHANGED Charts!vars
  <2>1. /\ UNCHANGED <<raw, minutes, hours, days, until, done, onTime, late>>
        /\ UNCHANGED <<wall, ahead, retained, zone>>
    BY <1>1 DEF Charts!vars, Charts!tables, Charts!settings, Charts!clock, Charts!history
  <2>2. ClockCounts'
    BY <2>1 DEF CountInv, ClockCounts, Charts!Minute, Charts!Floor
  <2> QED
    BY <2>1, <2>2, SameCounts DEF CountInv
<1>2. CASE Charts!Next
  BY <1>2, HouseCounts, ReadCounts, WorldCounts DEF Charts!Next
<1> QED
  BY <1>1, <1>2

(* Buckets of buckets. *)
LEMMA Nested ==
  ASSUME NEW s \in Nat \ {0}, NEW k \in Nat \ {0}, k % s = 0, NEW t \in Int
  PROVE  /\ Charts!Floor(Charts!Floor(t, k), s) = Charts!Floor(t, k)
         /\ Charts!Floor(Charts!Floor(t, s), k) = Charts!Floor(t, k)
<1> DEFINE m == Charts!Floor(t, s)
           h == Charts!Floor(t, k)
<1>2. m \in Int /\ m <= t /\ t < m + s /\ h \in Int /\ h <= t /\ t < h + k
  BY Floors
<1>3. Charts!Floor(m, s) = m /\ Charts!Floor(h, k) = h
  BY FloorsClimb
<1>4. Charts!Floor(h, s) = h
  <2>1. PICK q \in Int : h = q * k
    BY DEF Charts!Floor
  <2>2. PICK l \in Int : k = l * s
    <3>1. PICK l \in Int : l = k \div s
      OBVIOUS
    <3>2. k = s * l
      BY <3>1
    <3>3. s * l = l * s /\ l * s \in Int
      OBVIOUS
    <3> QED
      BY <3>2, <3>3
  <2>3. h = (q * l) * s /\ q * l \in Int
    BY <2>1, <2>2
  <2>4. Charts!Floor(h, s) \in Int /\ Charts!Floor(h, s) <= h /\ h < Charts!Floor(h, s) + s
    BY <1>2, Floors
  <2>5. PICK n \in Int : Charts!Floor(h, s) = n * s
    <3>1. h \div s \in Int /\ Charts!Floor(h, s) = (h \div s) * s
      <4> HIDE DEF h
      <4> QED
        BY <1>2 DEF Charts!Floor
    <3> HIDE DEF h
    <3> QED
      BY <3>1
  <2> HIDE DEF h
  <2>6. ASSUME n * s < (q * l) * s PROVE FALSE
    <3>1. n < q * l
      BY <2>3, <2>6
    <3>2. (n + 1) * s <= (q * l) * s
      BY <2>3, <3>1
    <3> QED
      BY <2>3, <2>4, <2>5, <3>2
  <2> QED
    BY <1>2, <2>3, <2>4, <2>5, <2>6
<1>5. h <= m
  BY <1>2, <1>4, FloorsClimb
<1>6. Charts!Floor(m, k) = h
  <2>1. Charts!Floor(h, k) <= Charts!Floor(m, k) /\ Charts!Floor(m, k) <= h
    BY <1>2, <1>5, FloorsClimb
  <2>2. Charts!Floor(m, k) \in Int
    BY <1>2, Floors
  <2> HIDE DEF m, h
  <2> QED
    BY <1>2, <1>3, <2>1, <2>2
<1> QED
  BY <1>4, <1>6

(* The next bucket begins where one ends. *)
LEMMA NextBucket ==
  ASSUME NEW s \in Nat \ {0}, NEW t \in Int, Charts!Floor(t, s) = t PROVE Charts!Floor(t + s, s) = t + s
<1>1. PICK f \in Int : f = Charts!Floor(t + s, s) /\ f <= t + s /\ t + s < f + s
  BY Floors
<1>2. t <= f /\ (t < f => t + s <= f)
  <2>1. PICK u \in Int : u = t + s
    OBVIOUS
  <2>2. t <= u /\ f = Charts!Floor(u, s)
    BY <1>1, <2>1
  <2> QED
    BY <2>1, <2>2, FloorsClimb
<1> QED
  BY <1>1, <1>2

(* The days of old databases, too, are whole hours and minutes. *)
LEMMA UtcDays ==
  ASSUME Charts!RollUpsAssumption, NEW t \in Int
  PROVE  /\ Charts!UtcDay(t) \in Int /\ Charts!UtcDay(t) <= t /\ t < Charts!UtcDay(t) + DAY
         /\ Charts!UtcDay(Charts!UtcDay(t)) = Charts!UtcDay(t) /\ Charts!UtcDay(Charts!Hour(t)) = Charts!UtcDay(t)
         /\ Charts!Hour(Charts!UtcDay(t)) = Charts!UtcDay(t) /\ Charts!Minute(Charts!UtcDay(t)) = Charts!UtcDay(t)
         /\ t \in Nat => Charts!UtcDay(t) \in Nat
         /\ Charts!UtcDay(t) = t => Charts!UtcDay(t + DAY) = t + DAY
         /\ \A u \in Int : /\ t <= u => Charts!UtcDay(t) <= Charts!UtcDay(u)
                           /\ Charts!UtcDay(t) < Charts!UtcDay(u) => Charts!UtcDay(t) + DAY <= Charts!UtcDay(u)
<1>1. DAY \in Nat \ {0} /\ HOUR \in Nat \ {0} /\ DAY % HOUR = 0
  BY DEF Charts!RollUpsAssumption
<1>2. PICK d \in Int : d = Charts!UtcDay(t) /\ d <= t /\ t < d + DAY
  BY <1>1, Floors DEF Charts!UtcDay
<1>3. Charts!UtcDay(d) = d /\ Charts!UtcDay(Charts!Hour(t)) = d /\ Charts!Hour(d) = d
  BY <1>1, <1>2, Nested, FloorsClimb DEF Charts!UtcDay, Charts!Hour
<1>4. Charts!Minute(d) = d
  BY <1>3, Bucket
<1>5. t \in Nat => d \in Nat
  <2>1. Charts!UtcDay(0) = 0
    BY <1>1 DEF Charts!UtcDay, Charts!Floor
  <2>2. ASSUME t \in Nat PROVE Charts!UtcDay(0) <= d
    <3>1. DAY \in Nat \ {0} /\ 0 \in Int /\ t \in Int /\ 0 <= t
      BY <1>1, <2>2
    <3>2. Charts!Floor(0, DAY) <= Charts!Floor(t, DAY)
      BY <3>1, FloorsClimb
    <3> QED
      BY <1>2, <3>2 DEF Charts!UtcDay
  <2> QED
    BY <1>2, <2>1, <2>2
<1>6. \A u \in Int : /\ t <= u => d <= Charts!UtcDay(u)
                     /\ d < Charts!UtcDay(u) => d + DAY <= Charts!UtcDay(u)
  BY <1>1, <1>2, FloorsClimb DEF Charts!UtcDay
<1>7. d = t => Charts!UtcDay(t + DAY) = t + DAY
  BY <1>1, <1>2, NextBucket DEF Charts!UtcDay
<1> QED
  BY <1>2, <1>3, <1>4, <1>5, <1>6, <1>7

(* Rows rolled up, up to the start of a bucket, count the readings till then. *)
KeyedTo(rows, R, key, step, from, to) ==
  /\ \A r \in R : /\ key[r] \in Nat /\ Charts!Floor(key[r], step) = Charts!Floor(r, step)
                  /\ key[r] < to <=> r < to
  /\ DOMAIN rows = {key[r] : r \in {o \in R : o < from}}
  /\ \A t \in DOMAIN rows : rows[t] = Cardinality({r \in R : key[r] = t})
CoarseOf(rows, R, step, to) ==
  /\ DOMAIN rows = {Charts!Floor(r, step) : r \in {o \in R : o < to}}
  /\ \A b \in DOMAIN rows : rows[b] = Cardinality({r \in R : Charts!Floor(r, step) = b})
LEMMA Coarsened ==
  ASSUME NEW R \in SUBSET Nat, NEW rows, NEW key, NEW step \in Nat \ {0}, NEW from \in Nat, NEW to \in Nat,
         IsFiniteSet(R), IsFiniteSet(DOMAIN rows), to <= from, Charts!Floor(to, step) = to,
         KeyedTo(rows, R, key, step, from, to)
  PROVE  CoarseOf(Charts!Counts(Charts!Restrict(rows, Charts!Within(rows, 0, to)), step), R, step, to)
<1> DEFINE W == {t \in DOMAIN rows : 0 <= t /\ t < to}
           some == Charts!Restrict(rows, W)
           c == Charts!Counts(some, step)
<1>a. /\ \A r \in R : /\ key[r] \in Nat /\ Charts!Floor(key[r], step) = Charts!Floor(r, step)
                      /\ key[r] < to <=> r < to
      /\ DOMAIN rows = {key[r] : r \in {o \in R : o < from}}
      /\ \A t \in DOMAIN rows : rows[t] = Cardinality({r \in R : key[r] = t})
  BY DEF KeyedTo
<1>1. Charts!Within(rows, 0, to) = W
  BY DEF Charts!Within
<1>2. W \in SUBSET DOMAIN rows /\ IsFiniteSet(W)
  <2>1. W \in SUBSET DOMAIN rows
    OBVIOUS
  <2> QED
    BY <2>1, FS_Subset
<1>3. DOMAIN some = W /\ \A t \in W : some[t] = Cardinality({r \in R : key[r] = t})
  BY <1>2, <1>a DEF Charts!Restrict
<1>4. \A r \in R : key[r] \in W <=> r < to
  <2> TAKE r \in R
  <2>1. key[r] \in W => r < to
    BY <1>a
  <2>2. r < to => key[r] \in W
    <3> SUFFICES ASSUME r < to PROVE key[r] \in W
      OBVIOUS
    <3>1. key[r] \in Nat /\ key[r] < to
      BY <1>a
    <3>2. r \in {o \in R : o < from}
      OBVIOUS
    <3>3. key[r] \in DOMAIN rows
      BY <1>a, <3>2
    <3> QED
      BY <3>1, <3>3
  <2> QED
    BY <2>1, <2>2
<1>5. \A t \in W : \E r \in R : t = key[r] /\ r < to
  BY <1>a
<1> DEFINE Of(b) == {t \in W : Charts!Floor(t, step) = b}
<1>6. c = [b \in {Charts!Floor(t, step) : t \in W} |-> Charts!Total(some, Of(b))]
  BY <1>3 DEF Charts!Counts
<1> HIDE DEF W, some
<1>7. \A b : IsFiniteSet(Of(b)) /\ Tallies(some, Of(b), R, key)
  <2> TAKE b
  <2>1. \A t : Keyed(R, key, {t}) = {r \in R : key[r] = t}
    BY DEF Keyed
  <2> QED
    BY <1>2, <1>3, <2>1, FS_Subset DEF Tallies
<1>8. DOMAIN c = {Charts!Floor(t, step) : t \in W} /\ \A b \in DOMAIN c : c[b] = Cardinality(Keyed(R, key, Of(b)))
  <2>1. \A b \in DOMAIN c : c[b] = Charts!Total(some, Of(b))
    BY <1>6
  <2>2. DOMAIN c = {Charts!Floor(t, step) : t \in W}
    BY <1>6
  <2> HIDE DEF Of, c
  <2> QED
    BY <1>7, <2>1, <2>2, SumCounts
<1> HIDE DEF c
<1>9. DOMAIN c = {Charts!Floor(r, step) : r \in {o \in R : o < to}}
  <2>1. \A b \in DOMAIN c : b \in {Charts!Floor(r, step) : r \in {o \in R : o < to}}
    <3> TAKE b \in DOMAIN c
    <3>1. PICK t \in W : b = Charts!Floor(t, step)
      BY <1>8
    <3>2. PICK r \in R : t = key[r] /\ r < to
      BY <1>5
    <3> QED
      BY <1>a, <3>1, <3>2
  <2>2. \A b \in {Charts!Floor(r, step) : r \in {o \in R : o < to}} : b \in DOMAIN c
    <3> TAKE b \in {Charts!Floor(r, step) : r \in {o \in R : o < to}}
    <3>1. PICK r \in R : b = Charts!Floor(r, step) /\ r < to
      OBVIOUS
    <3>2. key[r] \in W /\ b = Charts!Floor(key[r], step)
      BY <1>a, <1>4, <3>1
    <3> QED
      BY <1>8, <3>2
  <2> QED
    BY <2>1, <2>2
<1>10. ASSUME NEW b \in DOMAIN c PROVE c[b] = Cardinality({r \in R : Charts!Floor(r, step) = b})
  <2>1. PICK o \in R : b = Charts!Floor(o, step) /\ o < to
    BY <1>9
  <2>2. ASSUME NEW r \in R, Charts!Floor(r, step) = b PROVE r < to
    <3> SUFFICES ASSUME to <= r PROVE FALSE
      OBVIOUS
    <3>1. r \in Int /\ to \in Int /\ o \in Int
      OBVIOUS
    <3>2. Charts!Floor(to, step) <= Charts!Floor(r, step)
      BY <3>1, FloorsClimb
    <3>3. Charts!Floor(o, step) <= o /\ Charts!Floor(o, step) \in Int
      BY <3>1, Floors
    <3> QED
      BY <2>1, <2>2, <3>1, <3>2, <3>3
  <2>3. Keyed(R, key, Of(b)) = {r \in R : Charts!Floor(r, step) = b}
    BY <1>a, <1>4, <2>2 DEF Keyed
  <2> QED
    BY <1>8, <2>3
<1>11. Charts!Counts(Charts!Restrict(rows, Charts!Within(rows, 0, to)), step) = c
  BY <1>1 DEF c, some
<1> QED
  BY <1>9, <1>10, <1>11 DEF CoarseOf

(* What the version before left: of all readings till then, minutes that are *)
(* not pruned, hours and UTC days.                                           *)
OldAre(mins, hrs, utc, opened, pruned) ==
  /\ mins = [m \in DOMAIN mins |-> mins[m]] /\ hrs = [h \in DOMAIN hrs |-> hrs[h]]
  /\ utc = [d \in DOMAIN utc |-> utc[d]]
  /\ DOMAIN mins = {m \in {Charts!Minute(r) : r \in {o \in onTime : o < Charts!Minute(opened)}} : m >= pruned}
  /\ \A m \in DOMAIN mins : mins[m] = Cardinality({r \in onTime : Charts!Minute(r) = m})
  /\ DOMAIN hrs = {Charts!Hour(r) : r \in {o \in onTime : o < Charts!Hour(opened)}}
  /\ \A h \in DOMAIN hrs : hrs[h] = Cardinality({r \in onTime : Charts!Hour(r) = h})
  /\ DOMAIN utc = {Charts!UtcDay(r) : r \in {o \in onTime : o < Charts!UtcDay(opened)}}
  /\ \A d \in DOMAIN utc : utc[d] = Cardinality({r \in onTime : Charts!UtcDay(r) = d})

(* Before the start of a bucket is in a bucket before it.                    *)
LEMMA Before ==
  ASSUME NEW s \in Nat \ {0}, NEW to \in Int, Charts!Floor(to, s) = to, NEW r \in Int
  PROVE  Charts!Floor(r, s) < to <=> r < to
<1>1. PICK f \in Int : f = Charts!Floor(r, s) /\ f <= r
  BY Floors
<1>2. to <= r => to <= f
  BY <1>1, FloorsClimb
<1> QED
  BY <1>1, <1>2

HourOf == [r \in onTime |-> Charts!Hour(r)]
LEMMA OldRows ==
  ASSUME Charts!RollUpsAssumption, NEW opened \in Nat, onTime \in SUBSET Nat, IsFiniteSet(onTime),
         \A r \in onTime : r < opened, NEW pruned
  PROVE  LET old == Charts!Old(onTime, opened, pruned) IN
         OldAre(old.minutes, old.hours, old.days, opened, pruned)
<1>1. MIN \in Nat \ {0} /\ HOUR \in Nat \ {0} /\ DAY \in Nat \ {0} /\ HOUR % MIN = 0 /\ DAY % HOUR = 0
  BY DEF Charts!RollUpsAssumption
<1>2. PICK end \in Nat, full \in Nat, day \in Nat :
        /\ end = Charts!Minute(opened) /\ full = Charts!Hour(opened) /\ day = Charts!UtcDay(opened)
        /\ end <= opened /\ full <= end /\ day <= full
        /\ Charts!Minute(end) = end /\ Charts!Hour(full) = full /\ Charts!UtcDay(day) = day
        /\ Charts!Minute(full) = full /\ Charts!Hour(day) = day
  <2>1. PICK day \in Nat : day = Charts!UtcDay(opened) /\ day <= opened /\ Charts!UtcDay(day) = day /\ Charts!Hour(day) = day
    BY UtcDays
  <2>2. day <= Charts!Hour(opened)
    BY <2>1, Buckets
  <2> QED
    BY <2>1, <2>2, Bucket
<1>3. \A r \in onTime : /\ r \in Nat /\ Charts!Minute(r) \in Nat /\ Charts!Hour(r) \in Nat
                        /\ Charts!Hour(Charts!Minute(r)) = Charts!Hour(r)
                        /\ Charts!UtcDay(Charts!Hour(r)) = Charts!UtcDay(r)
                        /\ (Charts!Minute(r) < full <=> r < full) /\ (Charts!Hour(r) < day <=> r < day)
  <2> TAKE r \in onTime
  <2>1. r \in Nat
    OBVIOUS
  <2>2. Charts!Floor(full, MIN) = full /\ Charts!Floor(day, HOUR) = day
    BY <1>2 DEF Charts!Minute, Charts!Hour
  <2>3. (Charts!Minute(r) < full <=> r < full) /\ (Charts!Hour(r) < day <=> r < day)
    BY <1>1, <2>1, <2>2, Before DEF Charts!Minute, Charts!Hour
  <2> QED
    BY <2>1, <2>3, Bucket, UtcDays
<1> DEFINE ones == [r \in onTime |-> 1]
<1>4. PICK mins : mins = Charts!Counts(Charts!Restrict(ones, Charts!Within(ones, 0, end)), MIN)
  OBVIOUS
<1>5. PICK hrs : hrs = Charts!Counts(Charts!Restrict(mins, Charts!Within(mins, 0, full)), HOUR)
  OBVIOUS
<1>6. PICK utc : utc = Charts!Counts(Charts!Restrict(hrs, Charts!Within(hrs, 0, day)), DAY)
  OBVIOUS
<1>7. /\ DOMAIN mins = {Charts!Minute(r) : r \in {o \in onTime : o < end}}
      /\ \A m \in DOMAIN mins : mins[m] = Cardinality({r \in onTime : Charts!Minute(r) = m})
  <2> DEFINE same == [r \in onTime |-> r]
  <2>1. \A r \in onTime : /\ same[r] \in Nat /\ Charts!Floor(same[r], MIN) = Charts!Floor(r, MIN)
                          /\ same[r] < end <=> r < end
    OBVIOUS
  <2>2. DOMAIN ones = onTime /\ {o \in onTime : o < opened} = onTime
    OBVIOUS
  <2>3. DOMAIN ones = {same[r] : r \in {o \in onTime : o < opened}}
    BY <2>2
  <2>4. \A t \in DOMAIN ones : ones[t] = Cardinality({r \in onTime : same[r] = t})
    <3> TAKE t \in DOMAIN ones
    <3>1. {r \in onTime : same[r] = t} = {t}
      OBVIOUS
    <3> QED
      BY <3>1, FS_Singleton
  <2>5. Charts!Floor(end, MIN) = end
    BY <1>2 DEF Charts!Minute
  <2>6. IsFiniteSet(DOMAIN ones)
    OBVIOUS
  <2> HIDE DEF same, ones
  <2>7. KeyedTo(ones, onTime, same, MIN, opened, end)
    BY <2>1, <2>3, <2>4 DEF KeyedTo
  <2>8. CoarseOf(mins, onTime, MIN, end)
    BY <1>1, <1>2, <1>4, <2>5, <2>6, <2>7, Coarsened
  <2> QED
    BY <2>8 DEF CoarseOf, Charts!Minute
<1>8. IsFiniteSet(DOMAIN mins)
  <2> DEFINE S == {o \in onTime : o < end}
             F == {Charts!Minute(r) : r \in S}
  <2>1. [r \in S |-> Charts!Minute(r)] \in Surjection(S, F) /\ IsFiniteSet(S)
    BY FS_Subset DEF Surjection
  <2> QED
    BY <1>7, <2>1, FS_Surjection
<1>9. /\ DOMAIN hrs = {Charts!Hour(r) : r \in {o \in onTime : o < full}}
      /\ \A h \in DOMAIN hrs : hrs[h] = Cardinality({r \in onTime : Charts!Hour(r) = h})
  <2>1. \A r \in onTime : /\ MinuteOf[r] \in Nat /\ Charts!Floor(MinuteOf[r], HOUR) = Charts!Floor(r, HOUR)
                          /\ MinuteOf[r] < full <=> r < full
    BY <1>3 DEF MinuteOf, Charts!Hour
  <2>2. DOMAIN mins = {MinuteOf[r] : r \in {o \in onTime : o < end}}
    BY <1>7 DEF MinuteOf
  <2>3. \A t \in DOMAIN mins : mins[t] = Cardinality({r \in onTime : MinuteOf[r] = t})
    <3> TAKE t \in DOMAIN mins
    <3>1. {r \in onTime : MinuteOf[r] = t} = {r \in onTime : Charts!Minute(r) = t}
      BY DEF MinuteOf
    <3> QED
      BY <1>7, <3>1
  <2>4. Charts!Floor(full, HOUR) = full
    BY <1>2 DEF Charts!Hour
  <2>5. KeyedTo(mins, onTime, MinuteOf, HOUR, end, full)
    BY <2>1, <2>2, <2>3 DEF KeyedTo
  <2>6. CoarseOf(hrs, onTime, HOUR, full)
    BY <1>1, <1>2, <1>5, <1>8, <2>4, <2>5, Coarsened
  <2> QED
    BY <2>6 DEF CoarseOf, Charts!Hour
<1>10. IsFiniteSet(DOMAIN hrs)
  <2> DEFINE S == {o \in onTime : o < full}
             F == {Charts!Hour(r) : r \in S}
  <2>1. [r \in S |-> Charts!Hour(r)] \in Surjection(S, F) /\ IsFiniteSet(S)
    BY FS_Subset DEF Surjection
  <2> QED
    BY <1>9, <2>1, FS_Surjection
<1>11. /\ DOMAIN utc = {Charts!UtcDay(r) : r \in {o \in onTime : o < day}}
       /\ \A d \in DOMAIN utc : utc[d] = Cardinality({r \in onTime : Charts!UtcDay(r) = d})
  <2>1. \A r \in onTime : /\ HourOf[r] \in Nat /\ Charts!Floor(HourOf[r], DAY) = Charts!Floor(r, DAY)
                          /\ HourOf[r] < day <=> r < day
    BY <1>3 DEF HourOf, Charts!UtcDay
  <2>2. DOMAIN hrs = {HourOf[r] : r \in {o \in onTime : o < full}}
    BY <1>9 DEF HourOf
  <2>3. \A t \in DOMAIN hrs : hrs[t] = Cardinality({r \in onTime : HourOf[r] = t})
    <3> TAKE t \in DOMAIN hrs
    <3>1. {r \in onTime : HourOf[r] = t} = {r \in onTime : Charts!Hour(r) = t}
      BY DEF HourOf
    <3> QED
      BY <1>9, <3>1
  <2>4. Charts!Floor(day, DAY) = day
    BY <1>2 DEF Charts!UtcDay
  <2>5. KeyedTo(hrs, onTime, HourOf, DAY, full, day)
    BY <2>1, <2>2, <2>3 DEF KeyedTo
  <2>6. CoarseOf(utc, onTime, DAY, day)
    BY <1>1, <1>2, <1>6, <1>10, <2>4, <2>5, Coarsened
  <2> QED
    BY <2>6 DEF CoarseOf, Charts!UtcDay
<1>12. Charts!Old(onTime, opened, pruned) = [minutes |-> Charts!Kept(mins, pruned), hours |-> hrs, days |-> utc]
  BY <1>2, <1>4, <1>5, <1>6 DEF Charts!Old
<1>13. /\ DOMAIN Charts!Kept(mins, pruned) = {m \in DOMAIN mins : m >= pruned}
       /\ \A m \in DOMAIN Charts!Kept(mins, pruned) : Charts!Kept(mins, pruned)[m] = mins[m]
  BY KeptAs
<1>14. /\ hrs = [h \in DOMAIN hrs |-> hrs[h]] /\ utc = [d \in DOMAIN utc |-> utc[d]]
       /\ Charts!Kept(mins, pruned) = [m \in DOMAIN Charts!Kept(mins, pruned) |-> Charts!Kept(mins, pruned)[m]]
  <2>1. \A rows, step : Charts!Counts(rows, step) = [b \in DOMAIN Charts!Counts(rows, step) |-> Charts!Counts(rows, step)[b]]
    BY DEF Charts!Counts
  <2>2. Charts!Kept(mins, pruned) = [m \in DOMAIN Charts!Kept(mins, pruned) |-> Charts!Kept(mins, pruned)[m]]
    BY DEF Charts!Kept, Charts!RestrictDomain, Charts!Restrict
  <2> QED
    BY <1>5, <1>6, <2>1, <2>2
<1> HIDE DEF ones
<1>15. PICK rest : rest = Charts!Kept(mins, pruned)
  OBVIOUS
<1>16. /\ DOMAIN rest = {m \in {Charts!Minute(r) : r \in {o \in onTime : o < end}} : m >= pruned}
       /\ \A m \in DOMAIN rest : rest[m] = Cardinality({r \in onTime : Charts!Minute(r) = m})
  BY <1>7, <1>13, <1>15
<1>17. OldAre(rest, hrs, utc, opened, pruned)
  BY <1>2, <1>9, <1>11, <1>14, <1>15, <1>16 DEF OldAre
<1> QED
  BY <1>12, <1>15, <1>17

(* Of these, each is what readings there are come to.                        *)
OldFit(mins, hrs, utc, end, full, day, pruned) ==
  /\ \A r \in onTime :
       /\ r \in Nat /\ Charts!Minute(r) \in Nat /\ Charts!Hour(r) \in Nat /\ Charts!UtcDay(r) \in Nat
       /\ Charts!UtcDay(r) <= Charts!Hour(r) /\ Charts!Hour(r) <= Charts!Minute(r) /\ Charts!Minute(r) <= r
       /\ r < Charts!Minute(r) + MIN /\ r < Charts!Hour(r) + HOUR /\ r < Charts!UtcDay(r) + DAY
       /\ Charts!Minute(r) < end /\ Charts!Minute(r) >= pruned => Charts!Minute(r) \in DOMAIN mins
       /\ Charts!Hour(r) < full => Charts!Hour(r) \in DOMAIN hrs
       /\ Charts!UtcDay(r) < day => Charts!UtcDay(r) \in DOMAIN utc
  /\ \A m \in DOMAIN mins : /\ m \in Nat /\ Charts!Minute(m) = m /\ m < end /\ m >= pruned
  /\ \A h \in DOMAIN hrs : /\ h \in Nat /\ Charts!Hour(h) = h /\ h < full
                           /\ \E r \in onTime : h = Charts!Hour(r)
  /\ \A d \in DOMAIN utc : /\ d \in Nat /\ Charts!UtcDay(d) = d /\ d < day
  /\ IsFiniteSet(DOMAIN mins) /\ IsFiniteSet(DOMAIN hrs) /\ IsFiniteSet(DOMAIN utc)

LEMMA OldOnes ==
  ASSUME Charts!RollUpsAssumption, NEW opened \in Nat, onTime \in SUBSET Nat, IsFiniteSet(onTime), NEW pruned \in Nat,
         NEW mins, NEW hrs, NEW utc, OldAre(mins, hrs, utc, opened, pruned),
         NEW end \in Nat, NEW full \in Nat, NEW day \in Nat,
         end = Charts!Minute(opened), full = Charts!Hour(opened), day = Charts!UtcDay(opened)
  PROVE  OldFit(mins, hrs, utc, end, full, day, pruned)
<1>1. /\ Charts!Minute(end) = end /\ Charts!Hour(full) = full /\ Charts!UtcDay(day) = day
  BY Bucket, UtcDays
<1>2. MIN \in Nat \ {0} /\ HOUR \in Nat \ {0} /\ DAY \in Nat \ {0}
  BY DEF Charts!RollUpsAssumption
<1>3. \A r \in onTime : /\ (Charts!Minute(r) < end <=> r < end) /\ (Charts!Hour(r) < full <=> r < full)
                        /\ (Charts!UtcDay(r) < day <=> r < day)
  <2> TAKE r \in onTime
  <2>1. r \in Int /\ end \in Int /\ full \in Int /\ day \in Int
    OBVIOUS
  <2> QED
    BY <1>1, <1>2, <2>1, Before DEF Charts!Minute, Charts!Hour, Charts!UtcDay
<1>4. \A r \in onTime :
       /\ r \in Nat /\ Charts!Minute(r) \in Nat /\ Charts!Hour(r) \in Nat /\ Charts!UtcDay(r) \in Nat
       /\ Charts!UtcDay(r) <= Charts!Hour(r) /\ Charts!Hour(r) <= Charts!Minute(r) /\ Charts!Minute(r) <= r
       /\ r < Charts!Minute(r) + MIN /\ r < Charts!Hour(r) + HOUR /\ r < Charts!UtcDay(r) + DAY
       /\ Charts!Minute(Charts!Minute(r)) = Charts!Minute(r) /\ Charts!Hour(Charts!Hour(r)) = Charts!Hour(r)
       /\ Charts!UtcDay(Charts!UtcDay(r)) = Charts!UtcDay(r)
  <2> TAKE r \in onTime
  <2>1. r \in Nat /\ r \in Int
    OBVIOUS
  <2>2. Charts!Hour(r) \in Int /\ Charts!UtcDay(r) = Charts!UtcDay(Charts!Hour(r))
    BY <2>1, Bucket, UtcDays
  <2>3. Charts!UtcDay(r) <= Charts!Hour(r)
    BY <2>2, UtcDays
  <2> QED
    BY <2>1, <2>3, Bucket, UtcDays
<1>5. DOMAIN mins = {m \in {Charts!Minute(r) : r \in {o \in onTime : o < end}} : m >= pruned}
  BY DEF OldAre
<1>6. DOMAIN hrs = {Charts!Hour(r) : r \in {o \in onTime : o < full}}
  BY DEF OldAre
<1>7. DOMAIN utc = {Charts!UtcDay(r) : r \in {o \in onTime : o < day}}
  BY DEF OldAre
<1>8. IsFiniteSet(DOMAIN mins)
  <2> DEFINE F == {Charts!Minute(r) : r \in onTime}
  <2>1. [r \in onTime |-> Charts!Minute(r)] \in Surjection(onTime, F)
    BY DEF Surjection
  <2>2. IsFiniteSet(F) /\ DOMAIN mins \in SUBSET F
    BY <1>5, <2>1, FS_Surjection
  <2> HIDE DEF F
  <2> QED
    BY <2>2, FS_Subset
<1>9. IsFiniteSet(DOMAIN hrs)
  <2> DEFINE F == {Charts!Hour(r) : r \in onTime}
  <2>1. [r \in onTime |-> Charts!Hour(r)] \in Surjection(onTime, F)
    BY DEF Surjection
  <2>2. IsFiniteSet(F) /\ DOMAIN hrs \in SUBSET F
    BY <1>6, <2>1, FS_Surjection
  <2> HIDE DEF F
  <2> QED
    BY <2>2, FS_Subset
<1>10. IsFiniteSet(DOMAIN utc)
  <2> DEFINE F == {Charts!UtcDay(r) : r \in onTime}
  <2>1. [r \in onTime |-> Charts!UtcDay(r)] \in Surjection(onTime, F)
    BY DEF Surjection
  <2>2. IsFiniteSet(F) /\ DOMAIN utc \in SUBSET F
    BY <1>7, <2>1, FS_Surjection
  <2> HIDE DEF F
  <2> QED
    BY <2>2, FS_Subset
<1>11. \A r \in onTime :
       /\ Charts!Minute(r) < end /\ Charts!Minute(r) >= pruned => Charts!Minute(r) \in DOMAIN mins
       /\ Charts!Hour(r) < full => Charts!Hour(r) \in DOMAIN hrs
       /\ Charts!UtcDay(r) < day => Charts!UtcDay(r) \in DOMAIN utc
  <2> TAKE r \in onTime
  <2>1. /\ r < end => r \in {o \in onTime : o < end}
        /\ r < full => r \in {o \in onTime : o < full}
        /\ r < day => r \in {o \in onTime : o < day}
    OBVIOUS
  <2> QED
    BY <1>3, <1>5, <1>6, <1>7, <2>1
<1>12. \A m \in DOMAIN mins : /\ m \in Nat /\ Charts!Minute(m) = m /\ m < end /\ m >= pruned
  BY <1>3, <1>4, <1>5
<1>13. \A h \in DOMAIN hrs : /\ h \in Nat /\ Charts!Hour(h) = h /\ h < full
                             /\ \E r \in onTime : h = Charts!Hour(r)
  BY <1>3, <1>4, <1>6
<1>14. \A d \in DOMAIN utc : /\ d \in Nat /\ Charts!UtcDay(d) = d /\ d < day
  BY <1>3, <1>4, <1>7
<1> HIDE DEF OldAre
<1> QED
  BY <1>4, <1>8, <1>9, <1>10, <1>11, <1>12, <1>13, <1>14 DEF OldFit

(* The first of the UTC days count the readings till they end.               *)
DaysRead(rows) ==
  /\ rows = [d \in DOMAIN rows |-> rows[d]]
  /\ \A d \in DOMAIN rows : rows[d] = Cardinality({r \in onTime : Charts!UtcDay(r) = d})
UtcDayOf == [r \in onTime |-> Charts!UtcDay(r)]
CountTill(rows, K, day) ==
  /\ Charts!Max(K) \in K /\ Charts!Max(K) + DAY <= day
  /\ Charts!UtcDay(Charts!Max(K) + DAY) = Charts!Max(K) + DAY
  /\ rows \in [K -> Nat] /\ IsFiniteSet(K)
  /\ Charts!SumFunction(rows) = Cardinality({r \in onTime : r < Charts!Max(K) + DAY})
FirstOf(K, utc) == K \in SUBSET DOMAIN utc /\ K # {} /\ \A d \in DOMAIN utc : d <= Charts!Max(K) => d \in K
LEMMA FirstDays ==
  ASSUME Charts!RollUpsAssumption, onTime \in SUBSET Nat, IsFiniteSet(onTime), NEW pruned,
         NEW mins, NEW hrs, NEW utc, NEW end, NEW full, NEW day \in Nat, Charts!UtcDay(day) = day,
         OldFit(mins, hrs, utc, end, full, day, pruned),
         NEW K, FirstOf(K, utc),
         NEW rows, DaysRead(rows), DOMAIN rows = K
  PROVE  CountTill(rows, K, day)
<1>0. K \in SUBSET DOMAIN utc /\ K # {} /\ \A d \in DOMAIN utc : d <= Charts!Max(K) => d \in K
  BY DEF FirstOf
<1>1. IsFiniteSet(K)
  <2>1. IsFiniteSet(DOMAIN utc)
    BY DEF OldFit
  <2> QED
    BY <1>0, <2>1, FS_Subset
<1>2. K \in SUBSET Int
  <2>1. \A d \in DOMAIN utc : d \in Nat
    BY DEF OldFit
  <2> QED
    BY <1>0, <2>1
<1>3. PICK last \in K : last = Charts!Max(K) /\ \A d \in K : d <= last
  <2>1. Charts!Max(K) \in K /\ \A k \in K : k <= Charts!Max(K)
    BY <1>0, <1>1, <1>2, Extremes
  <2> QED
    BY <2>1
<1>4. last \in Nat /\ Charts!UtcDay(last) = last /\ last < day /\ DAY \in Nat \ {0}
  BY <1>0, <1>3 DEF OldFit, Charts!RollUpsAssumption
<1>5. last + DAY <= day /\ Charts!UtcDay(last + DAY) = last + DAY
  <2>1. last \in Int /\ day \in Int /\ Charts!UtcDay(last) = last /\ Charts!UtcDay(day) = day /\ last < day
    BY <1>4
  <2> QED
    BY <2>1, UtcDays
<1>6. \A r \in onTime : UtcDayOf[r] \in K <=> r < last + DAY
  <2> TAKE r \in onTime
  <2>1. /\ r \in Nat /\ Charts!UtcDay(r) \in Nat /\ Charts!UtcDay(r) <= r /\ r < Charts!UtcDay(r) + DAY
        /\ (Charts!UtcDay(r) < day => Charts!UtcDay(r) \in DOMAIN utc)
    BY DEF OldFit
  <2>2. Charts!UtcDay(r) \in K => r < last + DAY
    <3> SUFFICES ASSUME Charts!UtcDay(r) \in K PROVE r < last + DAY
      OBVIOUS
    <3>1. Charts!UtcDay(r) <= last
      BY <1>3
    <3> QED
      BY <1>4, <2>1, <3>1
  <2>3. r < last + DAY => Charts!UtcDay(r) \in K
    <3> SUFFICES ASSUME r < last + DAY PROVE Charts!UtcDay(r) \in K
      OBVIOUS
    <3>1. Charts!UtcDay(r) <= last
      <4> SUFFICES ASSUME last < Charts!UtcDay(r) PROVE FALSE
        BY <1>4, <2>1
      <4>1. Charts!UtcDay(Charts!UtcDay(r)) = Charts!UtcDay(r)
        BY <2>1, UtcDays
      <4>2. last + DAY <= Charts!UtcDay(r)
        BY <1>4, <2>1, <4>1, UtcDays
      <4> QED
        BY <1>4, <2>1, <4>2
    <3>2. Charts!UtcDay(r) < day
      BY <1>4, <2>1, <3>1
    <3> QED
      BY <1>0, <1>3, <2>1, <3>1, <3>2
  <2> QED
    BY <2>2, <2>3 DEF UtcDayOf
<1>7. \A d : Keyed(onTime, UtcDayOf, {d}) = {r \in onTime : Charts!UtcDay(r) = d}
  BY DEF Keyed, UtcDayOf
<1>8. Keyed(onTime, UtcDayOf, K) = {r \in onTime : r < last + DAY}
  BY <1>6 DEF Keyed
<1>9. DOMAIN rows = K /\ \A d \in K : rows[d] = Cardinality({r \in onTime : Charts!UtcDay(r) = d})
  BY DEF DaysRead
<1>10. Tallies(rows, K, onTime, UtcDayOf)
  BY <1>7, <1>9 DEF Tallies
<1>11. Charts!Total(rows, K) = Cardinality({r \in onTime : r < last + DAY})
  BY <1>1, <1>8, <1>10, SumCounts
<1>12. rows \in [K -> Nat]
  <2>1. \A d \in K : rows[d] \in Nat
    <3> TAKE d \in K
    <3>1. IsFiniteSet({r \in onTime : Charts!UtcDay(r) = d})
      BY FS_Subset
    <3> QED
      BY <1>9, <3>1, FS_CardinalityType
  <2>2. rows = [d \in K |-> rows[d]]
    BY <1>9 DEF DaysRead
  <2> QED
    BY <2>1, <2>2
<1>13. Charts!SumFunction(rows) = Charts!Total(rows, K)
  BY <1>9 DEF Charts!SumFunction, Charts!Total
<1> QED
  BY <1>1, <1>3, <1>5, <1>11, <1>12, <1>13 DEF CountTill

(* Daily rows from a time that is no later than 0 are kept till the Horizon. *)
LEMMA DaysLast ==
  ASSUME Charts!RollUpsAssumption, Charts!CountingAssumption, NEW p \in Kinds
  PROVE  p["1d"] >= Horizon /\ p["1d"] \in Nat
<1>1. PICK m \in Midnights[HomeZone] : m <= 0 /\ m \in Int
  BY DEF Charts!RollUpsAssumption
<1>2. m + p["1d"] >= Horizon /\ p["1d"] \in Nat /\ Horizon \in Nat
  BY KindsKeep DEF Charts!RollUpsAssumption, Charts!CountingAssumption, Kinds
<1> QED
  BY <1>1, <1>2

(* What a migration is to leave: days that count the readings till where     *)
(* they stop, and the minutes of those after that.                           *)
MigratedAre(rows, to, end, pruned) ==
  /\ rows \in [DOMAIN rows -> Nat] /\ DOMAIN rows \in SUBSET Int /\ IsFiniteSet(DOMAIN rows)
  /\ \A d \in DOMAIN rows, p \in Kinds : d + p["1d"] >= Horizon
  /\ to = None => DOMAIN rows = {} /\ \A r \in onTime : Charts!Minute(r) < end => Charts!Minute(r) >= pruned
  /\ to # None =>
       /\ to \in Int /\ to <= end /\ Charts!Minute(to) = to
       /\ \A r \in onTime : Charts!Minute(r) < end /\ Charts!Minute(r) >= to => Charts!Minute(r) >= pruned
       /\ Charts!SumFunction(rows) = Cardinality({r \in onTime : r < to})

(* With no minutes left, the UTC days are all there is.                      *)
LEMMA MigratedNone ==
  ASSUME Charts!RollUpsAssumption, Charts!CountingAssumption, onTime \in SUBSET Nat, IsFiniteSet(onTime),
         NEW opened \in Nat, NEW pruned \in Nat, pruned <= Charts!UtcDay(opened),
         NEW mins, NEW hrs, NEW utc, OldAre(mins, hrs, utc, opened, pruned), DOMAIN mins = {},
         NEW to, to = IF utc = Charts!NoRows THEN None ELSE Charts!Max(DOMAIN utc) + DAY
  PROVE  MigratedAre(utc, to, Charts!Minute(opened), pruned)
<1>1. PICK end \in Nat, full \in Nat, day \in Nat :
        /\ end = Charts!Minute(opened) /\ full = Charts!Hour(opened) /\ day = Charts!UtcDay(opened)
        /\ Charts!UtcDay(day) = day /\ Charts!Minute(day) = day /\ day <= opened
  BY Bucket, UtcDays
<1>2. day <= end /\ None \notin Int
  BY <1>1, Buckets DEF Charts!CountingAssumption
<1>3. OldFit(mins, hrs, utc, end, full, day, pruned)
  BY <1>1, OldOnes
<1>4. /\ utc = [d \in DOMAIN utc |-> utc[d]]
      /\ \A d \in DOMAIN utc : utc[d] = Cardinality({r \in onTime : Charts!UtcDay(r) = d})
  BY DEF OldAre
<1>5. ASSUME NEW r \in onTime, Charts!Minute(r) < end
      PROVE  /\ r \in Nat /\ Charts!Minute(r) \in Nat /\ Charts!Minute(r) <= r /\ Charts!UtcDay(r) \in DOMAIN utc
             /\ Charts!UtcDay(r) \in Nat /\ r < Charts!UtcDay(r) + DAY
  <2>1. /\ r \in Nat /\ Charts!Minute(r) \in Nat /\ Charts!Hour(r) \in Nat /\ Charts!UtcDay(r) \in Nat
        /\ Charts!UtcDay(r) <= Charts!Hour(r) /\ Charts!Hour(r) <= Charts!Minute(r) /\ Charts!Minute(r) <= r
        /\ r < Charts!UtcDay(r) + DAY /\ ~(Charts!Minute(r) >= pruned)
        /\ Charts!UtcDay(r) < day => Charts!UtcDay(r) \in DOMAIN utc
    BY <1>3, <1>5 DEF OldFit
  <2> QED
    BY <1>1, <2>1
<1>6. \A d \in DOMAIN utc : d \in Nat
  BY <1>3 DEF OldFit
<1>7. IsFiniteSet(DOMAIN utc) /\ DAY \in Nat
  BY <1>3 DEF OldFit, Charts!RollUpsAssumption
<1>8. \A d \in DOMAIN utc, p \in Kinds : d + p["1d"] >= Horizon
  <2> TAKE d \in DOMAIN utc, p \in Kinds
  <2>1. Horizon \in Nat
    BY DEF Charts!CountingAssumption
  <2> QED
    BY <1>6, <2>1, DaysLast
<1>9. CASE DOMAIN utc = {}
  <2>1. utc = Charts!NoRows
    BY <1>4, <1>9 DEF Charts!NoRows
  <2>2. to = None
    BY <2>1
  <2>3. utc \in [DOMAIN utc -> Nat]
    BY <1>4, <1>9
  <2>4. \A r \in onTime : ~(Charts!Minute(r) < end)
    BY <1>5, <1>9
  <2> QED
    BY <1>1, <1>6, <1>7, <1>8, <1>9, <2>2, <2>3, <2>4 DEF MigratedAre
<1>10. CASE DOMAIN utc # {}
  <2>1. utc # Charts!NoRows
    BY <1>10 DEF Charts!NoRows
  <2>2. to = Charts!Max(DOMAIN utc) + DAY
    BY <2>1
  <2>3. /\ Charts!Max(DOMAIN utc) \in DOMAIN utc /\ to <= day /\ Charts!UtcDay(to) = to
        /\ utc \in [DOMAIN utc -> Nat]
        /\ Charts!SumFunction(utc) = Cardinality({r \in onTime : r < to})
    <3>1. PICK K : K = DOMAIN utc
      OBVIOUS
    <3>2. FirstOf(K, utc) /\ DOMAIN utc = K
      BY <1>10, <3>1 DEF FirstOf
    <3>3. DaysRead(utc)
      BY <1>4 DEF DaysRead
    <3>4. CountTill(utc, K, day)
      BY <1>1, <1>3, <3>2, <3>3, FirstDays
    <3> QED
      BY <2>2, <3>1, <3>4 DEF CountTill
  <2>4. PICK last \in Nat : last = Charts!Max(DOMAIN utc) /\ \A d \in DOMAIN utc : d <= last
    <3>1. DOMAIN utc \in SUBSET Int
      BY <1>6
    <3> QED
      BY <1>6, <1>7, <1>10, <3>1, Extremes
  <2>5. to \in Nat /\ to = last + DAY
    BY <1>7, <2>2, <2>4
  <2>6. Charts!Minute(to) = to
    BY <2>3, <2>5, UtcDays
  <2>7. \A r \in onTime : Charts!Minute(r) < end => ~(Charts!Minute(r) >= to)
    <3> SUFFICES ASSUME NEW r \in onTime, Charts!Minute(r) < end, Charts!Minute(r) >= to PROVE FALSE
      OBVIOUS
    <3>1. /\ r \in Nat /\ Charts!Minute(r) \in Nat /\ Charts!Minute(r) <= r /\ Charts!UtcDay(r) \in DOMAIN utc
          /\ Charts!UtcDay(r) \in Nat /\ r < Charts!UtcDay(r) + DAY
      BY <1>5
    <3>2. Charts!UtcDay(r) <= last
      BY <2>4, <3>1
    <3> QED
      BY <1>7, <2>4, <2>5, <3>1, <3>2
  <2>8. to # None /\ to <= end /\ DOMAIN utc \in SUBSET Int
    BY <1>2, <1>6, <2>3, <2>5
  <2> QED
    BY <1>1, <1>7, <1>8, <2>3, <2>5, <2>6, <2>7, <2>8 DEF MigratedAre
<1> QED
  BY <1>9, <1>10

(* Of what OldFit says, what there is of one reading.                        *)
LEMMA OldReading ==
  ASSUME NEW mins, NEW hrs, NEW utc, NEW end, NEW full, NEW day, NEW pruned,
         OldFit(mins, hrs, utc, end, full, day, pruned), NEW r \in onTime
  PROVE  /\ r \in Nat /\ Charts!Minute(r) \in Nat /\ Charts!Hour(r) \in Nat
         /\ Charts!Hour(r) <= Charts!Minute(r) /\ Charts!Minute(r) <= r
         /\ r < Charts!Minute(r) + MIN /\ r < Charts!Hour(r) + HOUR
         /\ Charts!Minute(r) < end /\ Charts!Minute(r) >= pruned => Charts!Minute(r) \in DOMAIN mins
         /\ Charts!Hour(r) < full => Charts!Hour(r) \in DOMAIN hrs
BY DEF OldFit

(* The hours of an older database are taken up to a minute from which there  *)
(* are minutes.                                                              *)
HoursEnd(hu, fm, mins, hrs, end) ==
  /\ hu \in Nat /\ fm <= hu /\ hu <= end /\ Charts!Minute(hu) = hu
  /\ \A r \in onTime : Charts!Minute(r) < end =>
       /\ r < hu => Charts!Hour(r) \in DOMAIN hrs /\ Charts!Hour(r) < hu
       /\ Charts!Hour(r) \in DOMAIN hrs /\ Charts!Hour(r) < hu => r < hu
       /\ r >= hu => Charts!Minute(r) \in DOMAIN mins
  /\ \A r \in onTime : Charts!Hour(r) \in DOMAIN hrs => Charts!Minute(r) < end
LEMMA WhereHoursEnd ==
  ASSUME Charts!RollUpsAssumption, NEW pruned \in Nat,
         NEW mins, NEW hrs, NEW utc, NEW end \in Nat, NEW full \in Nat, NEW day \in Nat,
         Charts!Minute(end) = end, Charts!Hour(full) = full, full <= end, pruned <= full,
         OldFit(mins, hrs, utc, end, full, day, pruned), DOMAIN mins # {},
         NEW fm, fm = Charts!Min(DOMAIN mins),
         NEW hu, hu = IF hrs # Charts!NoRows /\ Charts!Max(DOMAIN hrs \cup {0}) + HOUR >= Charts!Hour(fm + HOUR - 1)
                      THEN Charts!Hour(fm + HOUR - 1) ELSE fm,
         DOMAIN hrs = {} => hrs = Charts!NoRows
  PROVE  HoursEnd(hu, fm, mins, hrs, end)
<1>1. /\ \A m \in DOMAIN mins : m \in Nat /\ Charts!Minute(m) = m /\ m < end /\ m >= pruned
      /\ \A h \in DOMAIN hrs : h \in Nat /\ Charts!Hour(h) = h /\ h < full
      /\ IsFiniteSet(DOMAIN mins) /\ IsFiniteSet(DOMAIN hrs)
  BY DEF OldFit
<1>2. MIN \in Nat \ {0} /\ HOUR \in Nat \ {0}
  BY DEF Charts!RollUpsAssumption
<1>3. /\ fm \in DOMAIN mins /\ fm \in Nat /\ Charts!Minute(fm) = fm
      /\ fm < end /\ fm >= pruned /\ \A m \in DOMAIN mins : fm <= m
  <2>1. DOMAIN mins \in SUBSET Int
    BY <1>1
  <2>2. fm \in DOMAIN mins /\ \A m \in DOMAIN mins : fm <= m
    BY <1>1, <2>1, Extremes
  <2> QED
    BY <1>1, <2>2
<1>4. PICK ffh \in Nat : /\ ffh = Charts!Hour(fm + HOUR - 1) /\ Charts!Hour(ffh) = ffh /\ Charts!Minute(ffh) = ffh
                         /\ ffh <= fm + HOUR - 1 /\ fm <= ffh
  <2>1. PICK t \in Nat : t = fm + HOUR - 1
    BY <1>2, <1>3
  <2>a. /\ Charts!Hour(t) \in Nat /\ Charts!Hour(t) <= t /\ t < Charts!Hour(t) + HOUR
        /\ Charts!Hour(Charts!Hour(t)) = Charts!Hour(t) /\ Charts!Minute(Charts!Hour(t)) = Charts!Hour(t)
    BY Bucket
  <2>2. PICK h \in Nat : h = Charts!Hour(t) /\ h <= t /\ t < h + HOUR /\ Charts!Hour(h) = h /\ Charts!Minute(h) = h
    BY <2>a, Zenon
  <2>3. HOUR \in Nat \ {0} /\ fm \in Nat
    BY <1>2, <1>3
  <2>4. h <= fm + HOUR - 1 /\ fm <= h
    BY <2>1, <2>2, <2>3
  <2>5. h = Charts!Hour(fm + HOUR - 1)
    BY <2>1, <2>2
  <2> QED
    BY <2>2, <2>4, <2>5
<1>5. PICK top \in Nat : top = Charts!Max(DOMAIN hrs \cup {0}) /\ top \in DOMAIN hrs \cup {0} /\ \A h \in DOMAIN hrs : h <= top
  <2>1. IsFiniteSet(DOMAIN hrs \cup {0}) /\ DOMAIN hrs \cup {0} \in SUBSET Int /\ DOMAIN hrs \cup {0} # {}
    BY <1>1, FS_AddElement
  <2>2. /\ Charts!Max(DOMAIN hrs \cup {0}) \in DOMAIN hrs \cup {0}
        /\ \A h \in DOMAIN hrs \cup {0} : h <= Charts!Max(DOMAIN hrs \cup {0})
    BY <2>1, Extremes
  <2> QED
    BY <1>1, <2>2
<1>6. ASSUME NEW r \in onTime
      PROVE  /\ r \in Nat /\ Charts!Minute(r) \in Nat /\ Charts!Hour(r) \in Nat
             /\ Charts!Hour(r) <= Charts!Minute(r) /\ Charts!Minute(r) <= r
             /\ r < Charts!Hour(r) + HOUR /\ Charts!Hour(Charts!Hour(r)) = Charts!Hour(r)
             /\ Charts!Minute(r) < fm <=> r < fm
             /\ Charts!Hour(r) < ffh <=> r < ffh
             /\ Charts!Hour(r) < full => Charts!Hour(r) \in DOMAIN hrs
             /\ Charts!Minute(r) < end /\ r >= fm => Charts!Minute(r) \in DOMAIN mins
             /\ Charts!Minute(r) < end /\ r < fm => Charts!Hour(r) < full
  <2>1. /\ r \in Nat /\ Charts!Minute(r) \in Nat /\ Charts!Hour(r) \in Nat
        /\ Charts!Hour(r) <= Charts!Minute(r) /\ Charts!Minute(r) <= r /\ r < Charts!Hour(r) + HOUR
        /\ Charts!Minute(r) < end /\ Charts!Minute(r) >= pruned => Charts!Minute(r) \in DOMAIN mins
        /\ Charts!Hour(r) < full => Charts!Hour(r) \in DOMAIN hrs
    BY OldReading
  <2>2. r \in Int /\ Charts!Hour(Charts!Hour(r)) = Charts!Hour(r)
    BY <2>1, Bucket
  <2>3. fm \in Int /\ ffh \in Int /\ Charts!Floor(fm, MIN) = fm /\ Charts!Floor(ffh, HOUR) = ffh
    BY <1>3, <1>4 DEF Charts!Minute, Charts!Hour
  <2>4. Charts!Minute(r) < fm <=> r < fm
    BY <1>2, <2>2, <2>3, Before DEF Charts!Minute
  <2>5. Charts!Hour(r) < ffh <=> r < ffh
    BY <1>2, <2>2, <2>3, Before DEF Charts!Hour
  <2>6. Charts!Minute(r) < end /\ r >= fm => Charts!Minute(r) \in DOMAIN mins
    BY <1>3, <2>1, <2>4
  <2>7. Charts!Minute(r) < end /\ r < fm => Charts!Hour(r) < full
    <3> SUFFICES ASSUME Charts!Minute(r) < end, r < fm PROVE Charts!Hour(r) < full
      OBVIOUS
    <3>1. Charts!Minute(r) \notin DOMAIN mins
      BY <1>3, <2>1, <2>4
    <3>2. Charts!Minute(r) < pruned
      BY <2>1, <3>1
    <3> QED
      BY <2>1, <3>2
  <2> QED
    BY <2>1, <2>2, <2>4, <2>5, <2>6, <2>7
<1>a. \A r \in onTime : Charts!Hour(r) \in DOMAIN hrs => Charts!Minute(r) < end
  <2> SUFFICES ASSUME NEW r \in onTime, Charts!Hour(r) \in DOMAIN hrs PROVE Charts!Minute(r) < end
    OBVIOUS
  <2>1. r \in Int /\ full \in Int /\ Charts!Hour(r) < full /\ Charts!Minute(r) \in Nat /\ Charts!Minute(r) <= r
    BY <1>1, <1>6
  <2>2. r < full
    BY <1>2, <2>1, Before DEF Charts!Hour
  <2> QED
    BY <2>1, <2>2
<1>7. CASE hrs # Charts!NoRows /\ top + HOUR >= ffh
  <2>1. hu = ffh
    BY <1>4, <1>5, <1>7
  <2>2. top \in DOMAIN hrs
    <3>1. PICK h \in DOMAIN hrs : h \in Nat /\ h <= top
      BY <1>1, <1>5, <1>7
    <3> QED
      BY <1>5, <3>1
  <2>3. top + HOUR <= full
    <3>1. top \in Int /\ full \in Int /\ Charts!Hour(top) = top /\ Charts!Hour(full) = full /\ top < full
      BY <1>1, <2>2
    <3> QED
      BY <3>1, Buckets
  <2>4. hu \in Nat /\ fm <= hu /\ hu <= full /\ hu <= end /\ Charts!Minute(hu) = hu
    BY <1>2, <1>4, <1>7, <2>1, <2>3
  <2>5. ASSUME NEW r \in onTime, Charts!Minute(r) < end
        PROVE  /\ r < hu => Charts!Hour(r) \in DOMAIN hrs /\ Charts!Hour(r) < hu
               /\ Charts!Hour(r) \in DOMAIN hrs /\ Charts!Hour(r) < hu => r < hu
               /\ r >= hu => Charts!Minute(r) \in DOMAIN mins
    <3>1. /\ r \in Nat /\ Charts!Hour(r) \in Nat /\ (Charts!Hour(r) < hu <=> r < hu)
          /\ Charts!Hour(r) < full => Charts!Hour(r) \in DOMAIN hrs
          /\ r >= fm => Charts!Minute(r) \in DOMAIN mins
      BY <1>6, <2>1, <2>5
    <3> QED
      BY <1>3, <2>4, <3>1
  <2> QED
    BY <1>a, <2>4, <2>5 DEF HoursEnd
<1>8. CASE ~(hrs # Charts!NoRows /\ top + HOUR >= ffh)
  <2>1. hu = fm
    BY <1>4, <1>5, <1>8
  <2>2. ASSUME NEW r \in onTime, Charts!Minute(r) < end
        PROVE  /\ r < hu => Charts!Hour(r) \in DOMAIN hrs /\ Charts!Hour(r) < hu
               /\ Charts!Hour(r) \in DOMAIN hrs /\ Charts!Hour(r) < hu => r < hu
               /\ r >= hu => Charts!Minute(r) \in DOMAIN mins
    <3>1. /\ r \in Nat /\ Charts!Hour(r) \in Nat /\ Charts!Hour(r) <= r
          /\ Charts!Hour(r) < full => Charts!Hour(r) \in DOMAIN hrs
          /\ r >= fm => Charts!Minute(r) \in DOMAIN mins
          /\ r < fm => Charts!Hour(r) < full
          /\ r < Charts!Hour(r) + HOUR /\ Charts!Hour(Charts!Hour(r)) = Charts!Hour(r)
      <4> HIDE <1>8
      <4> QED
        BY <1>6, <2>2
    <3>2. Charts!Hour(r) \in DOMAIN hrs => r < fm
      <4> SUFFICES ASSUME Charts!Hour(r) \in DOMAIN hrs PROVE r < fm
        OBVIOUS
      <4>1. hrs # Charts!NoRows
        BY DEF Charts!NoRows
      <4>2. Charts!Hour(r) <= top /\ top + HOUR < ffh
        <5>1. ~(top + HOUR >= ffh)
          BY <1>8, <4>1
        <5>2. top + HOUR \in Nat
          BY <1>2
        <5>3. top + HOUR < ffh
          BY <5>1, <5>2
        <5>4. Charts!Hour(r) <= top
          BY <1>5
        <5> QED
          BY <5>3, <5>4
      <4>3. PICK h \in Nat : h = Charts!Hour(r) /\ Charts!Hour(h) = h /\ r < h + HOUR /\ h + HOUR < ffh
        BY <1>2, <1>4, <3>1, <4>2
      <4>4. Charts!Hour(h + HOUR) = h + HOUR
        BY <1>2, <4>3, NextBucket DEF Charts!Hour
      <4>5. PICK k \in Nat : k = h + HOUR /\ Charts!Hour(k) = k /\ k < ffh
        BY <1>2, <4>3, <4>4
      <4>6. k + HOUR <= ffh
        BY <1>4, <4>5, Buckets
      <4>7. r < k
        BY <4>3, <4>5
      <4>8. ffh <= fm + HOUR - 1
        BY <1>4
      <4>9. HOUR \in Nat /\ fm \in Nat /\ r \in Nat
        BY <1>2, <1>3, <3>1
      <4> QED
        BY <4>6, <4>7, <4>8, <4>9
    <3> QED
      BY <1>3, <2>1, <3>1, <3>2
  <2>3. hu \in Nat /\ fm <= hu /\ hu <= end /\ Charts!Minute(hu) = hu
    BY <1>3, <2>1
  <2> QED
    BY <1>a, <2>2, <2>3 DEF HoursEnd
<1> QED
  BY <1>7, <1>8

(* The minutes of an older database are taken up to where the last is over,  *)
(* or its day begins.                                                        *)
MinutesEnd(e, hu, fm, end, pruned) ==
  /\ e \in Nat /\ fm <= e /\ e <= end /\ Charts!Minute(e) = e /\ pruned <= fm /\ fm < end /\ Charts!Minute(fm) = fm
  /\ e < hu => \A r \in onTime : Charts!Minute(r) < end => r < e
LEMMA WhereMinutesEnd ==
  ASSUME Charts!RollUpsAssumption, Charts!CountingAssumption, zone \in DOMAIN Midnights, NEW pruned \in Nat,
         NEW mins, NEW hrs, NEW utc, NEW end \in Nat, NEW full, NEW day, Charts!Minute(end) = end,
         OldFit(mins, hrs, utc, end, full, day, pruned), DOMAIN mins # {},
         NEW fm, fm = Charts!Min(DOMAIN mins), NEW hu, HoursEnd(hu, fm, mins, hrs, end),
         NEW mu, mu = Charts!Max(DOMAIN mins) + MIN,
         NEW e, e = Charts!Least(Charts!Greatest(Charts!LocalDayStart(mu), hu), mu)
  PROVE  MinutesEnd(e, hu, fm, end, pruned)
<1>1. /\ \A m \in DOMAIN mins : m \in Nat /\ Charts!Minute(m) = m /\ m < end /\ m >= pruned
      /\ IsFiniteSet(DOMAIN mins)
  BY DEF OldFit
<1>2. MIN \in Nat \ {0}
  BY DEF Charts!RollUpsAssumption
<1>3. PICK last \in DOMAIN mins : last = Charts!Max(DOMAIN mins) /\ fm \in DOMAIN mins
                                  /\ \A m \in DOMAIN mins : m <= last
  <2>1. DOMAIN mins \in SUBSET Int
    BY <1>1
  <2>2. /\ Charts!Max(DOMAIN mins) \in DOMAIN mins /\ \A m \in DOMAIN mins : m <= Charts!Max(DOMAIN mins)
        /\ fm \in DOMAIN mins
    BY <1>1, <2>1, Extremes
  <2> QED
    BY <2>2
<1>4. /\ last \in Nat /\ Charts!Minute(last) = last /\ last < end
      /\ fm \in Nat /\ Charts!Minute(fm) = fm /\ fm < end /\ fm >= pruned /\ fm <= last
  BY <1>1, <1>3
<1>5. mu \in Nat /\ mu <= end /\ Charts!Minute(mu) = mu /\ fm < mu /\ mu = last + MIN
  <2>1. last \in Int /\ end \in Int /\ Charts!Minute(last) < Charts!Minute(end)
    BY <1>4
  <2>2. last + MIN <= end
    BY <1>4, <2>1, Buckets
  <2>3. Charts!Minute(last + MIN) = last + MIN
    BY <1>2, <1>4, NextBucket DEF Charts!Minute
  <2> QED
    BY <1>2, <1>3, <1>4, <2>2, <2>3
<1>6. hu \in Nat /\ fm <= hu /\ Charts!Minute(hu) = hu
  BY DEF HoursEnd
<1>7. PICK ld \in Int : ld = Charts!LocalDayStart(mu) /\ Charts!Minute(ld) = ld
  BY <1>5, DayBegins
<1>8. e = IF (IF ld > hu THEN ld ELSE hu) < mu THEN (IF ld > hu THEN ld ELSE hu) ELSE mu
  BY <1>7 DEF Charts!Least, Charts!Greatest
<1>9. e \in Nat /\ fm <= e /\ e <= end /\ Charts!Minute(e) = e /\ (e < hu => e = mu)
  <2>1. CASE e = mu
    BY <1>4, <1>5, <2>1
  <2>2. CASE e # mu /\ ld > hu
    <3>1. e = ld /\ ld < mu
      BY <1>8, <2>2
    <3> QED
      BY <1>4, <1>5, <1>6, <1>7, <2>2, <3>1
  <2>3. CASE e # mu /\ ~(ld > hu)
    <3>1. e = hu /\ hu < mu
      BY <1>8, <2>3
    <3> QED
      BY <1>4, <1>5, <1>6, <3>1
  <2> QED
    BY <2>1, <2>2, <2>3
<1>10. ASSUME NEW r \in onTime, Charts!Minute(r) < end PROVE r < mu
  <2>1. /\ r \in Nat /\ Charts!Minute(r) \in Nat
        /\ Charts!Minute(r) < end /\ Charts!Minute(r) >= pruned => Charts!Minute(r) \in DOMAIN mins
    BY OldReading
  <2>2. Charts!Minute(r) < mu <=> r < mu
    <3>1. mu \in Int /\ r \in Int /\ Charts!Floor(mu, MIN) = mu
      BY <1>5, <2>1 DEF Charts!Minute
    <3> QED
      BY <1>2, <3>1, Before DEF Charts!Minute
  <2>3. Charts!Minute(r) < mu
    <3> SUFFICES ASSUME Charts!Minute(r) >= mu PROVE FALSE
      BY <1>5, <2>1
    <3>1. Charts!Minute(r) \in DOMAIN mins
      BY <1>4, <1>5, <1>10, <2>1
    <3>2. Charts!Minute(r) <= last
      BY <1>3, <3>1
    <3> QED
      BY <1>2, <1>4, <1>5, <2>1, <3>2
  <2> QED
    BY <2>2, <2>3
<1>11. e < hu => \A r \in onTime : Charts!Minute(r) < end => r < e
  BY <1>9, <1>10
<1> QED
  BY <1>4, <1>9, <1>11 DEF MinutesEnd

(* The days begin where the kept UTC days stop, or with the first row there  *)
(* is: the kept days count the readings before.                              *)
DaysStart(kept, start, fm, hrs) ==
  /\ start \in Int /\ start <= fm /\ Charts!Minute(start) = start
  /\ kept \in [DOMAIN kept -> Nat] /\ DOMAIN kept \in SUBSET Nat /\ IsFiniteSet(DOMAIN kept)
  /\ Charts!SumFunction(kept) = Cardinality({r \in onTime : r < start})
  /\ \A r \in onTime : Charts!Hour(r) \in DOMAIN hrs => (Charts!Hour(r) >= start <=> r >= start)
  /\ kept = Charts!NoRows => \A r \in onTime : r >= start
LEMMA WhereDaysStart ==
  ASSUME Charts!RollUpsAssumption, Charts!CountingAssumption, zone \in DOMAIN Midnights, NEW pruned \in Nat,
         onTime \in SUBSET Nat, IsFiniteSet(onTime),
         NEW mins, NEW hrs, NEW utc, NEW end \in Nat, NEW full \in Nat, NEW day \in Nat, Charts!UtcDay(day) = day,
         pruned <= full, DaysRead(utc),
         OldFit(mins, hrs, utc, end, full, day, pruned), DOMAIN mins # {},
         NEW fm, fm = Charts!Min(DOMAIN mins), NEW kept, kept = Charts!DropDays(mins, utc),
         NEW start, start = IF kept # Charts!NoRows THEN Charts!Max(DOMAIN kept) + DAY
                            ELSE Charts!LocalDayStart(Charts!Min(DOMAIN mins \cup DOMAIN hrs))
  PROVE  DaysStart(kept, start, fm, hrs)
<1>1. /\ \A m \in DOMAIN mins : m \in Nat /\ Charts!Minute(m) = m /\ m < end /\ m >= pruned
      /\ \A h \in DOMAIN hrs : h \in Nat /\ Charts!Hour(h) = h /\ h < full
      /\ \A d \in DOMAIN utc : d \in Nat
      /\ IsFiniteSet(DOMAIN mins) /\ IsFiniteSet(DOMAIN hrs) /\ IsFiniteSet(DOMAIN utc)
  BY DEF OldFit
<1>2. DAY \in Nat \ {0} /\ HOUR \in Nat \ {0} /\ MIN \in Nat \ {0}
  BY DEF Charts!RollUpsAssumption
<1>3. fm \in DOMAIN mins /\ fm \in Nat /\ fm < end
  <2>1. DOMAIN mins \in SUBSET Int
    BY <1>1
  <2>2. fm \in DOMAIN mins
    BY <1>1, <2>1, Extremes
  <2> QED
    BY <1>1, <2>2
<1>4. PICK K : K = {d \in DOMAIN utc : d <= fm - DAY}
  OBVIOUS
<1>5. kept = [d \in K |-> utc[d]]
  BY <1>4 DEF Charts!DropDays, Charts!RestrictDomain, Charts!Restrict
<1>6. /\ K \in SUBSET DOMAIN utc /\ K \in SUBSET Nat /\ IsFiniteSet(K) /\ DOMAIN kept = K
      /\ DaysRead(kept)
  <2>1. K \in SUBSET DOMAIN utc /\ K \in SUBSET Nat
    BY <1>1, <1>4
  <2>2. IsFiniteSet(K)
    BY <1>1, <2>1, FS_Subset
  <2>3. \A d \in K : kept[d] = Cardinality({r \in onTime : Charts!UtcDay(r) = d})
    BY <1>5, <2>1 DEF DaysRead
  <2> QED
    BY <1>5, <2>1, <2>2, <2>3 DEF DaysRead
<1>7. CASE K # {}
  <2>1. kept # Charts!NoRows
    BY <1>6, <1>7 DEF Charts!NoRows
  <2>2. PICK last \in K : last = Charts!Max(K) /\ last \in Nat
    <3>1. K \in SUBSET Int
      BY <1>6
    <3> QED
      BY <1>6, <1>7, <3>1, Extremes
  <2>3. last <= fm - DAY
    BY <1>4, <2>2
  <2>4. FirstOf(K, utc)
    <3>1. \A d \in DOMAIN utc : d <= last => d \in K
      BY <1>1, <1>2, <1>3, <1>4, <2>2, <2>3
    <3> QED
      BY <1>6, <1>7, <2>2, <3>1 DEF FirstOf
  <2>5. CountTill(kept, K, day)
    BY <1>6, <2>4, FirstDays
  <2>6. /\ Charts!UtcDay(last + DAY) = last + DAY /\ kept \in [K -> Nat]
        /\ Charts!SumFunction(kept) = Cardinality({r \in onTime : r < last + DAY})
    BY <2>2, <2>5 DEF CountTill
  <2>7. start = last + DAY
    BY <1>6, <2>1, <2>2
  <2>8. start \in Int /\ start <= fm /\ Charts!Minute(start) = start /\ Charts!Hour(start) = start
    <3>1. start \in Int /\ start <= fm /\ Charts!UtcDay(start) = start
      BY <1>2, <1>3, <2>2, <2>3, <2>6, <2>7
    <3> QED
      BY <3>1, UtcDays
  <2>9. \A r \in onTime : Charts!Hour(r) >= start <=> r >= start
    <3> TAKE r \in onTime
    <3>1. r \in Int /\ Charts!Hour(r) \in Int
      <4>1. r \in Int
        OBVIOUS
      <4> QED
        BY <4>1, Bucket
    <3>2. Charts!Hour(r) < start <=> r < start
      BY <1>2, <2>8, <3>1, Before DEF Charts!Hour
    <3> QED
      BY <2>8, <3>1, <3>2
  <2> QED
    BY <1>6, <2>1, <2>6, <2>7, <2>8, <2>9 DEF DaysStart
<1>8. CASE K = {}
  <2>1. kept = Charts!NoRows
    BY <1>5, <1>8 DEF Charts!NoRows
  <2>2. PICK x \in Nat : /\ x = Charts!Min(DOMAIN mins \cup DOMAIN hrs)
                         /\ \A m \in DOMAIN mins : x <= m
                         /\ \A h \in DOMAIN hrs : x <= h
    <3>1. /\ DOMAIN mins \cup DOMAIN hrs \in SUBSET Int /\ IsFiniteSet(DOMAIN mins \cup DOMAIN hrs)
          /\ DOMAIN mins \cup DOMAIN hrs # {}
      <4>1. IsFiniteSet(DOMAIN mins \cup DOMAIN hrs)
        BY <1>1, FS_Union
      <4> QED
        BY <1>1, <4>1
    <3>2. /\ Charts!Min(DOMAIN mins \cup DOMAIN hrs) \in DOMAIN mins \cup DOMAIN hrs
          /\ \A k \in DOMAIN mins \cup DOMAIN hrs : Charts!Min(DOMAIN mins \cup DOMAIN hrs) <= k
      BY <3>1, Extremes
    <3> QED
      BY <1>1, <3>2
  <2>3. start = Charts!LocalDayStart(x)
    BY <2>1, <2>2
  <2>4. start \in Int /\ start <= x /\ Charts!Minute(start) = start
    BY <2>3, DayBegins
  <2>5. start <= fm
    BY <1>3, <2>2, <2>4
  <2>6. \A r \in onTime : Charts!Hour(r) \in DOMAIN hrs => (Charts!Hour(r) >= start /\ r >= start)
    <3> SUFFICES ASSUME NEW r \in onTime, Charts!Hour(r) \in DOMAIN hrs
                 PROVE  Charts!Hour(r) >= start /\ r >= start
      OBVIOUS
    <3>1. r \in Nat /\ Charts!Hour(r) \in Nat /\ Charts!Hour(r) <= Charts!Minute(r) /\ Charts!Minute(r) <= r
          /\ Charts!Minute(r) \in Nat
      BY OldReading
    <3>2. x <= Charts!Hour(r)
      BY <2>2
    <3> QED
      BY <2>4, <3>1, <3>2
  <2>7. \A r \in onTime : r >= start
    <3>0. \A r \in onTime : r \in Int
      OBVIOUS
    <3>a. PICK at \in Int : at = start
      BY <2>4
    <3>b. ASSUME NEW r \in onTime, ~(r < at) PROVE r >= at
      BY <3>0, <3>b
    <3> SUFFICES ASSUME NEW r \in onTime, r < start PROVE FALSE
      BY <3>a, <3>b
    <3>1. /\ r \in Nat /\ Charts!Hour(r) \in Nat /\ Charts!Minute(r) \in Nat
          /\ Charts!Hour(r) <= Charts!Minute(r) /\ Charts!Minute(r) <= r
          /\ Charts!Minute(r) < end /\ Charts!Minute(r) >= pruned => Charts!Minute(r) \in DOMAIN mins
          /\ Charts!Hour(r) < full => Charts!Hour(r) \in DOMAIN hrs
      BY OldReading
    <3>2. Charts!Minute(r) < end
      BY <1>3, <2>4, <2>5, <3>1
    <3>3. Charts!Minute(r) \notin DOMAIN mins
      <4> SUFFICES ASSUME Charts!Minute(r) \in DOMAIN mins PROVE FALSE
        OBVIOUS
      <4>1. x <= Charts!Minute(r)
        BY <2>2
      <4> QED
        BY <2>4, <3>1, <4>1
    <3>4. Charts!Minute(r) < pruned
      BY <3>1, <3>2, <3>3
    <3>5. Charts!Hour(r) \in DOMAIN hrs
      BY <3>1, <3>4
    <3>6. r >= start
      BY <2>6, <3>5
    <3> QED
      BY <2>4, <3>1, <3>6
  <2>8. {r \in onTime : r < start} = {}
    <3>1. \A r \in onTime : r \in Int
      OBVIOUS
    <3>2. PICK at \in Int : at = start
      BY <2>4
    <3>3. \A r \in onTime : r >= at
      BY <2>7, <3>2
    <3>4. \A r \in onTime : ~(r < at)
      BY <3>1, <3>3
    <3> QED
      BY <3>2, <3>4
  <2>9. Charts!SumFunction(kept) = 0
    <3>1. Charts!Total(kept, {}) = 0
      BY SumNone
    <3> QED
      BY <1>6, <1>8, <3>1 DEF Charts!SumFunction, Charts!Total
  <2>10. Charts!SumFunction(kept) = Cardinality({r \in onTime : r < start})
    BY <2>8, <2>9, FS_EmptySet
  <2>11. kept \in [DOMAIN kept -> Nat]
    BY <1>5, <1>6, <1>8
  <2>12. \A r \in onTime : Charts!Hour(r) \in DOMAIN hrs => (Charts!Hour(r) >= start <=> r >= start)
    BY <2>6
  <2> QED
    BY <1>6, <2>4, <2>5, <2>7, <2>10, <2>11, <2>12 DEF DaysStart
<1> QED
  BY <1>7, <1>8

(* Days that count some readings, and last.                                  *)
DaysCount(rows, X) ==
  /\ rows \in [DOMAIN rows -> Nat] /\ DOMAIN rows \in SUBSET Int /\ IsFiniteSet(DOMAIN rows)
  /\ \A d \in DOMAIN rows, p \in Kinds : d + p["1d"] >= Horizon
  /\ Charts!SumFunction(rows) = Cardinality(X) /\ IsFiniteSet(X)
LEMMA PiecesCount ==
  ASSUME Charts!RollUpsAssumption, Charts!CountingAssumption, zone \in DOMAIN Midnights,
         NEW src, NEW W, W \in SUBSET DOMAIN src, W \in SUBSET Nat, IsFiniteSet(W), NEW key,
         Tallies(src, W, onTime, key), NEW X, X = Keyed(onTime, key, W)
  PROVE  DaysCount(Charts!DaysOf(Charts!Restrict(src, W)), X)
<1>1. PICK some : some = Charts!Restrict(src, W)
  OBVIOUS
<1>2. some = [t \in W |-> src[t]]
  BY <1>1 DEF Charts!Restrict
<1>3. DOMAIN some = W /\ Tallies(some, W, onTime, key)
  BY <1>2 DEF Tallies
<1>4. PICK whole : whole = Charts!DaysOf(some)
  OBVIOUS
<1>5. ByDays(whole, W, Cardinality(X))
  <2>1. ByDays(Charts!DaysOf(some), W, Cardinality(Keyed(onTime, key, W)))
    BY <1>3, DaysTally
  <2> QED
    BY <1>4, <2>1
<1>6. \A t \in W : Charts!LocalDayStart(t) \in Int /\ \A p \in Kinds : Charts!LocalDayStart(t) + p["1d"] >= Horizon
  <2> TAKE t \in W
  <2>1. t \in Nat
    OBVIOUS
  <2> QED
    BY <2>1, DayBegins
<1>7. IsFiniteSet(X)
  BY FS_Subset DEF Tallies, Keyed
<1> QED
  BY <1>1, <1>4, <1>5, <1>6, <1>7 DEF ByDays, DaysCount

LEMMA MergedCount ==
  ASSUME NEW f, NEW A, DaysCount(f, A), NEW g, NEW B, DaysCount(g, B), A \cap B = {}
  PROVE  DaysCount(Charts!MergeDay(f, g), A \cup B)
<1>1. /\ IsFiniteSet(DOMAIN f) /\ IsFiniteSet(DOMAIN g) /\ f \in [DOMAIN f -> Nat] /\ g \in [DOMAIN g -> Nat]
      /\ DOMAIN f \in SUBSET Int /\ DOMAIN g \in SUBSET Int
      /\ Charts!SumFunction(f) = Cardinality(A) /\ Charts!SumFunction(g) = Cardinality(B)
      /\ IsFiniteSet(A) /\ IsFiniteSet(B)
  BY DEF DaysCount
<1>2. \A d \in DOMAIN f \cup DOMAIN g, p \in Kinds : d + p["1d"] >= Horizon
  BY DEF DaysCount
<1>3. PICK both : both = Charts!MergeDay(f, g)
  OBVIOUS
<1>4. /\ DOMAIN both = DOMAIN f \cup DOMAIN g /\ both \in [DOMAIN both -> Nat]
      /\ Charts!SumFunction(both) = Charts!SumFunction(f) + Charts!SumFunction(g)
  <2>1. LET b == Charts!MergeDay(f, g) IN
         /\ DOMAIN b = DOMAIN f \cup DOMAIN g /\ b \in [DOMAIN b -> Nat]
         /\ Charts!SumFunction(b) = Charts!SumFunction(f) + Charts!SumFunction(g)
         /\ Charts!SumFunction(f) \in Nat /\ Charts!SumFunction(g) \in Nat
    BY <1>1, SumMerged
  <2> QED
    BY <1>3, <2>1
<1>5. IsFiniteSet(A \cup B) /\ Cardinality(A \cup B) = Cardinality(A) + Cardinality(B)
  BY <1>1, CountApart
<1>6. IsFiniteSet(DOMAIN f \cup DOMAIN g)
  BY <1>1, FS_Union
<1>7. DOMAIN both \in SUBSET Int
  BY <1>1, <1>4
<1>8. DaysCount(both, A \cup B)
  BY <1>1, <1>2, <1>4, <1>5, <1>6, <1>7 DEF DaysCount
<1> QED
  BY <1>3, <1>8

(* The hours and the minutes that are taken are those of the readings from   *)
(* where the days start to where they end.                                   *)
FromHours(start, hu, e) == {r \in onTime : start <= r /\ r < Charts!Least(hu, e)}
FromMinutes(start, hu, e) == {r \in onTime : Charts!Greatest(start, hu) <= r /\ r < e}
LEMMA HoursTaken ==
  ASSUME NEW hrs, NEW mins, NEW fm \in Nat, NEW end \in Nat, NEW pruned, NEW kept, NEW hu, NEW e, NEW start,
         Charts!RollUpsAssumption, onTime \in SUBSET Nat, DOMAIN hrs \in SUBSET Nat,
         HoursEnd(hu, fm, mins, hrs, end), MinutesEnd(e, hu, fm, end, pruned), DaysStart(kept, start, fm, hrs)
  PROVE  \A r \in onTime : Charts!Hour(r) \in Charts!Within(hrs, start, Charts!Least(hu, e))
                           <=> r \in FromHours(start, hu, e)
<1>1. hu \in Nat /\ hu <= end /\ e \in Nat /\ e <= end /\ start \in Int /\ Charts!Minute(hu) = hu
  BY DEF HoursEnd, MinutesEnd, DaysStart
<1>2. PICK to \in Nat : to = Charts!Least(hu, e) /\ to <= hu /\ to <= e /\ (to = hu \/ (to = e /\ e < hu))
  BY <1>1 DEF Charts!Least
<1>3. MIN \in Nat \ {0} /\ HOUR \in Nat \ {0}
  BY DEF Charts!RollUpsAssumption
<1>4. SUFFICES ASSUME NEW r \in onTime
               PROVE  (Charts!Hour(r) \in DOMAIN hrs /\ start <= Charts!Hour(r) /\ Charts!Hour(r) < to)
                      <=> (start <= r /\ r < to)
  BY <1>2 DEF FromHours, Charts!Within
<1>5. /\ r \in Nat /\ Charts!Hour(r) \in Nat /\ Charts!Hour(r) <= r /\ Charts!Minute(r) \in Nat /\ Charts!Minute(r) <= r
      /\ Charts!Hour(r) <= Charts!Minute(r)
  <2>1. r \in Nat /\ r \in Int
    OBVIOUS
  <2> QED
    BY <2>1, Bucket
<1>6. ASSUME Charts!Minute(r) < end
      PROVE  /\ r < hu => Charts!Hour(r) \in DOMAIN hrs /\ Charts!Hour(r) < hu
             /\ Charts!Hour(r) \in DOMAIN hrs /\ Charts!Hour(r) < hu => r < hu
             /\ e < hu => r < e
  BY <1>6 DEF HoursEnd, MinutesEnd
<1>7. Charts!Hour(r) \in DOMAIN hrs => (Charts!Hour(r) >= start <=> r >= start)
  BY DEF DaysStart
<1>8. ASSUME start <= r, r < to
      PROVE  Charts!Hour(r) \in DOMAIN hrs /\ start <= Charts!Hour(r) /\ Charts!Hour(r) < to
  <2>1. Charts!Minute(r) < end /\ r < hu
    BY <1>1, <1>2, <1>5, <1>8
  <2>2. Charts!Hour(r) \in DOMAIN hrs
    BY <1>6, <2>1
  <2>3. Charts!Hour(r) >= start
    BY <1>1, <1>5, <1>7, <1>8, <2>2
  <2> QED
    BY <1>1, <1>2, <1>5, <1>8, <2>2, <2>3
<1>9. ASSUME Charts!Hour(r) \in DOMAIN hrs, start <= Charts!Hour(r), Charts!Hour(r) < to
      PROVE  start <= r /\ r < to
  <2>1. start <= r
    BY <1>1, <1>5, <1>9
  <2>2. Charts!Hour(r) < hu
    BY <1>1, <1>2, <1>5, <1>9
  <2>3. Charts!Minute(r) < end
    BY <1>9 DEF HoursEnd
  <2>4. r < hu
    BY <1>6, <1>9, <2>2, <2>3
  <2>5. r < to
    BY <1>1, <1>2, <1>5, <1>6, <2>3, <2>4
  <2> QED
    BY <2>1, <2>5
<1> QED
  BY <1>8, <1>9

LEMMA AtTimes == ASSUME onTime \in SUBSET Nat PROVE \A r \in onTime : r \in Nat /\ r \in Int
OBVIOUS

LEMMA MinutesTaken ==
  ASSUME NEW hrs, NEW mins, NEW fm \in Nat, NEW end \in Nat, NEW pruned, NEW kept, NEW hu, NEW e, NEW start,
         Charts!RollUpsAssumption, onTime \in SUBSET Nat,
         HoursEnd(hu, fm, mins, hrs, end), MinutesEnd(e, hu, fm, end, pruned), DaysStart(kept, start, fm, hrs)
  PROVE  \A r \in onTime : Charts!Minute(r) \in Charts!Within(mins, Charts!Greatest(start, hu), e)
                           <=> r \in FromMinutes(start, hu, e)
<1>1. /\ hu \in Nat /\ hu <= end /\ e \in Nat /\ e <= end /\ start \in Int
      /\ Charts!Minute(hu) = hu /\ Charts!Minute(e) = e /\ Charts!Minute(start) = start
  BY DEF HoursEnd, MinutesEnd, DaysStart
<1>2. PICK from \in Int : from = Charts!Greatest(start, hu) /\ hu <= from /\ Charts!Minute(from) = from
  BY <1>1 DEF Charts!Greatest
<1>3. MIN \in Nat \ {0}
  BY DEF Charts!RollUpsAssumption
<1>4. SUFFICES ASSUME NEW r \in onTime
               PROVE  (Charts!Minute(r) \in DOMAIN mins /\ from <= Charts!Minute(r) /\ Charts!Minute(r) < e)
                      <=> (from <= r /\ r < e)
  BY <1>2 DEF FromMinutes, Charts!Within
<1>5. /\ r \in Nat /\ Charts!Minute(r) \in Nat /\ Charts!Minute(r) <= r
  <2>1. r \in Nat /\ r \in Int
    OBVIOUS
  <2> QED
    BY <2>1, Bucket
<1>6. (Charts!Minute(r) < from <=> r < from) /\ (Charts!Minute(r) < e <=> r < e)
  <2>1. r \in Int /\ e \in Int
    BY <1>1, <1>5
  <2> QED
    BY <1>1, <1>2, <1>3, <2>1, Before DEF Charts!Minute
<1>7. Charts!Minute(r) < end => (r >= hu => Charts!Minute(r) \in DOMAIN mins)
  BY DEF HoursEnd
<1> QED
  BY <1>1, <1>2, <1>5, <1>6, <1>7

(* What is taken of an older database's hours and minutes, after the UTC     *)
(* days that are kept, is one of each reading till where they stop.          *)
Taken(kept, hrs, mins, start, hu, e) ==
  Charts!MergeDay(kept, Charts!MergeDay(
    Charts!DaysOf(Charts!Restrict(hrs, Charts!Within(hrs, start, Charts!Least(hu, e)))),
    Charts!DaysOf(Charts!Restrict(mins, Charts!Within(mins, Charts!Greatest(start, hu), e)))))
BothCount(hrs, mins) ==
  /\ DOMAIN hrs \in SUBSET Nat /\ DOMAIN mins \in SUBSET Nat /\ IsFiniteSet(DOMAIN hrs) /\ IsFiniteSet(DOMAIN mins)
  /\ \A m \in DOMAIN mins : mins[m] = Cardinality({r \in onTime : Charts!Minute(r) = m})
  /\ \A h \in DOMAIN hrs : hrs[h] = Cardinality({r \in onTime : Charts!Hour(r) = h})
LEMMA TakenCount ==
  ASSUME Charts!RollUpsAssumption, Charts!CountingAssumption, zone \in DOMAIN Midnights,
         onTime \in SUBSET Nat, IsFiniteSet(onTime),
         NEW hrs, NEW mins, NEW fm \in Nat, NEW end \in Nat, NEW pruned, NEW kept, NEW hu, NEW e, NEW start,
         HoursEnd(hu, fm, mins, hrs, end), MinutesEnd(e, hu, fm, end, pruned), DaysStart(kept, start, fm, hrs),
         BothCount(hrs, mins), start < e
  PROVE  DaysCount(Taken(kept, hrs, mins, start, hu, e), {r \in onTime : r < e})
<1>0. /\ DOMAIN hrs \in SUBSET Nat /\ DOMAIN mins \in SUBSET Nat /\ IsFiniteSet(DOMAIN hrs) /\ IsFiniteSet(DOMAIN mins)
      /\ \A m \in DOMAIN mins : mins[m] = Cardinality({r \in onTime : Charts!Minute(r) = m})
      /\ \A h \in DOMAIN hrs : hrs[h] = Cardinality({r \in onTime : Charts!Hour(r) = h})
  BY DEF BothCount
<1>1. PICK V, W : V = Charts!Within(hrs, start, Charts!Least(hu, e)) /\ W = Charts!Within(mins, Charts!Greatest(start, hu), e)
  OBVIOUS
<1>2. V \in SUBSET DOMAIN hrs /\ V \in SUBSET Nat /\ W \in SUBSET DOMAIN mins /\ W \in SUBSET Nat
  BY <1>0, <1>1 DEF Charts!Within
<1>3. IsFiniteSet(V) /\ IsFiniteSet(W)
  BY <1>0, <1>2, FS_Subset
<1>4. PICK H, M : H = FromHours(start, hu, e) /\ M = FromMinutes(start, hu, e)
  OBVIOUS
<1>5. Tallies(hrs, V, onTime, HourOf) /\ Keyed(onTime, HourOf, V) = H
  <2>1. \A h : Keyed(onTime, HourOf, {h}) = {r \in onTime : Charts!Hour(r) = h}
    BY DEF Keyed, HourOf
  <2>2. Tallies(hrs, V, onTime, HourOf)
    BY <1>0, <1>2, <2>1 DEF Tallies
  <2>3. \A r \in onTime : Charts!Hour(r) \in V <=> r \in H
    BY <1>0, <1>1, <1>4, HoursTaken
  <2>4. H \in SUBSET onTime
    BY <1>4 DEF FromHours
  <2>5. Keyed(onTime, HourOf, V) = H
    BY <2>3, <2>4 DEF Keyed, HourOf
  <2> QED
    BY <2>2, <2>5
<1>6. Tallies(mins, W, onTime, MinuteOf) /\ Keyed(onTime, MinuteOf, W) = M
  <2>1. \A h : Keyed(onTime, MinuteOf, {h}) = {r \in onTime : Charts!Minute(r) = h}
    BY DEF Keyed, MinuteOf
  <2>2. Tallies(mins, W, onTime, MinuteOf)
    BY <1>0, <1>2, <2>1 DEF Tallies
  <2>3. \A r \in onTime : Charts!Minute(r) \in W <=> r \in M
    BY <1>0, <1>1, <1>4, MinutesTaken
  <2>4. M \in SUBSET onTime
    BY <1>4 DEF FromMinutes
  <2>5. Keyed(onTime, MinuteOf, W) = M
    BY <2>3, <2>4 DEF Keyed, MinuteOf
  <2> QED
    BY <2>2, <2>5
<1>7. PICK f, g : f = Charts!DaysOf(Charts!Restrict(hrs, V)) /\ g = Charts!DaysOf(Charts!Restrict(mins, W))
  OBVIOUS
<1>8. DaysCount(f, H) /\ DaysCount(g, M)
  <2>1. DaysCount(Charts!DaysOf(Charts!Restrict(hrs, V)), H)
    BY <1>2, <1>3, <1>5, PiecesCount
  <2>2. DaysCount(Charts!DaysOf(Charts!Restrict(mins, W)), M)
    BY <1>2, <1>3, <1>6, PiecesCount
  <2> QED
    BY <1>7, <2>1, <2>2
<1>9. PICK B : B = {r \in onTime : r < start}
  OBVIOUS
<1>10. DaysCount(kept, B)
  <2>1. /\ kept \in [DOMAIN kept -> Nat] /\ DOMAIN kept \in SUBSET Nat /\ IsFiniteSet(DOMAIN kept)
        /\ Charts!SumFunction(kept) = Cardinality(B)
    BY <1>9 DEF DaysStart
  <2>2. IsFiniteSet(B)
    BY <1>9, FS_Subset
  <2>3. ASSUME NEW d \in DOMAIN kept, NEW p \in Kinds PROVE d + p["1d"] >= Horizon
    <3>1. p["1d"] >= Horizon /\ p["1d"] \in Nat /\ Horizon \in Nat /\ d \in Nat
      BY <2>1, DaysLast DEF Charts!CountingAssumption
    <3> QED
      BY <3>1
  <2> QED
    BY <2>1, <2>2, <2>3 DEF DaysCount
<1>11. H \cap M = {} /\ B \cap (H \cup M) = {} /\ B \cup (H \cup M) = {r \in onTime : r < e}
  <2>1. start \in Int /\ hu \in Int /\ e \in Int /\ start < e
    BY DEF HoursEnd, MinutesEnd, DaysStart
  <2>2. \A r \in onTime : /\ r \in Int
                          /\ r \in H <=> start <= r /\ r < hu /\ r < e
                          /\ r \in M <=> start <= r /\ hu <= r /\ r < e
                          /\ r \in B <=> r < start
    <3> TAKE r \in onTime
    <3>1. r \in Int
      BY AtTimes
    <3> QED
      BY <1>4, <1>9, <2>1, <3>1 DEF FromHours, FromMinutes, Charts!Least, Charts!Greatest
  <2>3. H \in SUBSET onTime /\ M \in SUBSET onTime /\ B \in SUBSET onTime
    BY <1>4, <1>9 DEF FromHours, FromMinutes
  <2>4. \A r \in onTime : /\ ~(r \in H /\ r \in M) /\ ~(r \in B /\ (r \in H \/ r \in M))
                          /\ (r \in B \/ r \in H \/ r \in M) <=> r < e
    BY <2>1, <2>2
  <2> QED
    BY <2>3, <2>4
<1>12. DaysCount(Charts!MergeDay(f, g), H \cup M)
  BY <1>8, <1>11, MergedCount
<1>13. DaysCount(Charts!MergeDay(kept, Charts!MergeDay(f, g)), {r \in onTime : r < e})
  BY <1>10, <1>11, <1>12, MergedCount
<1> QED
  BY <1>1, <1>7, <1>13 DEF Taken

LEMMA MigratedSome ==
  ASSUME Charts!RollUpsAssumption, Charts!CountingAssumption, zone \in DOMAIN Midnights,
         onTime \in SUBSET Nat, IsFiniteSet(onTime),
         NEW opened \in Nat, NEW pruned \in Nat, pruned <= Charts!Hour(opened),
         NEW mins, NEW hrs, NEW utc, OldAre(mins, hrs, utc, opened, pruned), DOMAIN mins # {},
         NEW new, new = Charts!Migrated(mins, hrs, utc)
  PROVE  MigratedAre(new.days, new.until, Charts!Minute(opened), pruned)
<1>1. PICK end \in Nat, full \in Nat, day \in Nat :
        /\ end = Charts!Minute(opened) /\ full = Charts!Hour(opened) /\ day = Charts!UtcDay(opened)
        /\ Charts!UtcDay(day) = day /\ Charts!Hour(full) = full /\ Charts!Minute(end) = end /\ full <= end
  BY Bucket, UtcDays
<1>2. OldFit(mins, hrs, utc, end, full, day, pruned)
  BY <1>1, OldOnes
<1>3. /\ mins = [m \in DOMAIN mins |-> mins[m]] /\ hrs = [h \in DOMAIN hrs |-> hrs[h]]
      /\ utc = [d \in DOMAIN utc |-> utc[d]]
      /\ \A m \in DOMAIN mins : mins[m] = Cardinality({r \in onTime : Charts!Minute(r) = m})
      /\ \A h \in DOMAIN hrs : hrs[h] = Cardinality({r \in onTime : Charts!Hour(r) = h})
      /\ \A d \in DOMAIN utc : utc[d] = Cardinality({r \in onTime : Charts!UtcDay(r) = d})
  BY DEF OldAre
<1>4. mins # Charts!NoRows /\ (DOMAIN hrs = {} => hrs = Charts!NoRows) /\ DaysRead(utc)
  BY <1>3 DEF Charts!NoRows, DaysRead
<1>5. /\ DOMAIN hrs \in SUBSET Nat /\ DOMAIN mins \in SUBSET Nat
      /\ IsFiniteSet(DOMAIN hrs) /\ IsFiniteSet(DOMAIN mins)
  BY <1>2 DEF OldFit
<1>6. PICK fm : fm = Charts!Min(DOMAIN mins)
  OBVIOUS
<1>7. PICK kept : kept = Charts!DropDays(mins, utc)
  OBVIOUS
<1>8. PICK start : start = IF kept # Charts!NoRows THEN Charts!Max(DOMAIN kept) + DAY
                            ELSE Charts!LocalDayStart(Charts!Min(DOMAIN mins \cup DOMAIN hrs))
  OBVIOUS
<1>9. PICK hu : hu = IF hrs # Charts!NoRows /\ Charts!Max(DOMAIN hrs \cup {0}) + HOUR >= Charts!Hour(fm + HOUR - 1)
                      THEN Charts!Hour(fm + HOUR - 1) ELSE fm
  OBVIOUS
<1>10. PICK mu : mu = Charts!Max(DOMAIN mins) + MIN
  OBVIOUS
<1>11. PICK e : e = Charts!Least(Charts!Greatest(Charts!LocalDayStart(mu), hu), mu)
  OBVIOUS
<1>12. PICK taken : taken = Charts!MergeDay(kept, Charts!MergeDay(
                     Charts!DaysOf(Charts!Restrict(hrs, Charts!Within(hrs, start, Charts!Least(hu, e)))),
                     Charts!DaysOf(Charts!Restrict(mins, Charts!Within(mins, Charts!Greatest(start, hu), e)))))
  OBVIOUS
<1>13. new = IF start >= e THEN [days |-> kept, until |-> IF kept = Charts!NoRows THEN None ELSE start]
             ELSE [days |-> taken, until |-> e]
  BY <1>4, <1>6, <1>7, <1>8, <1>9, <1>10, <1>11, <1>12 DEF Charts!Migrated
<1>14. pruned <= full
  BY <1>1
<1>15. HoursEnd(hu, fm, mins, hrs, end)
  BY <1>1, <1>2, <1>4, <1>6, <1>9, <1>14, WhereHoursEnd
<1>16. MinutesEnd(e, hu, fm, end, pruned)
  BY <1>1, <1>2, <1>6, <1>10, <1>11, <1>15, WhereMinutesEnd
<1>17. DaysStart(kept, start, fm, hrs)
  BY <1>1, <1>2, <1>4, <1>6, <1>7, <1>8, <1>14, WhereDaysStart
<1>18. /\ e \in Nat /\ fm <= e /\ e <= end /\ Charts!Minute(e) = e
       /\ pruned <= fm /\ fm < end /\ Charts!Minute(fm) = fm
       /\ start \in Int /\ start <= fm /\ Charts!Minute(start) = start
  BY <1>16, <1>17 DEF MinutesEnd, DaysStart
<1>19. fm \in Nat
  <2>1. DOMAIN mins \in SUBSET Int
    BY <1>5
  <2>2. fm \in DOMAIN mins
    BY <1>5, <1>6, <2>1, Extremes
  <2> QED
    BY <1>5, <2>2
<1>20. None \notin Int
  BY DEF Charts!CountingAssumption
<1>21. CASE start >= e
  <2>1. new.days = kept /\ new.until = IF kept = Charts!NoRows THEN None ELSE start
    BY <1>13, <1>21
  <2>2. /\ kept \in [DOMAIN kept -> Nat] /\ DOMAIN kept \in SUBSET Nat /\ IsFiniteSet(DOMAIN kept)
        /\ Charts!SumFunction(kept) = Cardinality({r \in onTime : r < start})
        /\ kept = Charts!NoRows => \A r \in onTime : r >= start
    BY <1>17 DEF DaysStart
  <2>3. \A d \in DOMAIN kept, p \in Kinds : d + p["1d"] >= Horizon
    <3> TAKE d \in DOMAIN kept, p \in Kinds
    <3>1. p["1d"] >= Horizon /\ p["1d"] \in Nat /\ Horizon \in Nat /\ d \in Nat
      BY <2>2, DaysLast DEF Charts!CountingAssumption
    <3> QED
      BY <3>1
  <2>4. start = fm
    BY <1>18, <1>19, <1>21
  <2>5. DOMAIN kept \in SUBSET Int
    BY <2>2
  <2>6. CASE kept = Charts!NoRows
    <3>1. DOMAIN kept = {} /\ new.until = None
      BY <2>1, <2>6 DEF Charts!NoRows
    <3>2. ASSUME NEW r \in onTime PROVE Charts!Minute(r) >= pruned
      <4>1. r \in Int /\ r >= fm
        BY <2>2, <2>4, <2>6, AtTimes
      <4>2. Charts!Minute(r) \in Int /\ Charts!Minute(fm) <= Charts!Minute(r)
        BY <1>19, <4>1, Bucket, Buckets
      <4> QED
        BY <1>18, <1>19, <4>2
    <3> QED
      BY <1>1, <2>1, <2>2, <2>3, <2>5, <3>1, <3>2 DEF MigratedAre
  <2>7. CASE kept # Charts!NoRows
    <3>1. new.until = start /\ start # None /\ start <= end
      BY <1>18, <1>19, <1>20, <2>1, <2>7
    <3>2. ASSUME NEW r \in onTime, Charts!Minute(r) >= start PROVE Charts!Minute(r) >= pruned
      <4>1. r \in Int
        BY AtTimes
      <4>2. Charts!Minute(r) \in Int
        BY <4>1, Bucket
      <4> QED
        BY <1>18, <1>19, <2>4, <3>2, <4>2
    <3> QED
      BY <1>1, <1>18, <2>1, <2>2, <2>3, <2>5, <3>1, <3>2 DEF MigratedAre
  <2> QED
    BY <2>6, <2>7
<1>22. CASE start < e
  <2>1. new.days = taken /\ new.until = e
    BY <1>13, <1>18, <1>22
  <2>2. DaysCount(taken, {r \in onTime : r < e})
    <3>1. BothCount(hrs, mins)
      BY <1>3, <1>5 DEF BothCount
    <3>2. DaysCount(Taken(kept, hrs, mins, start, hu, e), {r \in onTime : r < e})
      BY <1>15, <1>16, <1>17, <1>19, <1>22, <3>1, TakenCount
    <3> QED
      BY <1>12, <3>2 DEF Taken
  <2>3. ASSUME NEW r \in onTime, Charts!Minute(r) >= e PROVE Charts!Minute(r) >= pruned
    <3>1. r \in Int
      BY AtTimes
    <3>2. Charts!Minute(r) \in Int
      BY <3>1, Bucket
    <3> QED
      BY <1>18, <1>19, <2>3, <3>2
  <2>4. e # None
    BY <1>18, <1>20
  <2> QED
    BY <1>1, <1>18, <2>1, <2>2, <2>3, <2>4 DEF MigratedAre, DaysCount
<1> QED
  BY <1>18, <1>21, <1>22

LEMMA MigratedCount ==
  ASSUME Charts!RollUpsAssumption, Charts!CountingAssumption, zone \in DOMAIN Midnights,
         onTime \in SUBSET Nat, IsFiniteSet(onTime),
         NEW opened \in Nat, NEW pruned \in Nat, pruned <= Charts!UtcDay(opened), pruned <= Charts!Hour(opened),
         NEW mins, NEW hrs, NEW utc, OldAre(mins, hrs, utc, opened, pruned),
         NEW new, new = Charts!Migrated(mins, hrs, utc)
  PROVE  MigratedAre(new.days, new.until, Charts!Minute(opened), pruned)
<1>1. CASE DOMAIN mins = {}
  <2>1. mins = Charts!NoRows
    <3>1. mins = [m \in DOMAIN mins |-> mins[m]]
      BY DEF OldAre
    <3> QED
      BY <1>1, <3>1 DEF Charts!NoRows
  <2>2. PICK to : to = IF utc = Charts!NoRows THEN None ELSE Charts!Max(DOMAIN utc) + DAY
    OBVIOUS
  <2>3. new.days = utc /\ new.until = to
    BY <2>1, <2>2 DEF Charts!Migrated
  <2>4. MigratedAre(utc, to, Charts!Minute(opened), pruned)
    BY <1>1, <2>2, MigratedNone
  <2> QED
    BY <2>3, <2>4
<1>2. CASE DOMAIN mins # {}
  BY <1>2, MigratedSome
<1> QED
  BY <1>1, <1>2

LEMMA InitCounts ==
  ASSUME Charts!RollUpsAssumption, Charts!CountingAssumption, Charts!Init PROVE CountInv
<1>1. /\ retained = DEFAULT_RETENTION /\ zone = HomeZone /\ ahead = None
      /\ MIN \in Nat \ {0} /\ HOUR \in Nat \ {0} /\ HomeZone \in DOMAIN Midnights
      /\ Horizon \in Nat /\ OldHorizon \in Nat /\ OldHorizon <= Horizon /\ retained \in Kinds
      /\ Charts!UtcDay(OldHorizon) >= OldHorizon - DEFAULT_RETENTION["1m"]
  BY DEF Charts!Init, Charts!RollUpsAssumption, Charts!CountingAssumption, Kinds
<1>2. CASE Charts!NewDatabase
  <2>1. /\ wall = 0 /\ onTime = {} /\ raw = {} /\ done = 0 /\ until = None
        /\ days = [d \in {} |-> 0] /\ DOMAIN minutes = {} /\ DOMAIN hours = {} /\ DOMAIN days = {}
    BY <1>2 DEF Charts!NewDatabase, Charts!NoRows
  <2>2. Charts!Minute(0) = 0
    BY <1>1 DEF Charts!Minute, Charts!Floor
  <2>3. ClockCounts
    BY <1>1, <2>1, <2>2 DEF ClockCounts
  <2>4. RowsCount /\ DaysStay
    BY <2>1, FS_EmptySet DEF RowsCount, DaysStay
  <2>5. RawWaits /\ RawIsMade /\ MinutesWait /\ MinutesAreMade /\ InMinutes /\ InHours /\ InDays
    BY <2>1 DEF RawWaits, RawIsMade, MinutesWait, MinutesAreMade, InMinutes, InHours, InDays
  <2> QED
    BY <2>3, <2>4, <2>5 DEF CountInv, Counted
<1>3. CASE Charts!OldDatabase
  <2>1. /\ wall \in Nat /\ wall <= Horizon /\ wall = OldHorizon
        /\ done = Charts!Minute(wall) /\ onTime \in SUBSET (0 .. wall - 1)
        /\ raw = {r \in onTime : r >= Charts!Least(wall - retained["raw"], Charts!Minute(wall))}
    BY <1>1, <1>3 DEF Charts!OldDatabase
  <2>2. PICK pruned \in 0 .. Charts!Least(wall - retained["1m"], Charts!Hour(Charts!Minute(wall))) :
          LET old == Charts!Old(onTime, wall, pruned)
              new == Charts!Migrated(old.minutes, old.hours, old.days)
          IN  minutes = old.minutes /\ hours = old.hours /\ days = new.days /\ until = new.until
    BY <1>3 DEF Charts!OldDatabase
  <2>3. PICK utc : utc = Charts!Old(onTime, wall, pruned).days
    OBVIOUS
  <2>4. PICK new : new = Charts!Migrated(minutes, hours, utc)
    OBVIOUS
  <2>5. days = new.days /\ until = new.until
    BY <2>2, <2>3, <2>4
  <2>6. onTime \in SUBSET Nat /\ IsFiniteSet(onTime) /\ \A r \in onTime : r < wall
    <3>1. 0 \in Int /\ wall - 1 \in Int /\ 0 .. wall - 1 \in SUBSET Nat
      BY <2>1
    <3>2. IsFiniteSet(0 .. wall - 1)
      BY <3>1, FS_Interval
    <3>3. onTime \subseteq 0 .. wall - 1
      BY <2>1
    <3>4. IsFiniteSet(onTime)
      BY <3>2, <3>3, FS_Subset
    <3>5. \A t \in 0 .. wall - 1 : t < wall
      BY <2>1
    <3> QED
      BY <3>1, <3>3, <3>4, <3>5
  <2>7. PICK opened \in Nat : opened = wall
    BY <2>1
  <2>8. OldAre(minutes, hours, utc, opened, pruned)
    <3>1. LET old == Charts!Old(onTime, opened, pruned) IN
          OldAre(old.minutes, old.hours, old.days, opened, pruned)
      BY <2>6, <2>7, OldRows
    <3> QED
      BY <2>2, <2>3, <2>7, <3>1
  <2>9. PICK end \in Nat, full \in Nat, day \in Nat :
        /\ end = Charts!Minute(opened) /\ full = Charts!Hour(opened) /\ day = Charts!UtcDay(opened)
        /\ Charts!Minute(end) = end /\ Charts!Hour(end) = full /\ end <= opened
        /\ Charts!Hour(Charts!Minute(opened)) = full
    BY Bucket, UtcDays
  <2>10. retained["raw"] \in Nat /\ retained["1m"] \in Nat /\ retained["raw"] + MIN <= retained["1m"]
    BY <1>1, KindsKeep
  <2>11. pruned \in Nat /\ pruned <= wall - retained["1m"] /\ pruned <= full
    BY <2>1, <2>7, <2>9, <2>10 DEF Charts!Least
  <2>12. pruned <= day
    <3>1. day >= wall - retained["1m"]
      BY <1>1, <2>1, <2>7, <2>9
    <3> QED
      BY <2>1, <2>10, <2>11, <3>1
  <2>13. MigratedAre(days, until, end, pruned)
    <3>1. zone \in DOMAIN Midnights /\ pruned <= Charts!UtcDay(opened) /\ pruned <= Charts!Hour(opened)
      BY <1>1, <2>9, <2>11, <2>12
    <3>2. MigratedAre(new.days, new.until, Charts!Minute(opened), pruned)
      BY <2>4, <2>6, <2>8, <2>11, <3>1, MigratedCount
    <3> QED
      BY <2>5, <2>9, <3>2
  <2>14. OldFit(minutes, hours, utc, end, full, day, pruned)
    BY <2>6, <2>8, <2>9, <2>11, OldOnes
  <2>15. done = end /\ Charts!Hour(done) = full /\ Charts!Minute(done) = done /\ done \in Nat
    BY <2>1, <2>7, <2>9
  <2>16. ClockCounts
    BY <1>1, <2>1, <2>15 DEF ClockCounts
  <2>17. /\ \A m \in DOMAIN minutes : m \in Nat /\ Charts!Minute(m) = m /\ m < end
         /\ \A h \in DOMAIN hours : h \in Nat /\ Charts!Hour(h) = h /\ h < full
         /\ IsFiniteSet(DOMAIN minutes) /\ IsFiniteSet(DOMAIN hours)
    BY <2>14 DEF OldFit
  <2>18. RowsCount
    <3>1. raw \subseteq onTime
      BY <2>1
    <3>2. DOMAIN minutes \in SUBSET Nat /\ DOMAIN hours \in SUBSET Nat
      BY <2>17
    <3> QED
      BY <2>6, <2>15, <2>17, <3>1, <3>2 DEF RowsCount
  <2>19. DaysStay
    BY <2>13, <2>15 DEF MigratedAre, DaysStay
  <2>20. InDays
    BY <2>13 DEF MigratedAre, InDays
  <2>21. InMinutes /\ InHours
    BY <2>8 DEF OldAre, InMinutes, InHours
  <2>22. \A r \in onTime : /\ r \in Nat /\ Charts!Minute(r) \in Nat /\ Charts!Minute(r) <= r /\ r < Charts!Minute(r) + MIN
                           /\ Charts!Hour(r) \in Nat /\ Charts!Hour(r) <= Charts!Minute(r)
                           /\ Charts!Minute(r) < end /\ Charts!Minute(r) >= pruned => Charts!Minute(r) \in DOMAIN minutes
                           /\ Charts!Hour(r) < full => Charts!Hour(r) \in DOMAIN hours
                           /\ Charts!Hour(Charts!Minute(r)) = Charts!Hour(r)
                           /\ Charts!Minute(r) < end <=> r < end
    <3> TAKE r \in onTime
    <3>1. r \in Int
      BY <2>6, AtTimes
    <3>2. Charts!Hour(Charts!Minute(r)) = Charts!Hour(r)
      BY <3>1, Bucket
    <3>3. Charts!Minute(r) < end <=> r < end
      BY <1>1, <2>9, <3>1, Before DEF Charts!Minute
    <3> QED
      BY <2>14, <3>2, <3>3, OldReading
  <2>23. RawWaits
    <3> SUFFICES ASSUME NEW r \in onTime, r >= end PROVE r \in raw
      BY <2>15 DEF RawWaits
    <3>1. r >= Charts!Least(wall - retained["raw"], end)
      BY <2>1, <2>10, <2>22 DEF Charts!Least
    <3> QED
      BY <2>1, <2>15, <3>1
  <2>24. RawIsMade
    <3> SUFFICES ASSUME NEW r \in raw, Charts!Minute(r) < end PROVE Charts!Minute(r) \in DOMAIN minutes
      BY <2>15 DEF RawIsMade
    <3>1. r \in onTime /\ r >= Charts!Least(wall - retained["raw"], end)
      BY <2>1, <2>15
    <3>2. /\ r \in Nat /\ Charts!Minute(r) \in Nat /\ r < Charts!Minute(r) + MIN /\ r < end
          /\ Charts!Minute(r) >= pruned => Charts!Minute(r) \in DOMAIN minutes
      BY <2>22, <3>1
    <3>3. r >= wall - retained["raw"]
      BY <2>1, <2>10, <3>1, <3>2 DEF Charts!Least
    <3>4. Charts!Minute(r) >= pruned
      BY <1>1, <2>1, <2>10, <2>11, <3>2, <3>3
    <3> QED
      BY <3>2, <3>4
  <2>25. MinutesWait
    <3> SUFFICES ASSUME NEW r \in onTime, Charts!Minute(r) < end,
                        Charts!Hour(r) >= full \/ until = None \/ (until # None /\ Charts!Minute(r) >= until)
                 PROVE  Charts!Minute(r) \in DOMAIN minutes
      BY <2>15 DEF MinutesWait
    <3>1. /\ Charts!Minute(r) \in Nat /\ Charts!Hour(r) \in Nat /\ Charts!Hour(r) <= Charts!Minute(r)
          /\ Charts!Minute(r) >= pruned => Charts!Minute(r) \in DOMAIN minutes
      BY <2>22
    <3>2. until = None \/ (until # None /\ Charts!Minute(r) >= until) => Charts!Minute(r) >= pruned
      BY <2>13 DEF MigratedAre
    <3>3. Charts!Hour(r) >= full => Charts!Minute(r) >= pruned
      BY <2>11, <3>1
    <3> QED
      BY <3>1, <3>2, <3>3
  <2>26. MinutesAreMade
    <3> SUFFICES ASSUME NEW m \in DOMAIN minutes, Charts!Hour(m) < full PROVE Charts!Hour(m) \in DOMAIN hours
      BY <2>15 DEF MinutesAreMade
    <3>1. PICK r \in onTime : m = Charts!Minute(r)
      BY <2>8 DEF OldAre
    <3> QED
      BY <2>22, <3>1
  <2> QED
    BY <2>16, <2>18, <2>19, <2>20, <2>21, <2>23, <2>24, <2>25, <2>26 DEF CountInv, Counted
<1> QED
  BY <1>2, <1>3 DEF Charts!Init

(* A reading stored before its minute was rolled up is counted once: in its  *)
(* minute, in its hour, and in one day however often the zone changes,       *)
(* though minutes are pruned behind both (rollup.ts:88-135, 204-222).        *)
THEOREM CountedCorrect ==
  ASSUME Charts!RollUpsAssumption, Charts!CountingAssumption PROVE Charts!Spec => []Charts!CountedOnce
<1>1. Charts!Init => CountInv
  BY InitCounts
<1>2. CountInv /\ [Charts!Next]_(Charts!vars) => CountInv'
  BY CountStep
<1>3. CountInv => Charts!CountedOnce
  <2>1. \A m : Charts!Cardinality({r \in onTime : Charts!Minute(r) = m}) = Cardinality({r \in onTime : Charts!Minute(r) = m})
    BY SameCount
  <2>2. \A h : Charts!Cardinality({r \in onTime : Charts!Hour(r) = h}) = Cardinality({r \in onTime : Charts!Hour(r) = h})
    BY SameCount
  <2>3. Charts!Cardinality({r \in onTime : r < until}) = Cardinality({r \in onTime : r < until})
    BY SameCount
  <2> QED
    BY <2>1, <2>2, <2>3 DEF CountInv, Counted, InMinutes, InHours, InDays, Charts!CountedOnce
<1> QED
  BY <1>1, <1>2, <1>3, PTL DEF Charts!Spec

=============================================================================
