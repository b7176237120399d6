----------------------------- MODULE HouseProofs -----------------------------
(***************************************************************************)
(* The rules, and the parts MCHouse sets beside them.  For any rules,      *)
(* levels, files and environments: a rule in force finds the readings it   *)
(* looks back on, and nothing done in the browser keeps the next process   *)
(* from starting.  What is shown of the others in modules of their own is  *)
(* carried over to the behaviours of MCHouse.                              *)
(***************************************************************************)
EXTENDS MCHouse, TLAPS

(***************************************************************************)
(* A saved rule runs only while it fits, so what has to be kept is that    *)
(* the rules nothing is saved over fit.                                    *)
(***************************************************************************)
Shown(rule) == env.https \/ ~rule.cert
Bare == {id \in DOMAIN Below \ DOMAIN saved : Shown(Below[id])}

SavedTyped == \A id \in DOMAIN saved : saved[id] \in Entries
BareFits == up => \A id \in Bare : Fits(Below[id])
FittingInv == SavedTyped /\ BareFits

LEMMA Fitting == ASSUME FittingInv PROVE InForceFits
<1> SUFFICES ASSUME up, NEW id \in InForce PROVE Fits(RuleOf(id))
  BY DEF InForceFits
<1>1. CASE id \in SavedRuns
  <2>1. id \in DOMAIN saved /\ ~saved[id].disabled /\ Acceptable(id, saved[id])
    BY <1>1 DEF SavedRuns, Problems
  <2>2. saved[id].rule # None
    BY <2>1, RuleSourceAssumption DEF FittingInv, SavedTyped, Entries
  <2> QED
    BY <1>1, <2>1, <2>2 DEF Acceptable, RuleOf
<1>2. CASE id \notin SavedRuns
  <2>1. id \in BelowRuns /\ Shown(Below[id]) /\ RuleOf(id) = Below[id]
    BY <1>2 DEF InForce, RuleOf, Shown
  <2> QED
    BY <2>1 DEF BelowRuns, BelowStays, FittingInv, BareFits, Bare
<1> QED
  BY <1>1, <1>2

(***************************************************************************)
(* What the file and the environment decide does not change under a        *)
(* process, and the retention only when it is saved.                       *)
(***************************************************************************)
LEMMA SameBelow == ASSUME UNCHANGED env PROVE UNCHANGED Below
BY DEF Below, BuiltIn, FileAdds

LEMMA SameRaw == ASSUME UNCHANGED <<env, stored>> PROVE UNCHANGED Raw
<1>1. Resolved(stored)' = Resolved(stored) /\ Resolved(NothingStored)' = Resolved(NothingStored)
  BY DEF Resolved, NothingStored
<1> QED
  BY <1>1 DEF Raw, Retention

(* What is stored resolves to what was proposed. *)
LEMMA SavedAsProposed ==
  ASSUME UNCHANGED env, NEW change \in [LevelNames -> Durations \cup {None}], Valid(change),
         stored' = StoredAs(Proposed(change))
  PROVE  Raw' = Proposed(change)[Levels[1]].ms /\ ~RetentionRefused'
<1> DEFINE after == Proposed(change)
<1>1. PICK keys : Retention = Resolved(keys)
  BY DEF Retention
<1>2. \A l \in LevelNames : Resolved(stored)'[l].ms = after[l].ms
  <2> SUFFICES ASSUME NEW l \in LevelNames PROVE Resolved(stored)'[l].ms = after[l].ms
    OBVIOUS
  <2>1. Retention[l] = IF env.env[l] # None THEN [ms |-> env.env[l], source |-> "env"]
          ELSE IF keys[l] # None THEN [ms |-> keys[l], source |-> "saved"]
          ELSE [ms |-> DEFAULT_RETENTION[l], source |-> "default"]
    BY <1>1 DEF Resolved
  <2>2. after[l] = IF change[l] \in {None, Retention[l].ms} THEN Retention[l]
          ELSE [ms |-> change[l], source |-> "saved"]
    BY DEF Proposed
  <2>3. stored'[l] = IF after[l].source = "saved" THEN after[l].ms ELSE None
    BY DEF StoredAs
  <2>4. Resolved(stored)'[l] = IF env.env[l] # None THEN [ms |-> env.env[l], source |-> "env"]
          ELSE IF stored'[l] # None THEN [ms |-> stored'[l], source |-> "saved"]
          ELSE [ms |-> DEFAULT_RETENTION[l], source |-> "default"]
    BY DEF Resolved
  <2>5. CASE env.env[l] # None
    BY <2>1, <2>2, <2>4, <2>5 DEF Valid
  <2>6. CASE env.env[l] = None /\ after[l].source = "saved"
    <3>1. after[l].ms # None
      BY <2>1, <2>2, <2>6
    <3> QED
      BY <2>3, <2>4, <2>6, <3>1
  <2>7. CASE env.env[l] = None /\ after[l].source # "saved"
    BY <2>1, <2>2, <2>3, <2>4, <2>7
  <2> QED
    BY <2>5, <2>6, <2>7
<1>3. InOrder(Resolved(stored))'
  <2>1. \A i \in DOMAIN Levels : Levels[i] \in LevelNames
    BY DEF LevelNames
  <2>2. \A i \in DOMAIN Levels \ {1} : i - 1 \in DOMAIN Levels
    BY RuleSourceAssumption
  <2>3. \A i \in DOMAIN Levels \ {1} : after[Levels[i - 1]].ms <= after[Levels[i]].ms
    BY DEF Valid, InOrder
  <2> QED
    BY <1>2, <2>1, <2>2, <2>3 DEF InOrder
<1>4. Retention' = Resolved(stored)'
  BY <1>3 DEF Retention
<1>5. Levels[1] \in LevelNames
  BY RuleSourceAssumption DEF LevelNames
<1> QED
  BY <1>2, <1>3, <1>4, <1>5 DEF Raw, RetentionRefused

(***************************************************************************)
(* The theorem.                                                            *)
(***************************************************************************)
LEMMA FittingStep == ASSUME FittingInv, [Next]_vars PROVE FittingInv'
<1>1. ASSUME NEW id \in Ids, Saves(id) PROVE FittingInv'
  <2>1. PICK entry \in Entries : saved' = With(id, entry)
    BY <1>1 DEF Saves
  <2>2. UNCHANGED Below /\ UNCHANGED Raw /\ UNCHANGED <<up, env>>
    BY <1>1, SameBelow, SameRaw DEF Saves
  <2>3. DOMAIN saved' = DOMAIN saved \cup {id} /\ \A i \in DOMAIN saved' : saved'[i] \in {entry, saved[i]}
    BY <2>1 DEF With
  <2>4. SavedTyped'
    <3> SUFFICES ASSUME NEW i \in DOMAIN saved' PROVE saved'[i] \in Entries
      BY DEF SavedTyped, Entries
    <3> QED
      BY <2>1 DEF With, FittingInv, SavedTyped
  <2>5. BareFits'
    BY <2>2, <2>3 DEF FittingInv, BareFits, Bare, Shown, Fits
  <2> QED
    BY <2>4, <2>5 DEF FittingInv
<1>2. ASSUME NEW id \in Ids, Removes(id) PROVE FittingInv'
  <2>1. UNCHANGED Below /\ UNCHANGED Raw /\ UNCHANGED <<up, env>>
    BY <1>2, SameBelow, SameRaw DEF Removes
  <2>2. DOMAIN saved' = DOMAIN saved \ {id} /\ \A i \in DOMAIN saved' : saved'[i] = saved[i]
    BY <1>2 DEF Removes, Restrict
  <2>3. SavedTyped'
    BY <2>2 DEF FittingInv, SavedTyped, Entries
  <2>4. id \in DOMAIN Below => Fits(Below[id])
    BY <1>2 DEF Removes, MayRemove
  <2>5. BareFits'
    BY <2>1, <2>2, <2>4 DEF FittingInv, BareFits, Bare, Shown, Fits
  <2> QED
    BY <2>3, <2>5 DEF FittingInv
<1>3. CASE SavesRetention
  <2>1. PICK change \in [LevelNames -> Durations \cup {None}] :
          Valid(change) /\ stored' = StoredAs(Proposed(change))
    BY <1>3 DEF SavesRetention
  <2>2. up /\ UNCHANGED <<up, env, saved>> /\ UNCHANGED Below
    BY <1>3, SameBelow DEF SavesRetention
  <2>3. Raw' = Proposed(change)[Levels[1]].ms
    BY <2>1, <2>2, SavedAsProposed
  <2>4. \A id \in Bare : id \in InForce /\ RuleOf(id) = Below[id]
    BY DEF Bare, InForce, BelowRuns, RuleOf, SavedRuns, Shown
  <2>5. \A id \in Bare : Below[id].for <= Raw' /\ Below[id].clearAfter <= Raw'
    BY <2>1, <2>3, <2>4 DEF Valid, LongEnough
  <2>6. Bare' = Bare
    BY <2>2 DEF Bare, Shown
  <2> QED
    BY <2>2, <2>5, <2>6 DEF FittingInv, SavedTyped, Entries, BareFits, Fits
<1>4. CASE Starts
  <2>1. UNCHANGED <<env, saved, stored>> /\ UNCHANGED Below /\ UNCHANGED Raw
    BY <1>4, SameBelow, SameRaw DEF Starts
  <2>2. \A id \in Bare : id \in BaseInForce
    BY DEF Bare, BaseInForce, InForce, BelowRuns, RuleOf, SavedRuns, Shown
  <2>3. \A id \in Bare : Fits(Below[id])
    BY <1>4, <2>2 DEF Starts, BaseRefused
  <2>4. Bare' = Bare
    BY <2>1 DEF Bare, Shown
  <2> QED
    BY <2>1, <2>3, <2>4 DEF FittingInv, SavedTyped, Entries, BareFits, Fits
<1>5. CASE Stops \/ Reconfigured
  <2>1. ~up' /\ UNCHANGED saved
    BY <1>5 DEF Stops, Reconfigured
  <2> QED
    BY <2>1 DEF FittingInv, SavedTyped, Entries, BareFits
<1>6. CASE UNCHANGED vars
  <2>1. UNCHANGED <<up, env, saved, stored>> /\ UNCHANGED Below /\ UNCHANGED Raw
    BY <1>6, SameBelow, SameRaw DEF vars
  <2> QED
    BY <2>1 DEF FittingInv, SavedTyped, Entries, BareFits, Bare, Shown, Fits
<1> QED
  BY <1>1, <1>2, <1>3, <1>4, <1>5, <1>6 DEF Next

LEMMA InitFitting == Init => FittingInv
BY DEF Init, FittingInv, SavedTyped, BareFits, NoEntries

(* Whatever is saved, disabled, removed, shortened and restarted, a rule in  *)
(* force looks back no further than raw readings are kept (source.ts:186-    *)
(* 244, settings-routes.ts:35-47).                                           *)
THEOREM InForceCorrect == Spec => []InForceFits
<1>1. Init => FittingInv
  BY InitFitting
<1>2. FittingInv /\ [Next]_vars => FittingInv'
  BY FittingStep
<1>3. FittingInv => InForceFits
  BY Fitting
<1> QED
  BY <1>1, <1>2, <1>3, PTL DEF Spec

(***************************************************************************)
(* The next process: what the last one ran with, and what of the rules and *)
(* of the retention it would find again.                                   *)
(***************************************************************************)
ResolvedIn(e, keys) == [l \in LevelNames |->
  IF e.env[l] # None THEN [ms |-> e.env[l], source |-> "env"]
  ELSE IF keys[l] # None THEN [ms |-> keys[l], source |-> "saved"]
  ELSE [ms |-> DEFAULT_RETENTION[l], source |-> "default"]]
RetentionIn(e) ==
  IF InOrder(ResolvedIn(e, stored)) THEN ResolvedIn(e, stored) ELSE ResolvedIn(e, NothingStored)
RawIn(e) == RetentionIn(e)[Levels[1]].ms

(* The rules that are there with HTTPS and without, and nothing is saved over. *)
AddedBy(e) == {id \in DOMAIN e.file : ~e.file[id].disabled}
UnderIn(e, id) == IF id \in AddedBy(e) THEN e.file[id].rule ELSE builtinRules[id]
PlainIn(e) == {id \in (DOMAIN builtinRules \ DOMAIN e.file) \cup AddedBy(e) :
                 id \notin DOMAIN saved /\ ~UnderIn(e, id).cert}

StartsWith(e) ==
  /\ InOrder(RetentionIn(e))
  /\ \A id \in PlainIn(e) : UnderIn(e, id).for <= RawIn(e) /\ UnderIn(e, id).clearAfter <= RawIn(e)

StoredTyped == \A l \in LevelNames : stored[l] = None \/ stored[l] \in Nat
RanInv ==
  /\ env \in Environments /\ StoredTyped
  /\ up => ran = env
  /\ ran # None => StartsWith(ran)

LEMMA Here == RetentionIn(env) = Retention /\ RawIn(env) = Raw
BY DEF RetentionIn, ResolvedIn, Retention, Resolved, RawIn, Raw

(* What a process runs with, it would start with again. *)
LEMMA WouldStart == FittingInv /\ up /\ ~RetentionRefused => StartsWith(env)
<1> SUFFICES ASSUME FittingInv, up, ~RetentionRefused, NEW id \in PlainIn(env)
             PROVE  UnderIn(env, id).for <= Raw /\ UnderIn(env, id).clearAfter <= Raw
  BY Here DEF StartsWith, RetentionRefused
<1>1. id \in DOMAIN Below /\ Below[id] = UnderIn(env, id)
  BY DEF Below, BuiltIn, FileAdds, PlainIn, UnderIn, AddedBy, Restrict
<1>2. id \in Bare
  BY <1>1 DEF Bare, Shown, PlainIn
<1> QED
  BY <1>1, <1>2 DEF FittingInv, BareFits, Fits

LEMMA StoredStep ==
  ASSUME RanInv, SavesRetention
  PROVE  StoredTyped'
<1>1. PICK change \in [LevelNames -> Durations \cup {None}] : stored' = StoredAs(Proposed(change))
  BY DEF SavesRetention
<1> SUFFICES ASSUME NEW l \in LevelNames, stored'[l] # None PROVE stored'[l] \in Nat
  BY DEF StoredTyped
<1>2. stored'[l] = Proposed(change)[l].ms /\ Proposed(change)[l].source = "saved"
  BY <1>1 DEF StoredAs
<1>3. CASE change[l] \notin {None, Retention[l].ms}
  BY <1>2, <1>3, RuleSourceAssumption DEF Proposed
<1>4. CASE change[l] \in {None, Retention[l].ms}
  <2>1. stored'[l] = Retention[l].ms /\ Retention[l].source = "saved"
    BY <1>2, <1>4 DEF Proposed
  <2>2. Retention[l] \in {Resolved(stored)[l], Resolved(NothingStored)[l]}
    BY DEF Retention
  <2>3. Retention[l].ms = stored[l] /\ stored[l] # None
    BY <2>1, <2>2 DEF Resolved, NothingStored
  <2> QED
    BY <2>1, <2>3 DEF RanInv, StoredTyped
<1> QED
  BY <1>3, <1>4

LEMMA RanStep == ASSUME FittingInv, RanInv, [Next]_vars PROVE RanInv'
<1>1. FittingInv'
  BY FittingStep
<1>2. ASSUME UNCHANGED <<saved, stored, ran>> PROVE StoredTyped' /\ (ran' # None => StartsWith(ran)')
  <2>1. StartsWith(ran)' = StartsWith(ran)
    BY <1>2 DEF StartsWith, RetentionIn, RawIn, ResolvedIn, InOrder, NothingStored, PlainIn, UnderIn, AddedBy
  <2> QED
    BY <1>2, <2>1 DEF RanInv, StoredTyped
<1>3. ASSUME up', ran' = env', ~RetentionRefused' PROVE StartsWith(ran)'
  <2>1. StartsWith(env)'
    BY <1>1, <1>3, WouldStart, PTL
  <2>2. StartsWith(ran)' = StartsWith(env)'
    BY <1>3 DEF StartsWith, RetentionIn, RawIn, ResolvedIn, InOrder, NothingStored, PlainIn, UnderIn, AddedBy
  <2> QED
    BY <2>1, <2>2
<1>4. ASSUME up, UNCHANGED <<env, stored>> PROVE RetentionRefused' = RetentionRefused
  BY <1>4 DEF RetentionRefused, Retention, Resolved, InOrder, NothingStored
<1>5. up => ~RetentionRefused
  BY Here, RuleSourceAssumption DEF RanInv, StartsWith, RetentionRefused
<1>6. ASSUME NEW id \in Ids, Saves(id) \/ Removes(id) PROVE RanInv'
  BY <1>3, <1>4, <1>5, <1>6 DEF Saves, Removes, RanInv, StoredTyped
<1>7. CASE SavesRetention
  <2>1. ~RetentionRefused'
    BY <1>7, SavedAsProposed DEF SavesRetention
  <2> QED
    BY <1>3, <1>7, <2>1, StoredStep DEF SavesRetention, RanInv
<1>8. CASE Starts
  <2>1. ~RetentionRefused'
    BY <1>8 DEF Starts, RetentionRefused, Retention, Resolved, InOrder, NothingStored
  <2> QED
    BY <1>3, <1>8, <2>1 DEF Starts, RanInv, StoredTyped
<1>9. CASE Stops \/ Reconfigured \/ UNCHANGED vars
  BY <1>2, <1>9 DEF Stops, Reconfigured, vars, RanInv
<1> QED
  BY <1>6, <1>7, <1>8, <1>9 DEF Next

(* No retention is less than nothing. *)
LEMMA SomeRaw == RanInv => Raw >= 0
<1> SUFFICES ASSUME RanInv PROVE Raw \in Nat
  OBVIOUS
<1>1. Levels[1] \in LevelNames /\ 1 \in DOMAIN Levels
  BY RuleSourceAssumption DEF LevelNames
<1>2. Resolved(stored)[Levels[1]].ms \in Nat /\ Resolved(NothingStored)[Levels[1]].ms \in Nat
  BY <1>1, RuleSourceAssumption DEF RanInv, StoredTyped, Resolved, NothingStored
<1> QED
  BY <1>2 DEF Raw, Retention

LEMMA Again == RanInv /\ SavedTyped => StartsAgain
<1> SUFFICES ASSUME RanInv, SameSetting PROVE ~RetentionRefused /\ ~BaseRefused
  BY DEF StartsAgain
<1>1. StartsWith(ran) /\ env.file = ran.file /\ env.env = ran.env
  BY DEF SameSetting, RanInv
<1>2. RetentionIn(ran) = Retention /\ RawIn(ran) = Raw
  BY <1>1 DEF RetentionIn, ResolvedIn, Retention, Resolved, RawIn, Raw
<1>3. ~RetentionRefused
  BY <1>1, <1>2 DEF StartsWith, RetentionRefused
<1>4. ASSUME NEW id \in BaseInForce PROVE Fits(Below[id])
  <2>1. id \in BelowRuns /\ id \in DOMAIN Below
    BY DEF BaseInForce, InForce, BelowRuns
  <2>2. CASE id \in DOMAIN saved
    BY <2>1, <2>2 DEF BelowRuns, BelowStays
  <2>3. CASE id \notin DOMAIN saved
    <3>1. Below[id] = UnderIn(ran, id) /\ id \in (DOMAIN builtinRules \ DOMAIN ran.file) \cup AddedBy(ran)
      BY <1>1, <2>1 DEF Below, BuiltIn, FileAdds, UnderIn, AddedBy, Restrict
    <3>2. CASE ~Below[id].cert
      BY <1>1, <1>2, <2>3, <3>1, <3>2 DEF PlainIn, StartsWith, Fits
    <3>3. CASE Below[id].cert
      <4>1. ASSUME id \in AddedBy(ran) PROVE Below[id].for = 0 /\ Below[id].clearAfter = 0
        <5>1. id \in {i \in DOMAIN env.file : ~env.file[i].disabled} /\ Below[id] = env.file[id].rule
          BY <1>1, <3>1, <4>1 DEF UnderIn, AddedBy
        <5>2. Below[id] \in RulesInFiles
          BY <5>1 DEF RulesInFiles, RanInv
        <5> QED
          BY <3>3, <5>2, RuleSourceAssumption
      <4>2. ASSUME id \notin AddedBy(ran) PROVE Below[id].for = 0 /\ Below[id].clearAfter = 0
        BY <3>1, <3>3, <4>2, RuleSourceAssumption DEF UnderIn
      <4>3. Below[id].for = 0 /\ Below[id].clearAfter = 0
        BY <4>1, <4>2
      <4> QED
        BY <4>3, SomeRaw DEF Fits
    <3> QED
      BY <3>2, <3>3
  <2> QED
    BY <2>2, <2>3
<1> QED
  BY <1>3, <1>4 DEF BaseRefused

(* Nothing saved, disabled, removed or shortened in the browser keeps the    *)
(* next process from starting with the same rules file and variables, be it  *)
(* a version with other metrics, or with HTTPS switched (runtime.ts:171-177, *)
(* source.ts:186-196): while a process runs each change is checked against   *)
(* the rules it leaves in force, and those HTTPS adds look back on nothing.  *)
THEOREM StartsAgainCorrect == Spec => []StartsAgain
<1>1. Init => FittingInv /\ RanInv
  BY InitFitting DEF Init, RanInv, StoredTyped, NothingStored
<1>2. FittingInv /\ RanInv /\ [Next]_vars => (FittingInv /\ RanInv)'
  BY FittingStep, RanStep
<1>3. FittingInv /\ RanInv => StartsAgain
  BY Again DEF FittingInv
<1> QED
  BY <1>1, <1>2, <1>3, PTL DEF Spec

(***************************************************************************)
(* The other parts: a behaviour of MCHouse stays with the part it began    *)
(* with.                                                                   *)
(***************************************************************************)
(* Whoever presses Check now is told of a recent look at the packages        *)
(* (updates.ts:233-247): PagesProofs shows it for any number of people and   *)
(* any limits.                                                               *)
THEOREM AnswersCorrect == HouseSpec => []AnswersAreRecent
<1>1. HouseInit /\ part = "updates" => Pages!Checking!Init
  BY DEF HouseInit
<1>2. part = "updates" /\ [HouseNext]_<<vars, part, cells>> =>
        (part = "updates")' /\ [Pages!Checking!Next]_(Pages!Checking!vars)
  BY DEF HouseNext, Is, cells, Pages!Checking!vars, Pages!Checking!timers
<1>3. ~(part = "updates") /\ [HouseNext]_<<vars, part, cells>> => ~(part = "updates")'
  BY DEF HouseNext, Is, vars, cells
<1>4. Pages!Checking!Spec => []Pages!Checking!AnswersAreRecent
  BY Pages!RecentCorrect, CheckingAssumption
<1> QED
  BY <1>1, <1>2, <1>3, <1>4, PTL DEF HouseSpec, Pages!Checking!Spec, AnswersAreRecent

(* A dashboard that has read everything shows the alerts and the rules the   *)
(* server has (live-routes.ts:80-104, app.tsx:238-256): PagesProofs shows it *)
(* for any number of alerts, sockets, sessions and accidents.                *)
THEOREM InStepCorrect == HouseSpec => []InStep
<1>1. HouseInit /\ part = "feed" => Pages!Feed!Init
  BY DEF HouseInit
<1>2. part = "feed" /\ [HouseNext]_<<vars, part, cells>> =>
        (part = "feed")' /\ [Pages!Feed!Next]_(Pages!Feed!vars)
  BY DEF HouseNext, Is, cells, Pages!Feed!vars, Pages!Feed!server, Pages!Feed!login, Pages!Feed!ends,
         Pages!Feed!client, Pages!Feed!view, Pages!Feed!asked
<1>3. ~(part = "feed") /\ [HouseNext]_<<vars, part, cells>> => ~(part = "feed")'
  BY DEF HouseNext, Is, vars, cells
<1>4. Pages!Feed!Spec => []Pages!Feed!InStep
  BY Pages!FeedCorrect, FeedAssumption
<1> QED
  BY <1>1, <1>2, <1>3, <1>4, PTL DEF HouseSpec, Pages!Feed!Spec, InStep

(* A save changes no level but those typed into, and deletes rows only if    *)
(* the box was ticked (settings-page.tsx:128-130, settings-routes.ts:        *)
(* 157-166): PagesProofs shows it for any levels and durations.              *)
THEOREM SavesWhatWasTypedCorrect == HouseSpec => []SavesWhatWasTyped
<1>1. HouseInit /\ part = "retention" => Pages!Init
  BY DEF HouseInit
<1>2. part = "retention" /\ [HouseNext]_<<vars, part, cells>> =>
        (part = "retention")' /\ [Pages!Next]_(Pages!vars)
  BY DEF HouseNext, Is, cells, Pages!vars, Pages!server, Pages!page
<1>3. ~(part = "retention") /\ [HouseNext]_<<vars, part, cells>> => ~(part = "retention")'
  BY DEF HouseNext, Is, vars, cells
<1>4. Pages!Spec => []Pages!SavesWhatWasTyped
  BY Pages!SavesCorrect
<1> QED
  BY <1>1, <1>2, <1>3, <1>4, PTL DEF HouseSpec, Pages!Spec, SavesWhatWasTyped

(* An address has no more than MAX passwords tried in a WINDOW (auth.ts:     *)
(* 218-238): PagesProofs shows it for any limit and window.                 *)
THEOREM GuessesLimitedCorrect == HouseSpec => []GuessesLimited
<1>1. HouseInit /\ part = "sign-in" => Pages!SigningIn!Init
  BY DEF HouseInit
<1>2. part = "sign-in" /\ [HouseNext]_<<vars, part, cells>> =>
        (part = "sign-in")' /\ [Pages!SigningIn!Next]_(Pages!SigningIn!vars)
  BY DEF HouseNext, Is, cells, Pages!SigningIn!vars, Pages!SigningIn!limiter, Pages!SigningIn!bounds, Pages!SigningIn!history
<1>3. ~(part = "sign-in") /\ [HouseNext]_<<vars, part, cells>> => ~(part = "sign-in")'
  BY DEF HouseNext, Is, vars, cells
<1>4. Pages!SigningIn!Spec => []Pages!SigningIn!GuessesLimited
  BY Pages!GuessesCorrect, SigningInAssumption
<1> QED
  BY <1>1, <1>2, <1>3, <1>4, PTL DEF HouseSpec, Pages!SigningIn!Spec, GuessesLimited

(* Who comes back while the session lives has the cookie for it (auth.ts:    *)
(* 145-150, 180-185): PagesProofs shows it for any lifetimes.               *)
THEOREM CookieLastsCorrect == HouseSpec => []CookieLasts
<1>1. HouseInit /\ part = "sign-in" => Pages!SigningIn!Init
  BY DEF HouseInit
<1>2. part = "sign-in" /\ [HouseNext]_<<vars, part, cells>> =>
        (part = "sign-in")' /\ [Pages!SigningIn!Next]_(Pages!SigningIn!vars)
  BY DEF HouseNext, Is, cells, Pages!SigningIn!vars, Pages!SigningIn!limiter, Pages!SigningIn!bounds, Pages!SigningIn!history
<1>3. ~(part = "sign-in") /\ [HouseNext]_<<vars, part, cells>> => ~(part = "sign-in")'
  BY DEF HouseNext, Is, vars, cells
<1>4. Pages!SigningIn!Spec => []Pages!SigningIn!CookieLasts
  BY Pages!CookieCorrect, SigningInAssumption
<1> QED
  BY <1>1, <1>2, <1>3, <1>4, PTL DEF HouseSpec, Pages!SigningIn!Spec, CookieLasts

(* What is told of a running server is of what it serves (tls-status.ts:     *)
(* 166-187, runtime-status.ts:206-213): PagesProofs shows it for any         *)
(* processes, boots and commands.                                            *)
THEOREM TellsTheTruthCorrect == HouseSpec => []TellsTheTruth
<1>1. HouseInit /\ part = "status" => Pages!Telling!Init
  BY DEF HouseInit
<1>2. part = "status" /\ [HouseNext]_<<vars, part, cells>> =>
        (part = "status")' /\ [Pages!Telling!Next]_(Pages!Telling!vars)
  BY DEF HouseNext, Is, cells, Pages!Telling!vars, Pages!Telling!machine, Pages!Telling!files,
         Pages!Telling!command, Pages!Telling!bounds
<1>3. ~(part = "status") /\ [HouseNext]_<<vars, part, cells>> => ~(part = "status")'
  BY DEF HouseNext, Is, vars, cells
<1>4. Pages!Telling!Spec => []Pages!Telling!TellsTheTruth
  BY Pages!ToldCorrect, TellingAssumption
<1> QED
  BY <1>1, <1>2, <1>3, <1>4, PTL DEF HouseSpec, Pages!Telling!Spec, TellsTheTruth

(* The tile and the sparkline come to show the last reading (store.ts:       *)
(* 14-18): PagesProofs shows it for any clock, polls, sockets and histories. *)
THEOREM ShowsThePresentCorrect == HouseSpec => []ShowsThePresent
<1>1. HouseInit /\ part = "tiles" => Pages!Tiles!Init
  BY DEF HouseInit
<1>2. part = "tiles" /\ [HouseNext]_<<vars, part, cells>> =>
        (part = "tiles")' /\ [Pages!Tiles!Next]_(Pages!Tiles!vars)
  BY DEF HouseNext, Is, cells, Pages!Tiles!vars, Pages!Tiles!pi, Pages!Tiles!state, Pages!Tiles!bounds
<1>3. ~(part = "tiles") /\ [HouseNext]_<<vars, part, cells>> => ~(part = "tiles")'
  BY DEF HouseNext, Is, vars, cells
<1>4. Pages!Tiles!Spec => []Pages!Tiles!ShowsThePresent
  BY Pages!PresentCorrect, TilesAssumption
<1> QED
  BY <1>1, <1>2, <1>3, <1>4, PTL DEF HouseSpec, Pages!Tiles!Spec, ShowsThePresent

(* A chart's level is whole as far as it is said to be (rollup.ts:305-330):  *)
(* PagesProofs shows it for any buckets, retentions, zones and clocks.       *)
THEOREM WholeSeriesCorrect == HouseSpec => []WholeSeries
<1>1. HouseInit /\ part = "counting" => Pages!Charts!Init
  BY DEF HouseInit
<1>2. part = "counting" /\ [HouseNext]_<<vars, part, cells>> =>
        (part = "counting")' /\ [Pages!Charts!Next]_(Pages!Charts!vars)
  BY DEF HouseNext, Is, cells, Pages!Charts!vars, Pages!Charts!tables, Pages!Charts!settings, Pages!Charts!clock,
     Pages!Charts!history
<1>3. ~(part = "counting") /\ [HouseNext]_<<vars, part, cells>> => ~(part = "counting")'
  BY DEF HouseNext, Is, vars, cells
<1>4. Pages!Charts!Spec => [](Pages!Charts!WholeSeries /\ Pages!Charts!LeapsDoNoHarm)
  BY Pages!SeriesCorrect, ChartsAssumption
<1> QED
  BY <1>1, <1>2, <1>3, <1>4, PTL DEF HouseSpec, Pages!Charts!Spec, WholeSeries

(* A reading is counted once in its minute, its hour and its days            *)
(* (rollup.ts:88-135, 204-222), and a clock that leapt ahead and was not     *)
(* believed does no harm (380-400): PagesProofs shows it for any such        *)
(* retentions, zones and clocks.                                             *)
THEOREM CountedOnceCorrect == HouseSpec => []CountedOnce
<1>1. HouseInit /\ part = "counting" => Pages!Charts!Init
  BY DEF HouseInit
<1>2. part = "counting" /\ [HouseNext]_<<vars, part, cells>> =>
        (part = "counting")' /\ [Pages!Charts!Next]_(Pages!Charts!vars)
  BY DEF HouseNext, Is, cells, Pages!Charts!vars, Pages!Charts!tables, Pages!Charts!settings, Pages!Charts!clock,
     Pages!Charts!history
<1>3. ~(part = "counting") /\ [HouseNext]_<<vars, part, cells>> => ~(part = "counting")'
  BY DEF HouseNext, Is, vars, cells
<1>4. Pages!Charts!Spec => [](Pages!Charts!WholeSeries /\ Pages!Charts!LeapsDoNoHarm)
  BY Pages!SeriesCorrect, ChartsAssumption
<1>5. Pages!Charts!Spec => []Pages!Charts!CountedOnce
  BY Pages!CountedCorrect, ChartsAssumption, CountsAssumption
<1> QED
  BY <1>1, <1>2, <1>3, <1>4, <1>5, PTL DEF HouseSpec, Pages!Charts!Spec, CountedOnce

=============================================================================
