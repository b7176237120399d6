----------------------------- MODULE RuleSource -----------------------------
(***************************************************************************)
(* packages/alerts/src/source.ts and rules.ts, and the retention they have *)
(* to fit (packages/storage/src/retention.ts): the rules of an             *)
(* installation are built in, from a file, or saved in the browser, later  *)
(* ones over earlier ones; the retention is a default, saved, or set by    *)
(* the environment.  File and environment change between two processes.    *)
(* A rule is how far it looks back, whether it is about the certificate,   *)
(* and its metric.                                                         *)
(***************************************************************************)
EXTENDS Integers, FiniteSets, Sequences, Functions

CONSTANTS
  None, Ids,
  builtinRules,         \* by id; those of certificates with HTTPS only
  Written,              \* the rules an operator may write
  Levels,               \* RESOLUTIONS: a sequence, the finest first
  DEFAULT_RETENTION, Durations,  \* by level; what may be set
  Environments,         \* [https, metrics, file: id -> entry, env: level -> duration]
  MAX_SAVED_RULES

RulesInFiles ==
  UNION {{e.file[id].rule : id \in {i \in DOMAIN e.file : ~e.file[i].disabled}} : e \in Environments}

ASSUME RuleSourceAssumption ==
  /\ Levels \in Seq(STRING) /\ Levels # <<>>
  /\ MAX_SAVED_RULES \in Nat /\ Durations \subseteq Nat 
  /\ None \notin Durations /\ None \notin Written /\ None \notin Environments
  /\ \A i \in DOMAIN Levels : DEFAULT_RETENTION[Levels[i]] \in Nat
  /\ \A i \in DOMAIN Levels \ {1} : DEFAULT_RETENTION[Levels[i - 1]] <= DEFAULT_RETENTION[Levels[i]]
  /\ \A e \in Environments : \A i \in DOMAIN Levels : e.env[Levels[i]] \in Nat \cup {None}
  \* A rule about the certificate looks back on nothing (rules.ts:178-196, 295-302).
  /\ \A rule \in Written \cup {builtinRules[id] : id \in DOMAIN builtinRules} \cup RulesInFiles :
       rule.cert => rule.for = 0 /\ rule.clearAfter = 0

VARIABLES
  up, env,              \* a process runs; its environment and rules file
  saved,                \* alerts.rules: entries by id
  stored,               \* retention.*: by level
  ran                   \* history: where the last process ran

vars == <<up, env, saved, stored, ran>>

LevelNames == {Levels[i] : i \in DOMAIN Levels}
Entries == {[disabled |-> d, rule |-> r] : d \in BOOLEAN, r \in Written}
           \cup {[disabled |-> TRUE, rule |-> None]}
NoEntries == [id \in {} |-> None]
NothingStored == [l \in LevelNames |-> None]

(***************************************************************************)
(* resolveRetention: saved values that the environment has put out of      *)
(* order are ignored as a whole.                                           *)
(***************************************************************************)
Resolved(keys) == [l \in LevelNames |->
  IF env.env[l] # None THEN [ms |-> env.env[l], source |-> "env"]
  ELSE IF keys[l] # None THEN [ms |-> keys[l], source |-> "saved"]
  ELSE [ms |-> DEFAULT_RETENTION[l], source |-> "default"]]
InOrder(levels) == \A i \in DOMAIN Levels \ {1} : levels[Levels[i - 1]].ms <= levels[Levels[i]].ms
Retention == IF InOrder(Resolved(stored)) THEN Resolved(stored) ELSE Resolved(NothingStored)
RetentionRefused == ~InOrder(Retention)
Raw == Retention[Levels[1]].ms

(***************************************************************************)
(* resolveRules: the built-in rules with the file's entries over them.     *)
(***************************************************************************)
BuiltIn ==
  Restrict(builtinRules, {id \in DOMAIN builtinRules : env.https \/ ~builtinRules[id].cert})
FileAdds == {id \in DOMAIN env.file : ~env.file[id].disabled}
Below == [id \in (DOMAIN BuiltIn \ DOMAIN env.file) \cup FileAdds |->
            IF id \in FileAdds THEN env.file[id].rule ELSE BuiltIn[id]]
RunsHere(rule) == rule.cert \/ rule.metric \in env.metrics
FileRefused ==
  \/ \E id \in DOMAIN env.file : env.file[id].disabled /\ id \notin DOMAIN BuiltIn
  \/ \E id \in DOMAIN Below : ~RunsHere(Below[id])

(***************************************************************************)
(* createRuleSource's check and read: which of the layers is in force.     *)
(***************************************************************************)
Fits(rule) == rule.for <= Raw /\ rule.clearAfter <= Raw
Acceptable(id, entry) ==
  IF entry.rule = None THEN id \in DOMAIN Below
  ELSE entry.disabled \/ (RunsHere(entry.rule) /\ Fits(entry.rule))

Problems == {id \in DOMAIN saved : ~Acceptable(id, saved[id])}
SavedRuns == {id \in DOMAIN saved \ Problems : ~saved[id].disabled}

(* The rule below an entry that can't run stays in force, if it fits. *)
(* Mutant: whether it fits or not. *)
AnyBelow(id) == TRUE
BelowStays(id) == Fits(Below[id])
BelowRuns == {id \in DOMAIN Below : id \notin DOMAIN saved \/ (id \in Problems /\ BelowStays(id))}

RuleOf(id) == IF id \in SavedRuns THEN saved[id].rule ELSE Below[id]
InForce == {id \in SavedRuns \cup BelowRuns : env.https \/ ~RuleOf(id).cert}

(***************************************************************************)
(* What the browser does.                                                  *)
(***************************************************************************)
With(id, entry) == [i \in DOMAIN saved \cup {id} |-> IF i = id THEN entry ELSE saved[i]]

(* create, or save: PUT of an id that is there or not. *)
Saves(id) ==
  /\ up
  /\ id \in DOMAIN saved \/ Cardinality(DOMAIN saved) < MAX_SAVED_RULES
  /\ \E entry \in Entries : Acceptable(id, entry) /\ saved' = With(id, entry)
  /\ UNCHANGED <<up, env, stored, ran>>

(* remove: the rule below comes back into force. *)
(* Mutant: without a look at it. *)
RemovesAny(id) == TRUE
MayRemove(id) == id \in DOMAIN Below => Fits(Below[id])
Removes(id) ==
  /\ up /\ id \in DOMAIN saved /\ MayRemove(id)
  /\ saved' = Restrict(saved, DOMAIN saved \ {id})
  /\ UNCHANGED <<up, env, stored, ran>>

(* validateRetention: an unchanged level keeps its source, and one set by the *)
(* environment can't change.                                                  *)
Proposed(change) == [l \in LevelNames |->
  IF change[l] \in {None, Retention[l].ms} THEN Retention[l]
  ELSE [ms |-> change[l], source |-> "saved"]]
LongEnough(levels) == \A id \in InForce :
  RuleOf(id).for <= levels[Levels[1]].ms /\ RuleOf(id).clearAfter <= levels[Levels[1]].ms
Valid(change) ==
  /\ \A l \in LevelNames : Retention[l].source = "env" => change[l] \in {None, Retention[l].ms}
  /\ InOrder(Proposed(change)) /\ LongEnough(Proposed(change))

(* saveRetention: exactly these are stored. *)
StoredAs(levels) ==
  [l \in LevelNames |-> IF levels[l].source = "saved" THEN levels[l].ms ELSE None]

SavesRetention ==
  /\ up
  /\ \E change \in [LevelNames -> Durations \cup {None}] :
       /\ Valid(change)
       /\ stored' = StoredAs(Proposed(change))
  /\ UNCHANGED <<up, env, saved, ran>>

(***************************************************************************)
(* The process: file and built-in rules in force must fit, saved ones are  *)
(* skipped.                                                                *)
(***************************************************************************)
BaseInForce == {id \in InForce : id \notin SavedRuns}
BaseRefused == \E id \in BaseInForce : ~Fits(Below[id])

Starts ==
  /\ ~up /\ ~RetentionRefused /\ ~FileRefused /\ ~BaseRefused
  /\ up' = TRUE /\ ran' = env /\ UNCHANGED <<env, saved, stored>>
Stops == up /\ up' = FALSE /\ UNCHANGED <<env, saved, stored, ran>>
Reconfigured ==
  /\ ~up /\ env' \in Environments \ {env} /\ UNCHANGED <<up, saved, stored, ran>>

Init ==
  /\ up = FALSE /\ env \in Environments /\ ran = None
  /\ saved = NoEntries /\ stored = NothingStored

Next ==
  \/ \E id \in Ids : Saves(id) \/ Removes(id)
  \/ SavesRetention \/ Starts \/ Stops \/ Reconfigured

Spec == Init /\ [][Next]_vars

(***************************************************************************)
(* Properties.                                                             *)
(***************************************************************************)
(* Whatever was saved, disabled, removed, shortened and restarted: a rule in *)
(* force finds the readings it looks back on (source.ts:186-204, 228-244;    *)
(* settings-routes.ts:37-47).                                                *)
InForceFits == up => \A id \in InForce : Fits(RuleOf(id))

(* Nothing done in the browser keeps the next process from starting with the *)
(* same rules file and variables, be it a version with other metrics, or with *)
(* HTTPS switched (runtime.ts:171-177, source.ts:186-196).                    *)
SameSetting == ran # None /\ (ran # None => env.file = ran.file /\ env.env = ran.env)
StartsAgain == SameSetting => ~RetentionRefused /\ ~BaseRefused
=============================================================================
