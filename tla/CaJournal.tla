------------------------------ MODULE CaJournal ------------------------------
(***************************************************************************)
(* packages/tls/src/ca/journal.ts: a change of the certificate authority   *)
(* as a journalled transaction, and the recovery every command that writes *)
(* runs first.  Commands run one at a time (the interprocess lock); any of *)
(* them may be killed between two changes of the disk, recovery included.  *)
(* A command that fails with an I/O error leaves the disk as a kill would. *)
(* One file is replaced at once (writeAtomic); a folder goes piece by      *)
(* piece (removeTree).                                                     *)
(***************************************************************************)
EXTENDS Integers, FiniteSets

CONSTANTS
  CAs, NoCa,           \* the authorities there may be, and none
  BackupNames,         \* ca.old-<time>, as the time: sorted by age
  Ids,                 \* the random ids of transactions
  MaxCrashes           \* bound

JournalAssumption ==
  /\ NoCa \notin CAs /\ MaxCrashes \in Nat
  /\ BackupNames \subseteq Nat \ {0} /\ Ids \subseteq Nat \ {0} /\ Ids # {}

VARIABLES
  active,              \* the folder ca/
  backups,             \* the folders ca.old-<name>
  stages,              \* the stage folders of each transaction id
  public,              \* ca.crt, ca-meta.json, leaf.crt, leaf.pem: whose they are
  journal,             \* txn.json
  pc, txn,             \* the command: where it stands, the transaction it holds,
  changing, target,    \*   whether that is its own change and not recovery's, to which CA,
  prune,               \*   and the backups to delete after it
  crashes

disk == <<active, backups, stages, public, journal>>
command == <<pc, txn, changing, target, prune>>
vars == <<disk, command, crashes>>

PublicFiles == 1 .. 4  \* in install order, the serving bundle leaf.pem last
Steps == [staged |-> 1, validated |-> 2, active_ca_moved |-> 3, new_ca_installed |-> 4,
          leaf_installed |-> 5, committed |-> 6]
NoName == 0
NoTxn == [id |-> 0, step |-> 0, backup |-> NoName, restoreFrom |-> NoName]

(* A CA's folder, complete or with files missing; absent. *)
Absent == [ca |-> NoCa, whole |-> FALSE]
Exists(folder) == folder.ca # NoCa
Halved(folder) == [folder EXCEPT !.whole = FALSE]

NoStage == [made |-> {}, folder |-> Absent, files |-> [f \in PublicFiles |-> NoCa]]
Stage == stages[txn.id]
Write(stage) == stages' = [stages EXCEPT ![txn.id] = stage]

Names == {n \in BackupNames : Exists(backups[n])}
Fresh(c) ==
  /\ c # active.ca /\ \A n \in BackupNames : c # backups[n].ca
  /\ \A id \in Ids : c # stages[id].folder.ca

At(from, to) == pc = from /\ pc' = to
Hold == UNCHANGED <<txn, changing, target, prune, crashes>>
Finished == IF changing THEN "prune" ELSE "ready"

(***************************************************************************)
(* recover: finish or roll back what a killed command left.                *)
(***************************************************************************)
Discards(t) ==
  \/ t.step = Steps.staged
  \/ t.step = Steps.validated /\ Exists(stages[t.id].folder) /\ Exists(active)

(* Mutant: a recovery that leaves the orphans. *)
RecoverUnswept ==
  /\ pc = "idle"
  /\ txn' = journal /\ changing' = FALSE
  /\ pc' = IF journal = NoTxn THEN "ready" ELSE IF Discards(journal) THEN "discard" ELSE "move"
  /\ UNCHANGED <<disk, target, prune, crashes>>
Recover ==
  /\ pc = "idle"
  /\ txn' = journal /\ changing' = FALSE
  /\ pc' = IF journal = NoTxn THEN "sweep" ELSE IF Discards(journal) THEN "discard" ELSE "move"
  /\ UNCHANGED <<disk, target, prune, crashes>>

(* Stages without a journal are orphans. *)
Sweep(id) ==
  /\ pc = "sweep" /\ stages[id].made # {}
  /\ \/ stages[id].folder.whole /\ stages' = [stages EXCEPT ![id].folder = Halved(@)]
     \/ stages' = [stages EXCEPT ![id] = NoStage]
  /\ UNCHANGED <<active, backups, public, journal, command, crashes>>

SweepDone ==
  /\ At("sweep", "ready") /\ \A id \in Ids : stages[id].made = {}
  /\ Hold /\ UNCHANGED disk

(* discard: the journal goes first. *)
DiscardJournal ==
  /\ At("discard", "discard-ca")
  /\ journal' = NoTxn
  /\ Hold /\ UNCHANGED <<active, backups, stages, public>>

(* removeTree of a stage's two folders, the one with the key first. *)
RemoveStage(from, to) ==
  /\ \/ pc = from /\ pc' = from /\ Stage.folder.whole /\ Write([Stage EXCEPT !.folder = Halved(@)])
     \/ At(from, to) /\ Write([Stage EXCEPT !.folder = Absent, !.made = @ \ {"ca"}])
  /\ Hold /\ UNCHANGED <<active, backups, public, journal>>

RemovePublicStage(from, to) ==
  /\ At(from, to) /\ Write(NoStage)
  /\ Hold /\ UNCHANGED <<active, backups, public, journal>>

(* The mutant's order: the key before the journal. *)
DiscardCaFirst ==
  \/ RemoveStage("discard", "discard-journal")
  \/ /\ At("discard-journal", "discard-pub")
     /\ journal' = NoTxn
     /\ Hold /\ UNCHANGED <<active, backups, stages, public>>
  \/ RemovePublicStage("discard-pub", IF changing THEN "exit" ELSE "ready")
Discard ==
  \/ DiscardJournal
  \/ RemoveStage("discard-ca", "discard-pub")
  \/ RemovePublicStage("discard-pub", IF changing THEN "exit" ELSE "ready")

(***************************************************************************)
(* runTransaction: stage, validate, then complete.                         *)
(***************************************************************************)
(* The oldest backups that must go for the new one to be the second. *)
Oldest(n) == CHOOSE names \in SUBSET Names :
               /\ Cardinality(names) = n
               /\ \A a \in names, b \in Names \ names : a < b
(* Mutant: off by one. *)
OneMore == IF Exists(active) /\ Cardinality(Names) > 2 THEN Cardinality(Names) - 2 ELSE 0
Excess == IF Exists(active) /\ Cardinality(Names) > 1 THEN Cardinality(Names) - 1 ELSE 0

Begin(c, restoreFrom, pruned) ==
  /\ At("ready", "mkdir")
  /\ Exists(active) => active.whole
  /\ \E id \in Ids, backup \in BackupNames \cup {NoName} :
       /\ stages[id].made = {}
       /\ IF Exists(active) THEN backup \in BackupNames \ Names ELSE backup = NoName
       /\ txn' = [id |-> id, step |-> Steps.staged, backup |-> backup, restoreFrom |-> restoreFrom]
  /\ journal' = txn'
  /\ changing' = TRUE /\ target' = c /\ prune' = pruned
  /\ UNCHANGED <<active, backups, stages, public, crashes>>

(* init when there is no CA, new-ca otherwise. *)
NewCa(c) == Fresh(c) /\ Begin(c, NoName, Oldest(Excess))
RestoreCa(name) ==
  /\ backups[name].whole /\ backups[name].ca # active.ca
  /\ Begin(backups[name].ca, name, {})

(* Nothing to change, or refused. *)
End ==
  /\ At("ready", "exit")
  /\ Hold /\ UNCHANGED disk

StageFolders ==
  /\ At("mkdir", "stage-ca")
  /\ Write([Stage EXCEPT !.made = {"ca", "pub"}])
  /\ Hold /\ UNCHANGED <<active, backups, public, journal>>

StageCa ==
  /\ \/ At("stage-ca", "stage-ca") /\ ~Exists(Stage.folder)
        /\ Write([Stage EXCEPT !.folder = [ca |-> target, whole |-> FALSE]])
     \/ At("stage-ca", "stage-pub") /\ Exists(Stage.folder)
        /\ Write([Stage EXCEPT !.folder = [ca |-> target, whole |-> TRUE]])
  /\ Hold /\ UNCHANGED <<active, backups, public, journal>>

StagePublic(f) ==
  /\ pc = "stage-pub" /\ Stage.files[f] = NoCa
  /\ \A earlier \in 1 .. f - 1 : Stage.files[earlier] # NoCa
  /\ Write([Stage EXCEPT !.files[f] = target])
  /\ UNCHANGED <<active, backups, public, journal, command, crashes>>

Validate ==
  /\ At("stage-pub", "move")
  /\ Stage.folder.whole /\ \A f \in PublicFiles : Stage.files[f] = Stage.folder.ca
  /\ txn' = [txn EXCEPT !.step = Steps.validated] /\ journal' = txn'
  /\ UNCHANGED <<active, backups, stages, public, changing, target, prune, crashes>>

(* Making a folder, issuing or validating fails: everything staged goes. *)
StageFails ==
  /\ pc \in {"mkdir", "stage-ca", "stage-pub"} /\ pc' = "discard"
  /\ Hold /\ UNCHANGED disk

(***************************************************************************)
(* complete: finish from whatever is on disk.                              *)
(***************************************************************************)
(* Mutant: a rerun moves the CA it installed away again. *)
MovesAgain == txn.backup # NoName /\ Exists(active)
Moves == txn.backup # NoName /\ Exists(active) /\ Exists(Stage.folder)

MoveActive ==
  /\ At("move", "moved")
  /\ IF Moves
     THEN active' = Absent /\ backups' = [backups EXCEPT ![txn.backup] = active]
     ELSE UNCHANGED <<active, backups>>
  /\ Hold /\ UNCHANGED <<stages, public, journal>>

(* advance: never backwards. *)
Advance(from, step, to) ==
  /\ At(from, to)
  /\ txn' = IF step <= txn.step THEN txn ELSE [txn EXCEPT !.step = step]
  /\ journal' = txn'
  /\ UNCHANGED <<active, backups, stages, public, changing, target, prune, crashes>>

(* "both ... and a staged CA exist": the command gives up. *)
Install ==
  /\ At("install", IF Exists(Stage.folder) /\ Exists(active) THEN "exit" ELSE "installed")
  /\ IF Exists(Stage.folder) /\ ~Exists(active)
     THEN active' = Stage.folder /\ Write([Stage EXCEPT !.folder = Absent])
     ELSE UNCHANGED <<active, stages>>
  /\ Hold /\ UNCHANGED <<backups, public, journal>>

Staged == {f \in PublicFiles : Stage.files[f] # NoCa}
NextStaged == {f \in Staged : \A other \in Staged : f <= other}

Publish(f) ==
  /\ pc = "publish" /\ f \in NextStaged
  /\ public' = [public EXCEPT ![f] = Stage.files[f]]
  /\ Write([Stage EXCEPT !.files[f] = NoCa])
  /\ UNCHANGED <<active, backups, journal, command, crashes>>

RemoveRestored ==
  /\ IF txn.restoreFrom = NoName
     THEN At("remove-restored", "remove-ca") /\ UNCHANGED backups
     ELSE \/ /\ At("remove-restored", "remove-restored") /\ backups[txn.restoreFrom].whole
             /\ backups' = [backups EXCEPT ![txn.restoreFrom] = Halved(@)]
          \/ /\ At("remove-restored", "remove-ca")
             /\ backups' = [backups EXCEPT ![txn.restoreFrom] = Absent]
  /\ Hold /\ UNCHANGED <<active, stages, public, journal>>

Close ==
  /\ At("close", Finished)
  /\ journal' = NoTxn
  /\ Hold /\ UNCHANGED <<active, backups, stages, public>>

Complete ==
  \/ MoveActive \/ Install \/ RemoveRestored \/ Close
  \/ \E f \in PublicFiles : Publish(f)
  \/ Advance("moved", Steps.active_ca_moved, "install")
  \/ Advance("installed", Steps.new_ca_installed, "publish")
  \/ Advance("publish", Steps.leaf_installed, "remove-restored") /\ Staged = {}
  \/ RemoveStage("remove-ca", "remove-pub") \/ RemovePublicStage("remove-pub", "removed")
  \/ Advance("removed", Steps.committed, "close")

(* new-ca --prune-oldest: only once the new CA is in place. *)
PruneOldest(name) ==
  /\ pc = "prune" /\ name \in prune /\ Exists(backups[name])
  /\ \/ backups[name].whole /\ backups' = [backups EXCEPT ![name] = Halved(@)]
     \/ backups' = [backups EXCEPT ![name] = Absent]
  /\ UNCHANGED <<active, stages, public, journal, command, crashes>>

PruneDone ==
  /\ At("prune", "exit") /\ \A name \in prune : ~Exists(backups[name])
  /\ Hold /\ UNCHANGED disk

Gone == pc' = "idle" /\ txn' = NoTxn /\ changing' = FALSE /\ target' = NoCa /\ prune' = {}
Exit == pc = "exit" /\ Gone /\ UNCHANGED <<disk, crashes>>
Crash ==
  /\ pc \notin {"idle", "exit"} /\ crashes < MaxCrashes
  /\ crashes' = crashes + 1
  /\ Gone /\ UNCHANGED disk

Init ==
  /\ active = Absent /\ backups = [n \in BackupNames |-> Absent]
  /\ stages = [id \in Ids |-> NoStage] /\ public = [f \in PublicFiles |-> NoCa]
  /\ journal = NoTxn /\ crashes = 0
  /\ pc = "idle" /\ txn = NoTxn /\ changing = FALSE /\ target = NoCa /\ prune = {}

Change ==
  \/ \E c \in CAs : NewCa(c)
  \/ \E name \in BackupNames : RestoreCa(name)
  \/ End \/ StageFolders \/ StageCa \/ Validate \/ StageFails
  \/ \E f \in PublicFiles : StagePublic(f)
  \/ \E name \in BackupNames : PruneOldest(name)
  \/ PruneDone \/ Exit

Recovery == Recover \/ SweepDone \/ Discard \/ \E id \in Ids : Sweep(id)

Next == Recovery \/ Change \/ Complete \/ Crash
Spec == Init /\ [][Next]_vars

(* The renew timer and the sidecar run a command again and again, and one    *)
(* that is not killed goes on to its end.                                    *)
FairSpec == Spec /\ WF_vars(Recovery \/ Change \/ Complete)

(***************************************************************************)
(* Properties.                                                             *)
(***************************************************************************)
(* The CA in force, as far as the disk tells: a change is decided once the   *)
(* next recovery would finish it, and a CA with files missing is none.       *)
Decided == journal # NoTxn /\ ~Discards(journal)
Waiting == stages[journal.id].folder
InForce == IF Decided /\ Exists(Waiting) THEN Waiting ELSE active
Current == IF InForce.whole THEN InForce.ca ELSE NoCa
Kept == {backups[n].ca : n \in {name \in BackupNames : backups[name].whole}} \ {Current}

(* However often commands and their recoveries are killed, a change of the   *)
(* CA takes place at once or not at all, and no CA but a pruned one is lost  *)
(* (journal.ts:158-163).                                                     *)
Promised == INSTANCE CaChange WITH current <- Current, kept <- Kept
AtomicChange == Promised!Spec

(* With no change pending the public files are all of the CA in ca/: none is *)
(* of a CA whose key is gone (journal.ts:95-100).                            *)
PublicFollows == journal = NoTxn => \A f \in PublicFiles : public[f] = active.ca

(* While a change is being installed a public file is of the new CA only if  *)
(* those before it are: leaf.pem is never served from a CA that ca.crt does  *)
(* not show (journal.ts:51, 138-142).                                        *)
LeafLast ==
  \A f, g \in PublicFiles : f < g /\ public[g] # NoCa /\ public[g] = Current => public[f] = Current

(* No more than two backups are left between commands, and one more for each *)
(* command killed before it pruned (cli/cmd-ca.ts:92-96).                    *)
BackupsBounded == pc = "idle" => Cardinality(Names) <= 2 + crashes

(* A pending change is finished or undone, and no stage, which holds a key,  *)
(* is left behind for good: recovery never finds an active and a staged CA   *)
(* side by side, which it cannot resolve (journal.ts:133-134, 216-259).      *)
Tidied == journal = NoTxn /\ \A id \in Ids : stages[id].made = {}
TidiedAgain == []<>Tidied
=============================================================================
