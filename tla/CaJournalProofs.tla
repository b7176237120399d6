--------------------------- MODULE CaJournalProofs ---------------------------
(***************************************************************************)
(* The CA's journal for any authorities, names of backups, transaction ids *)
(* and number of crashes: a change of the CA takes place at once or not at *)
(* all, the public files follow the CA, and backups do not pile up.        *)
(***************************************************************************)
EXTENDS CaJournal, FiniteSetTheorems, WellFoundedInduction, TLAPS

(***************************************************************************)
(* Types.                                                                  *)
(***************************************************************************)
Folders == {Absent} \cup [ca : CAs, whole : BOOLEAN]
Owners == CAs \cup {NoCa}
Names0 == BackupNames \cup {NoName}
Txns == [id : Ids, step : 1 .. 6, backup : Names0, restoreFrom : Names0]
Stages == [made : SUBSET {"ca", "pub"}, folder : Folders, files : [PublicFiles -> Owners]]

Staging == {"mkdir", "stage-ca", "stage-pub"}
Discarding == {"discard-ca", "discard-pub"}
Completing == {"move", "moved", "install", "installed", "publish", "remove-restored",
               "remove-ca", "remove-pub", "removed", "close"}
Resting == {"idle", "sweep", "ready", "prune", "exit"}

Typed ==
  /\ active \in Folders /\ (Exists(active) => active.whole)
  /\ backups \in [BackupNames -> Folders] /\ stages \in [Ids -> Stages]
  /\ public \in [PublicFiles -> Owners]
  /\ journal \in Txns \cup {NoTxn} /\ txn \in Txns \cup {NoTxn}
  /\ pc \in Resting \cup Staging \cup {"discard"} \cup Discarding \cup Completing
  /\ changing \in BOOLEAN /\ target \in Owners /\ prune \in SUBSET BackupNames /\ crashes \in Nat

(* A folder of a stage that is not made holds nothing. *)
StageSound(s) ==
  /\ "ca" \notin s.made => s.folder = Absent
  /\ "pub" \notin s.made => \A f \in PublicFiles : s.files[f] = NoCa
StagesSound == \A id \in Ids : StageSound(stages[id])

(***************************************************************************)
(* The disk, by the step the journal is at: what a recovery will find.     *)
(***************************************************************************)
PublicOf(c) == \A f \in PublicFiles : public[f] = c
WaitingOf(c) == \A f \in PublicFiles : stages[journal.id].files[f] = c
New == IF Exists(Waiting) THEN Waiting ELSE active
OldCa == IF journal.backup # NoName THEN backups[journal.backup].ca ELSE NoCa

(* The backup is not there yet, and is needed if there is a CA to move.    *)
Unmoved ==
  /\ PublicOf(active.ca)
  /\ IF Exists(active) THEN journal.backup # NoName /\ ~Exists(backups[journal.backup])
     ELSE journal.backup = NoName
Moved ==
  /\ PublicOf(OldCa) /\ OldCa # New.ca
  /\ journal.backup # NoName => Exists(backups[journal.backup])

Validated ==
  /\ Waiting.whole /\ Exists(Waiting) /\ WaitingOf(Waiting.ca)
  /\ Exists(active) => Unmoved /\ active.ca # Waiting.ca
  /\ ~Exists(active) => Moved
ActiveMoved ==
  /\ Moved /\ New.whole /\ Exists(New) /\ WaitingOf(New.ca)
  /\ Exists(Waiting) => ~Exists(active)
NewInstalled ==
  /\ ~Exists(Waiting) /\ Exists(active) /\ OldCa # active.ca
  /\ \A f \in PublicFiles :
       LET file == stages[journal.id].files[f]
       IN IF file = NoCa THEN public[f] = active.ca ELSE file = active.ca /\ public[f] = OldCa
  /\ \A f, g \in PublicFiles :
       f < g /\ stages[journal.id].files[f] # NoCa => stages[journal.id].files[g] # NoCa
LeafInstalled ==
  /\ ~Exists(Waiting) /\ Exists(active) /\ PublicOf(active.ca) /\ WaitingOf(NoCa)

(* What is put back is the new CA, or gone already. *)
PutBack == journal.restoreFrom # NoName =>
  /\ journal.restoreFrom # journal.backup
  /\ journal.step > Steps.staged => backups[journal.restoreFrom].ca \in {New.ca, NoCa}

Disk ==
  /\ journal = NoTxn => PublicOf(active.ca)
  /\ journal # NoTxn =>
       /\ PutBack
       /\ journal.step = Steps.staged => Unmoved
       /\ journal.step = Steps.validated => Validated
       /\ journal.step = Steps.active_ca_moved => ActiveMoved
       /\ journal.step = Steps.new_ca_installed => NewInstalled
       /\ journal.step \in {Steps.leaf_installed, Steps.committed} => LeafInstalled

(***************************************************************************)
(* The command: how far the journal is where it stands.                    *)
(***************************************************************************)
Staged1 ==
  /\ txn.step = Steps.staged /\ changing /\ target \in CAs /\ target # active.ca
  /\ txn.restoreFrom # NoName => backups[txn.restoreFrom].ca = target
  /\ Stage.folder.ca \in {NoCa, target}
  /\ pc # "mkdir" => Stage.made = {"ca", "pub"}

Command ==
  /\ pc \in Resting \cup Discarding => journal = NoTxn \/ pc = "idle"
  /\ pc \in Discarding => txn # NoTxn
  /\ pc \in Staging \cup {"discard"} \cup Completing => journal = txn /\ txn # NoTxn
  /\ pc \in Staging => Staged1
  /\ pc = "discard" => Discards(txn)
  /\ pc \in Completing => txn.step > Steps.staged
  /\ pc = "moved" => txn.step > Steps.validated \/ ~Exists(active)
  /\ pc \in Completing \ {"move", "moved"} => txn.step > Steps.validated
  /\ pc = "installed" => ~Exists(Stage.folder)
  /\ pc \in Completing \ {"move", "moved", "install", "installed"} => txn.step > Steps.active_ca_moved
  /\ pc \in {"remove-restored", "remove-ca", "remove-pub", "removed", "close"} => txn.step > Steps.new_ca_installed

JournalInv == Typed /\ StagesSound /\ Disk /\ Command

(***************************************************************************)
(* Backups.                                                                *)
(***************************************************************************)
(* What this command removes before it ends. *)
Doomed == prune \cup ({txn.restoreFrom} \ {NoName})
Adds == pc \in Staging \cup {"move"} /\ txn.backup # NoName /\ ~Exists(backups[txn.backup])
AfterMove == changing /\ pc \in (Completing \ {"move"}) \cup {"prune"}

(* A change that will still add a backup when it is completed. *)
Pending ==
  /\ journal # NoTxn /\ journal.backup # NoName
  /\ ~Exists(backups[journal.backup])

Counted ==
  /\ IsFiniteSet(Names)
  /\ Cardinality(Names) <= 3 + crashes
  /\ ~AfterMove => Cardinality(Names) <= 2 + crashes
  /\ changing /\ pc \in Staging \cup Completing \cup {"prune"} =>
       Cardinality(Names \ Doomed) <= (IF Adds THEN 1 ELSE 2) + crashes
  /\ changing /\ pc \in Staging \cup Completing => txn.backup \notin Doomed
  /\ pc \in {"remove-ca", "remove-pub", "removed", "close"} \/ (changing /\ pc = "prune")
       => (txn.restoreFrom # NoName => ~Exists(backups[txn.restoreFrom]))
  /\ Pending => journal.step <= Steps.validated
  /\ Pending /\ (pc = "idle" \/ ~changing) => Cardinality(Names) <= 1 + crashes

(***************************************************************************)
(* Facts the steps share.                                                  *)
(***************************************************************************)
LEMMA StepNumbers ==
  /\ Steps.staged = 1 /\ Steps.validated = 2 /\ Steps.active_ca_moved = 3
  /\ Steps.new_ca_installed = 4 /\ Steps.leaf_installed = 5 /\ Steps.committed = 6
  BY DEF Steps

LEMMA TxnFacts ==
  ASSUME JournalAssumption, NEW t \in Txns \cup {NoTxn}, t # NoTxn
  PROVE  t \in Txns /\ t.id \in Ids /\ t.step \in 1 .. 6 /\ t.backup \in Names0 /\ t.restoreFrom \in Names0
  BY DEF Txns

LEMMA OnlyAbsent == ASSUME NEW g \in [ca : {NoCa}, whole : {FALSE}] PROVE g = Absent
  BY DEF Absent

LEMMA FolderFacts ==
  ASSUME JournalAssumption, NEW f \in Folders
  PROVE  /\ f.ca \in Owners /\ f.whole \in BOOLEAN
         /\ Exists(f) => f.ca \in CAs /\ f \in [ca : CAs, whole : BOOLEAN]
         /\ ~Exists(f) => f = Absent
         /\ f.whole => Exists(f)
         /\ Halved(f) \in Folders /\ Halved(f).ca = f.ca /\ ~Halved(f).whole
<1>1. CASE f = Absent
  <2>1. f.ca = NoCa /\ f.whole = FALSE
    BY <1>1 DEF Absent
  <2>2. Halved(Absent) = Absent
    <3>1. Absent \in [ca : {NoCa}, whole : {FALSE}]
      BY DEF Absent
    <3>2. Halved(Absent) \in [ca : {NoCa}, whole : {FALSE}]
      BY <3>1 DEF Halved
    <3> QED
      BY <3>2, OnlyAbsent
  <2> QED
    BY <1>1, <2>1, <2>2 DEF Owners, Exists
<1>2. CASE f \in [ca : CAs, whole : BOOLEAN]
  <2>1. f.ca \in CAs /\ f.whole \in BOOLEAN /\ f.ca # NoCa
    BY <1>2 DEF JournalAssumption
  <2>2. Halved(f) \in [ca : CAs, whole : BOOLEAN] /\ Halved(f).ca = f.ca /\ ~Halved(f).whole
    BY <1>2 DEF Halved
  <2> QED
    BY <1>2, <2>1, <2>2 DEF Owners, Exists, Folders
<1> QED
  BY <1>1, <1>2 DEF Folders

LEMMA AbsentFacts == Absent.ca = NoCa /\ ~Absent.whole /\ Absent \in Folders /\ ~Exists(Absent)
  BY DEF Absent, Folders, Exists

LEMMA NoStageFacts ==
  /\ NoStage \in Stages /\ StageSound(NoStage) /\ NoStage.folder = Absent /\ NoStage.made = {}
  /\ \A f \in PublicFiles : NoStage.files[f] = NoCa
  BY DEF NoStage, Stages, StageSound, Folders, Owners

(* A stage is written in one place. *)
LEMMA Wrote ==
  ASSUME JournalAssumption, Typed, StagesSound, txn # NoTxn, NEW s \in Stages, StageSound(s), Write(s)
  PROVE  /\ stages' \in [Ids -> Stages] /\ StagesSound'
         /\ stages'[txn.id] = s
         /\ \A id \in Ids : id # txn.id => stages'[id] = stages[id]
<1>1. txn.id \in Ids
  BY TxnFacts DEF Typed
<1>2. stages' = [stages EXCEPT ![txn.id] = s] /\ stages \in [Ids -> Stages]
  BY DEF Write, Typed
<1>3. stages' \in [Ids -> Stages] /\ stages'[txn.id] = s
        /\ \A id \in Ids : id # txn.id => stages'[id] = stages[id]
  BY <1>1, <1>2
<1> QED
  BY <1>3 DEF StagesSound

(* What is on the disk decides what holds of it. *)
LEMMA DiskStays == ASSUME JournalInv, UNCHANGED disk PROVE Disk' /\ StagesSound'
<1>1. StagesSound'
  BY DEF JournalInv, disk, StagesSound
<1>2. Disk'
  BY DEF JournalInv, disk, Disk, PutBack, Unmoved, Validated, ActiveMoved, NewInstalled, LeafInstalled,
     Moved, New, OldCa, PublicOf, WaitingOf, Waiting
<1> QED
  BY <1>1, <1>2

LEMMA InitJournal == ASSUME JournalAssumption, Init PROVE JournalInv
<1>1. Typed
  BY AbsentFacts, NoStageFacts DEF Init, Typed, JournalAssumption, Owners, Resting
<1>2. StagesSound
  BY NoStageFacts DEF Init, StagesSound
<1>3. Disk
  BY AbsentFacts DEF Init, Disk, PublicOf
<1>4. Command
  BY DEF Init, Command, Resting, Discarding, Staging, Completing
<1> QED
  BY <1>1, <1>2, <1>3, <1>4 DEF JournalInv

(***************************************************************************)
(* Steps that leave the disk as it is.                                     *)
(***************************************************************************)
LEMMA RecoverStep == ASSUME JournalAssumption, JournalInv, Recover PROVE JournalInv'
<1> USE DEF JournalInv
<1>1. Disk' /\ StagesSound'
  BY DiskStays DEF Recover
<1>2. Typed'
  BY DEF Recover, Typed, disk, Resting, Completing
<1>3. ASSUME journal # NoTxn, ~Discards(journal) PROVE journal.step > Steps.staged
  BY <1>3, StepNumbers, TxnFacts DEF Discards, Typed
<1>4. Command'
  BY <1>3 DEF Recover, Command, disk, Resting, Discarding, Staging, Completing, Discards
<1> QED
  BY <1>1, <1>2, <1>4

LEMMA RestStep ==
  ASSUME JournalAssumption, JournalInv, SweepDone \/ End \/ PruneDone \/ Exit \/ Crash \/ StageFails
  PROVE  JournalInv'
<1> USE DEF JournalInv
<1>1. UNCHANGED disk
  BY DEF SweepDone, End, PruneDone, Exit, Crash, StageFails
<1>2. Disk' /\ StagesSound'
  BY <1>1, DiskStays
<1>3. CASE SweepDone \/ End \/ PruneDone
  <2>1. Typed'
    BY <1>1, <1>3 DEF SweepDone, End, PruneDone, At, Hold, Typed, disk, Resting
  <2>2. Command'
    BY <1>1, <1>3 DEF SweepDone, End, PruneDone, At, Hold, Command, disk, Resting, Discarding, Staging,
       Completing
  <2> QED
    BY <1>2, <2>1, <2>2
<1>4. CASE Exit \/ Crash
  <2>1. crashes' \in Nat
    BY <1>4 DEF Exit, Crash, Typed
  <2>2. Gone
    BY <1>4 DEF Exit, Crash
  <2>3. Typed'
    BY <1>1, <2>1, <2>2 DEF Gone, Typed, disk, Resting, Owners
  <2>4. Command'
    BY <1>1, <2>2 DEF Gone, Command, disk, Resting, Discarding, Staging, Completing
  <2> QED
    BY <1>2, <2>3, <2>4
<1>5. CASE StageFails
  <2>1. Typed'
    BY <1>1, <1>5 DEF StageFails, Hold, Typed, disk
  <2>2. journal = txn /\ txn # NoTxn /\ txn.step = Steps.staged /\ UNCHANGED <<txn, journal>> /\ pc' = "discard"
    BY <1>1, <1>5 DEF StageFails, Hold, Command, Staged1, Staging, disk
  <2>3. Discards(txn)'
    BY <2>2 DEF Discards
  <2>4. Command'
    BY <2>2, <2>3 DEF Command, Resting, Discarding, Staging, Completing
  <2> QED
    BY <1>2, <2>1, <2>4
<1> QED
  BY <1>3, <1>4, <1>5

(***************************************************************************)
(* Steps on stages.                                                        *)
(***************************************************************************)
LEMMA WithFolder ==
  ASSUME JournalAssumption, NEW s \in Stages, StageSound(s), NEW f \in Folders, Exists(f) => "ca" \in s.made,
         NEW made \in {s.made, s.made \ {"ca"}}, Exists(f) => made = s.made
  PROVE  LET t == [s EXCEPT !.folder = f, !.made = made]
         IN /\ t \in Stages /\ StageSound(t)
            /\ t.folder = f /\ t.made = made /\ t.files = s.files
<1> DEFINE t == [s EXCEPT !.folder = f, !.made = made]
<1>1. t \in Stages /\ t.folder = f /\ t.made = made /\ t.files = s.files
  BY DEF Stages
<1> HIDE DEF t
<1>2. ~Exists(f) => f = Absent
  BY FolderFacts
<1>3. StageSound(t)
  BY <1>1, <1>2 DEF StageSound
<1> QED
  BY <1>1, <1>3 DEF t

(* A folder that goes piece by piece is there less. *)
LEMMA HalvedStage ==
  ASSUME JournalAssumption, NEW s \in Stages, StageSound(s), s.folder.whole
  PROVE  LET t == [s EXCEPT !.folder = Halved(s.folder)]
         IN /\ t \in Stages /\ StageSound(t) /\ t.folder = Halved(s.folder) /\ t.made = s.made
            /\ t.files = s.files
<1> DEFINE t == [s EXCEPT !.folder = Halved(s.folder)]
<1>1. s.folder \in Folders /\ Halved(s.folder) \in Folders /\ Exists(s.folder)
  BY FolderFacts DEF Stages
<1>2. t \in Stages /\ t.folder = Halved(s.folder) /\ t.made = s.made /\ t.files = s.files
  BY <1>1 DEF Stages
<1>3. s.folder # Absent
  BY <1>1 DEF Exists, Absent
<1> QED
  BY <1>2, <1>3 DEF StageSound

(* With no change pending, only the public files and the CA matter. *)
LEMMA NothingPending ==
  ASSUME Disk, journal' = NoTxn, journal = NoTxn, UNCHANGED <<active, public>>
  PROVE  Disk'
  BY DEF Disk, PublicOf

(* Nor does a stage, until it is validated. *)
LEMMA StillStaged ==
  ASSUME Disk, journal # NoTxn, journal.step = Steps.staged, UNCHANGED <<active, backups, public, journal>>
  PROVE  Disk'
<1>1. Unmoved' /\ PutBack'
  BY StepNumbers DEF Disk, PutBack, Unmoved, PublicOf
<1> QED
  BY <1>1, StepNumbers DEF Disk

LEMMA SweepStep ==
  ASSUME JournalAssumption, JournalInv, NEW id \in Ids, Sweep(id)
  PROVE  JournalInv'
<1> USE DEF JournalInv
<1>1. journal = NoTxn /\ pc = "sweep" /\ UNCHANGED <<active, backups, public, journal, command, crashes>>
  BY DEF Sweep, Command, Resting
<1>2. Disk'
  BY <1>1, NothingPending
<1>3. stages' \in [Ids -> Stages] /\ StagesSound'
  <2>1. stages[id] \in Stages /\ StageSound(stages[id])
    BY DEF Typed, StagesSound
  <2>2. CASE stages' = [stages EXCEPT ![id] = NoStage]
    BY <2>2, NoStageFacts DEF Typed, StagesSound
  <2>3. CASE stages[id].folder.whole /\ stages' = [stages EXCEPT ![id].folder = Halved(@)]
    <3> DEFINE t == [stages[id] EXCEPT !.folder = Halved(stages[id].folder)]
    <3>1. t \in Stages /\ StageSound(t)
      BY <2>1, <2>3, HalvedStage
    <3>2. stages' = [stages EXCEPT ![id] = t]
      BY <2>3
    <3> HIDE DEF t
    <3> QED
      BY <3>1, <3>2 DEF Typed, StagesSound
  <2> QED
    BY <2>2, <2>3 DEF Sweep
<1>4. Typed'
  BY <1>1, <1>3 DEF Typed, command
<1>5. Command'
  BY <1>1 DEF Command, command, Resting, Discarding, Staging, Completing
<1> QED
  BY <1>2, <1>3, <1>4, <1>5

LEMMA DiscardJournalStep == ASSUME JournalAssumption, JournalInv, DiscardJournal PROVE JournalInv'
<1> USE DEF JournalInv
<1>1. /\ pc = "discard" /\ pc' = "discard-ca" /\ journal = txn /\ txn # NoTxn /\ Discards(txn)
      /\ journal' = NoTxn /\ UNCHANGED <<active, backups, stages, public, txn, changing, target, prune, crashes>>
  BY DEF DiscardJournal, At, Hold, Command
<1>2. PublicOf(active.ca)
  BY <1>1, StepNumbers DEF Discards, Disk, Unmoved, Validated
<1>3. Disk' /\ StagesSound'
  BY <1>1, <1>2 DEF Disk, PublicOf, StagesSound
<1>4. Typed'
  BY <1>1 DEF Typed, Discarding
<1>5. Command'
  BY <1>1 DEF Command, Resting, Discarding, Staging, Completing
<1> QED
  BY <1>3, <1>4, <1>5

(* Once the leaf is installed the stage holds nothing that counts. *)
LEMMA StageGoes ==
  ASSUME JournalAssumption, JournalInv, txn # NoTxn, UNCHANGED <<active, backups, public, journal>>,
         \/ journal = NoTxn
         \/ journal = txn /\ txn.step > Steps.new_ca_installed,
         NEW s \in Stages, Write(s), Exists(s.folder) => Exists(Stage.folder),
         \A f \in PublicFiles : s.files[f] \in {Stage.files[f], NoCa}
  PROVE  Disk'
<1> USE DEF JournalInv
<1>1. CASE journal = NoTxn
  BY <1>1, NothingPending
<1>2. CASE journal = txn /\ txn.step > Steps.new_ca_installed
  <2>1. txn.step \in {5, 6} /\ txn.id \in Ids
    BY <1>2, StepNumbers, TxnFacts DEF Typed
  <2>2. stages'[txn.id] = s
    BY <2>1 DEF Write, Typed
  <2>3. LeafInstalled /\ PutBack
    BY <1>2, <2>1, StepNumbers DEF Disk
  <2>4. ~Exists(Waiting') /\ Waiting' = s.folder
    BY <1>2, <2>2, <2>3 DEF LeafInstalled, Waiting, Stage
  <2>5. LeafInstalled'
    BY <1>2, <2>2, <2>3, <2>4 DEF LeafInstalled, PublicOf, WaitingOf, Stage
  <2>6. New' = New
    BY <2>3, <2>4 DEF New, LeafInstalled
  <2>7. PutBack'
    BY <1>2, <2>1, <2>3, <2>6 DEF PutBack
  <2> QED
    BY <1>2, <2>1, <2>5, <2>7, StepNumbers DEF Disk
<1> QED
  BY <1>1, <1>2

LEMMA RemoveStageStep ==
  ASSUME JournalAssumption, JournalInv,
         RemoveStage("discard-ca", "discard-pub") \/ RemoveStage("remove-ca", "remove-pub")
  PROVE  JournalInv'
<1> USE DEF JournalInv
<1>1. /\ txn # NoTxn /\ UNCHANGED <<active, backups, public, journal, txn, changing, target, prune, crashes>>
      /\ \/ journal = NoTxn
         \/ journal = txn /\ txn.step > Steps.new_ca_installed
  BY DEF RemoveStage, At, Hold, Command, Discarding, Completing
<1>2. Stage \in Stages /\ StageSound(Stage)
  BY <1>1, TxnFacts DEF Typed, StagesSound, Stage
<1>3. PICK s \in Stages : /\ StageSound(s) /\ Write(s) /\ s.files = Stage.files
                          /\ Exists(s.folder) => Exists(Stage.folder)
  <2>1. CASE Stage.folder.whole /\ Write([Stage EXCEPT !.folder = Halved(@)])
    <3>1. Write([Stage EXCEPT !.folder = Halved(Stage.folder)])
      BY <2>1
    <3>2. Stage.folder \in Folders
      BY <1>2 DEF Stages
    <3> QED
      BY <1>2, <2>1, <3>1, <3>2, HalvedStage, FolderFacts DEF Exists
  <2>2. CASE Write([Stage EXCEPT !.folder = Absent, !.made = @ \ {"ca"}])
    <3> DEFINE t == [Stage EXCEPT !.folder = Absent, !.made = Stage.made \ {"ca"}]
    <3>1. Write(t)
      BY <2>2
    <3>2. t \in Stages /\ StageSound(t) /\ t.folder = Absent /\ t.files = Stage.files
      BY <1>2, WithFolder, AbsentFacts
    <3> QED
      BY <3>1, <3>2, AbsentFacts
  <2> QED
    BY <2>1, <2>2 DEF RemoveStage
<1>4. stages' \in [Ids -> Stages] /\ StagesSound'
  BY <1>1, <1>3, Wrote
<1>5. Disk'
  BY <1>1, <1>3, StageGoes
<1>6. Typed'
  BY <1>1, <1>4 DEF RemoveStage, At, Typed, Discarding, Completing
<1>7. Command'
  BY <1>1 DEF RemoveStage, At, Command, Resting, Discarding, Staging, Completing
<1> QED
  BY <1>4, <1>5, <1>6, <1>7

LEMMA RemovePublicStageStep ==
  ASSUME JournalAssumption, JournalInv,
         \/ RemovePublicStage("discard-pub", IF changing THEN "exit" ELSE "ready")
         \/ RemovePublicStage("remove-pub", "removed")
  PROVE  JournalInv'
<1> USE DEF JournalInv
<1>1. /\ txn # NoTxn /\ UNCHANGED <<active, backups, public, journal, txn, changing, target, prune, crashes>>
      /\ Write(NoStage)
      /\ \/ journal = NoTxn
         \/ journal = txn /\ txn.step > Steps.new_ca_installed
  BY DEF RemovePublicStage, At, Hold, Command, Discarding, Completing
<1>2. stages' \in [Ids -> Stages] /\ StagesSound'
  BY <1>1, NoStageFacts, Wrote
<1>3. Disk'
  BY <1>1, NoStageFacts, AbsentFacts, StageGoes
<1>4. Typed'
  BY <1>1, <1>2 DEF RemovePublicStage, At, Typed, Resting, Completing
<1>5. Command'
  BY <1>1 DEF RemovePublicStage, At, Command, Resting, Discarding, Staging, Completing
<1> QED
  BY <1>2, <1>3, <1>4, <1>5

(***************************************************************************)
(* Staging.                                                                *)
(***************************************************************************)
LEMMA BeginStep ==
  ASSUME JournalAssumption, JournalInv, NEW c \in CAs, c # active.ca,
         NEW r \in Names0, r # NoName => r \in Names /\ backups[r].ca = c, NEW pruned \in SUBSET BackupNames,
         Begin(c, r, pruned)
  PROVE  JournalInv'
<1> USE DEF JournalInv
<1>1. /\ pc = "ready" /\ pc' = "mkdir" /\ journal = NoTxn /\ journal' = txn'
      /\ changing' = TRUE /\ target' = c /\ prune' = pruned
      /\ UNCHANGED <<active, backups, stages, public, crashes>>
  BY DEF Begin, At, Command, Resting
<1>2. PICK id \in Ids, backup \in Names0 :
        /\ stages[id].made = {}
        /\ IF Exists(active) THEN backup \in BackupNames \ Names ELSE backup = NoName
        /\ txn' = [id |-> id, step |-> Steps.staged, backup |-> backup, restoreFrom |-> r]
  BY DEF Begin, Names0
<1>3. /\ txn' \in Txns /\ txn' # NoTxn /\ txn'.id = id /\ txn'.step = Steps.staged
      /\ txn'.backup = backup /\ txn'.restoreFrom = r
  <2>1. id # 0
    BY DEF JournalAssumption
  <2> QED
    BY <1>2, <2>1, StepNumbers DEF Txns, NoTxn
<1>4. stages[id].folder = Absent /\ StagesSound'
  BY <1>1, <1>2 DEF StagesSound, StageSound
<1>5. Unmoved'
  <2>1. PublicOf(active.ca)
    BY <1>1 DEF Disk
  <2>2. backup \in BackupNames \ Names => backup # NoName /\ ~Exists(backups[backup])
    BY DEF JournalAssumption, Names, NoName
  <2> QED
    BY <1>1, <1>2, <1>3, <2>1, <2>2 DEF Unmoved, PublicOf
<1>6. PutBack'
  BY <1>1, <1>2, <1>3, StepNumbers DEF PutBack, NoName
<1>7. Disk'
  BY <1>1, <1>3, <1>5, <1>6, StepNumbers DEF Disk
<1>8. Typed'
  BY <1>1, <1>3 DEF Typed, Staging, Owners
<1>9. Staged1'
  <2>1. Stage'.folder = Absent
    BY <1>1, <1>3, <1>4 DEF Stage
  <2>2. r # NoName => backups'[r].ca = c
    BY <1>1
  <2> QED
    BY <1>1, <1>3, <2>1, <2>2, AbsentFacts DEF Staged1
<1>10. Command'
  BY <1>1, <1>3, <1>9 DEF Command, Resting, Discarding, Staging, Completing
<1> QED
  BY <1>4, <1>7, <1>8, <1>10

(* A step of staging that changes the stage alone. *)
LEMMA StagingStep ==
  ASSUME JournalAssumption, JournalInv, pc \in Staging, pc' \in {"stage-ca", "stage-pub"},
         UNCHANGED <<active, backups, public, journal, txn, changing, target, prune, crashes>>,
         NEW s \in Stages, s.made = {"ca", "pub"}, s.folder.ca \in {NoCa, target}, Write(s)
  PROVE  JournalInv'
<1> USE DEF JournalInv
<1>1. journal = txn /\ txn # NoTxn /\ Staged1
  BY DEF Command
<1>s. StageSound(s)
  BY DEF StageSound
<1>2. stages' \in [Ids -> Stages] /\ StagesSound' /\ stages'[txn.id] = s
  BY <1>1, <1>s, Wrote
<1>3. Disk'
  BY <1>1, StillStaged DEF Staged1
<1>4. Typed'
  BY <1>2 DEF Typed, Staging
<1>5. Staged1'
  <2>1. Stage' = s
    BY <1>2 DEF Stage
  <2> QED
    BY <1>1, <2>1 DEF Staged1
<1>6. Command'
  BY <1>1, <1>5 DEF Command, Resting, Discarding, Staging, Completing
<1> QED
  BY <1>2, <1>3, <1>4, <1>6

LEMMA StageTyped ==
  ASSUME JournalAssumption, JournalInv, txn # NoTxn PROVE Stage \in Stages /\ StageSound(Stage)
  BY TxnFacts DEF JournalInv, Typed, StagesSound, Stage

LEMMA StageFoldersStep == ASSUME JournalAssumption, JournalInv, StageFolders PROVE JournalInv'
<1>1. /\ pc = "mkdir" /\ pc' = "stage-ca" /\ Write([Stage EXCEPT !.made = {"ca", "pub"}])
      /\ UNCHANGED <<active, backups, public, journal, txn, changing, target, prune, crashes>>
  BY DEF StageFolders, At, Hold
<1>2. txn # NoTxn /\ Stage.folder.ca \in {NoCa, target}
  BY <1>1 DEF JournalInv, Command, Staging, Staged1
<1> DEFINE s == [Stage EXCEPT !.made = {"ca", "pub"}]
<1>3. s \in Stages /\ s.made = {"ca", "pub"} /\ s.folder = Stage.folder
  BY <1>2, StageTyped DEF Stages
<1> HIDE DEF s
<1> QED
  BY <1>1, <1>2, <1>3, StagingStep DEF Staging, s

LEMMA StageCaStep == ASSUME JournalAssumption, JournalInv, StageCa PROVE JournalInv'
<1>1. PICK whole \in BOOLEAN :
      /\ pc = "stage-ca" /\ pc' \in {"stage-ca", "stage-pub"}
      /\ Write([Stage EXCEPT !.folder = [ca |-> target, whole |-> whole]])
      /\ UNCHANGED <<active, backups, public, journal, txn, changing, target, prune, crashes>>
  BY DEF StageCa, At, Hold
<1>2. txn # NoTxn /\ target \in CAs /\ Stage.made = {"ca", "pub"}
  BY <1>1 DEF JournalInv, Command, Staging, Staged1
<1> DEFINE f == [ca |-> target, whole |-> whole]
           s == [Stage EXCEPT !.folder = f]
<1>3. f \in Folders /\ f.ca = target
  BY <1>2 DEF Folders
<1>4. s \in Stages /\ s.made = {"ca", "pub"} /\ s.folder = f
  BY <1>2, <1>3, StageTyped DEF Stages
<1> HIDE DEF s, f
<1> QED
  BY <1>1, <1>3, <1>4, StagingStep DEF Staging, s, f

LEMMA StagePublicStep ==
  ASSUME JournalAssumption, JournalInv, NEW f \in PublicFiles, StagePublic(f)
  PROVE  JournalInv'
<1>1. /\ pc = "stage-pub" /\ pc' = pc /\ Write([Stage EXCEPT !.files[f] = target])
      /\ UNCHANGED <<active, backups, public, journal, txn, changing, target, prune, crashes>>
  BY DEF StagePublic, command
<1>2. txn # NoTxn /\ target \in CAs /\ Stage.made = {"ca", "pub"} /\ Stage.folder.ca \in {NoCa, target}
  BY <1>1 DEF JournalInv, Command, Staging, Staged1
<1> DEFINE s == [Stage EXCEPT !.files[f] = target]
<1>3. s \in Stages /\ s.made = {"ca", "pub"} /\ s.folder = Stage.folder
  BY <1>2, StageTyped DEF Stages, Owners
<1> HIDE DEF s
<1> QED
  BY <1>1, <1>2, <1>3, StagingStep DEF Staging, s

LEMMA ValidateStep == ASSUME JournalAssumption, JournalInv, Validate PROVE JournalInv'
<1> USE DEF JournalInv
<1>1. /\ pc = "stage-pub" /\ pc' = "move" /\ journal = txn /\ txn # NoTxn /\ Staged1
      /\ journal' = txn' /\ txn' = [txn EXCEPT !.step = Steps.validated]
      /\ Stage.folder.whole /\ \A f \in PublicFiles : Stage.files[f] = Stage.folder.ca
      /\ UNCHANGED <<active, backups, stages, public, changing, target, prune, crashes>>
  BY DEF Validate, At, Command, Staging
<1>2. /\ txn' \in Txns /\ txn' # NoTxn /\ txn'.id = txn.id /\ txn'.step = Steps.validated
      /\ txn'.backup = txn.backup /\ txn'.restoreFrom = txn.restoreFrom
  <2>1. txn \in Txns /\ txn.id \in Ids
    BY <1>1, TxnFacts DEF Typed
  <2>2. txn' \in Txns /\ txn'.id = txn.id /\ txn'.step = Steps.validated
          /\ txn'.backup = txn.backup /\ txn'.restoreFrom = txn.restoreFrom
    BY <1>1, <2>1, StepNumbers DEF Txns
  <2>3. txn'.id # 0
    BY <2>1, <2>2 DEF JournalAssumption
  <2> QED
    BY <2>2, <2>3 DEF NoTxn
<1>3. Stage.folder \in Folders /\ Exists(Stage.folder) /\ Stage.folder.ca = target
  BY <1>1, StageTyped, FolderFacts DEF Stages, Staged1, Exists
<1>4. Unmoved /\ PutBack
  BY <1>1, StepNumbers DEF Disk, Staged1
<1>5. Waiting' = Stage.folder
  BY <1>1, <1>2 DEF Waiting, Stage
<1>6. Validated'
  <2>1. CASE Exists(active)
    BY <1>1, <1>2, <1>3, <1>4, <1>5, <2>1
      DEF Validated, Unmoved, WaitingOf, PublicOf, Stage, Staged1
  <2>2. CASE ~Exists(active)
    <3>1. txn.backup = NoName /\ PublicOf(NoCa) /\ OldCa' = NoCa /\ New' = Stage.folder
      BY <1>1, <1>2, <1>3, <1>4, <1>5, <2>2 DEF Unmoved, OldCa, New, Exists
    <3>2. Moved'
      BY <1>1, <1>2, <1>3, <3>1 DEF Moved, PublicOf, Exists
    <3> QED
      BY <1>1, <1>2, <1>3, <1>5, <2>2, <3>2 DEF Validated, WaitingOf, Stage
  <2> QED
    BY <2>1, <2>2
<1>7. PutBack'
  BY <1>1, <1>2, <1>3, <1>4, <1>5 DEF PutBack, New, Staged1
<1>8. Disk'
  BY <1>1, <1>2, <1>6, <1>7, StepNumbers DEF Disk
<1>9. Typed' /\ StagesSound'
  BY <1>1, <1>2 DEF Typed, StagesSound, Completing
<1>10. Command'
  BY <1>1, <1>2, StepNumbers DEF Command, Resting, Discarding, Staging, Completing
<1> QED
  BY <1>8, <1>9, <1>10

(***************************************************************************)
(* Completing, from whatever is on the disk.                               *)
(***************************************************************************)
LEMMA InCompletion ==
  ASSUME JournalAssumption, JournalInv, pc \in Completing
  PROVE  /\ journal = txn /\ txn # NoTxn /\ txn \in Txns /\ txn.id \in Ids /\ Waiting = Stage.folder
         /\ txn.step \in 2 .. 6 /\ PutBack
         /\ txn.step = 2 => Validated
         /\ txn.step = 3 => ActiveMoved
         /\ txn.step = 4 => NewInstalled
         /\ txn.step > 4 => LeafInstalled
         /\ Stage \in Stages /\ StageSound(Stage) /\ Stage.folder \in Folders
<1>1. journal = txn /\ txn # NoTxn /\ txn.step > 1
  BY StepNumbers DEF JournalInv, Command, Completing
<1>2. txn \in Txns /\ txn.id \in Ids /\ txn.step \in 1 .. 6
  BY <1>1, TxnFacts DEF JournalInv, Typed
<1>3. Stage \in Stages /\ StageSound(Stage) /\ Stage.folder \in Folders
  BY <1>1, StageTyped DEF Stages
<1>4. Waiting = Stage.folder
  BY <1>1 DEF Waiting, Stage
<1> QED
  BY <1>1, <1>2, <1>3, <1>4, StepNumbers DEF JournalInv, Disk

LEMMA AdvanceFacts ==
  ASSUME JournalAssumption, JournalInv, NEW from \in Completing, NEW step \in 1 .. 6, NEW to \in Completing,
         Advance(from, step, to)
  PROVE  /\ pc = from /\ pc' = to /\ journal' = txn' /\ txn' \in Txns /\ txn' # NoTxn
         /\ txn'.id = txn.id /\ txn'.backup = txn.backup /\ txn'.restoreFrom = txn.restoreFrom
         /\ txn'.step = IF step <= txn.step THEN txn.step ELSE step
         /\ UNCHANGED <<active, backups, stages, public, changing, target, prune, crashes>>
         /\ step <= txn.step => UNCHANGED disk
         /\ Waiting' = Waiting /\ New' = New /\ OldCa' = OldCa
<1>1. pc = from /\ pc' = to /\ UNCHANGED <<active, backups, stages, public, changing, target, prune, crashes>>
  BY DEF Advance, At
<1>2. journal = txn /\ txn \in Txns /\ txn.id \in Ids /\ txn.step \in 2 .. 6
  BY <1>1, InCompletion
<1>3. /\ txn' \in Txns /\ txn'.id = txn.id /\ txn'.backup = txn.backup /\ txn'.restoreFrom = txn.restoreFrom
      /\ txn'.step = IF step <= txn.step THEN txn.step ELSE step
      /\ step <= txn.step => txn' = txn
      /\ journal' = txn'
  BY <1>2 DEF Advance, Txns
<1>4. txn'.id # 0
  BY <1>2, <1>3 DEF JournalAssumption
<1> QED
  BY <1>1, <1>2, <1>3, <1>4 DEF NoTxn, disk, Waiting, New, OldCa

(* What was true of the files stays true as the journal advances. *)
LEMMA AdvanceKeeps ==
  ASSUME JournalAssumption, JournalInv, NEW from \in Completing, NEW step \in 1 .. 6, NEW to \in Completing,
         Advance(from, step, to)
  PROVE  /\ PutBack' /\ (LeafInstalled => LeafInstalled') /\ (Moved => Moved')
         /\ \A c : PublicOf(c)' = PublicOf(c) /\ WaitingOf(c)' = WaitingOf(c)
         /\ Typed' /\ StagesSound'
<1>1. pc = from
  BY AdvanceFacts
<1>2. journal = txn /\ txn.step \in 2 .. 6 /\ PutBack
  BY <1>1, InCompletion
<1>3. PutBack'
  BY <1>2, AdvanceFacts, StepNumbers DEF PutBack
<1>4. \A c : PublicOf(c)' = PublicOf(c) /\ WaitingOf(c)' = WaitingOf(c)
  BY <1>2, AdvanceFacts DEF PublicOf, WaitingOf
<1>5. LeafInstalled => LeafInstalled'
  BY <1>2, <1>4, AdvanceFacts DEF LeafInstalled, WaitingOf, PublicOf
<1>6. Moved => Moved'
  BY <1>2, <1>4, AdvanceFacts DEF Moved, PublicOf
<1>7. Typed' /\ StagesSound'
  BY AdvanceFacts DEF JournalInv, Typed, StagesSound
<1> QED
  BY <1>3, <1>4, <1>5, <1>6, <1>7

LEMMA AdvanceCommand ==
  ASSUME JournalAssumption, JournalInv, NEW from \in Completing, NEW step \in 3 .. 6,
         NEW to \in Completing \ {"move", "moved", "installed"}, Advance(from, step, to),
         step = 3 => to = "install", step = 4 => to \in {"install", "publish"}
  PROVE  Command'
<1>1. pc = from /\ pc' = to /\ journal' = txn' /\ txn' # NoTxn
  BY AdvanceFacts
<1>2. txn.step \in 2 .. 6
  BY <1>1, InCompletion
<1>3. txn'.step = IF step <= txn.step THEN txn.step ELSE step
  BY AdvanceFacts
<1>4. txn'.step \in 3 .. 6 /\ (step > 3 => txn'.step > 3) /\ (step > 4 => txn'.step > 4)
  BY <1>2, <1>3
<1>5. to \notin Resting \cup Discarding \cup Staging \cup {"discard", "moved", "installed"}
  BY DEF Completing, Resting, Discarding, Staging
<1>6. pc' \in Completing \ {"move", "moved", "install", "installed"} => txn'.step > 3
  BY <1>1, <1>4
<1>7. pc' \in {"remove-restored", "remove-ca", "remove-pub", "removed", "close"} => txn'.step > 4
  BY <1>1, <1>4
<1>8. pc' \notin Resting \cup Discarding \cup Staging \cup {"discard", "moved", "installed"}
  BY <1>1, <1>5
<1> QED
  BY <1>1, <1>4, <1>6, <1>7, <1>8, StepNumbers DEF Command

LEMMA AdvanceStep ==
  ASSUME JournalAssumption, JournalInv,
         \/ Advance("moved", Steps.active_ca_moved, "install")
         \/ Advance("installed", Steps.new_ca_installed, "publish")
         \/ Advance("publish", Steps.leaf_installed, "remove-restored") /\ Staged = {}
         \/ Advance("removed", Steps.committed, "close")
  PROVE  JournalInv'
<1> USE StepNumbers
<1>1. CASE Advance("moved", 3, "install")
  <2> USE <1>1
  <2>1. "moved" \in Completing /\ "install" \in Completing
    BY DEF Completing
  <2>2. txn.step > 2 \/ ~Exists(active)
    BY <2>1, AdvanceFacts DEF JournalInv, Command
  <2>3. Disk'
    <3>1. CASE 3 <= txn.step
      BY <2>1, <3>1, AdvanceFacts, DiskStays
    <3>2. CASE txn.step = 2
      <4>1. Validated /\ ~Exists(active) /\ txn'.step = 3
        BY <2>1, <2>2, <3>2, AdvanceFacts, InCompletion
      <4>2. ActiveMoved'
        BY <2>1, <4>1, AdvanceFacts, AdvanceKeeps DEF Validated, ActiveMoved, New
      <4> QED
        BY <2>1, <4>1, <4>2, AdvanceFacts, AdvanceKeeps DEF Disk
    <3> QED
      BY <2>1, <3>1, <3>2, InCompletion, AdvanceFacts
  <2>4. Command'
    BY <2>1, AdvanceCommand DEF Completing
  <2> QED
    BY <2>1, <2>3, <2>4, AdvanceKeeps DEF JournalInv
<1>2. CASE Advance("installed", 4, "publish")
  <2> USE <1>2
  <2>1. "installed" \in Completing /\ "publish" \in Completing
    BY DEF Completing
  <2>2. txn.step > 2 /\ ~Exists(Waiting)
    BY <2>1, InCompletion, AdvanceFacts DEF JournalInv, Command
  <2>3. Disk'
    <3>1. CASE 4 <= txn.step
      BY <2>1, <3>1, AdvanceFacts, DiskStays
    <3>2. CASE txn.step = 3
      <4>1. ActiveMoved /\ New = active /\ txn'.step = 4
        BY <2>1, <2>2, <3>2, AdvanceFacts, InCompletion DEF New
      <4>2. /\ ~Exists(Waiting)' /\ Exists(active)' /\ (OldCa # active.ca)' /\ PublicOf(OldCa)' /\ WaitingOf(active.ca)'
        BY <2>1, <2>2, <4>1, AdvanceFacts, AdvanceKeeps DEF ActiveMoved, Moved
      <4>3. NewInstalled'
        BY <4>2 DEF NewInstalled, PublicOf, WaitingOf, Exists
      <4> QED
        BY <2>1, <4>1, <4>3, AdvanceFacts, AdvanceKeeps DEF Disk
    <3> QED
      BY <2>1, <2>2, <3>1, <3>2, InCompletion, AdvanceFacts
  <2>4. Command'
    BY <2>1, AdvanceCommand DEF Completing
  <2> QED
    BY <2>1, <2>3, <2>4, AdvanceKeeps DEF JournalInv
<1>3. CASE Advance("publish", 5, "remove-restored") /\ Staged = {}
  <2> USE <1>3
  <2>1. "publish" \in Completing /\ "remove-restored" \in Completing
    BY DEF Completing
  <2>2. txn.step > 3
    <3>1. pc = "publish"
      BY <2>1, AdvanceFacts
    <3> QED
      BY <3>1 DEF JournalInv, Command, Completing
  <2>3. Disk'
    <3>1. CASE 5 <= txn.step
      BY <2>1, <3>1, AdvanceFacts, DiskStays
    <3>2. CASE txn.step = 4
      <4>1. NewInstalled /\ txn'.step = 5 /\ journal = txn
        BY <2>1, <3>2, AdvanceFacts, InCompletion
      <4>2. WaitingOf(NoCa)
        BY <4>1 DEF WaitingOf, Staged, Stage
      <4>3. LeafInstalled
        BY <4>1, <4>2 DEF NewInstalled, LeafInstalled, PublicOf, WaitingOf
      <4> QED
        BY <2>1, <4>1, <4>3, AdvanceFacts, AdvanceKeeps DEF Disk
    <3> QED
      BY <2>1, <2>2, <3>1, <3>2, InCompletion, AdvanceFacts
  <2>4. Command'
    BY <2>1, AdvanceCommand DEF Completing
  <2> QED
    BY <2>1, <2>3, <2>4, AdvanceKeeps DEF JournalInv
<1>4. CASE Advance("removed", 6, "close")
  <2> USE <1>4
  <2>1. "removed" \in Completing /\ "close" \in Completing
    BY DEF Completing
  <2>2. txn.step > 4 /\ LeafInstalled
    <3>1. pc = "removed"
      BY <2>1, AdvanceFacts
    <3>2. txn.step > 4
      BY <3>1 DEF JournalInv, Command, Completing
    <3> QED
      BY <2>1, <3>1, <3>2, InCompletion
  <2>3. Disk'
    BY <2>1, <2>2, AdvanceFacts, AdvanceKeeps, InCompletion DEF Disk
  <2>4. Command'
    BY <2>1, AdvanceCommand DEF Completing
  <2> QED
    BY <2>1, <2>3, <2>4, AdvanceKeeps DEF JournalInv
<1> QED
  BY <1>1, <1>2, <1>3, <1>4

LEMMA MoveActiveStep == ASSUME JournalAssumption, JournalInv, MoveActive PROVE JournalInv'
<1> USE StepNumbers
<1>1. /\ pc = "move" /\ pc' = "moved" /\ pc \in Completing
      /\ UNCHANGED <<txn, changing, target, prune, crashes, stages, public, journal>>
  BY DEF MoveActive, At, Hold, Completing
<1>2. Waiting' = Waiting /\ Waiting = Stage.folder /\ journal = txn /\ txn # NoTxn /\ txn \in Txns
        /\ txn.step \in 2 .. 6
  BY <1>1, InCompletion DEF Waiting
<1>3. CASE Moves
  <2>1. /\ active' = Absent /\ backups' = [backups EXCEPT ![txn.backup] = active]
        /\ txn.backup # NoName /\ Exists(active) /\ Exists(Waiting)
    BY <1>2, <1>3 DEF MoveActive, Moves
  <2>2. txn.step = 2 /\ Validated /\ Unmoved /\ active.ca # Waiting.ca
    BY <1>1, <1>2, <2>1, InCompletion DEF ActiveMoved, NewInstalled, LeafInstalled, Validated
  <2>3. /\ txn.backup \in BackupNames /\ active \in Folders /\ active.whole
        /\ backups' \in [BackupNames -> Folders] /\ backups'[txn.backup] = active
        /\ \A n \in BackupNames : n # txn.backup => backups'[n] = backups[n]
    BY <1>2, <2>1 DEF JournalInv, Typed, Txns, Names0
  <2>4. OldCa' = active.ca /\ New' = Waiting /\ New = Waiting
    BY <1>1, <1>2, <2>1, <2>3 DEF OldCa, New
  <2>5. Validated'
    <3>1. ~Exists(active')
      BY <2>1, AbsentFacts
    <3>2. Moved'
      BY <1>1, <1>2, <2>1, <2>2, <2>3, <2>4 DEF Moved, Unmoved, PublicOf
    <3> QED
      BY <1>1, <1>2, <2>2, <3>1, <3>2 DEF Validated, WaitingOf
  <2>6. PutBack'
    <3>1. PutBack
      BY <1>1, InCompletion
    <3>2. txn.restoreFrom # NoName => txn.restoreFrom \in BackupNames
      BY <1>2 DEF Txns, Names0
    <3> QED
      BY <1>1, <1>2, <2>2, <2>3, <2>4, <3>1, <3>2 DEF PutBack
  <2>7. Disk'
    BY <1>1, <1>2, <2>2, <2>5, <2>6 DEF Disk
  <2>8. Typed' /\ StagesSound'
    BY <1>1, <2>1, <2>3, AbsentFacts DEF JournalInv, Typed, StagesSound, Completing
  <2>9. Command'
    BY <1>1, <1>2, <2>1, AbsentFacts DEF JournalInv, Command, Resting, Discarding, Staging, Completing
  <2> QED
    BY <2>7, <2>8, <2>9 DEF JournalInv
<1>4. CASE ~Moves
  <2>1. UNCHANGED disk
    BY <1>1, <1>4 DEF MoveActive, disk
  <2>2. txn.step > 2 \/ ~Exists(active)
    <3>1. ASSUME txn.step = 2, Exists(active) PROVE Moves
      BY <1>1, <1>2, <3>1, InCompletion DEF Validated, Unmoved, Moves
    <3> QED
      BY <1>2, <1>4, <3>1
  <2>3. Disk' /\ StagesSound'
    BY <2>1, DiskStays
  <2>4. Typed'
    BY <1>1, <2>1 DEF JournalInv, Typed, disk, Completing
  <2>5. Command'
    BY <1>1, <1>2, <2>1, <2>2 DEF JournalInv, Command, disk, Resting, Discarding, Staging, Completing
  <2> QED
    BY <2>3, <2>4, <2>5 DEF JournalInv
<1> QED
  BY <1>3, <1>4

(* A staged CA and an active one are never there together once the active  *)
(* one was moved.                                                          *)
LEMMA InstallStep == ASSUME JournalAssumption, JournalInv, Install PROVE JournalInv'
<1> USE StepNumbers
<1>1. /\ pc = "install" /\ pc \in Completing
      /\ UNCHANGED <<txn, changing, target, prune, crashes, backups, public, journal>>
  BY DEF Install, At, Hold, Completing
<1>2. /\ Waiting = Stage.folder /\ journal = txn /\ txn \in Txns /\ txn.id \in Ids /\ txn # NoTxn
      /\ txn.step \in 3 .. 6 /\ Stage \in Stages /\ Stage.folder \in Folders
  <2>1. txn.step > 2
    BY <1>1 DEF JournalInv, Command
  <2> QED
    BY <1>1, <2>1, InCompletion
<1>3. ~(Exists(Waiting) /\ Exists(active))
  BY <1>1, <1>2, InCompletion DEF ActiveMoved, NewInstalled, LeafInstalled
<1>4. pc' = "installed"
  BY <1>2, <1>3 DEF Install, At
<1>5. CASE Exists(Stage.folder)
  <2>1. txn.step = 3 /\ ActiveMoved
    BY <1>1, <1>2, <1>5, InCompletion DEF NewInstalled, LeafInstalled
  <2> DEFINE s == [Stage EXCEPT !.folder = Absent]
  <2>2. active' = Stage.folder /\ Write(s)
    BY <1>2, <1>3, <1>5 DEF Install
  <2>3. /\ s \in Stages /\ StageSound(s) /\ s.folder = Absent /\ s.files = Stage.files
    <3>1. s \in Stages /\ s.folder = Absent /\ s.files = Stage.files /\ s.made = Stage.made
      BY <1>2, AbsentFacts DEF Stages
    <3>2. StageSound(Stage)
      BY <1>1, InCompletion
    <3> QED
      BY <3>1, <3>2 DEF StageSound
  <2> HIDE DEF s
  <2>4. stages' \in [Ids -> Stages] /\ StagesSound' /\ stages'[txn.id] = s
    BY <1>2, <2>2, <2>3, Wrote DEF JournalInv
  <2>5. ~Exists(Waiting') /\ Waiting' = Absent
    BY <1>1, <1>2, <2>3, <2>4, AbsentFacts DEF Waiting
  <2>6. New' = New /\ OldCa' = OldCa /\ New = Waiting /\ New' = active'
    BY <1>1, <1>2, <1>5, <2>2, <2>5 DEF New, OldCa
  <2>7. Moved'
    BY <1>1, <2>1, <2>6 DEF ActiveMoved, Moved, PublicOf
  <2>8. WaitingOf(New.ca)'
    BY <1>1, <1>2, <2>1, <2>3, <2>4, <2>6 DEF ActiveMoved, WaitingOf, Stage
  <2>9. ActiveMoved'
    BY <2>1, <2>5, <2>6, <2>7, <2>8 DEF ActiveMoved
  <2>10. PutBack'
    BY <1>1, <1>2, <2>1, <2>6, InCompletion DEF PutBack
  <2>11. Disk'
    BY <1>1, <1>2, <2>1, <2>9, <2>10 DEF Disk
  <2>12. Typed'
    BY <1>1, <1>2, <1>4, <2>1, <2>4, <2>6 DEF JournalInv, Typed, ActiveMoved, Completing
  <2>13. Command'
    <3>1. ~Exists(Stage.folder)'
      BY <1>1, <1>2, <2>5 DEF Waiting, Stage
    <3> QED
      BY <1>1, <1>2, <1>4, <3>1 DEF JournalInv, Command, Resting, Discarding, Staging, Completing
  <2> QED
    BY <2>4, <2>11, <2>12, <2>13 DEF JournalInv
<1>6. CASE ~Exists(Stage.folder)
  <2>1. UNCHANGED disk
    BY <1>1, <1>6 DEF Install, disk
  <2>2. Disk' /\ StagesSound'
    BY <2>1, DiskStays
  <2>3. Typed'
    BY <1>1, <1>4, <2>1 DEF JournalInv, Typed, disk, Completing
  <2>4. ~Exists(Stage.folder)'
    BY <1>1, <1>6, <2>1 DEF Stage, disk
  <2>5. Command'
    BY <1>1, <1>2, <1>4, <2>1, <2>4 DEF JournalInv, Command, disk, Resting, Discarding, Staging, Completing
  <2> QED
    BY <2>2, <2>3, <2>5 DEF JournalInv
<1> QED
  BY <1>5, <1>6

LEMMA PublishStep ==
  ASSUME JournalAssumption, JournalInv, NEW f \in PublicFiles, Publish(f)
  PROVE  JournalInv'
<1> USE StepNumbers
<1>1. /\ pc = "publish" /\ pc' = pc /\ pc \in Completing /\ f \in NextStaged
      /\ public' = [public EXCEPT ![f] = Stage.files[f]] /\ Write([Stage EXCEPT !.files[f] = NoCa])
      /\ UNCHANGED <<active, backups, journal, txn, changing, target, prune, crashes>>
  BY DEF Publish, command, Completing
<1>2. /\ Waiting = Stage.folder /\ journal = txn /\ txn \in Txns /\ txn.id \in Ids /\ txn # NoTxn
      /\ Stage \in Stages /\ StageSound(Stage) /\ PutBack
  BY <1>1, InCompletion
<1>3. Stage.files[f] # NoCa /\ \A g \in PublicFiles : Stage.files[g] # NoCa => f <= g
  BY <1>1 DEF NextStaged, Staged
<1>4. txn.step = 4 /\ NewInstalled
  <2>1. txn.step > 3
    BY <1>1 DEF JournalInv, Command, Completing
  <2> QED
    BY <1>1, <1>2, <1>3, <2>1, InCompletion DEF LeafInstalled, WaitingOf, Stage
<1> DEFINE s == [Stage EXCEPT !.files[f] = NoCa]
<1>5. /\ s \in Stages /\ StageSound(s) /\ s.folder = Stage.folder /\ s.files[f] = NoCa
      /\ \A g \in PublicFiles : g # f => s.files[g] = Stage.files[g]
  <2>1. /\ s \in Stages /\ s.folder = Stage.folder /\ s.made = Stage.made /\ s.files[f] = NoCa
        /\ \A g \in PublicFiles : g # f => s.files[g] = Stage.files[g]
    BY <1>2 DEF Stages, Owners
  <2> QED
    BY <1>2, <2>1 DEF StageSound
<1>6. Write(s)
  BY <1>1
<1> HIDE DEF s
<1>7. stages' \in [Ids -> Stages] /\ StagesSound' /\ stages'[txn.id] = s
  BY <1>2, <1>5, <1>6, Wrote DEF JournalInv
<1>8. /\ public' \in [PublicFiles -> Owners] /\ public'[f] = active.ca
      /\ \A g \in PublicFiles : g # f => public'[g] = public[g]
  <2>1. Stage.files[f] = active.ca /\ active.ca \in Owners
    BY <1>2, <1>3, <1>4, FolderFacts DEF NewInstalled, Stage, JournalInv, Typed
  <2> QED
    BY <1>1, <2>1 DEF JournalInv, Typed
<1>9. Waiting' = Waiting /\ New' = New /\ OldCa' = OldCa
  BY <1>1, <1>2, <1>5, <1>7 DEF Waiting, New, OldCa
<1>10. NewInstalled'
  <2>1. \A g \in PublicFiles :
          IF s.files[g] = NoCa THEN public'[g] = active.ca ELSE s.files[g] = active.ca /\ public'[g] = OldCa
    BY <1>2, <1>4, <1>5, <1>8 DEF NewInstalled, Stage
  <2>2. \A g, h \in PublicFiles : g < h /\ s.files[g] # NoCa => s.files[h] # NoCa
    BY <1>2, <1>3, <1>4, <1>5 DEF NewInstalled, Stage, PublicFiles
  <2> QED
    BY <1>1, <1>2, <1>4, <1>7, <1>9, <2>1, <2>2 DEF NewInstalled
<1>11. Disk'
  <2>1. PutBack'
    BY <1>1, <1>2, <1>4, <1>9 DEF PutBack
  <2> QED
    BY <1>1, <1>2, <1>4, <1>10, <2>1 DEF Disk
<1>12. Typed'
  BY <1>1, <1>7, <1>8 DEF JournalInv, Typed
<1>13. Command'
  BY <1>1, <1>2, <1>4 DEF JournalInv, Command, Resting, Discarding, Staging, Completing
<1> QED
  BY <1>7, <1>11, <1>12, <1>13 DEF JournalInv

LEMMA RemoveRestoredStep == ASSUME JournalAssumption, JournalInv, RemoveRestored PROVE JournalInv'
<1> USE StepNumbers
<1>1. /\ pc = "remove-restored" /\ pc' \in {"remove-restored", "remove-ca"} /\ pc \in Completing
      /\ UNCHANGED <<active, stages, public, journal, txn, changing, target, prune, crashes>>
  BY DEF RemoveRestored, At, Hold, Completing
<1>2. journal = txn /\ txn \in Txns /\ txn # NoTxn /\ txn.step > 4 /\ LeafInstalled /\ PutBack
  <2>1. txn.step > 4
    BY <1>1 DEF JournalInv, Command
  <2> QED
    BY <1>1, <2>1, InCompletion
<1>3. Waiting' = Waiting /\ New' = New
  BY <1>1 DEF Waiting, New
<1>4. LeafInstalled'
  BY <1>1, <1>2, <1>3 DEF LeafInstalled, PublicOf, WaitingOf
<1>5. /\ backups' \in [BackupNames -> Folders]
      /\ txn.restoreFrom # NoName => backups'[txn.restoreFrom].ca \in {backups[txn.restoreFrom].ca, NoCa}
  <2>1. CASE txn.restoreFrom = NoName
    BY <2>1 DEF RemoveRestored, JournalInv, Typed
  <2>2. CASE txn.restoreFrom # NoName
    <3> DEFINE r == txn.restoreFrom
    <3>1. r \in BackupNames /\ backups \in [BackupNames -> Folders] /\ backups[r] \in Folders
      BY <1>2, <2>2 DEF JournalInv, Typed, Txns, Names0
    <3>2. PICK g \in {Halved(backups[r]), Absent} : backups' = [backups EXCEPT ![r] = g]
      BY <2>2 DEF RemoveRestored
    <3>3. g \in Folders /\ g.ca \in {backups[r].ca, NoCa}
      BY <3>1, FolderFacts, AbsentFacts
    <3> QED
      BY <3>1, <3>2, <3>3
  <2> QED
    BY <2>1, <2>2
<1>6. PutBack'
  BY <1>1, <1>2, <1>3, <1>5 DEF PutBack
<1>7. Disk'
  BY <1>1, <1>2, <1>4, <1>6 DEF Disk
<1>8. Typed' /\ StagesSound'
  BY <1>1, <1>5 DEF JournalInv, Typed, StagesSound, Completing
<1>9. Command'
  BY <1>1, <1>2 DEF JournalInv, Command, Resting, Discarding, Staging, Completing
<1> QED
  BY <1>7, <1>8, <1>9 DEF JournalInv

LEMMA CloseStep == ASSUME JournalAssumption, JournalInv, Close PROVE JournalInv'
<1> USE StepNumbers
<1>1. /\ pc = "close" /\ pc' \in {"prune", "ready"} /\ pc \in Completing /\ journal' = NoTxn
      /\ UNCHANGED <<active, backups, stages, public, txn, changing, target, prune, crashes>>
  BY DEF Close, At, Hold, Finished, Completing
<1>2. LeafInstalled
  <2>1. txn.step > 4
    BY <1>1 DEF JournalInv, Command
  <2> QED
    BY <1>1, <2>1, InCompletion
<1>3. Disk'
  BY <1>1, <1>2 DEF LeafInstalled, PublicOf, Disk
<1>4. Typed' /\ StagesSound'
  BY <1>1 DEF JournalInv, Typed, StagesSound, Resting
<1>5. Command'
  BY <1>1 DEF JournalInv, Command, Resting, Discarding, Staging, Completing
<1> QED
  BY <1>3, <1>4, <1>5 DEF JournalInv

LEMMA PruneStep ==
  ASSUME JournalAssumption, JournalInv, NEW name \in BackupNames, PruneOldest(name)
  PROVE  JournalInv'
<1>1. pc = "prune" /\ journal = NoTxn /\ UNCHANGED <<active, stages, public, journal, command, crashes>>
  BY DEF PruneOldest, JournalInv, Command, Resting
<1>2. PICK g \in {Halved(backups[name]), Absent} : backups' = [backups EXCEPT ![name] = g]
  BY DEF PruneOldest
<1>3. backups' \in [BackupNames -> Folders]
  <2>1. backups \in [BackupNames -> Folders] /\ backups[name] \in Folders
    BY DEF JournalInv, Typed
  <2>2. g \in Folders
    BY <2>1, FolderFacts, AbsentFacts
  <2> QED
    BY <1>2, <2>1, <2>2
<1>4. Disk'
  BY <1>1, NothingPending DEF JournalInv
<1>5. Typed' /\ StagesSound'
  BY <1>1, <1>3 DEF JournalInv, Typed, StagesSound, command
<1>6. Command'
  BY <1>1 DEF JournalInv, Command, command, Resting, Discarding, Staging, Completing
<1> QED
  BY <1>4, <1>5, <1>6 DEF JournalInv

(***************************************************************************)
(* The oldest backups, of any number: there are such, as numbers that are  *)
(* finitely many have a least set of each property and a greatest element. *)
(***************************************************************************)
(* Of finitely many sets one holds no other. *)
LEMMA Smallest ==
  ASSUME NEW S, NEW F, F \subseteq FiniteSubsetsOf(S), F # {}
  PROVE  \E U \in F : \A V \in F : ~(V \subseteq U /\ V # U)
<1>1. PICK U \in F : \A V \in F : ~(<<V, U>> \in StrictSubsetOrdering(S))
  BY FS_StrictSubsetOrderingWellFounded, WFMin
<1>2. \A V \in F : V \in SUBSET S
  BY DEF FiniteSubsetsOf
<1>3. ASSUME NEW V \in F, V \subseteq U, V # U PROVE FALSE
  <2>1. <<V, U>> \in StrictSubsetOrdering(S)
    BY <1>2, <1>3 DEF StrictSubsetOrdering
  <2> QED
    BY <1>1, <2>1
<1> QED
  BY <1>3

LEMMA Newest ==
  ASSUME NEW S \in SUBSET Nat, IsFiniteSet(S), S # {} PROVE \E m \in S : \A k \in S : k <= m
<1> DEFINE Above(a) == {b \in S : a < b}
           F == {Above(a) : a \in S}
<1>1. \A a \in S : Above(a) \in FiniteSubsetsOf(S)
  <2> TAKE a \in S
  <2>1. Above(a) \in SUBSET S
    OBVIOUS
  <2> QED
    BY <2>1, FS_Subset DEF FiniteSubsetsOf
<1>2. F \subseteq FiniteSubsetsOf(S) /\ F # {}
  BY <1>1
<1> HIDE DEF F
<1>3. PICK U \in F : \A V \in F : ~(V \subseteq U /\ V # U)
  BY <1>2, Smallest
<1>4. PICK m \in S : U = Above(m)
  BY <1>3 DEF F
<1>5. ASSUME NEW k \in S, m < k PROVE FALSE
  <2>1. Above(k) \in F
    BY DEF F
  <2>2. k \in Above(m) /\ k \notin Above(k)
    BY <1>5
  <2>3. ASSUME NEW b \in Above(k) PROVE b \in Above(m)
    <3>1. b \in Nat /\ k \in Nat /\ m \in Nat
      OBVIOUS
    <3> QED
      BY <1>5, <3>1
  <2> QED
    BY <1>3, <1>4, <2>1, <2>2, <2>3
<1> QED
  BY <1>5

(* Any number of a finite set of numbers can be its least ones. *)
LEMMA LeastOnes ==
  ASSUME NEW S \in SUBSET Nat, IsFiniteSet(S), NEW n \in Nat, n <= Cardinality(S)
  PROVE  \E names \in SUBSET S : Cardinality(names) = n /\ \A a \in names, b \in S \ names : a < b
<1> DEFINE Low(U) == \A a \in U, b \in S \ U : a < b
           F == {U \in SUBSET S : Low(U) /\ n <= Cardinality(U)}
<1>1. F \subseteq FiniteSubsetsOf(S)
  BY FS_Subset DEF FiniteSubsetsOf
<1>2. S \in F
  OBVIOUS
<1>3. PICK U \in F : \A V \in F : ~(V \subseteq U /\ V # U)
  <2>1. F # {}
    BY <1>2
  <2> HIDE DEF F
  <2> QED
    BY <1>1, <2>1, Smallest
<1>4. U \in SUBSET S /\ Low(U) /\ n <= Cardinality(U) /\ IsFiniteSet(U) /\ Cardinality(U) \in Nat
  BY FS_Subset, FS_CardinalityType
<1>5. ASSUME n < Cardinality(U) PROVE FALSE
  <2>1. U # {}
    BY <1>5, FS_EmptySet
  <2>2. PICK m \in U : \A k \in U : k <= m
    BY <1>4, <2>1, Newest
  <2>3. Cardinality(U \ {m}) = Cardinality(U) - 1
    BY <1>4, FS_RemoveElement
  <2>4. Low(U \ {m})
    <3> SUFFICES ASSUME NEW a \in U \ {m}, NEW b \in S \ (U \ {m}) PROVE a < b
      OBVIOUS
    <3>1. a < m
      BY <1>4, <2>2
    <3> QED
      BY <1>4, <3>1
  <2>5. U \ {m} \in F
    BY <1>4, <1>5, <2>3, <2>4
  <2> QED
    BY <1>3, <2>5
<1> QED
  BY <1>4, <1>5

LEMMA OldestFacts ==
  ASSUME JournalAssumption, IsFiniteSet(Names), NEW n \in Nat, n <= Cardinality(Names)
  PROVE  Oldest(n) \in SUBSET Names /\ Cardinality(Oldest(n)) = n
<1>1. Names \in SUBSET Nat
  BY DEF Names, JournalAssumption
<1>2. \E names \in SUBSET Names : Cardinality(names) = n /\ \A a \in names, b \in Names \ names : a < b
  BY <1>1, LeastOnes
<1> QED
  BY <1>2 DEF Oldest

LEMMA ExcessFacts ==
  ASSUME IsFiniteSet(Names)
  PROVE  Excess \in Nat /\ Excess <= Cardinality(Names) /\ (Exists(active) => Cardinality(Names) - Excess <= 1)
  BY FS_CardinalityType DEF Excess

LEMMA NewCaStep ==
  ASSUME JournalAssumption, JournalInv, IsFiniteSet(Names), NEW c \in CAs, NewCa(c)
  PROVE  JournalInv'
<1>1. c # active.ca /\ Begin(c, NoName, Oldest(Excess)) /\ NoName \in Names0
  BY DEF NewCa, Fresh, Names0
<1>2. Oldest(Excess) \in SUBSET BackupNames
  BY OldestFacts, ExcessFacts DEF Names
<1> QED
  BY <1>1, <1>2, BeginStep

LEMMA RestoreCaStep ==
  ASSUME JournalAssumption, JournalInv, NEW name \in BackupNames, RestoreCa(name)
  PROVE  JournalInv'
<1>1. backups[name].whole /\ backups[name].ca # active.ca /\ Begin(backups[name].ca, name, {}) /\ name \in Names0
  BY DEF RestoreCa, Names0
<1>2. backups[name] \in Folders
  BY DEF JournalInv, Typed
<1>3. backups[name].ca \in CAs /\ name \in Names
  BY <1>1, <1>2, FolderFacts DEF Names
<1> QED
  BY <1>1, <1>3, BeginStep

LEMMA NextJournal ==
  ASSUME JournalAssumption, JournalInv, IsFiniteSet(Names), [Next]_vars PROVE JournalInv'
<1>1. CASE Recovery
  BY <1>1, RecoverStep, RestStep, DiscardJournalStep, RemoveStageStep, RemovePublicStageStep, SweepStep
    DEF Recovery, Discard
<1>2. CASE Change
  BY <1>2, NewCaStep, RestoreCaStep, RestStep, StageFoldersStep, StageCaStep, StagePublicStep, ValidateStep,
     PruneStep DEF Change
<1>3. CASE Complete
  BY <1>3, MoveActiveStep, InstallStep, RemoveRestoredStep, CloseStep, PublishStep, AdvanceStep,
     RemoveStageStep, RemovePublicStageStep DEF Complete
<1>4. CASE Crash
  BY <1>4, RestStep
<1>5. CASE UNCHANGED vars
  <2>1. Disk' /\ StagesSound'
    BY <1>5, DiskStays DEF vars
  <2>2. Typed'
    BY <1>5 DEF JournalInv, Typed, vars, disk, command
  <2>3. Command'
    BY <1>5 DEF JournalInv, Command, Staged1, Stage, Discards, vars, disk, command
  <2> QED
    BY <2>1, <2>2, <2>3 DEF JournalInv
<1> QED
  BY <1>1, <1>2, <1>3, <1>4, <1>5 DEF Next

(***************************************************************************)
(* The number of backups.                                                  *)
(***************************************************************************)
Late == (Completing \ {"move"}) \cup {"prune"}
Busy == Staging \cup Completing \cup {"prune"}
Removed == {"remove-ca", "remove-pub", "removed", "close"}

LEMMA CountFacts ==
  ASSUME JournalAssumption, JournalInv, Counted
  PROVE  /\ Names \subseteq BackupNames /\ IsFiniteSet(Names) /\ Cardinality(Names) \in Nat /\ crashes \in Nat
         /\ IsFiniteSet(Names \ Doomed) /\ Cardinality(Names \ Doomed) \in Nat
         /\ Cardinality(Names \ Doomed) <= Cardinality(Names)
         /\ NoName \notin Names
<1>1. IsFiniteSet(Names) /\ Names \ Doomed \in SUBSET Names /\ Names \subseteq BackupNames /\ crashes \in Nat
  BY DEF Counted, Names, JournalInv, Typed
<1> QED
  BY <1>1, FS_Subset, FS_CardinalityType DEF JournalAssumption, NoName

LEMMA InitCounted == ASSUME JournalAssumption, Init PROVE Counted
<1>1. Names = {}
  BY AbsentFacts DEF Init, Names
<1>2. IsFiniteSet(Names) /\ Cardinality(Names) = 0
  BY <1>1, FS_EmptySet
<1> QED
  BY <1>2 DEF Init, Counted, Pending

(* Once the active CA was moved the journal adds no backup. *)
LEMMA MovedAway ==
  ASSUME JournalAssumption, JournalInv, Counted, pc \in Late PROVE ~Pending
<1> USE StepNumbers
<1>1. CASE pc = "prune"
  BY <1>1 DEF JournalInv, Command, Resting, Pending
<1>2. CASE pc \in Completing \ {"move", "moved"}
  BY <1>2, InCompletion DEF JournalInv, Command, Counted, Pending
<1>3. CASE pc = "moved"
  <2>1. journal = txn /\ txn.step \in 2 .. 6 /\ (txn.step = 2 => Validated) /\ (txn.step > 2 \/ ~Exists(active))
    BY <1>3, InCompletion DEF JournalInv, Command, Completing
  <2>2. CASE txn.step > 2
    BY <2>1, <2>2 DEF Counted, Pending
  <2>3. CASE txn.step = 2
    BY <2>1, <2>3 DEF Validated, Moved, Pending
  <2> QED
    BY <2>1, <2>2, <2>3
<1> QED
  BY <1>1, <1>2, <1>3 DEF Late

(* Steps that leave the backups, and on the whole the command, alone. *)
LEMMA SameBackups ==
  ASSUME JournalAssumption, JournalInv, Counted,
         UNCHANGED <<backups, changing, prune, crashes>>,
         txn'.backup = txn.backup, txn'.restoreFrom = txn.restoreFrom,
         changing /\ pc \in Late => pc' \in Late,
         changing /\ pc' \in Staging \cup Completing => pc \in Staging \cup Completing,
         changing /\ pc' = "prune" => pc \in Removed \cup {"prune"},
         changing /\ pc' \in Staging \cup {"move"} => pc \in Staging \cup {"move"},
         pc' \in Removed => pc \in Removed, pc' = "idle" => pc = "idle",
         Pending' => Pending /\ journal'.step <= Steps.validated
  PROVE  Counted'
<1>1. Names' = Names /\ Doomed' = Doomed
  BY DEF Names, Doomed
<1>2. Cardinality(Names) \in Nat /\ crashes \in Nat /\ Cardinality(Names \ Doomed) \in Nat
  BY CountFacts
<1>3. ~AfterMove' => ~AfterMove
  BY DEF AfterMove, Late
<1>4. changing /\ pc' \in Busy => pc \in Busy
  BY DEF Busy, Removed, Completing
<1>5. changing /\ Adds' => Adds
  BY DEF Adds
<1>6. changing /\ pc' \in Busy => Cardinality(Names' \ Doomed') <= (IF Adds' THEN 1 ELSE 2) + crashes
  <2>1. changing /\ pc \in Busy => Cardinality(Names \ Doomed) <= (IF Adds THEN 1 ELSE 2) + crashes
    BY DEF Counted, Busy
  <2> QED
    BY <1>1, <1>2, <1>4, <1>5, <2>1
<1>7. changing /\ pc' \in Staging \cup Completing => txn'.backup \notin Doomed'
  BY <1>1 DEF Counted
<1>8. pc' \in Removed \/ (changing /\ pc' = "prune") => (txn'.restoreFrom # NoName => ~Exists(backups'[txn'.restoreFrom]))
  BY DEF Counted, Removed
<1>9. Pending' => Pending /\ journal'.step <= Steps.validated
  OBVIOUS
<1>10. Pending' /\ (pc' = "idle" \/ ~changing) => Cardinality(Names') <= 1 + crashes
  BY <1>1 DEF Counted
<1>11. /\ IsFiniteSet(Names') /\ Cardinality(Names') <= 3 + crashes
       /\ ~AfterMove' => Cardinality(Names') <= 2 + crashes
  BY <1>1, <1>3 DEF Counted
<1> QED
  BY <1>6, <1>7, <1>8, <1>9, <1>10, <1>11 DEF Counted, Busy, Removed

LEMMA QuietCount ==
  ASSUME JournalAssumption, JournalInv, Counted,
         \/ SweepDone \/ End \/ StageFails \/ Discard \/ StageFolders \/ StageCa \/ Install
         \/ \E id \in Ids : Sweep(id)
         \/ \E f \in PublicFiles : StagePublic(f) \/ Publish(f)
         \/ RemoveStage("remove-ca", "remove-pub") \/ RemovePublicStage("remove-pub", "removed")
         \/ Close \/ UNCHANGED vars
  PROVE  Counted'
<1> USE DEF Late, Removed, Staging, Completing
<1>1. UNCHANGED <<backups, txn, changing, prune, crashes>> /\ journal' \in {journal, NoTxn}
  BY DEF SweepDone, End, StageFails, Discard, DiscardJournal, StageFolders, StageCa, Install, Sweep,
     StagePublic, Publish, RemoveStage, RemovePublicStage, Close, Hold, vars, disk, command
<1>2. Pending' => Pending /\ journal'.step <= Steps.validated
  BY <1>1 DEF Pending, Counted
<1>3. CASE SweepDone \/ End \/ StageFails \/ Discard
  BY <1>1, <1>2, <1>3, SameBackups DEF SweepDone, End, StageFails, Discard, DiscardJournal, RemoveStage,
     RemovePublicStage, At
<1>4. CASE StageFolders \/ StageCa \/ Install \/ Close
  <2>1. Install => pc' \in {"installed", "exit"}
    BY DEF Install, At
  <2>2. Install => pc' = "installed"
    <3>1. Install => Command' /\ journal' = journal
      BY InstallStep DEF JournalInv, Install
    <3>2. Install => journal # NoTxn
      BY InCompletion DEF Install, At
    <3> QED
      BY <2>1, <3>1, <3>2 DEF Command, Resting
  <2> QED
    BY <1>1, <1>2, <1>4, <2>2, SameBackups DEF StageFolders, StageCa, Install, Close, Finished, At
<1>5. CASE (\E id \in Ids : Sweep(id)) \/ (\E f \in PublicFiles : StagePublic(f) \/ Publish(f)) \/ UNCHANGED vars
  BY <1>1, <1>2, <1>5, SameBackups DEF Sweep, StagePublic, Publish, vars, command
<1>6. CASE RemoveStage("remove-ca", "remove-pub") \/ RemovePublicStage("remove-pub", "removed")
  BY <1>1, <1>2, <1>6, SameBackups DEF RemoveStage, RemovePublicStage, At
<1> QED
  BY <1>3, <1>4, <1>5, <1>6

LEMMA StepCount ==
  ASSUME JournalAssumption, JournalInv, Counted,
         \/ Validate
         \/ Advance("moved", Steps.active_ca_moved, "install")
         \/ Advance("installed", Steps.new_ca_installed, "publish")
         \/ Advance("publish", Steps.leaf_installed, "remove-restored") /\ Staged = {}
         \/ Advance("removed", Steps.committed, "close")
  PROVE  Counted'
<1> USE DEF Late, Removed, Staging, Completing
<1>1. CASE Validate
  <2>1. /\ pc = "stage-pub" /\ pc' = "move" /\ journal = txn /\ txn \in Txns
        /\ txn' = [txn EXCEPT !.step = Steps.validated] /\ journal' = txn'
        /\ UNCHANGED <<backups, changing, prune, crashes>>
    BY <1>1, TxnFacts DEF Validate, At, JournalInv, Command, Typed
  <2>2. txn'.backup = txn.backup /\ txn'.restoreFrom = txn.restoreFrom /\ txn'.step = 2 /\ txn # NoTxn
    BY <2>1, StepNumbers DEF Txns, JournalInv, Command
  <2>3. Pending' => Pending /\ journal'.step <= Steps.validated
    BY <2>1, <2>2, StepNumbers DEF Pending
  <2> QED
    BY <2>1, <2>2, <2>3, SameBackups
<1>2. ASSUME NEW from \in Late \ {"prune"}, NEW step \in 1 .. 6, NEW to \in Late \ {"prune"},
             Advance(from, step, to), to \in Removed => from \in Removed
      PROVE  Counted'
  <2>1. /\ pc = from /\ pc' = to /\ journal' = txn' /\ txn'.backup = txn.backup
        /\ txn'.restoreFrom = txn.restoreFrom /\ UNCHANGED <<backups, changing, prune, crashes>>
    <3>1. from \in Completing /\ to \in Completing
      OBVIOUS
    <3> HIDE DEF Late, Removed, Staging, Completing
    <3> QED
      BY <1>2, <3>1, AdvanceFacts
  <2>2. journal = txn /\ txn # NoTxn /\ ~Pending
    BY <2>1, MovedAway, InCompletion
  <2>3. ~Pending'
    BY <2>1, <2>2 DEF Pending
  <2> QED
    BY <1>2, <2>1, <2>3, SameBackups
<1> QED
  BY <1>1, <1>2, StepNumbers

LEMMA RecoverCount == ASSUME JournalAssumption, JournalInv, Counted, Recover PROVE Counted'
<1>1. /\ pc = "idle" /\ pc' \in {"sweep", "discard", "move"} /\ changing' = FALSE
      /\ UNCHANGED <<active, backups, stages, public, journal, crashes>>
  BY DEF Recover, disk
<1>2. Names' = Names /\ Pending' = Pending
  BY <1>1 DEF Names, Pending
<1> QED
  BY <1>1, <1>2 DEF Counted, AfterMove, Completing

LEMMA EndCount ==
  ASSUME JournalAssumption, JournalInv, Counted, PruneDone \/ Exit \/ Crash PROVE Counted'
<1> USE DEF Late
<1>1. UNCHANGED disk /\ Names' = Names /\ Pending' = Pending
  BY DEF PruneDone, Exit, Crash, disk, Names, Pending
<1>2. Cardinality(Names) \in Nat /\ crashes \in Nat
  BY CountFacts
<1>3. CASE PruneDone
  <2>1. /\ pc = "prune" /\ pc' = "exit" /\ UNCHANGED <<txn, changing, prune, crashes>>
        /\ \A name \in prune : ~Exists(backups[name])
    BY <1>3 DEF PruneDone, At, Hold
  <2>2. Cardinality(Names) <= 2 + crashes
    <3>1. CASE changing
      <4>1. Names \ Doomed = Names
        BY <2>1, <3>1 DEF Doomed, Names, Counted
      <4> QED
        BY <2>1, <3>1, <4>1 DEF Counted, Adds, Staging
    <3>2. CASE ~changing
      BY <3>2 DEF Counted, AfterMove
    <3> QED
      BY <3>1, <3>2
  <2>3. ~Pending
    BY <2>1, MovedAway
  <2> QED
    BY <1>1, <1>2, <2>1, <2>2, <2>3 DEF Counted, Staging, Completing
<1>4. CASE Exit
  <2>1. pc = "exit" /\ pc' = "idle" /\ changing' = FALSE /\ crashes' = crashes /\ ~Pending
    BY <1>4 DEF Exit, Gone, JournalInv, Command, Resting, Pending
  <2>2. Cardinality(Names) <= 2 + crashes
    BY <2>1 DEF Counted, AfterMove, Completing
  <2> QED
    BY <1>1, <2>1, <2>2, <1>2 DEF Counted, AfterMove
<1>5. CASE Crash
  <2>1. pc' = "idle" /\ changing' = FALSE /\ crashes' = crashes + 1
    BY <1>5 DEF Crash, Gone
  <2>2. Pending => Cardinality(Names) <= 2 + crashes
    BY MovedAway DEF Counted, AfterMove
  <2>3. Cardinality(Names) <= 3 + crashes /\ IsFiniteSet(Names) /\ (Pending => journal.step <= Steps.validated)
    BY DEF Counted
  <2>4. journal' = journal
    BY <1>1 DEF disk
  <2> QED
    BY <1>1, <1>2, <2>1, <2>2, <2>3, <2>4 DEF Counted, AfterMove
<1> QED
  BY <1>3, <1>4, <1>5

LEMMA MoveCount == ASSUME JournalAssumption, JournalInv, Counted, MoveActive PROVE Counted'
<1> USE DEF Late, Removed, Staging
<1>1. /\ pc = "move" /\ pc' = "moved" /\ pc \in Completing
      /\ UNCHANGED <<txn, changing, target, prune, crashes, stages, public, journal>>
  BY DEF MoveActive, At, Hold, Completing
<1>2. journal = txn /\ txn # NoTxn /\ txn \in Txns /\ txn.step \in 2 .. 6
  BY <1>1, InCompletion
<1>3. CASE ~Moves
  BY <1>1, <1>3, SameBackups DEF MoveActive, Pending, Counted, Completing
<1>4. CASE Moves
  <2>1. /\ backups' = [backups EXCEPT ![txn.backup] = active] /\ Exists(active)
        /\ txn.backup \in BackupNames /\ backups \in [BackupNames -> Folders]
    BY <1>2, <1>4 DEF MoveActive, Moves, Txns, Names0, JournalInv, Typed
  <2>2. txn.step = 2 /\ ~Exists(backups[txn.backup])
    BY <1>1, <1>2, <1>4, InCompletion DEF Moves, ActiveMoved, NewInstalled, LeafInstalled, Validated, Unmoved
  <2>3. Names' = Names \cup {txn.backup} /\ txn.backup \notin Names /\ Doomed' = Doomed
    BY <1>1, <2>1, <2>2 DEF Names, Doomed
  <2>4. /\ IsFiniteSet(Names') /\ Cardinality(Names') = Cardinality(Names) + 1
        /\ Cardinality(Names) \in Nat /\ crashes \in Nat
    BY <2>3, CountFacts, FS_AddElement
  <2>5. Pending /\ ~Pending'
    BY <1>1, <1>2, <1>4, <2>1, <2>2 DEF Pending, Moves
  <2>6. Cardinality(Names) <= 2 + crashes
    BY <1>1 DEF Counted, AfterMove
  <2>7. CASE changing
    <3>1. Cardinality(Names \ Doomed) <= 1 + crashes /\ txn.backup \notin Doomed
      BY <1>1, <1>2, <1>4, <2>2, <2>7 DEF Counted, Adds, Moves
    <3>2. Cardinality(Names' \ Doomed') <= 2 + crashes
      <4>1. Names' \ Doomed' = (Names \ Doomed) \cup {txn.backup} /\ txn.backup \notin Names \ Doomed
        BY <2>3, <3>1
      <4>2. IsFiniteSet(Names \ Doomed) /\ Cardinality(Names \ Doomed) \in Nat
        BY CountFacts
      <4>3. \A S, x : IsFiniteSet(S) /\ x \notin S => Cardinality(S \cup {x}) = Cardinality(S) + 1
        BY FS_AddElement
      <4>4. Cardinality(Names' \ Doomed') = Cardinality(Names \ Doomed) + 1
        BY <4>1, <4>2, <4>3
      <4> QED
        BY <2>4, <3>1, <4>2, <4>4
    <3>3. ~Adds' /\ AfterMove'
      BY <1>1, <2>7 DEF Adds, AfterMove, Completing
    <3> QED
      BY <1>1, <2>3, <2>4, <2>5, <2>6, <2>7, <3>1, <3>2, <3>3 DEF Counted
  <2>8. CASE ~changing
    <3>1. Cardinality(Names) <= 1 + crashes
      BY <2>5, <2>8 DEF Counted
    <3> QED
      BY <1>1, <2>4, <2>5, <2>8, <3>1 DEF Counted
  <2> QED
    BY <2>7, <2>8
<1> QED
  BY <1>3, <1>4

(* Steps that remove a backup. *)
LEMMA FewerBackups ==
  ASSUME JournalAssumption, JournalInv, Counted, pc \in Late, Names' \subseteq Names,
         UNCHANGED <<txn, changing, prune, crashes>>, ~Pending', pc' \in Late,
         pc' = "prune" <=> pc = "prune",
         pc' \in Removed => (txn.restoreFrom # NoName => ~Exists(backups'[txn.restoreFrom])),
         changing /\ pc' = "prune" => (txn.restoreFrom # NoName => ~Exists(backups'[txn.restoreFrom]))
  PROVE  Counted'
<1>1. /\ IsFiniteSet(Names') /\ Cardinality(Names') <= Cardinality(Names) /\ Cardinality(Names') \in Nat
      /\ Cardinality(Names) \in Nat /\ crashes \in Nat
  BY CountFacts, FS_Subset, FS_CardinalityType
<1>2. Doomed' = Doomed
  BY DEF Doomed
<1>3. /\ Cardinality(Names' \ Doomed) <= Cardinality(Names \ Doomed)
      /\ Cardinality(Names' \ Doomed) \in Nat /\ Cardinality(Names \ Doomed) \in Nat
  <2>1. Names' \ Doomed \in SUBSET (Names \ Doomed)
    OBVIOUS
  <2> QED
    BY <2>1, CountFacts, FS_Subset, FS_CardinalityType
<1>4. ~Adds'
  BY DEF Adds, Late, Staging, Completing
<1>5. changing => Cardinality(Names' \ Doomed') <= 2 + crashes
  <2>1. changing => Cardinality(Names \ Doomed) <= 2 + crashes
    BY <1>1, <1>3 DEF Counted, Late
  <2> QED
    BY <1>1, <1>2, <1>3, <2>1
<1>6. ~AfterMove' => ~AfterMove
  BY DEF AfterMove, Late
<1>7. changing /\ pc' \in Staging \cup Completing => txn'.backup \notin Doomed'
  BY <1>2 DEF Counted, Late, Completing, Staging
<1>8. Cardinality(Names') <= 3 + crashes /\ (~AfterMove' => Cardinality(Names') <= 2 + crashes)
  BY <1>1, <1>6 DEF Counted
<1>9. changing => Cardinality(Names' \ Doomed') <= (IF Adds' THEN 1 ELSE 2) + crashes
  BY <1>4, <1>5
<1>10. pc' \in Removed \/ (changing /\ pc' = "prune") => (txn'.restoreFrom # NoName => ~Exists(backups'[txn'.restoreFrom]))
  OBVIOUS
<1> QED
  BY <1>1, <1>7, <1>8, <1>9, <1>10 DEF Counted, Removed

LEMMA RemoveCount ==
  ASSUME JournalAssumption, JournalInv, Counted,
         RemoveRestored \/ \E name \in BackupNames : PruneOldest(name)
  PROVE  Counted'
<1>1. backups \in [BackupNames -> Folders]
  BY DEF JournalInv, Typed
<1>2. CASE \E name \in BackupNames : PruneOldest(name)
  <2>0. PICK name \in BackupNames : PruneOldest(name)
    BY <1>2
  <2>1. PICK g \in {Halved(backups[name]), Absent} :
          /\ pc = "prune" /\ backups' = [backups EXCEPT ![name] = g]
          /\ UNCHANGED <<journal, command, crashes>> /\ Exists(backups[name])
    BY <2>0 DEF PruneOldest
  <2>2. Names' \subseteq Names
    BY <1>1, <2>1, AbsentFacts DEF Names
  <2>3. journal = NoTxn
    BY <2>1 DEF JournalInv, Command, Resting
  <2>4. changing => (txn.restoreFrom # NoName => ~Exists(backups'[txn.restoreFrom]))
    BY <1>1, <2>1 DEF Counted
  <2> QED
    BY <2>1, <2>2, <2>3, <2>4, FewerBackups DEF Late, Pending, command, Removed
<1>3. CASE RemoveRestored
  <2>1. /\ pc = "remove-restored" /\ pc' \in {"remove-restored", "remove-ca"} /\ pc \in Completing \ {"move"}
        /\ UNCHANGED <<active, stages, public, journal, txn, changing, target, prune, crashes>>
    BY <1>3 DEF RemoveRestored, At, Hold, Completing
  <2>2. /\ Names' \subseteq Names
        /\ pc' = "remove-ca" => (txn.restoreFrom # NoName => ~Exists(backups'[txn.restoreFrom]))
        /\ \A n \in BackupNames : n # txn.restoreFrom => backups'[n] = backups[n]
    <3>1. CASE txn.restoreFrom = NoName
      BY <1>3, <3>1 DEF RemoveRestored, Names
    <3>2. CASE txn.restoreFrom # NoName
      <4>1. txn.restoreFrom \in BackupNames /\ backups[txn.restoreFrom] \in Folders
        BY <1>1, <2>1, <3>2, InCompletion DEF Txns, Names0
      <4>2. CASE backups' = [backups EXCEPT ![txn.restoreFrom] = Absent]
        BY <1>1, <4>1, <4>2, AbsentFacts DEF Names
      <4>3. CASE /\ pc' = "remove-restored" /\ backups[txn.restoreFrom].whole
                 /\ backups' = [backups EXCEPT ![txn.restoreFrom] = Halved(@)]
        <5>1. Exists(backups[txn.restoreFrom])
          BY <4>1, <4>3, FolderFacts
        <5> QED
          BY <1>1, <4>1, <4>3, <5>1 DEF Names
      <4> QED
        BY <1>3, <3>2, <4>2, <4>3 DEF RemoveRestored, At
    <3> QED
      BY <3>1, <3>2
  <2>3. ~Pending'
    <3>1. ~Pending /\ PutBack /\ journal = txn /\ txn.backup \in Names0
      BY <2>1, MovedAway, InCompletion DEF Late, Txns
    <3> QED
      BY <1>3, <2>1, <2>2, <3>1 DEF Pending, PutBack, RemoveRestored, Names0
  <2> QED
    BY <2>1, <2>2, <2>3, FewerBackups DEF Late, Removed, Completing
<1> QED
  BY <1>2, <1>3

LEMMA BeginCount ==
  ASSUME JournalAssumption, JournalInv, Counted, NEW c \in CAs, NEW r \in Names0, NEW pruned \in SUBSET Names,
         Begin(c, r, pruned), r # NoName => r \in Names,
         IF Exists(active) THEN Cardinality(Names \ (pruned \cup ({r} \ {NoName}))) <= 1 + crashes ELSE TRUE
  PROVE  Counted'
<1>1. /\ pc = "ready" /\ pc' = "mkdir" /\ journal = NoTxn /\ journal' = txn' /\ changing' = TRUE
      /\ prune' = pruned /\ UNCHANGED <<active, backups, stages, crashes>>
  BY DEF Begin, At, JournalInv, Command, Resting
<1>2. /\ txn'.step = Steps.staged /\ txn'.restoreFrom = r
      /\ IF Exists(active) THEN txn'.backup \in BackupNames \ Names ELSE txn'.backup = NoName
  BY <1>1 DEF Begin
<1>3. Names' = Names /\ Doomed' = pruned \cup ({r} \ {NoName}) /\ Doomed' \subseteq Names
  BY <1>1, <1>2 DEF Names, Doomed
<1>4. IsFiniteSet(Names) /\ Cardinality(Names) \in Nat /\ crashes \in Nat /\ NoName \notin Names
  BY CountFacts
<1>5. Cardinality(Names) <= 2 + crashes
  BY <1>1 DEF Counted, AfterMove, Completing
<1>6. Cardinality(Names' \ Doomed') <= Cardinality(Names) /\ Cardinality(Names' \ Doomed') \in Nat
  <2>1. Names' \ Doomed' \in SUBSET Names
    BY <1>3
  <2> QED
    BY <1>4, <2>1, FS_Subset, FS_CardinalityType
<1>7. Cardinality(Names' \ Doomed') <= (IF Adds' THEN 1 ELSE 2) + crashes
  <2>1. CASE Exists(active)
    BY <1>3, <1>4, <1>6, <2>1
  <2>2. CASE ~Exists(active)
    BY <1>2, <1>4, <1>5, <1>6, <2>2 DEF Adds
  <2> QED
    BY <2>1, <2>2
<1>8. txn'.backup \notin Doomed'
  BY <1>2, <1>3, <1>4
<1>9. Pending' => journal'.step <= Steps.validated
  BY <1>1, <1>2, StepNumbers DEF Pending
<1> QED
  BY <1>1, <1>3, <1>4, <1>5, <1>7, <1>8, <1>9 DEF Counted

LEMMA ChangeCount ==
  ASSUME JournalAssumption, JournalInv, Counted,
         (\E c \in CAs : NewCa(c)) \/ \E name \in BackupNames : RestoreCa(name)
  PROVE  Counted'
<1>1. IsFiniteSet(Names) /\ Cardinality(Names) \in Nat /\ crashes \in Nat /\ NoName \notin Names
  BY CountFacts
<1>2. ASSUME NEW c \in CAs, NewCa(c) PROVE Counted'
  <2>1. Begin(c, NoName, Oldest(Excess)) /\ NoName \in Names0
    BY <1>2 DEF NewCa, Names0
  <2>2. Oldest(Excess) \in SUBSET Names /\ Cardinality(Oldest(Excess)) = Excess
    BY <1>1, OldestFacts, ExcessFacts
  <2>3. Names \cap Oldest(Excess) = Oldest(Excess)
    BY <2>2
  <2>4. Cardinality(Names \ Oldest(Excess)) = Cardinality(Names) - Excess
    <3> DEFINE gone == Oldest(Excess)
    <3> HIDE DEF gone
    <3>1. Cardinality(Names \ gone) = Cardinality(Names) - Cardinality(Names \cap gone)
      BY <1>1, FS_Difference
    <3> QED
      BY <2>2, <2>3, <3>1 DEF gone
  <2>5. Oldest(Excess) \cup ({NoName} \ {NoName}) = Oldest(Excess)
    OBVIOUS
  <2>6. IF Exists(active) THEN Cardinality(Names \ (Oldest(Excess) \cup ({NoName} \ {NoName}))) <= 1 + crashes ELSE TRUE
    BY <1>1, <2>4, <2>5, ExcessFacts
  <2> QED
    BY <2>1, <2>2, <2>6, BeginCount
<1>3. ASSUME NEW name \in BackupNames, RestoreCa(name) PROVE Counted'
  <2>1. backups[name].whole /\ Begin(backups[name].ca, name, {}) /\ name \in Names0 /\ pc = "ready"
    BY <1>3 DEF RestoreCa, Begin, At, Names0
  <2>2. backups[name].ca \in CAs /\ name \in Names
    BY <2>1, FolderFacts DEF Names, JournalInv, Typed
  <2>3. Cardinality(Names \ {name}) = Cardinality(Names) - 1
    BY <1>1, <2>2, FS_RemoveElement
  <2>4. Cardinality(Names) <= 2 + crashes
    BY <2>1 DEF Counted, AfterMove, Completing
  <2>5. {} \cup ({name} \ {NoName}) = {name} /\ {} \in SUBSET Names
    BY <1>1, <2>2
  <2>6. IF Exists(active) THEN Cardinality(Names \ ({} \cup ({name} \ {NoName}))) <= 1 + crashes ELSE TRUE
    BY <1>1, <2>3, <2>4, <2>5
  <2> QED
    BY <2>1, <2>2, <2>5, <2>6, BeginCount
<1> QED
  BY <1>2, <1>3

LEMMA NextCounted ==
  ASSUME JournalAssumption, JournalInv, Counted, [Next]_vars PROVE Counted'
<1>1. CASE Recovery
  BY <1>1, RecoverCount, QuietCount DEF Recovery
<1>2. CASE Change
  BY <1>2, ChangeCount, QuietCount, StepCount, RemoveCount, EndCount DEF Change
<1>3. CASE Complete
  BY <1>3, MoveCount, RemoveCount, QuietCount, StepCount DEF Complete
<1>4. CASE Crash \/ UNCHANGED vars
  BY <1>4, EndCount, QuietCount
<1> QED
  BY <1>1, <1>2, <1>3, <1>4 DEF Next

(***************************************************************************)
(* The CA in force, and the change of it as one step.                      *)
(***************************************************************************)
CurrentFacts ==
  /\ Decided <=> journal # NoTxn /\ (journal.step > 2 \/ (journal.step = 2 /\ ~Exists(active)))
  /\ Current = IF Decided THEN New.ca ELSE active.ca
  /\ Current \in Owners /\ active.ca \in Owners
  /\ Decided => Current \in CAs

LEMMA CurrentNow == ASSUME JournalAssumption PROVE JournalInv => CurrentFacts
<1> SUFFICES ASSUME JournalInv PROVE CurrentFacts
  OBVIOUS
<1> USE DEF CurrentFacts
<1> USE StepNumbers
<1>1. active \in Folders /\ active.ca \in Owners /\ (Exists(active) => active.whole) /\ (~Exists(active) => active.ca = NoCa)
  BY FolderFacts, AbsentFacts DEF JournalInv, Typed
<1>2. CASE journal = NoTxn
  BY <1>1, <1>2 DEF Decided, Current, InForce, Exists
<1>3. CASE journal # NoTxn
  <2>1. /\ journal \in Txns /\ journal.step \in 1 .. 6 /\ journal.id \in Ids
        /\ Waiting \in Folders /\ Waiting = stages[journal.id].folder
    <3>1. journal \in Txns /\ journal.step \in 1 .. 6 /\ journal.id \in Ids
      BY <1>3, TxnFacts DEF JournalInv, Typed
    <3> QED
      BY <3>1 DEF JournalInv, Typed, Stages, Waiting
  <2>2. Exists(active) => active.ca \in CAs
    BY <1>1, FolderFacts
  <2>3. CASE journal.step = 1
    BY <1>1, <2>1, <2>3 DEF Decided, Discards, Current, InForce, Exists
  <2>4. CASE journal.step = 2
    <3>1. Validated /\ Waiting.whole /\ Exists(Waiting) /\ Waiting.ca \in CAs
      BY <1>3, <2>1, <2>4, FolderFacts DEF JournalInv, Disk, Validated
    <3>2. Discards(journal) <=> Exists(active)
      BY <2>1, <2>4, <3>1 DEF Discards
    <3> QED
      BY <1>1, <1>3, <2>1, <2>4, <3>1, <3>2 DEF Decided, Current, InForce, New, Owners, Exists
  <2>5. CASE journal.step > 2
    <3>1. New \in Folders /\ New.whole /\ Exists(New) /\ New.ca \in CAs
      <4>1. New \in Folders
        BY <1>1, <2>1 DEF New
      <4>2. CASE journal.step = 3
        BY <1>3, <4>1, <4>2, FolderFacts DEF JournalInv, Disk, ActiveMoved
      <4>3. CASE journal.step \in {4, 5, 6}
        <5>1. ~Exists(Waiting) /\ Exists(active)
          BY <1>3, <4>3 DEF JournalInv, Disk, NewInstalled, LeafInstalled
        <5> QED
          BY <1>1, <2>2, <5>1 DEF New
      <4> QED
        BY <2>1, <2>5, <4>2, <4>3
    <3>2. ~Discards(journal)
      BY <2>5 DEF Discards
    <3> QED
      BY <1>1, <1>3, <2>5, <3>1, <3>2 DEF Decided, Current, InForce, New, Owners
  <2> QED
    BY <2>1, <2>3, <2>4, <2>5
<1> QED
  BY <1>2, <1>3

LEMMA CurrentIs == ASSUME JournalAssumption, JournalInv PROVE CurrentFacts
  BY CurrentNow

LEMMA CurrentNext == ASSUME JournalAssumption, JournalInv' PROVE CurrentFacts'
<1>1. JournalInv' => CurrentFacts'
  BY CurrentNow, PTL
<1> QED
  BY <1>1

LEMMA DecidedLater ==
  ASSUME JournalAssumption, JournalInv, pc \in Completing \ {"move"} PROVE Decided /\ Current = New.ca
<1>1. journal # NoTxn /\ journal = txn /\ journal.step \in 2 .. 6
  BY InCompletion
<1>2. journal.step > 2 \/ ~Exists(active)
  BY <1>1, StepNumbers DEF JournalInv, Command
<1> QED
  BY <1>1, <1>2, CurrentIs DEF CurrentFacts

(* Whoever the leaf is of, the certificate before it is of the same. *)
LEMMA PublicInOrder == ASSUME JournalAssumption, JournalInv PROVE PublicFollows /\ LeafLast
<1> USE StepNumbers
<1>1. PublicFollows
  BY DEF PublicFollows, JournalInv, Disk, PublicOf
<1>2. ASSUME NEW f \in PublicFiles, NEW g \in PublicFiles, f < g, public[g] # NoCa, public[g] = Current
      PROVE  public[f] = Current
  <2>1. CASE PublicOf(active.ca)
    BY <1>2, <2>1 DEF PublicOf
  <2>2. CASE Decided /\ Moved
    BY <1>2, <2>2, CurrentIs DEF CurrentFacts, Moved, PublicOf
  <2>3. CASE Decided /\ NewInstalled
    <3>1. Current = active.ca
      BY <2>3, CurrentIs DEF CurrentFacts, NewInstalled, New
    <3> QED
      BY <1>2, <2>3, <3>1 DEF NewInstalled
  <2>4. journal # NoTxn => journal.step \in 1 .. 6
    BY TxnFacts DEF JournalInv, Typed
  <2>5. PublicOf(active.ca) \/ (Decided /\ Moved) \/ (Decided /\ NewInstalled)
    <3>1. CASE journal = NoTxn \/ journal.step \in {1, 5, 6}
      BY <3>1 DEF JournalInv, Disk, Unmoved, LeafInstalled
    <3>2. CASE journal # NoTxn /\ journal.step = 2
      BY <3>2, CurrentIs DEF CurrentFacts, JournalInv, Disk, Validated, Unmoved
    <3>3. CASE journal # NoTxn /\ journal.step \in {3, 4}
      BY <3>3, CurrentIs DEF CurrentFacts, JournalInv, Disk, ActiveMoved
    <3> QED
      BY <2>4, <3>1, <3>2, <3>3
  <2> QED
    BY <2>1, <2>2, <2>3, <2>5
<1> QED
  BY <1>1, <1>2 DEF LeafLast

(* Backups unchanged and the CA in force too: nothing happened. *)
Whole == {backups[n].ca : n \in {name \in BackupNames : backups[name].whole}}
LEMMA Stutter ==
  ASSUME UNCHANGED <<backups, Current>> PROVE UNCHANGED <<Current, Kept>>
  BY DEF Kept

LEMMA WholeOwners == ASSUME JournalAssumption, JournalInv PROVE Whole \subseteq CAs /\ Kept = Whole \ {Current}
<1>1. \A n \in BackupNames : backups[n].whole => backups[n].ca \in CAs
  BY FolderFacts DEF JournalInv, Typed
<1> QED
  BY <1>1 DEF Whole, Kept

(* A CA that comes into force is new or was kept. *)
LEMMA Switch ==
  ASSUME JournalAssumption, NEW c \in CAs, c # Current, Current' = c,
         Kept' = (Kept \cup ({Current} \ {NoCa})) \ {c}
  PROVE  Promised!Next
<1>1. CASE c \in Kept
  <2>1. Promised!RestoreCa(c)
    BY <1>1 DEF Promised!RestoreCa, Promised!Replaced
  <2> QED
    BY <2>1 DEF Promised!Next
<1>2. CASE c \notin Kept
  <2>1. Promised!NewCa(c)
    BY <1>2 DEF Promised!NewCa, Promised!Replaced
  <2> QED
    BY <2>1 DEF Promised!Next
<1> QED
  BY <1>1, <1>2

(* Steps of a command that leave the CA in force, and the kept ones, alone. *)
LEMMA DiskSame == ASSUME UNCHANGED disk PROVE UNCHANGED <<Current, Kept>>
  BY DEF disk, Current, InForce, Decided, Discards, Waiting, Kept

LEMMA Undecided ==
  ASSUME JournalAssumption, JournalInv, JournalInv', ~Decided, ~Decided', UNCHANGED <<active, backups>>
  PROVE  UNCHANGED <<Current, Kept>>
<1>1. Current = active.ca /\ Current' = active'.ca
  BY CurrentIs, CurrentNext DEF CurrentFacts
<1> QED
  BY <1>1, Stutter

LEMMA StillDecided ==
  ASSUME JournalAssumption, JournalInv, JournalInv', Decided, Decided', New' = New, UNCHANGED backups
  PROVE  UNCHANGED <<Current, Kept>>
<1>1. Current = New.ca /\ Current' = New'.ca
  BY CurrentIs, CurrentNext DEF CurrentFacts
<1> QED
  BY <1>1, Stutter

LEMMA QuietChange ==
  ASSUME JournalAssumption, JournalInv, JournalInv',
         \/ Recover \/ SweepDone \/ End \/ PruneDone \/ Exit \/ Crash \/ StageFails \/ UNCHANGED vars
         \/ DiscardJournal \/ RemoveStage("discard-ca", "discard-pub")
         \/ RemovePublicStage("discard-pub", IF changing THEN "exit" ELSE "ready")
         \/ StageFolders \/ StageCa
         \/ \E id \in Ids : Sweep(id)
         \/ \E f \in PublicFiles : StagePublic(f)
         \/ \E c \in CAs : NewCa(c)
         \/ \E name \in BackupNames : RestoreCa(name)
  PROVE  UNCHANGED <<Current, Kept>>
<1> USE StepNumbers
<1>1. CASE Recover \/ SweepDone \/ End \/ PruneDone \/ Exit \/ Crash \/ StageFails \/ UNCHANGED vars
  <2>1. UNCHANGED disk
    BY <1>1 DEF Recover, SweepDone, End, PruneDone, Exit, Crash, StageFails, vars
  <2> QED
    BY <2>1, DiskSame
<1>2. CASE DiscardJournal
  <2>1. pc = "discard" /\ journal' = NoTxn /\ UNCHANGED <<active, backups>>
    BY <1>2 DEF DiscardJournal, At
  <2>2. ~Decided /\ ~Decided'
    BY <2>1 DEF JournalInv, Command, Decided
  <2> QED
    BY <2>1, <2>2, Undecided
<1>3. CASE \/ RemoveStage("discard-ca", "discard-pub")
           \/ RemovePublicStage("discard-pub", IF changing THEN "exit" ELSE "ready")
           \/ \E id \in Ids : Sweep(id)
  <2>1. pc \in {"discard-ca", "discard-pub", "sweep"} /\ UNCHANGED <<active, backups, journal>>
    BY <1>3 DEF RemoveStage, RemovePublicStage, At, Sweep
  <2>2. journal = NoTxn
    BY <2>1 DEF JournalInv, Command, Resting, Discarding
  <2> QED
    BY <2>1, <2>2, Undecided DEF Decided
<1>4. CASE StageFolders \/ StageCa \/ \E f \in PublicFiles : StagePublic(f)
  <2>1. pc \in Staging /\ UNCHANGED <<active, backups, journal>>
    BY <1>4 DEF StageFolders, StageCa, StagePublic, At, Staging
  <2>2. journal.step = 1 /\ journal'.step = 1
    BY <2>1 DEF JournalInv, Command, Staged1
  <2> QED
    BY <2>1, <2>2, CurrentIs, CurrentNext, Undecided DEF CurrentFacts
<1>5. CASE (\E c \in CAs : NewCa(c)) \/ \E name \in BackupNames : RestoreCa(name)
  <2>1. pc = "ready" /\ journal'.step = 1 /\ UNCHANGED <<active, backups>>
    BY <1>5 DEF NewCa, RestoreCa, Begin, At
  <2>2. journal = NoTxn
    BY <2>1 DEF JournalInv, Command, Resting
  <2> QED
    BY <2>1, <2>2, CurrentIs, CurrentNext, Undecided DEF CurrentFacts, Decided
<1> QED
  BY <1>1, <1>2, <1>3, <1>4, <1>5

LEMMA QuietCompletion ==
  ASSUME JournalAssumption, JournalInv, JournalInv',
         \/ Advance("moved", Steps.active_ca_moved, "install")
         \/ Advance("installed", Steps.new_ca_installed, "publish")
         \/ Advance("publish", Steps.leaf_installed, "remove-restored") /\ Staged = {}
         \/ Advance("removed", Steps.committed, "close")
         \/ Install \/ \E f \in PublicFiles : Publish(f)
         \/ RemoveStage("remove-ca", "remove-pub") \/ RemovePublicStage("remove-pub", "removed")
  PROVE  UNCHANGED <<Current, Kept>>
<1> USE StepNumbers
<1>1. pc \in Completing \ {"move"} /\ UNCHANGED backups
  BY DEF Advance, Install, Publish, RemoveStage, RemovePublicStage, At, Completing
<1>2. journal = txn /\ journal # NoTxn /\ txn \in Txns /\ txn.step \in 2 .. 6 /\ Waiting = Stage.folder
  BY <1>1, InCompletion
<1>3. Decided
  BY <1>1, DecidedLater
<1>4. ASSUME NEW from \in Completing, NEW step \in 1 .. 6, NEW to \in Completing, Advance(from, step, to)
      PROVE  UNCHANGED <<Current, Kept>>
  <2>1. journal' = txn' /\ txn'.step >= txn.step /\ txn' # NoTxn /\ New' = New /\ active' = active
    BY <1>2, <1>4, AdvanceFacts
  <2>2. Decided'
    <3>1. journal'.step > 2 \/ (journal'.step = 2 /\ ~Exists(active)')
      BY <1>2, <1>3, <1>4, <2>1, AdvanceFacts, CurrentIs, CurrentNext DEF CurrentFacts
    <3> QED
      BY <2>1, <3>1, CurrentIs, CurrentNext DEF CurrentFacts
  <2> QED
    BY <1>1, <1>3, <2>1, <2>2, StillDecided
<1>5. CASE Install
  <2>1. journal' = journal /\ txn.step > 2 /\ pc = "install" /\ txn.id \in Ids
    BY <1>1, <1>5, InCompletion DEF Install, At, JournalInv, Command
  <2>2. Decided'
    BY <1>2, <2>1, CurrentIs, CurrentNext DEF CurrentFacts
  <2>3. New' = New
    <3>1. CASE Exists(Stage.folder) /\ ~Exists(active)
      <4>1. active' = Stage.folder /\ stages'[txn.id].folder = Absent
        <5>1. stages \in [Ids -> Stages] /\ Stage = stages[txn.id] /\ Stage \in Stages
          BY <1>1, InCompletion DEF JournalInv, Typed, Stage
        <5>2. [Stage EXCEPT !.folder = Absent].folder = Absent
          BY <5>1 DEF Stages
        <5> QED
          BY <1>5, <2>1, <3>1, <5>1, <5>2 DEF Install, Write
      <4> QED
        BY <1>2, <2>1, <3>1, <4>1, AbsentFacts DEF New, Waiting
    <3>2. CASE ~(Exists(Stage.folder) /\ ~Exists(active))
      BY <1>5, <2>1, <3>2 DEF Install, New, Waiting
    <3> QED
      BY <3>1, <3>2
  <2> QED
    BY <1>1, <1>3, <2>2, <2>3, StillDecided
<1>6. CASE \E f \in PublicFiles : Publish(f)
  <2>1. pc = "publish" /\ UNCHANGED <<active, journal>>
    BY <1>6 DEF Publish
  <2>2. journal.step > 3
    BY <1>2, <2>1 DEF JournalInv, Command, Completing
  <2>3. New = active /\ New' = active'
    BY <1>2, <2>1, <2>2 DEF JournalInv, Disk, NewInstalled, LeafInstalled, New
  <2> QED
    BY <1>1, <1>2, <1>3, <2>1, <2>2, <2>3, CurrentIs, CurrentNext, StillDecided DEF CurrentFacts
<1>7. CASE RemoveStage("remove-ca", "remove-pub") \/ RemovePublicStage("remove-pub", "removed")
  <2>1. pc \in {"remove-ca", "remove-pub"} /\ UNCHANGED <<active, journal>>
    BY <1>7 DEF RemoveStage, RemovePublicStage, At
  <2>2. journal.step > 4
    BY <1>2, <2>1 DEF JournalInv, Command
  <2>3. New = active /\ New' = active'
    BY <1>2, <2>1, <2>2 DEF JournalInv, Disk, LeafInstalled, New
  <2> QED
    BY <1>1, <1>2, <1>3, <2>1, <2>2, <2>3, CurrentIs, CurrentNext, StillDecided DEF CurrentFacts
<1> QED
  BY <1>4, <1>5, <1>6, <1>7 DEF Completing

LEMMA CloseChange ==
  ASSUME JournalAssumption, JournalInv, JournalInv', Close PROVE UNCHANGED <<Current, Kept>>
<1> USE StepNumbers
<1>1. pc = "close" /\ pc \in Completing \ {"move"} /\ journal' = NoTxn /\ UNCHANGED <<active, backups>>
  BY DEF Close, At, Completing
<1>2. Current = New.ca /\ LeafInstalled
  <2>1. txn.step > 4
    BY <1>1 DEF JournalInv, Command
  <2> QED
    BY <1>1, <2>1, InCompletion, DecidedLater
<1>3. Current' = active'.ca
  BY <1>1, CurrentNext DEF CurrentFacts
<1> QED
  BY <1>1, <1>2, <1>3, Stutter DEF LeafInstalled, New

LEMMA RestoredChange ==
  ASSUME JournalAssumption, JournalInv, JournalInv', RemoveRestored PROVE UNCHANGED <<Current, Kept>>
<1> USE StepNumbers
<1>1. /\ pc = "remove-restored" /\ pc \in Completing \ {"move"}
      /\ UNCHANGED <<active, stages, journal>>
  BY DEF RemoveRestored, At, Completing
<1>2. /\ journal = txn /\ txn \in Txns /\ txn # NoTxn /\ txn.step \in {5, 6} /\ PutBack
      /\ Decided /\ Current = New.ca
  <2>1. txn.step > 4
    BY <1>1 DEF JournalInv, Command
  <2> QED
    BY <1>1, <2>1, InCompletion, DecidedLater
<1>3. Decided' /\ Current' = Current
  <2>1. Decided'
    BY <1>1, <1>2, CurrentNext DEF CurrentFacts
  <2>2. New' = New
    BY <1>1 DEF New, Waiting
  <2> QED
    BY <1>2, <2>1, <2>2, CurrentNext DEF CurrentFacts
<1>4. Kept' = Kept
  <2>1. CASE txn.restoreFrom = NoName
    BY <1>3, <2>1 DEF RemoveRestored, Kept
  <2>2. CASE txn.restoreFrom # NoName
    <3>1. /\ txn.restoreFrom \in BackupNames /\ backups \in [BackupNames -> Folders]
          /\ backups[txn.restoreFrom] \in Folders
      BY <1>2, <2>2 DEF JournalInv, Typed, Txns, Names0
    <3>2. PICK g \in {Halved(backups[txn.restoreFrom]), Absent} : backups' = [backups EXCEPT ![txn.restoreFrom] = g]
      BY <2>2 DEF RemoveRestored
    <3>3. /\ ~backups'[txn.restoreFrom].whole
          /\ \A n \in BackupNames : n # txn.restoreFrom => backups'[n] = backups[n]
      BY <3>1, <3>2, FolderFacts, AbsentFacts
    <3>4. backups[txn.restoreFrom].whole => backups[txn.restoreFrom].ca = Current
      <4>1. backups[txn.restoreFrom].ca \in {Current, NoCa}
        BY <1>2, <2>2 DEF PutBack
      <4>2. backups[txn.restoreFrom].whole => backups[txn.restoreFrom].ca # NoCa
        BY <3>1, FolderFacts DEF Exists
      <4> QED
        BY <4>1, <4>2
    <3> QED
      BY <1>3, <3>1, <3>3, <3>4 DEF Kept
  <2> QED
    BY <2>1, <2>2
<1> QED
  BY <1>3, <1>4

LEMMA PruneChange ==
  ASSUME JournalAssumption, JournalInv, JournalInv', NEW name \in BackupNames, PruneOldest(name)
  PROVE  [Promised!Next]_<<Current, Kept>>
<1>1. pc = "prune" /\ UNCHANGED <<active, journal>>
  BY DEF PruneOldest
<1>2. journal = NoTxn
  BY <1>1 DEF JournalInv, Command, Resting
<1>3. Current' = Current
  BY <1>1, <1>2, CurrentIs, CurrentNext DEF CurrentFacts
<1>4. PICK g \in {Halved(backups[name]), Absent} : backups' = [backups EXCEPT ![name] = g]
  BY DEF PruneOldest
<1>5. /\ ~backups'[name].whole
      /\ \A n \in BackupNames : n # name => backups'[n] = backups[n]
  <2>1. backups \in [BackupNames -> Folders] /\ backups[name] \in Folders
    BY DEF JournalInv, Typed
  <2> QED
    BY <1>4, <2>1, FolderFacts, AbsentFacts
<1> DEFINE c == backups[name].ca
<1>6. CASE Kept' = Kept
  BY <1>3, <1>6
<1>7. CASE Kept' # Kept
  <2>1. Kept' \subseteq Kept /\ Kept \subseteq Kept' \cup {c}
    BY <1>3, <1>5 DEF Kept
  <2>2. c \in Kept /\ Kept' = Kept \ {c}
    BY <1>7, <2>1
  <2>3. c \in CAs
    BY <2>2, WholeOwners
  <2>4. Promised!Prune(c)
    BY <1>3, <2>2 DEF Promised!Prune
  <2> QED
    BY <2>3, <2>4 DEF Promised!Next
<1> QED
  BY <1>6, <1>7

LEMMA ValidateChange ==
  ASSUME JournalAssumption, JournalInv, JournalInv', Validate PROVE [Promised!Next]_<<Current, Kept>>
<1> USE StepNumbers
<1>1. /\ pc = "stage-pub" /\ journal = txn /\ Staged1 /\ Stage.folder.whole
      /\ journal' = txn' /\ txn' = [txn EXCEPT !.step = Steps.validated] /\ UNCHANGED <<active, backups, stages>>
  BY DEF Validate, At, JournalInv, Command, Staging
<1>2. txn \in Txns /\ txn # NoTxn /\ txn.step = 1
  BY <1>1, TxnFacts DEF JournalInv, Command, Typed, Staging, Staged1
<1>3. journal'.step = 2 /\ journal' # NoTxn /\ journal'.id = txn.id
  BY <1>1, <1>2 DEF Txns, NoTxn
<1>4. ~Decided /\ Current = active.ca
  BY <1>1, <1>2, CurrentIs DEF CurrentFacts
<1>5. CASE Exists(active)
  <2>1. ~Decided'
    BY <1>1, <1>3, <1>5, CurrentNext DEF CurrentFacts
  <2> QED
    BY <1>1, <1>4, <2>1, Undecided
<1>6. CASE ~Exists(active)
  <2>1. Decided' /\ Current' = New'.ca
    BY <1>1, <1>3, <1>6, CurrentNext DEF CurrentFacts
  <2>2. Stage.folder \in Folders /\ Exists(Stage.folder) /\ Stage.folder.ca \in CAs
    BY <1>2, <1>1, StageTyped, FolderFacts DEF Stages
  <2>3. New' = Stage.folder
    BY <1>1, <1>3, <2>2 DEF New, Waiting, Stage
  <2>4. Current = NoCa /\ Current' # Current /\ Current' \in CAs
    BY <1>4, <1>6, <2>1, <2>2, <2>3 DEF Exists
  <2>5. Kept' = (Kept \cup ({Current} \ {NoCa})) \ {Current'}
    <3>1. Whole \subseteq CAs /\ Kept = Whole \ {Current} /\ Kept' = Whole \ {Current'}
      BY <1>1, WholeOwners DEF Kept, Whole
    <3>2. Kept = Whole
      BY <2>4, <3>1 DEF JournalAssumption
    <3> QED
      BY <2>4, <3>1, <3>2
  <2> QED
    BY <2>4, <2>5, Switch
<1> QED
  BY <1>5, <1>6

(* The one step that replaces a CA.                                        *)
LEMMA MoveChange ==
  ASSUME JournalAssumption, JournalInv, JournalInv', MoveActive PROVE [Promised!Next]_<<Current, Kept>>
<1> USE StepNumbers
<1>1. pc = "move" /\ pc \in Completing /\ UNCHANGED <<txn, stages, journal>>
  BY DEF MoveActive, At, Hold, Completing
<1>2. journal = txn /\ txn # NoTxn /\ txn \in Txns /\ txn.step \in 2 .. 6 /\ Waiting = Stage.folder
  BY <1>1, InCompletion
<1>3. CASE ~Moves
  <2>1. UNCHANGED disk
    BY <1>1, <1>3 DEF MoveActive, At, Hold, disk
  <2> QED
    BY <2>1, DiskSame
<1>4. CASE Moves
  <2>1. /\ active' = Absent /\ backups' = [backups EXCEPT ![txn.backup] = active] /\ Exists(active)
        /\ txn.backup \in BackupNames /\ backups \in [BackupNames -> Folders] /\ Exists(Waiting)
    BY <1>2, <1>4 DEF MoveActive, Moves, Txns, Names0, JournalInv, Typed
  <2>2. txn.step = 2 /\ ~Exists(backups[txn.backup]) /\ active.ca # Waiting.ca
    BY <1>1, <1>2, <2>1, <1>4, InCompletion
      DEF Moves, ActiveMoved, NewInstalled, LeafInstalled, Validated, Unmoved
  <2>3. ~Decided /\ Current = active.ca
    BY <1>2, <2>1, <2>2, CurrentIs DEF CurrentFacts
  <2>4. Decided' /\ Current' = Waiting.ca /\ Current' \in CAs
    <3>1. Decided' /\ Current' = New'.ca /\ Current' \in CAs
      BY <1>1, <1>2, <2>1, <2>2, AbsentFacts, CurrentNext DEF CurrentFacts
    <3>2. New' = Waiting
      BY <1>1, <2>1 DEF New, Waiting
    <3> QED
      BY <3>1, <3>2
  <2>5. /\ active.whole /\ active.ca \in CAs /\ active.ca # NoCa
        /\ ~backups[txn.backup].whole
    BY <2>1, <2>2, FolderFacts DEF JournalInv, Typed, Exists
  <2>6. Whole' = Whole \cup {active.ca}
    <3>1. backups'[txn.backup] = active /\ \A n \in BackupNames : n # txn.backup => backups'[n] = backups[n]
      BY <2>1
    <3>2. Whole' \subseteq Whole \cup {active.ca}
      BY <3>1 DEF Whole
    <3>3. active.ca \in Whole'
      BY <2>1, <2>5, <3>1 DEF Whole
    <3>4. Whole \subseteq Whole'
      BY <2>5, <3>1 DEF Whole
    <3> QED
      BY <3>2, <3>3, <3>4
  <2>7. Kept' = (Kept \cup ({Current} \ {NoCa})) \ {Current'}
    <3>1. Kept = Whole \ {Current} /\ Kept' = Whole' \ {Current'}
      BY DEF Kept, Whole
    <3> QED
      BY <2>2, <2>3, <2>4, <2>5, <2>6, <3>1
  <2> QED
    BY <2>2, <2>3, <2>4, <2>7, Switch
<1> QED
  BY <1>3, <1>4

LEMMA NextChange ==
  ASSUME JournalAssumption, JournalInv, JournalInv', [Next]_vars PROVE [Promised!Next]_<<Current, Kept>>
<1>1. CASE Recovery \/ Crash \/ UNCHANGED vars
  BY <1>1, QuietChange DEF Recovery, Discard
<1>2. CASE Change
  BY <1>2, QuietChange, ValidateChange, PruneChange DEF Change
<1>3. CASE Complete
  BY <1>3, QuietCompletion, CloseChange, RestoredChange, MoveChange DEF Complete
<1> QED
  BY <1>1, <1>2, <1>3 DEF Next

(***************************************************************************)
(* What holds in every behaviour.                                          *)
(***************************************************************************)
LEMMA Journalled ==
  ASSUME JournalAssumption PROVE Spec => [](JournalInv /\ Counted)
<1>1. Init => JournalInv /\ Counted
  BY InitJournal, InitCounted
<1>2. JournalInv /\ Counted /\ [Next]_vars => JournalInv' /\ Counted'
  BY NextJournal, NextCounted DEF Counted
<1> QED
  BY <1>1, <1>2, PTL DEF Spec

(* With no change pending every public file is of the CA in ca/, whatever  *)
(* commands were killed and wherever: what is served is never of a CA      *)
(* whose key is gone (journal.ts:95-100).                                  *)
THEOREM PublicFilesFollow == ASSUME JournalAssumption PROVE Spec => []PublicFollows
<1>1. JournalInv /\ Counted => PublicFollows
  BY PublicInOrder
<1> QED
  BY <1>1, Journalled, PTL

(* The serving bundle is never of a CA that ca.crt does not show, not even *)
(* half-way through an installation (journal.ts:51, 138-142).              *)
THEOREM LeafComesLast == ASSUME JournalAssumption PROVE Spec => []LeafLast
<1>1. JournalInv /\ Counted => LeafLast
  BY PublicInOrder
<1> QED
  BY <1>1, Journalled, PTL

(* Between commands there are two backups at most, and one more for each   *)
(* command that was killed before it pruned (cli/cmd-ca.ts:92-96).         *)
THEOREM BackupsStayFew == ASSUME JournalAssumption PROVE Spec => []BackupsBounded
<1>1. JournalInv /\ Counted => BackupsBounded
  BY DEF Counted, BackupsBounded, AfterMove, Completing
<1> QED
  BY <1>1, Journalled, PTL

(* The journalled transaction, with its kills and recoveries, implements   *)
(* the change of the CA as one step: it happens at once or not at all, and *)
(* no CA is lost but a pruned one (journal.ts:158-163).                    *)
THEOREM ChangeIsAtomic == ASSUME JournalAssumption PROVE Spec => AtomicChange
<1>1. Init => Promised!Init
  <2> SUFFICES ASSUME Init PROVE Promised!Init
    OBVIOUS
  <2>1. JournalInv /\ journal = NoTxn /\ active.ca = NoCa /\ ~Decided
    BY InitJournal, AbsentFacts DEF Init, Decided
  <2>2. Current = NoCa
    BY <2>1, CurrentIs DEF CurrentFacts
  <2>3. Kept = {}
    BY AbsentFacts DEF Init, Kept
  <2> QED
    BY <2>2, <2>3 DEF Promised!Init
<1>2. (JournalInv /\ Counted) /\ (JournalInv /\ Counted)' /\ [Next]_vars => [Promised!Next]_<<Current, Kept>>
  BY NextChange
<1> QED
  BY <1>1, <1>2, Journalled, PTL DEF Spec, AtomicChange, Promised!Spec
=============================================================================
