----------------------------- MODULE MCCrashes -----------------------------
(* What stops half-way, for TLC: each behaviour is of one part, chosen at the *)
(* start, either the process of the server or the commands that change the    *)
(* CA.  A server that is not there has ended; a journal that is not there     *)
(* stays as it is.                                                            *)
EXTENDS ServerProcess

CONSTANTS CAs, NoCa, BackupNames, Ids, MaxCrashes

VARIABLES part, active, backups, stages, public, journal, step, txn, changing, target, prune, crashes

ca == <<active, backups, stages, public, journal, step, txn, changing, target, prune, crashes>>

\* CaJournal, with its theorems.
Journal == INSTANCE CaJournalProofs WITH pc <- step
ASSUME Journal!JournalAssumption

NoServer ==
  /\ role = "server" /\ pc = "ended" /\ parts = {} /\ waitsFor = {} /\ db = "none"
  /\ inFlight = {} /\ orphans = [p \in Plugins |-> 0] /\ reported = {}
  /\ requests = 0 /\ delivering = FALSE
  /\ shuttingDown = FALSE /\ failing = FALSE /\ drained = TRUE /\ code = 0

CrashesInit ==
  /\ Journal!Init
  /\ \/ part = "server" /\ Init
     \/ part = "journal" /\ NoServer

CrashesNext ==
  \/ part = "server" /\ Next /\ UNCHANGED <<part, ca>>
  \/ part = "journal" /\ Journal!Next /\ UNCHANGED <<part, vars>>

CommandsGoOn ==
  /\ part = "journal" /\ (Journal!Recovery \/ Journal!Change \/ Journal!Complete)
  /\ UNCHANGED <<part, vars>>

CrashesSpec ==
  /\ CrashesInit /\ [][CrashesNext]_<<part, vars, ca>>
  /\ Fairness /\ WF_<<part, vars, ca>>(CommandsGoOn)

(* The properties of the journal: see CaJournal. *)
PublicFollows == Journal!PublicFollows /\ Journal!LeafLast
BackupsBounded == Journal!BackupsBounded
AtomicChange == Journal!AtomicChange
TidiedAgain == Journal!TidiedAgain
=============================================================================
