------------------------------- MODULE MCTls -------------------------------
(* The parts of the certificate side for TLC, one beside the other: each      *)
(* behaviour is of one part, chosen at the start.  The lock keeps variables   *)
(* of its own; of the others only one is there, and they use the same ones.   *)
EXTENDS TlsLock, Sequences, TLC

CONSTANTS p1, p2, p3

VARIABLES part, c1, c2, c3, c4, c5, c6, c7, c8, c9, c10, c11, c12, c13, c14, c15, c16, c17

cells == <<c1, c2, c3, c4, c5, c6, c7, c8, c9, c10, c11, c12, c13, c14, c15, c16, c17>>

(* TlsLock: three commands, one of which may be in a container of its own;    *)
(* p1 and p2 are alike.                                                       *)
ThreeCommands == {p1, p2, p3}
Together == [p \in ThreeCommands |-> "host"]
OneOrTwoHosts == {Together, [Together EXCEPT ![p3] = "box"]}
OnlyLinks == {TRUE}
FewFaults == {[deaths |-> 2, stalls |-> 1, jumps |-> 1]}
Alike == Permutations({p1, p2})
ASSUME LockingAssumption == LockAssumption

(* TlsRenew: a few kinds of accident at a time. *)
Accident(kills, steps, boots, addresses, losses, forced) ==
  [kills |-> kills, steps |-> steps, boots |-> boots, addresses |-> addresses,
   losses |-> losses, forced |-> forced, unwritten |-> losses > 0]
Accidents == {Accident(1, 2, 0, 0, 0, 0), Accident(0, 2, 1, 0, 0, 0), Accident(1, 1, 0, 1, 0, 0),
              Accident(0, 1, 0, 0, 1, 0), Accident(0, 2, 0, 0, 0, 1)}

(* TlsReload: one that expires, one for later of the same rank, a poor one.   *)
Cert(rank, from, to, key) == [rank |-> rank, from |-> from, to |-> to, key |-> key]
Leaves == <<Cert(3, 0, 5, 1), Cert(3, 4, 20, 2), Cert(2, 0, 2, 2)>>

(* Inspect: a leaf, an intermediate, a root and what came before it, with at  *)
(* most two things odd.                                                       *)
Certificate(subject, k, issuer, signer, isCa) ==
  [subject |-> subject, key |-> k, issuer |-> issuer, signer |-> signer, ca |-> isCa,
   from |-> 0, to |-> 4, pathLength |-> None, forbids |-> FALSE, covers |-> TRUE, serverAuth |-> TRUE]
Plain ==
  [leaf |-> Certificate("l", "kl", "i", "ki", FALSE),
   int |-> Certificate("i", "ki", "r", "kr", TRUE),     \* by the root
   cross |-> Certificate("i", "ki", "r", "kx", TRUE),   \* by the one before it, of the same name
   root |-> Certificate("r", "kr", "r", "kr", TRUE),
   old |-> Certificate("r", "kx", "r", "kx", TRUE),
   roll |-> Certificate("r", "kr", "r", "kx", TRUE)]    \* the root, signed by the one before it
Oddities == [from : {1}] \cup [to : {2}] \cup [pathLength : {0}] \cup [forbids : {TRUE}] \cup [ca : {FALSE}]
LeafOddities == Oddities \cup [covers : {FALSE}] \cup [serverAuth : {FALSE}]
Odd(some, c, oddity) ==
  [some EXCEPT ![c] = [f \in DOMAIN @ |-> IF f \in DOMAIN oddity THEN oddity[f] ELSE @[f]]]
LeafKinds == {[Plain EXCEPT !.leaf = l] :
  l \in {Certificate("l", "kl", "i", "ki", FALSE), Certificate("l", "kl", "r", "kr", FALSE),
         Certificate("l", "kl", "l", "kl", FALSE)}}
Cas == {"int", "cross", "root", "old", "roll"}

SomeWorlds == LeafKinds \cup {Odd(w, "leaf", o) : w \in LeafKinds, o \in LeafOddities}
                \cup {Odd(w, c, o) : w \in LeafKinds, c \in {"int", "root"}, o \in Oddities}
                \cup {Odd(Odd(Plain, "int", o), "root", q) : o \in Oddities, q \in Oddities}
UpToFour == {<<"leaf">>} \cup {<<"leaf", a>> : a \in Cas} \cup {<<"leaf", a, b>> : a \in Cas, b \in Cas}
              \cup {<<"leaf", "int", "roll", "old">>}
UpToTwo == {<<>>} \cup {<<a>> : a \in Cas \cup {"leaf"}} \cup {<<a, b>> : a \in Cas, b \in Cas}

(* The parts CertificateProofs is about: TlsMode, CaScope, TlsReload,         *)
(* TlsRenew and Inspect.                                                      *)
Certs == INSTANCE CertificateProofs WITH
  MaxCommands <- 3, MaxAccidents <- 3,
  operator <- c1, container <- c2, flag <- c3, state <- c4, ca <- c5, cert <- c6, db <- c7,
  marker <- c8, server <- c9, ready <- c10, pc <- c11, command <- c12, commands <- c13,
  accidents <- c14, mayHttp <- c15, held <- c16,
  Local <- <<"local">>, Localhost <- <<"localhost">>, Hosts <- {<<"pi">>, <<"io">>},
  Settings <- {[dns |-> {}, ip |-> {}], [dns |-> {<<"a", "io">>}, ip |-> {"far"}]},
  Asked <- {<<"io">>, <<"a", "pi">>}, Lans <- [lan |-> {"near"}],
  Addresses <- {"near"}, Loopback <- "loopback",
  host <- c1, setting <- c2, addresses <- c3, authority <- c4, replaced <- c5, names <- c6,
  Generations <- Leaves, RETRY <- 2, MaxTime <- 8, MaxWrites <- 3, MaxSets <- 1, Steps <- {-4, 4},
  requireValid <- c2, time <- c3, ahead <- c4, synced <- c5, files <- c6, signature <- c7,
  loader <- c8, read <- c9, active <- c10, activeSignature <- c11, pending <- c12, failing <- c13,
  lastAttempt <- c14, sets <- c15, polled <- c16, good <- c17,
  ANCHOR_TOLERANCE <- 1, ANCHOR_HOLD <- 2, RENEW_BEFORE <- 2, IPV6_RENEW_AFTER <- 2,
  CLOCK_FLOOR <- 0, Lifetime <- 5, CaEnd <- 9, Leaps <- {-3, 3}, Budgets <- Accidents, Horizon <- 9,
  boot <- c1, signal <- c2, anchor <- c5, leaf <- c6, leafCrt <- c7, lacks <- c8, renewer <- c9,
  run <- c10, left <- c11, timer <- c12, calm <- c13, seen <- c14, known <- c15,
  Worlds <- SomeWorlds, Chains <- UpToFour, AnchorLists <- UpToTwo, PrivateKeys <- {"kl", "other"},
  certs <- c1, chain <- c2, anchors <- c3, key <- c4, result <- c5
ASSUME SwitchingAssumption == Certs!ModeAssumption
ASSUME ReloadingAssumption == Certs!Reload!ReloadAssumption
ASSUME RenewingAssumption == Certs!Renewal!RenewAssumption /\ Certs!AnchorIsWritten
ASSUME InspectingAssumption == Certs!Inspection!InspectAssumption

NoLock ==
  /\ placed = None /\ links = FALSE /\ made = FALSE /\ lock = None /\ files = None /\ copy = None /\ aside = None
  /\ turns = None /\ pc = <<>> /\ judged = None /\ turn = None /\ watched = None /\ waited = None
  /\ stopped = {} /\ faults = None /\ excused = FALSE
Without7to17 ==
  c7 = None /\ c8 = None /\ c9 = None /\ c10 = None /\ c11 = None /\ c12 = None /\ c13 = None
    /\ c14 = None /\ c15 = None /\ c16 = None /\ c17 = None

TlsInit ==
  \/ part = "lock" /\ Init
     /\ c1 = None /\ c2 = None /\ c3 = None /\ c4 = None /\ c5 = None /\ c6 = None /\ Without7to17
  \/ part = "renew" /\ NoLock /\ Certs!Renewal!Init /\ c16 = None /\ c17 = None
  \/ part = "reload" /\ NoLock /\ Certs!Reload!Init
  \/ part = "mode" /\ NoLock /\ Certs!Init /\ c17 = None
  \/ part = "inspect" /\ NoLock /\ Certs!Inspection!Init /\ c6 = None /\ Without7to17
  \/ part = "scope" /\ NoLock /\ Certs!Scope!Init /\ Without7to17

Is(name) == part = name /\ UNCHANGED part
(* What excuses the lock ends its behaviour: nothing is claimed after it.     *)
TlsNext ==
  \/ Is("lock") /\ ~excused /\ Next /\ UNCHANGED cells
  \/ Is("renew") /\ Certs!Renewal!Next /\ UNCHANGED <<vars, c16, c17>>
  \/ Is("reload") /\ Certs!Reload!Next /\ UNCHANGED vars
  \/ Is("mode") /\ Certs!Next /\ UNCHANGED <<vars, c17>>
  \/ Is("inspect") /\ Certs!Inspection!Next
     /\ UNCHANGED <<vars, c6, c7, c8, c9, c10, c11, c12, c13, c14, c15, c16, c17>>
  \/ Is("scope") /\ Certs!Scope!Next
     /\ UNCHANGED <<vars, c7, c8, c9, c10, c11, c12, c13, c14, c15, c16, c17>>

TlsSpec == TlsInit /\ [][TlsNext]_<<vars, part, cells>>

(* The properties of the other parts, each of its own: see there.             *)
RenewedInTime == part = "renew" => Certs!Renewal!RenewedInTime
TakenUp == part = "reload" => Certs!Reload!TakenUp
ValidIsAccepted == part = "inspect" => Certs!Inspection!ValidIsAccepted
LeafInScope == part = "scope" => Certs!Scope!LeafInScope
NoFutureLeaf == [][part = "renew" => Certs!Renewal!DatedSoundly]_<<vars, part, cells>>
NeverForWorse == [][part = "reload" => Certs!Reload!NoWorse]_<<vars, part, cells>>
NeverSilentlyHttp == [][part = "mode" => Certs!AskedForHttp]_<<vars, part, cells>>
FailureRestores == [][part = "mode" => Certs!Restores]_<<vars, part, cells>>
=============================================================================
