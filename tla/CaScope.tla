------------------------------ MODULE CaScope ------------------------------
(***************************************************************************)
(* What the generated CA may certify and what its certificates name:       *)
(* packages/tls/src/ca/constraints.ts, used by init, new-ca, restore-ca    *)
(* and renew, and read back by a client as inspect/x509-constraints.ts     *)
(* does.  A name is the sequence of its labels, the first one last to be   *)
(* looked up; a subnet is a member of a small set, with its addresses.     *)
(* How names and addresses are parsed and written is left out.             *)
(***************************************************************************)
EXTENDS Sequences, FiniteSets, SequencesExt

CONSTANTS
  None, Local, Localhost,  \* the names local and localhost
  Hosts, Settings, Asked,  \* host names; PIPULSE_TLS_NAMES; the names of --name
  Lans,                    \* the addresses of each subnet that may be accepted
  Addresses, Loopback

VARIABLES
  host, setting, addresses,  \* the machine
  ca, backup,                \* what the CA in force, and the one it replaced, may certify
  leaf                       \* the names of the certificate

machine == <<host, setting, addresses>>
vars == <<machine, ca, backup, leaf>>

Single(n) == Len(n) = 1
Below(n, d) == n # d /\ IsSuffix(d, n)
HostLocal == host \o Local

(***************************************************************************)
(* buildConstraints.  A name of one label takes no name below it along.    *)
(***************************************************************************)
BuiltNames(names) == {host, HostLocal, Localhost} \cup names
MayBuild(names) == \A n \in names : Single(n) => n \in {host, Localhost}

Excluded(dns) == {n \in dns : Single(n)}

Built(names, subnets) ==
  LET dns == BuiltNames(names) IN [dns |-> dns, excluded |-> Excluded(dns), subnets |-> subnets]

(* coversName and coversAddress. *)
(* Mutant: what the CA takes back is forgotten. *)
PermitsName(c, n) == \E d \in c.dns : n = d \/ Below(n, d)
CoversName(c, n) ==
  (\E d \in c.dns : n = d \/ Below(n, d)) /\ ~\E e \in c.excluded : Below(n, e)
CoversAddress(c, a) == a = Loopback \/ \E s \in c.subnets : a \in Lans[s]

(***************************************************************************)
(* leafNames.                                                              *)
(***************************************************************************)
(* The aliases the CA was told of: a pair of host and host.local follows the *)
(* current host name.                                                        *)
CaNames(c) ==
  {n \in c.dns : ~Single(n) /\ ~(IsSuffix(Local, n) /\ SubSeq(n, 1, Len(n) - 1) \in c.dns)}

WantedNames(c) == {host, HostLocal, Localhost} \cup setting.dns \cup CaNames(c)

LeafNames(c) ==
  [dns |-> {n \in WantedNames(c) : CoversName(c, n)},
   ip |-> {Loopback} \cup {a \in setting.ip \cup addresses : CoversAddress(c, a)}]

Issues(c) == leaf' = LeafNames(c)

(***************************************************************************)
(* The commands.                                                           *)
(***************************************************************************)
(* init: nothing is replaced, and a certificate is made where there is none. *)
Material(subnets) ==
  /\ ca = None /\ MayBuild(setting.dns)
  /\ ca' = Built(setting.dns, subnets) /\ Issues(ca')
  /\ UNCHANGED <<machine, backup>>

(* new-ca: a rotation keeps the aliases of the CA it replaces, and its        *)
(* subnets, unless others are asked for.                                      *)
KeptNames(drop) ==
  IF ca = None \/ drop THEN {} ELSE {n \in ca.dns : ~Single(n) /\ n # HostLocal}

KeptSubnets(requested) ==
  IF requested # None THEN requested ELSE IF ca # None THEN ca.subnets ELSE {}

NewCa(names, drop, requested) ==
  LET given == setting.dns \cup names \cup KeptNames(drop) IN
  /\ MayBuild(given)
  /\ ca' = Built(given, KeptSubnets(requested)) /\ backup' = ca /\ Issues(ca')
  /\ UNCHANGED machine

RestoreCa ==
  /\ backup # None
  /\ ca' = backup /\ backup' = ca /\ Issues(ca')
  /\ UNCHANGED machine

Renew ==
  /\ ca # None
  /\ ca # None => leaf # LeafNames(ca) /\ Issues(ca)
  /\ UNCHANGED <<machine, ca, backup>>

(* The machine's name, its settings or its addresses change. *)
MachineChanges ==
  /\ \/ host' \in Hosts \ {host} /\ UNCHANGED <<setting, addresses>>
     \/ setting' \in Settings \ {setting} /\ UNCHANGED <<host, addresses>>
     \/ addresses' \in {{a} : a \in Addresses} \ {addresses} /\ UNCHANGED <<host, setting>>
  /\ UNCHANGED <<ca, backup, leaf>>

Init ==
  /\ host \in Hosts /\ setting \in Settings /\ addresses \in {{a} : a \in Addresses}
  /\ ca = None /\ backup = None /\ leaf = None

Next ==
  \/ \E subnets \in SUBSET DOMAIN Lans : Material(subnets)
  \/ \E names \in {{}} \cup {{n} : n \in Asked}, drop \in BOOLEAN,
        requested \in {None} \cup {{s} : s \in DOMAIN Lans} \cup {{}} :
       NewCa(names, drop, requested)
  \/ RestoreCa \/ Renew \/ MachineChanges

Spec == Init /\ [][Next]_vars

(***************************************************************************)
(* A client: violatesNameConstraints over the extension the CA was given.  *)
(***************************************************************************)
Permits(c, n) ==
  /\ \E d \in c.dns : n = d \/ IsSuffix(d, n)
  /\ ~\E e \in c.excluded : IsSuffix(e, n) /\ n # e
Violates(names, c) ==
  \/ \E n \in names.dns : ~Permits(c, n)
  \/ \E a \in names.ip : a # Loopback /\ ~\E s \in c.subnets : a \in Lans[s]

(***************************************************************************)
(* Properties.                                                             *)
(***************************************************************************)
(* Whatever the machine is called by now, and whichever CA is back in force, *)
(* its clients accept every name its certificates carry (constraints.ts:     *)
(* 287-304, 425-476).  A certificate follows a CA in the same command.       *)
LeafInScope == ca # None => ~Violates(leaf, ca)
=============================================================================
