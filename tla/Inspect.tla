------------------------------ MODULE Inspect ------------------------------
(***************************************************************************)
(* packages/tls/src/inspect/inspect.ts: what is refused, and how good the  *)
(* rest is, of a certificate with its chain before it is served.  It is    *)
(* held against what a client does with the same chain, who knows only the *)
(* roots: it may build any path, and needs one that holds.  A certificate  *)
(* is a record; a signature is the key that made it, and what name         *)
(* constraints forbid is left to CaScope.                                  *)
(***************************************************************************)
EXTENDS Integers, Sequences, FiniteSets, SequencesExt, FiniteSetsExt

CONSTANTS
  None,
  Worlds,       \* what each certificate may hold, by its fingerprint
  Chains,       \* what may be served, the server's own certificate first
  AnchorLists,  \* the trusted certificates, in the order they are listed
  PrivateKeys

InspectAssumption ==
  /\ <<>> \notin Chains
  /\ \A w \in Worlds :
       /\ None \notin DOMAIN w /\ Chains \cup AnchorLists \subseteq Seq(DOMAIN w)
       /\ \A c \in DOMAIN w :
            w[c].from \in Int /\ w[c].to \in Int /\ w[c].pathLength \in Nat \cup {None}

VARIABLES certs, chain, anchors, key, result

vars == <<certs, chain, anchors, key, result>>

ChecksIssued(child, parent) == certs[child].issuer = certs[parent].subject
Verifies(child, parent) == certs[child].signer = certs[parent].key
IssuedBy(child, parent) == ChecksIssued(child, parent) /\ Verifies(child, parent)
SelfIssued(c) == IssuedBy(c, c)

(* Of the certificates S, the one that is listed first. *)
FirstOf(S) ==
  LET at == {i \in DOMAIN anchors : anchors[i] \in S}
  IN IF at = {} THEN None ELSE anchors[Min(at)]
Leaf == Head(chain)
Top == Last(chain)

(***************************************************************************)
(* inspectMaterial.                                                        *)
(***************************************************************************)
(* The anchor of the chain: itself, else by name and signature, else by name. *)
Anchor ==
  LET byName == {a \in ToSet(anchors) : ChecksIssued(Top, a)}
      verified == {a \in byName : Verifies(Top, a)}
  IN IF Contains(anchors, Top) THEN Top
     ELSE IF verified # {} THEN FirstOf(verified) ELSE FirstOf(byName)

Refused ==
  \/ certs[Leaf].key # key
  \/ certs[Leaf].ca
  \/ ~IsInjective(chain)
  \/ \E i \in 1 .. Len(chain) - 1 : ~IssuedBy(chain[i], chain[i + 1])
  \/ \E i \in 2 .. Len(chain) : ~certs[chain[i]].ca
  \/ Anchor \notin {None, Top} /\ (Anchor # None => ~Verifies(Top, Anchor))

(* Above an anchor that is not a root: each is climbed once, so that as many  *)
(* steps as there are anchors, and one, come to the end.  Those that were not *)
(* sent join the CAs above the leaf.                                          *)
Climbs(root) == root # None /\ (root # None => ~SelfIssued(root))
With(list, c) == IF Contains(chain, c) THEN list ELSE Append(list, c)
Above(way) ==
  LET seen == Append(way.climbed, way.root)
  IN [climbed |-> seen, issuers |-> With(way.issuers, way.root),
      root |-> FirstOf({a \in ToSet(anchors) : ~Contains(seen, a) /\ IssuedBy(way.root, a)})]

Way ==
  LET Climb[n \in 0 .. Len(anchors) + 1] ==
        IF n = 0 THEN [climbed |-> <<>>, issuers |-> Tail(chain), root |-> Anchor]
        ELSE IF Climbs(Climb[n - 1].root) THEN Above(Climb[n - 1]) ELSE Climb[n - 1]
  IN Climb[Len(anchors) + 1]

(* Mutant: the anchors climbed to are not looked at. *)
IssuersSent == Tail(chain)
Issuers == IF Way.root = None THEN Way.issuers ELSE With(Way.issuers, Way.root)

Between(i) == Cardinality({j \in 1 .. i - 1 : ~SelfIssued(Issuers[j])})

ChainReasons ==
  IF Anchor = None THEN {IF ChecksIssued(Top, Top) THEN "untrusted" ELSE "incomplete-chain"}
  ELSE IF Way.root = None \/ ~(ToSet(Way.climbed) \subseteq ToSet(chain)) THEN {"incomplete-chain"}
  ELSE {}

Reasons ==
  ChainReasons
  \cup (IF \E i \in DOMAIN Issuers : LET limit == certs[Issuers[i]].pathLength
                                     IN limit # None /\ (limit # None => Between(i) > limit)
        THEN {"path-length"} ELSE {})
  \cup (IF \E c \in ToSet(Issuers) : certs[c].forbids THEN {"name-constraint"} ELSE {})
  \cup (IF certs[Leaf].covers THEN {} ELSE {"san-missing"})
  \cup (IF certs[Leaf].serverAuth THEN {} ELSE {"no-server-auth"})

(* The worst class that applies. *)
Class(reasons) ==
  IF reasons \cap {"untrusted", "path-length", "name-constraint"} # {} THEN "degraded-untrusted"
  ELSE IF "no-server-auth" \in reasons THEN "degraded-purpose"
  ELSE IF "san-missing" \in reasons THEN "degraded-san"
  ELSE IF "incomplete-chain" \in reasons THEN "degraded-incomplete-chain" ELSE "valid"

(* Those whose dates a client checks. *)
Dated == {Leaf} \cup ((ToSet(chain) \cup ToSet(Way.climbed)) \ {Way.root})

Inspected ==
  IF Refused THEN [class |-> "refused"]
  ELSE [class |-> Class(Reasons),
        notBefore |-> Max({certs[c].from : c \in Dated}), notAfter |-> Min({certs[c].to : c \in Dated})]

InspectMaterial == result = None /\ result' = Inspected /\ UNCHANGED <<certs, chain, anchors, key>>

Init ==
  /\ certs \in Worlds /\ chain \in Chains /\ anchors \in AnchorLists /\ key \in PrivateKeys
  /\ result = None

Next == InspectMaterial

Spec == Init /\ [][Next]_vars

(***************************************************************************)
(* A client: what it is sent, and the roots among the anchors.             *)
(***************************************************************************)
Roots == {a \in ToSet(anchors) : SelfIssued(a)}

Longer(paths) ==
  UNION {{Append(path, c) : c \in {d \in (ToSet(chain) \cup Roots) \ ToSet(path) : IssuedBy(Last(path), d)}} :
           path \in paths}

Paths ==
  LET Most == Cardinality(ToSet(chain) \cup Roots)
      OfLength[n \in 1 .. Most] == IF n = 1 THEN {<<Leaf>>} ELSE Longer(OfLength[n - 1])
  IN {path \in UNION {OfLength[n] : n \in 1 .. Most} : Last(path) \in Roots}

InDate(c, t) == certs[c].from <= t /\ t < certs[c].to

Holds(path, t) ==
  /\ InDate(path[1], t) /\ certs[path[1]].serverAuth /\ certs[path[1]].covers
  /\ \A i \in 2 .. Len(path) :
       LET c == certs[path[i]]
           below == Cardinality({j \in 2 .. i - 1 : ~SelfIssued(path[j])})
       IN /\ c.ca /\ ~c.forbids
          /\ c.pathLength = None \/ (c.pathLength # None => below <= c.pathLength)
          /\ i = Len(path) \/ InDate(path[i], t)

Accepts(t) == \E path \in Paths : Holds(path, t)

(***************************************************************************)
(* Properties.                                                             *)
(***************************************************************************)
(* What is classed as valid, a client that knows the roots accepts for as    *)
(* long as the dates it was given say, however the anchors are listed; all   *)
(* of them must be CAs, which is not looked at (inspect.ts:182-256).         *)
AnchorsAreCas == \A a \in ToSet(anchors) \ {Leaf} : certs[a].ca
ValidIsAccepted ==
  result # None /\ AnchorsAreCas => (result.class = "valid" =>
    \A t \in result.notBefore .. result.notAfter - 1 : Accepts(t))
=============================================================================
