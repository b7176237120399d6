------------------------------ MODULE CaChange ------------------------------
(***************************************************************************)
(* What `pipulse tls init`, `new-ca` and `restore-ca` promise of the       *)
(* certificate authority: a change of it happens at once or not at all,    *)
(* and the CA it replaces is kept until somebody asks for its removal.     *)
(***************************************************************************)
CONSTANTS CAs, NoCa

VARIABLES current, kept

Init == current = NoCa /\ kept = {}

Replaced == {current} \ {NoCa}

NewCa(c) ==
  /\ c \notin kept \cup {current}
  /\ current' = c /\ kept' = kept \cup Replaced

RestoreCa(c) ==
  /\ c \in kept
  /\ current' = c /\ kept' = (kept \ {c}) \cup Replaced

Prune(c) ==
  /\ c \in kept
  /\ kept' = kept \ {c}
  /\ UNCHANGED current

Next == \E c \in CAs : NewCa(c) \/ RestoreCa(c) \/ Prune(c)
Spec == Init /\ [][Next]_<<current, kept>>
=============================================================================
