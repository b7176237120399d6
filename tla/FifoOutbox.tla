----------------------------- MODULE FifoOutbox -----------------------------
(***************************************************************************)
(* What the outbox promises a receiver.  A message takes a number when it  *)
(* is queued, above those that wait, and the lowest number is served:      *)
(* messages leave in the order they were queued, and one may be repeated   *)
(* but only while it is the first.  One leaves by being received; a clear  *)
(* nobody was sent yet may be withdrawn; and for everything else that goes *)
(* astray, in the queue or on the way to it, the webhook counts as having  *)
(* lost something.                                                         *)
(***************************************************************************)
EXTENDS Sequences, Integers

CONSTANTS Webhooks, Alerts, Numbers
VARIABLES queue,     \* per webhook, what is still to be received, by its number
          got,       \* per webhook, what the receiver got, in order
          lost       \* the webhooks that lost something

vars == <<queue, got, lost>>
Items == Alerts \X {"raised", "cleared"}
Sent(w) == {got[w][n] : n \in 1 .. Len(got[w])}
IsFirst(w, n) == n \in DOMAIN queue[w] /\ \A other \in DOMAIN queue[w] : n <= other
Leave(w, gone) == [n \in DOMAIN queue[w] \ gone |-> queue[w][n]]

Init ==
  /\ queue \in [Webhooks -> [{} -> Items]]
  /\ got = [w \in Webhooks |-> << >>]
  /\ lost = {}

Queue(w, item) ==
  /\ \E n \in Numbers :
       /\ \A other \in DOMAIN queue[w] : other < n
       /\ queue' = [queue EXCEPT ![w] = [i \in DOMAIN @ \cup {n} |-> IF i = n THEN item ELSE @[i]]]
  /\ UNCHANGED <<got, lost>>

Transmit(w) ==
  /\ \E n \in DOMAIN queue[w] :
       IsFirst(w, n) /\ got' = [got EXCEPT ![w] = Append(@, queue[w][n])]
  /\ UNCHANGED <<queue, lost>>

(* Only what came last, and is the first in the queue, is acknowledged. *)
Acknowledge(w) ==
  /\ \E n \in DOMAIN queue[w] :
       /\ IsFirst(w, n)
       /\ got[w] # << >> /\ got[w][Len(got[w])] = queue[w][n]
       /\ queue' = [queue EXCEPT ![w] = Leave(w, {n})]
  /\ UNCHANGED <<got, lost>>

GiveUp(w) ==
  /\ \E n \in DOMAIN queue[w] :
       IsFirst(w, n) /\ queue' = [queue EXCEPT ![w] = Leave(w, {n})]
  /\ lost' = lost \cup {w}
  /\ UNCHANGED got

Withdraw(item, hooks) ==
  /\ item[2] = "cleared"
  /\ \A w \in hooks : item \notin Sent(w)
  /\ queue' = [w \in Webhooks |->
                 IF w \in hooks THEN Leave(w, {n \in DOMAIN queue[w] : queue[w][n] = item})
                 ELSE queue[w]]
  /\ UNCHANGED <<got, lost>>

ForgetWebhooks(gone) ==
  /\ queue' = [w \in Webhooks |-> IF w \in gone THEN Leave(w, DOMAIN queue[w]) ELSE queue[w]]
  /\ lost' = lost \cup gone
  /\ UNCHANGED got

(* A message that never gets into the queue. *)
Lose(hooks) ==
  /\ lost' = lost \cup hooks
  /\ UNCHANGED <<queue, got>>

Next == \/ \E w \in Webhooks : \/ Transmit(w) \/ Acknowledge(w) \/ GiveUp(w)
                               \/ \E item \in Items : Queue(w, item)
        \/ \E hooks \in SUBSET Webhooks : \/ ForgetWebhooks(hooks) \/ Lose(hooks)
                                          \/ \E item \in Items : Withdraw(item, hooks)

Spec == Init /\ [][Next]_vars
=============================================================================
