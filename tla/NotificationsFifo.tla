------------------------- MODULE NotificationsFifo -------------------------
(* The outbox, its lanes and the enqueuer keep the promise of FifoOutbox.   *)
EXTENDS Notifications

(* A webhook's pending rows, by their ids, as what they announce. *)
Queued == [w \in Webhooks |->
             [id \in PendingOf(outbox, w) |-> <<outbox[id].alert, outbox[id].event>>]]

Fifo == INSTANCE FifoOutbox WITH
          Alerts <- AlertIds, Numbers <- Ids, queue <- Queued, got <- received,
          lost <- {w \in Webhooks : \E k \in Keys : <<w, k>> \in missed}

(* Every step of the sender, the enqueuer, the engine and the process is a  *)
(* step of FifoOutbox or leaves queues and receivers alone: in order per    *)
(* webhook, repeats only of the oldest message, and what neither arrives    *)
(* nor is withdrawn is accounted for                                        *)
(* (docs/alerts.md:69; outbox.ts:49-92, sender.ts:46-84).                   *)
KeepsFifo == Fifo!Spec
=============================================================================
