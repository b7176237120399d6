-------------------------- MODULE MCNotifications --------------------------
(* Small instances of Notifications for TLC. *)
EXTENDS NotificationsFifo

CONSTANTS all, urgent       \* webhooks: one for everything, one for critical alerts

MCMinSeverity == [w \in Webhooks |-> IF w = urgent THEN "critical" ELSE "warning"]
MCEvents == [w \in Webhooks |-> NotificationEvents]
MCNotifyFiles == {Webhooks}
MCMayBeEmpty == {Webhooks, {}}
MCIds == 1 .. 6
MCAlertIds == 1 .. 3
MCTwoAlertIds == 1 .. 2
MCNoSteps == {}
MCOneAlertId == {1}
\* ahead by a jump, or back by less, of which two unseen are a jump
MCMixedSteps == {-1, 2}
=============================================================================
