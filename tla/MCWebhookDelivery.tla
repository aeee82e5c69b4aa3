-------------------------- MODULE MCWebhookDelivery --------------------------
(* Instances of the outgoing webhook delivery for TLC. *)
EXTENDS WebhookDelivery, TLC

CONSTANTS p1, p2, o1

\* One retry after one tick, then the dead letters.
OneRetry == 1 :> 1

Replicas == Permutations(Replica)
=============================================================================
