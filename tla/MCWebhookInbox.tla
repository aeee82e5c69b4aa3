--------------------------- MODULE MCWebhookInbox ---------------------------
(* Instances of the inbound webhook pipeline for TLC. *)
EXTENDS WebhookInbox, TLC

CONSTANTS e1, e2, p1, w1, w2

FirstCharge == [verify |-> TRUE, subscriber |-> TRUE, purchase |-> p1, type |-> "t1",
                renewal |-> FALSE, public |-> TRUE, v1 |-> TRUE, replayable |-> TRUE]

Renewal == [FirstCharge EXCEPT !.renewal = TRUE, !.type = "t2"]

OneRenewal == e1 :> Renewal

\* Two events of one purchase; the payload of the second cannot be replayed.
TwoEvents == e1 :> FirstCharge @@ e2 :> [Renewal EXCEPT !.replayable = FALSE]

Workers == Permutations(Worker)
=============================================================================
