------------------------- MODULE MCOutboxDispatcher -------------------------
(* An instance of the outbox dispatcher for TLC. *)
EXTENDS OutboxDispatcher, TLC

CONSTANTS r1, r2, r3, t1, t2, a1, a2, d1

\* Two rows, a full batch, on the sick topic and one on the healthy one.
ThreeTopics == r1 :> t1 @@ r2 :> t1 @@ r3 :> t2

ThreeAggs == r1 :> a1 @@ r2 :> a1 @@ r3 :> a2
=============================================================================
