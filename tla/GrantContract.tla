---------------------------- MODULE GrantContract ----------------------------
(***************************************************************************)
(* What renewal grants promise, without Kafka, queues and retries: an      *)
(* announced renewal owes its subscriber the currencies of its product,    *)
(* and each is paid once and never without being owed                      *)
(* (services/purchase-credits.ts, queues/renewal-grants.ts).               *)
(***************************************************************************)
EXTENDS Naturals

CONSTANT Debt      \* pairs of a revenue event and a currency it may grant

VARIABLES owed,    \* debts whose renewal was announced
          paid     \* number of ledger rows for each debt

vars == <<owed, paid>>

Init ==
  /\ owed = {}
  /\ paid = [d \in Debt |-> 0]

\* A renewal is announced with all its currencies.
Announce ==
  /\ owed' \in SUBSET Debt /\ owed \subseteq owed'
  /\ UNCHANGED paid

Pay(d) ==
  /\ d \in owed /\ paid[d] = 0
  /\ paid' = [paid EXCEPT ![d] = 1]
  /\ UNCHANGED owed

Next == Announce \/ \E d \in Debt : Pay(d)

Spec == Init /\ [][Next]_vars
=============================================================================
