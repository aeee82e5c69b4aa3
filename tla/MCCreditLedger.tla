--------------------------- MODULE MCCreditLedger ---------------------------
(* Small instances of CreditLedger. *)
EXTENDS CreditLedger, TLC

CONSTANTS gold, gems

\* A purchase grants two gold and one gem.
MCGrantAmount == [c \in Currency |-> IF c = gold THEN 2 ELSE 1]

MCNoTransfer == {}
MCTransferBothWays == {<<1, 2>>, <<2, 1>>}
MCTransferOnce == {<<1, 2>>}

\* Bound: a behaviour has either purchase grants, which loop over both
\* currencies, or refunds and dashboard grants in one currency, next to spends
\* and transfers.  The two kinds differ in referenceType and share nothing but
\* the balance, which spends and transfers race for as well.
Uses ==
  {[type |-> r.type, cur |-> r.cur] : r \in ledger} \cup
  {[type |-> session[w].type, cur |-> session[w].cur] :
     w \in {v \in Worker : "type" \in DOMAIN session[v]}}
AdminApart ==
  (\E u \in Uses : u.type \in {"REFUND", "BONUS"}) =>
    \A u \in Uses : u.type # "PURCHASE" /\ u.cur = gold

Workers == Permutations(Worker)
============================================================================
