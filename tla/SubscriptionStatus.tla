-------------------------- MODULE SubscriptionStatus --------------------------
(***************************************************************************)
(* The statuses of a purchase row, the table of moves between them and the *)
(* two rules every writer of a row applies: the CASE that keeps a terminal *)
(* status and the stamp of a billing issue.  The store modules share them. *)
(***************************************************************************)
EXTENDS Integers

Null == -1

Status == {"TRIAL", "ACTIVE", "GRACE_PERIOD", "BILLING_ISSUE", "PAUSED",
           "EXPIRED", "REFUNDED", "REVOKED"}
Terminal == {"REFUNDED", "REVOKED"}
AccessGranting == {"TRIAL", "ACTIVE", "GRACE_PERIOD"}
Sweepable == {"TRIAL", "ACTIVE", "GRACE_PERIOD", "PAUSED"}
Reconcilable == Sweepable \cup {"BILLING_ISSUE"}

(* Mutant: a lapsed row takes a new trial but no renewal. *)
TransitionsLapseIsFinal(from) ==
    CASE from = "EXPIRED"       -> {"EXPIRED", "TRIAL"}
      [] from = "ACTIVE"        -> Status
      [] from = "PAUSED"        -> {"PAUSED", "ACTIVE", "EXPIRED", "REVOKED"}
      [] from \in Terminal      -> {from}
      [] OTHER                  -> {from, "ACTIVE", "EXPIRED", "BILLING_ISSUE"}
                                     \cup Terminal

Transitions(from) ==
    CASE from = "TRIAL"         -> {"TRIAL", "ACTIVE", "EXPIRED", "BILLING_ISSUE"}
                                     \cup Terminal
      [] from = "ACTIVE"        -> Status
      [] from = "GRACE_PERIOD"  -> {"GRACE_PERIOD", "ACTIVE", "EXPIRED",
                                    "BILLING_ISSUE"} \cup Terminal
      [] from = "BILLING_ISSUE" -> {"BILLING_ISSUE", "ACTIVE", "EXPIRED"}
                                     \cup Terminal
      [] from = "PAUSED"        -> {"PAUSED", "ACTIVE", "EXPIRED", "REVOKED"}
      [] from = "EXPIRED"       -> {"EXPIRED", "ACTIVE", "TRIAL"}
      [] OTHER                  -> {from}

(* Mutant: the status is written as the guard decided it. *)
caseUnguarded(from, to) == to

(* The CASE that upsertPurchase and updatePurchase put around a status. *)
caseGuarded(from, to) == IF from \in Terminal THEN from ELSE to

(* Mutant: a row that is created on hold is not stamped. *)
stampOnMoveOnly(from, to, time, held) ==
    IF to = "BILLING_ISSUE" THEN IF from \in {"NONE", to} THEN held ELSE time
    ELSE IF from = "BILLING_ISSUE" /\ to \in AccessGranting THEN Null ELSE held

(* billingIssueDetectedAt after a move: set on entry, cleared on recovery. *)
billingIssueStamp(from, to, time, held) ==
    IF to = "BILLING_ISSUE" THEN IF from = to THEN held ELSE time
    ELSE IF from = "BILLING_ISSUE" /\ to \in AccessGranting THEN Null ELSE held

===============================================================================
