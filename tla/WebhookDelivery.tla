--------------------------- MODULE WebhookDelivery ---------------------------
(***************************************************************************)
(* Outgoing webhooks: the rows of outgoing_webhooks, the delivery worker   *)
(* every API replica runs (workers/webhook-delivery.ts), its leased claim  *)
(* (packages/db outgoing-webhooks repository), and the dashboard's retry   *)
(* and dismiss of dead letters (routes/dashboard/webhooks.ts).             *)
(*                                                                         *)
(* Rows are numbered in the order of createdAt.  One tick is the period of *)
(* the repeatable job.  Database calls take no time; a request and the     *)
(* reading of its answer take up to RowTicks.                              *)
(***************************************************************************)
EXTENDS Integers, FiniteSets

CONSTANTS
  Rows,         \* how many outgoing_webhooks rows are ever inserted
  Replica,      \* API replicas, one delivery worker each (concurrency 1)
  Operator,     \* dashboard requests in flight at a time
  Batch,        \* BATCH_SIZE
  Lease,        \* CLAIM_LEASE_MS
  RowTicks,     \* bound on one request (DELIVERY_TIMEOUT_MS) and its answer's body
  MAX_ATTEMPTS,
  BACKOFF_SCHEDULE,
  MaxFault,     \* bound: failing writes, lost answers and crashes
  MaxOps        \* bound: dashboard requests

DeliveryAssumption ==
  /\ Rows \in Nat
  /\ Batch \in Nat \ {0}
  /\ Lease \in Nat /\ RowTicks \in Nat
  /\ MAX_ATTEMPTS \in Nat \ {0}
  /\ BACKOFF_SCHEDULE \in [1..MAX_ATTEMPTS -> Nat]
  /\ MaxFault \in Nat /\ MaxOps \in Nat

Hook == 1..Rows

VARIABLES
  row,       \* outgoing_webhooks; age: ticks since claimedAt, due: until nextRetryAt
  job,       \* the repeatable job is waiting
  rep,       \* what each replica's worker is doing
  op,        \* what each dashboard request is doing
  posts,     \* history: requests made for a row since it was (re)set to PENDING
  accepted,  \* history: requests its endpoint accepted
  faults, ops

vars == <<row, job, rep, op, posts, accepted, faults, ops>>

Status == {"NONE", "PENDING", "DELIVERING", "SENT", "FAILED", "DEAD", "DISMISSED"}

Settled == {"SENT", "DEAD", "DISMISSED"}

\* held: the claimed rows still to be delivered, with the attempts the claim
\* returned; cur: the one being delivered.
Idle == [pc |-> "idle", held |-> [h \in {} |-> 0], cur |-> 0, timer |-> 0]

Holds(p) == DOMAIN rep[p].held

TypeOK ==
  /\ row \in [Hook -> [status: Status, attempts: 0..MAX_ATTEMPTS + 1, due: Nat, age: 0..Lease + 1]]
  /\ job \in BOOLEAN
  /\ \A p \in Replica :
       /\ rep[p].pc \in {"idle", "claim", "next", "post", "sent", "failed"}
       /\ rep[p].held \in [Holds(p) -> 0..MAX_ATTEMPTS] /\ Holds(p) \subseteq Hook
       /\ rep[p].cur \in Hook \cup {0} /\ rep[p].timer \in 0..RowTicks
  /\ op \in [Operator -> {"none", "retry", "dismiss"} \X (Hook \cup {0})]
  /\ posts \in [Hook -> Nat] /\ accepted \in [Hook -> Nat]
  /\ faults \in 0..MaxFault /\ ops \in 0..MaxOps

Init ==
  /\ row = [h \in Hook |-> [status |-> "NONE", attempts |-> 0, due |-> 0, age |-> 0]]
  /\ job = TRUE
  /\ rep = [p \in Replica |-> Idle]
  /\ op = [o \in Operator |-> <<"none", 0>>]
  /\ posts = [h \in Hook |-> 0] /\ accepted = [h \in Hook |-> 0]
  /\ faults = 0 /\ ops = 0

Fail == faults < MaxFault /\ faults' = faults + 1
-----------------------------------------------------------------------------
enqueueOutgoingWebhook(h) ==
  /\ row[h].status = "NONE"
  /\ \A g \in 1..(h - 1) : row[g].status # "NONE"
  /\ row' = [row EXCEPT ![h].status = "PENDING"]
  /\ UNCHANGED <<job, rep, op, posts, accepted, faults, ops>>

\* (Mutant first: a claim is never taken back.)
NeverStale(r) == FALSE

\* claimedAt < now - CLAIM_LEASE_MS.
Stale(r) == r.status = "DELIVERING" /\ r.age > Lease

\* A replica takes the repeated job: reclaimStaleDeliveries ...
reclaimStaleDeliveries(p) ==
  /\ rep[p].pc = "idle" /\ job
  /\ job' = FALSE
  /\ row' = [h \in Hook |-> IF Stale(row[h]) THEN [row[h] EXCEPT !.status = "PENDING"] ELSE row[h]]
  /\ rep' = [rep EXCEPT ![p].pc = "claim"]
  /\ UNCHANGED <<op, posts, accepted, faults, ops>>

Due(r) == r.status = "PENDING" \/ (r.status = "FAILED" /\ r.due = 0)

\* ... and the oldest due rows are claimed.
Claimable == LET D == {h \in Hook : Due(row[h])}
             IN  {h \in D : Cardinality({g \in D : g < h}) < Batch}

claimPendingWebhooks(p) ==
  /\ rep[p].pc = "claim"
  /\ row' = [h \in Hook |-> IF h \in Claimable
                            THEN [row[h] EXCEPT !.status = "DELIVERING", !.age = 0] ELSE row[h]]
  /\ rep' = [rep EXCEPT ![p] = IF Claimable = {} THEN Idle
               ELSE [Idle EXCEPT !.pc = "next", !.held = [h \in Claimable |-> row[h].attempts]]]
  /\ UNCHANGED <<job, op, posts, accepted, faults, ops>>

\* attemptDelivery of one row, one after the other: the request leaves,
Post(p) ==
  /\ rep[p].pc = "next"
  /\ \E h \in Holds(p) :
       /\ rep' = [rep EXCEPT ![p].pc = "post", ![p].cur = h, ![p].timer = 0]
       /\ posts' = [posts EXCEPT ![h] = @ + 1]
  /\ UNCHANGED <<row, job, op, accepted, faults, ops>>

Answer(p, outcome, n) ==
  /\ rep[p].pc = "post"
  /\ rep' = [rep EXCEPT ![p].pc = outcome]
  /\ accepted' = [accepted EXCEPT ![rep[p].cur] = @ + n]
  /\ UNCHANGED <<row, job, op, posts, ops>>

\* the endpoint accepts it with a 2xx,
Accept(p) == Answer(p, "sent", 1) /\ UNCHANGED faults

\* it is not accepted (another status, no connection, the timeout),
Refuse(p) == Answer(p, "failed", 0) /\ UNCHANGED faults

\* or it is, and the answer never arrives.
LostAnswer(p) == Fail /\ Answer(p, "failed", 1)

\* The batch without its current row.
Rest(p) ==
  LET left == Holds(p) \ {rep[p].cur}
  IN  IF left = {} THEN Idle
      ELSE [Idle EXCEPT !.pc = "next", !.held = [h \in left |-> rep[p].held[h]]]

newAttempts(p) == rep[p].held[rep[p].cur] + 1

\* updateOutgoingWebhook writes by id, whatever the row's status is by now.
updateOutgoingWebhook(h, status, attempts, due) ==
  row' = [row EXCEPT ![h] = [status |-> status, attempts |-> attempts, due |-> due, age |-> @.age]]

\* (Mutant first: a patch without the status.)
PatchWithoutStatus(p) ==
  /\ rep[p].pc = "sent"
  /\ row' = [row EXCEPT ![rep[p].cur].attempts = newAttempts(p)]
  /\ rep' = [rep EXCEPT ![p] = Rest(p)]
  /\ UNCHANGED <<job, op, posts, accepted, faults, ops>>

WriteSent(p) ==
  /\ rep[p].pc = "sent"
  /\ updateOutgoingWebhook(rep[p].cur, "SENT", newAttempts(p), 0)
  /\ rep' = [rep EXCEPT ![p] = Rest(p)]
  /\ UNCHANGED <<job, op, posts, accepted, faults, ops>>

\* The write of SENT throws inside the try of the request: the catch goes on
\* as if the request had failed.
WriteSentThrows(p) ==
  /\ rep[p].pc = "sent"
  /\ Fail
  /\ rep' = [rep EXCEPT ![p].pc = "failed"]
  /\ UNCHANGED <<row, job, op, posts, accepted, ops>>

\* (Mutant first: the comparison the comment warns of.)
ExhaustedEarly(n) == n >= MAX_ATTEMPTS

Exhausted(n) == n > MAX_ATTEMPTS

\* BACKOFF_SCHEDULE_MS[newAttempts - 1] ?? BACKOFF_SCHEDULE_MS.at(-1)
backoffMs(n) == BACKOFF_SCHEDULE[IF n <= MAX_ATTEMPTS THEN n ELSE MAX_ATTEMPTS]

WriteFailure(p) ==
  /\ rep[p].pc = "failed"
  /\ IF Exhausted(newAttempts(p))
     THEN updateOutgoingWebhook(rep[p].cur, "DEAD", newAttempts(p), 0)
     ELSE updateOutgoingWebhook(rep[p].cur, "FAILED", newAttempts(p), backoffMs(newAttempts(p)))
  /\ rep' = [rep EXCEPT ![p] = Rest(p)]
  /\ UNCHANGED <<job, op, posts, accepted, faults, ops>>

\* The loop's catch logs it and goes on; the row stays DELIVERING.
WriteFailureThrows(p) ==
  /\ rep[p].pc = "failed"
  /\ Fail
  /\ rep' = [rep EXCEPT ![p] = Rest(p)]
  /\ UNCHANGED <<row, job, op, posts, accepted, ops>>

\* The process dies, or reclaim or claim throws.
Crash(p) ==
  /\ rep[p].pc # "idle"
  /\ Fail
  /\ rep' = [rep EXCEPT ![p] = Idle]
  /\ UNCHANGED <<row, job, op, posts, accepted, ops>>
-----------------------------------------------------------------------------
(* The dashboard: read the row, check it is DEAD, update it by id *)

Check(o) ==
  /\ op[o][1] = "none" /\ ops < MaxOps /\ ops' = ops + 1
  /\ \E h \in Hook, what \in {"retry", "dismiss"} :
       row[h].status = "DEAD" /\ op' = [op EXCEPT ![o] = <<what, h>>]
  /\ UNCHANGED <<row, job, rep, posts, accepted, faults>>

resetWebhookForRetry(o) ==
  /\ op[o][1] = "retry"
  /\ updateOutgoingWebhook(op[o][2], "PENDING", 0, 0)
  /\ posts' = [posts EXCEPT ![op[o][2]] = 0]
  /\ op' = [op EXCEPT ![o] = <<"none", 0>>]
  /\ UNCHANGED <<job, rep, accepted, faults, ops>>

markWebhookDismissed(o) ==
  /\ op[o][1] = "dismiss"
  /\ row' = [row EXCEPT ![op[o][2]].status = "DISMISSED"]
  /\ op' = [op EXCEPT ![o] = <<"none", 0>>]
  /\ UNCHANGED <<job, rep, posts, accepted, faults, ops>>
-----------------------------------------------------------------------------
\* A period passes: only while every worker is idle or waits for an answer.
Tick ==
  /\ \A p \in Replica : rep[p].pc = "idle" \/ (rep[p].pc = "post" /\ rep[p].timer < RowTicks)
  /\ job' = TRUE
  /\ rep' = [p \in Replica |-> IF rep[p].pc = "post" THEN [rep[p] EXCEPT !.timer = @ + 1] ELSE rep[p]]
  /\ row' = [h \in Hook |->
       [row[h] EXCEPT !.due = IF @ > 0 THEN @ - 1 ELSE 0,
                      !.age = IF row[h].status = "DELIVERING" /\ @ <= Lease THEN @ + 1 ELSE @]]
  /\ UNCHANGED <<op, posts, accepted, faults, ops>>

deliverWebhooks(p) ==
  \/ reclaimStaleDeliveries(p) \/ claimPendingWebhooks(p)
  \/ Post(p) \/ Accept(p) \/ Refuse(p)
  \/ WriteSent(p) \/ WriteFailure(p)

Fault(p) == LostAnswer(p) \/ WriteSentThrows(p) \/ WriteFailureThrows(p) \/ Crash(p)

Dashboard(o) == Check(o) \/ resetWebhookForRetry(o) \/ markWebhookDismissed(o)

Next ==
  \/ \E h \in Hook : enqueueOutgoingWebhook(h)
  \/ \E p \in Replica : deliverWebhooks(p) \/ Fault(p)
  \/ \E o \in Operator : Dashboard(o)
  \/ Tick

Spec == Init /\ [][Next]_vars

\* Workers run, requests end by their timeout, and the job is repeated.
FairSpec == Spec /\ (\A p \in Replica : WF_vars(deliverWebhooks(p))) /\ WF_vars(Tick)
-----------------------------------------------------------------------------
(* Properties *)

\* "two replicas polling the same cadence never double-deliver"
\* (claimPendingWebhooks): every duplicate an endpoint accepts is paid for by a
\* lost answer, a lost write or a crash; overlapping periods, retries and
\* replicas cause none.
DuplicatesArePaid == \A h \in Hook : accepted[h] <= 1 + faults

\* "Dead-letter only AFTER the row has used all MAX_ATTEMPTS attempts", and
\* each of them was a request, in spite of crashes and reclaims.
DeadIsExhausted ==
  \A h \in Hook : row[h].status = "DEAD" => posts[h] > MAX_ATTEMPTS

\* Every row is sent or ends in the dead letters, whatever crashes: again and
\* again no inserted row is unsettled.
EveryRowSettles == []<>(\A h \in Hook : row[h].status \in Settled \cup {"NONE"})
=============================================================================
