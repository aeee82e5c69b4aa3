----------------------------- MODULE MCBackbone -----------------------------
(***************************************************************************)
(* Instances of seven components that share no state: the outbox, the      *)
(* outgoing webhooks, the inbound ones, the renewal grants, the spend      *)
(* requests, the circuit breaker and the audit chain.  The initial state   *)
(* says which part runs, and the others rest, so the state graph is the    *)
(* disjoint union of theirs.                                               *)
(***************************************************************************)
EXTENDS OutboxDispatcher, Sequences, TLC

CONSTANTS
  r1, r2, r3, t1, t2, a1, d1,               \* outbox rows, topics, aggregate, dispatcher
  Replica, Operator,
  Event, Currency, Worker, v1, v2, v3, c1, c2,
  Operation, Request, o1, o2, o3, x1, x2,
  Call,
  Writer, Sweeper

\* One row on the first topic, which is the sick one; two rows of one
\* aggregate on the second.
OneSick == r1 :> t1 @@ r2 :> t2 @@ r3 :> t2

OneAggregate == r1 :> a1 @@ r2 :> a1 @@ r3 :> a1

VARIABLES
  part,                                                           \* the part that runs
  row, job, rep, op, posts, accepted, deliveryFaults, ops,        \* WebhookDelivery
  seen, acked, hookJob, hookRow, hookSlot, effect, bridged, outgoing, reaper,
  left,                                                           \* WebhookInbox
  log, committed, consumer, queue, slot, ledger, enqueued, skipped, lost,
  grantFaults,                                                    \* RenewalGrants
  cache, req, spendRow, balance, wallets, sent, spendFaults, topped, \* SpendRequests
  circuit, failures, halfOpenSuccessCount, halfOpenInFlight, opened, call, up,
  outages, forgotten,                                             \* CircuitBreaker
  written, live, bundles, tx, sweep, auditNow                     \* AuditChain

\* Two rows, one retry after one tick, and batches that end within the lease.
Delivery == INSTANCE WebhookDelivery
              WITH Rows <- 2, Lease <- 2, RowTicks <- 1, MAX_ATTEMPTS <- 1,
                   BACKOFF_SCHEDULE <- 1 :> 1, MaxOps <- 1, faults <- deliveryFaults

\* One event, crashes only: the lease lies between the first and the last of the
\* four attempts, which are 1 + 2 + 4 ticks apart.  No subscriber is resolved, so
\* a handler has no side effects between its domain writes and the mark.
Inbox == INSTANCE WebhookInbox
           WITH Event <- {"e1"}, None <- "none",
                Fact <- "e1" :> [verify |-> TRUE, subscriber |-> FALSE, purchase |-> "p1",
                                 type |-> "t2", renewal |-> TRUE, public |-> TRUE,
                                 v1 |-> TRUE, replayable |-> TRUE],
                Attempts <- 4, Lease <- 3, Cap <- 3, Prompt <- TRUE,
                MaxDelivery <- 1, MaxRetry <- 4,
                MaxThrow <- 0, MaxCrash <- 2, MaxReaperCrash <- 0,
                job <- hookJob, row <- hookRow, slot <- hookSlot, outbox <- bridged

\* A renewal of two currencies, a first charge, and a conversion whose product
\* is gone; two messages, so that one may be the other again.
Grants == INSTANCE RenewalGrants
            WITH TypeOf <- v1 :> "RENEWAL" @@ v2 :> "INITIAL" @@ v3 :> "TRIAL_CONVERSION",
                 GrantsOf <- v1 :> {c1, c2} @@ v2 :> {c1} @@ v3 :> {c2},
                 Orphan <- {v3}, Attempts <- 2, MaxLog <- 2,
                 job <- queue, faults <- grantFaults

\* Two spends of one wallet, and one of them for another wallet; a wallet pays
\* for one spend.
Spends == INSTANCE SpendRequests
            WITH WalletOf <- o1 :> x1 @@ o2 :> x1 @@ o3 :> x2,
                 BodyOf <- o1 :> [ref |-> "a", amount |-> 1]
                             @@ o2 :> [ref |-> "b", amount |-> 1]
                             @@ o3 :> [ref |-> "a", amount |-> 1],
                 Funds <- 1, MaxSend <- 4, MaxFault <- 1, MaxTopUp <- 1,
                 row <- spendRow, faults <- spendFaults

\* Four calls, of which two trip the circuit and two may probe.
Breaker == INSTANCE CircuitBreaker
             WITH failureThreshold <- 2, halfOpenRequests <- 2, Reset <- 1,
                  MaxOutage <- 2, state <- circuit

\* Up to three rows age, two of them make a bundle, and each delete is a batch;
\* every callerTx is a transaction.
Audit == INSTANCE AuditChain
           WITH Autocommit <- {}, Days <- 1, AUDIT_PROOF_MAX_ENTRIES <- 2,
                CHECKPOINT_DELETE_BATCH_SIZE <- 1, MaxRows <- 4, MaxTime <- 3,
                stored <- bundles, now <- auditNow

deliveryVars == <<row, job, rep, op, posts, accepted, deliveryFaults, ops>>

inboxVars ==
  <<seen, acked, hookJob, hookRow, hookSlot, effect, bridged, outgoing, reaper, left>>

grantVars ==
  <<log, committed, consumer, queue, slot, ledger, enqueued, skipped, lost, grantFaults>>

spendVars ==
  <<cache, req, spendRow, balance, wallets, sent, spendFaults, topped>>

breakerVars ==
  <<circuit, failures, halfOpenSuccessCount, halfOpenInFlight, opened, call, up, outages,
    forgotten>>

auditVars == <<written, live, bundles, tx, sweep, auditNow>>

ASSUME PartsAssumption ==
  /\ Delivery!DeliveryAssumption /\ Inbox!InboxAssumption /\ Grants!GrantsAssumption
  /\ Spends!SpendAssumption /\ Breaker!BreakerAssumption /\ Audit!ChainAssumption

PartsInit ==
  /\ part \in {"outbox", "delivery", "inbox", "grants", "spends", "breaker", "audit"}
  /\ Init /\ Delivery!Init /\ Inbox!Init /\ Grants!Init
  /\ Spends!Init /\ Breaker!Init /\ Audit!Init

PartsNext ==
  \/ /\ part = "outbox" /\ Next
     /\ UNCHANGED <<part, deliveryVars, inboxVars, grantVars, spendVars, breakerVars,
                    auditVars>>
  \/ /\ part = "delivery" /\ Delivery!Next
     /\ UNCHANGED <<part, vars, inboxVars, grantVars, spendVars, breakerVars, auditVars>>
  \/ /\ part = "inbox" /\ Inbox!Next
     /\ UNCHANGED <<part, vars, deliveryVars, grantVars, spendVars, breakerVars, auditVars>>
  \/ /\ part = "grants" /\ Grants!Next
     /\ UNCHANGED <<part, vars, deliveryVars, inboxVars, spendVars, breakerVars, auditVars>>
  \/ /\ part = "spends" /\ Spends!Next
     /\ UNCHANGED <<part, vars, deliveryVars, inboxVars, grantVars, breakerVars, auditVars>>
  \/ /\ part = "breaker" /\ Breaker!Next
     /\ UNCHANGED <<part, vars, deliveryVars, inboxVars, grantVars, spendVars, auditVars>>
  \/ /\ part = "audit" /\ Audit!Next
     /\ UNCHANGED <<part, vars, deliveryVars, inboxVars, grantVars, spendVars,
                    breakerVars>>

\* The fairness of each component's FairSpec, for the part that runs.  The inbox's
\* reaper is left out: it may never come, except in ReaperRecovers.
PartsFairness ==
  /\ \A d \in Dispatcher : WF_vars(part = "outbox" /\ runOnce(d))
  /\ WF_vars(part = "outbox" /\ Tick)
  /\ \A p \in Replica : WF_deliveryVars(part = "delivery" /\ Delivery!deliverWebhooks(p))
  /\ WF_deliveryVars(part = "delivery" /\ Delivery!Tick)
  /\ \A w \in Worker : WF_inboxVars(part = "inbox" /\ Inbox!WorkerStep(w))
  /\ WF_inboxVars(part = "inbox" /\ Inbox!Tick)
  /\ WF_grantVars(part = "grants" /\ Grants!ConsumerStep)
  /\ \A w \in Worker : WF_grantVars(part = "grants" /\ Grants!WorkerStep(w))
  /\ \A c \in Call : WF_breakerVars(part = "breaker" /\ Breaker!exec(c))
  /\ WF_breakerVars(part = "breaker" /\ Breaker!Tick)
  /\ WF_breakerVars(part = "breaker" /\ Breaker!Store /\ ~up)

PartsSpec ==
  PartsInit
    /\ [][PartsNext]_<<part, vars, deliveryVars, inboxVars, grantVars, spendVars,
                     breakerVars, auditVars>>
    /\ PartsFairness
-----------------------------------------------------------------------------
(* Properties: those of OutboxDispatcher by their own names, and the following *)

\* The types of all seven components; those at rest are as they began.
PartsTypeOK ==
  /\ part = "outbox" => TypeOK
  /\ part = "delivery" => Delivery!TypeOK
  /\ part = "inbox" => Inbox!TypeOK
  /\ part = "grants" => Grants!TypeOK
  /\ part = "spends" => Spends!TypeOK
  /\ part = "breaker" => Breaker!TypeOK
  /\ part = "audit" => Audit!TypeOK

\* "two replicas polling the same cadence never double-deliver"
\* (claimPendingWebhooks): every duplicate an endpoint accepts is paid for by a
\* lost answer, a lost write or a crash (attemptDelivery).
DuplicatesArePaid == Delivery!DuplicatesArePaid

\* "Dead-letter only AFTER the row has used all MAX_ATTEMPTS attempts"
\* (attemptDelivery), and each of them was a request.
DeadIsExhausted == Delivery!DeadIsExhausted

\* Every outgoing webhook is sent or ends in the dead letters, whatever crashes
\* (reclaimStaleDeliveries).
EveryRowSettles == Delivery!EveryRowSettles

\* "total retry span > claim lease" (webhook-processor.ts): the job's own retries
\* process an enqueued event though no reaper ever runs, unless BullMQ gives the job
\* up for stalling twice.
EnqueuedIsProcessed == Inbox!EnqueuedIsProcessed

\* "Each reclaimed row becomes FAILED + retryCount++ AND is re-enqueued as a
\* fresh processing job" (webhook-reaper.ts): a claimed event ends PROCESSED even
\* when its own job was lost for good, as long as the reaper keeps being run.
ReaperRecovers ==
  WF_inboxVars(part = "inbox" /\ Inbox!ReaperStep) => Inbox!ClaimedIsProcessed

\* Renewal messages processed any number of times implement a ledger that pays
\* each debt of a renewal once (grantProductCurrencies).
GrantsImplementContract == Grants!GrantsImplementContract

\* A renewal in the topic is paid in the end, unless BullMQ gave its job up or
\* the group had no offset yet (runRenewalGrant).
RenewalIsGranted == Grants!RenewalIsGranted

\* A 2xx of the spend route tells the balance the request's own debit left
\* (idempotency, spendCredits), while the key names one wallet.
AnswerIsOwn == Spends!AnswerIsOwn

\* Every audit row ever committed is in the table or in a stored bundle, and
\* both verify (writeChained, checkpointAndTruncate), while callers pass
\* transactions as callerTx.
HistoryIsProvable == Audit!HistoryIsProvable

\* No more probes run than halfOpenRequests, until close() zeroes the count
\* under a probe in flight, and every slot of the count is a probe that gives it
\* back (CircuitBreaker.exec).
ProbesCapped == Breaker!ProbesCapped

\* A tripped circuit closes again once outages end (CircuitBreaker).
CircuitRecovers == Breaker!CircuitRecovers
=============================================================================
