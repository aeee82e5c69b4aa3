# TLA+ specifications of Rovenue

Rovenue turns store notifications (App Store, Google Play, Stripe) into
subscription rows, entitlements and credits, and tells the rest of the world
about it. This directory specifies the parts of `apps/api` and `packages/db`
where several processes write the same rows, checks them with TLC on small
instances, and proves the main safety properties with TLAPS for instances of
any size.

Contents: [the system](#1-the-system), [plan](#2-plan),
[modules and code](#3-modules-and-code), [runs](#4-runs),
[fairness](#5-fairness), [proofs](#6-proofs), [findings](#7-findings),
[limits](#8-what-is-not-modelled). `PROJECT.json` maps every definition to its
lines and lists the hazards each property answers to. Source paths below are
relative to `src/`.

## 1. The system

### Components

| Component | State | Operations | What makes it correct |
|---|---|---|---|
| Credit ledger (`services/credit-engine.ts`, `purchase-credits.ts`, `credit-ledger` repository) | append-only `credit_ledger` rows with a running balance; advisory locks | `addCredits`, `spendCredits`, `refundCredits`, `grantProductCurrencies` | every reference lands once; the latest row's balance is the sum of all rows; no wallet is overdrawn |
| Subscriber merge (`services/subscriber-transfer.ts`) | `purchases.subscriberId`, soft deletes, ledger rows | `transferSubscriber` → `reassignAllAssets` | credits are moved and not made; no purchase ends on a retired subscriber; no deadlock |
| Inbound webhooks (`routes/webhooks`, `webhook-replay-guard.ts`, `webhook-processor.ts`, `webhook-reaper.ts`) | Redis seen keys, BullMQ jobs, `webhook_events` rows with a claim lease | deliver, claim, handle, settle, retry, reclaim, replay | one worker per event; PROCESSED only after every side effect; claimed events end processed |
| Transactional outbox (`outbox-dispatcher.ts`, `outbox` repository) | `outbox_events`, in-memory backoff per topic | insert in a transaction, claim, send, mark, clean up | at least once; order per aggregate; a failing topic does not stop the others |
| Outgoing webhooks (`webhook-delivery.ts`, `outgoing-webhooks` repository, dashboard routes) | `outgoing_webhooks` rows with status, attempts, lease | claim a batch, post, settle or back off, reclaim, retry or dismiss dead letters | no double delivery without a failure; dead only after all attempts; every row settles |
| Subscription state and guard (`subscription-state.ts`, `subscription-transition-guard.ts`) | status and event time of a purchase | `guardStatusWrite`, `upsertPurchase`, `updatePurchase` | refunded and revoked are final; event time does not go back |
| Google Play (`services/google`, `google-reconciliation.ts`) | the purchase row of a token | notification, void, reconciliation sweep | the row follows Google's live state |
| Expiry checker (`expiry-checker.ts`) | — (reads and writes purchases) | expire overdue rows, age out holds, announce | each lapse announced once; a hold always ages out |
| Apple (`services/apple`) and the receipt route's Apple path | the purchase rows of a chain of transactions, access rows, revenue rows | each notification type, receipts, supersession, billing recovery, refund and reversal | terminal rows come back by a reversal only; a charge is income once; access and books follow Apple |
| Access engine and drift healer (`access-engine.ts`, `access-reconciliation.ts`) | `subscriber_access` rows, an advisory lock | `syncAccess`, grants and revokes, drift detection | access follows the purchase |
| Renewal grants (`renewal-grants/consumer.ts`, `queues/renewal-grants.ts`, `workers/renewal-grant.ts`) | a Kafka offset, BullMQ jobs under the outbox row's id, ledger rows | consume, filter, enqueue, grant per currency, retry | every renewal is paid, each currency once |
| Idempotency keys (`middleware/idempotency.ts`) before the spend route | a cached answer in Redis | look up, replay or refuse, run, store | an answer tells what the request itself did |
| Circuit breaker (`lib/circuit-breaker.ts`) before the store APIs | state, failure count, probe slots in memory | `exec`, trip, close | probes are capped; the circuit closes again |
| Audit chain (`lib/audit.ts`, `audit-retention/checkpoint.ts`) | `audit_logs` rows linked by hash, an advisory lock, proof bundles in object storage | chained write in the caller's transaction; export, store, delete, checkpoint | no row is lost that no bundle holds; table and bundles verify |
| Stripe, refunds, integrations, notifications, experiments, leaderboards, funnels, imports, GDPR, SDK core, dashboard … | see `PROJECT.json` | | not modelled yet, or not worth modelling: the reason is with each |

### How they interact

```
 App Store / Play / Stripe ──► route ─► replay guard (Redis) ─► BullMQ job
                                                                   │
        reaper ──reclaims──► webhook_events ◄──claims/settles── worker
                                                                   │
       expiry sweeper ─┐                          ┌── guarded upsert
   Google recon sweep ─┼──► purchases  ◄──────────┤
         drift healer ─┘        │                 ├── grantProductCurrencies ─► credit_ledger
                                ▼                 │                               ▲      ▲
                     syncAccess ► subscriber_access                          spends   transfers
                                                  └── outgoing_webhooks, outbox_events
                                                            │                │
                                          delivery workers ─┘                └─ dispatcher ─► Kafka
                                                                                               │
                              credit_ledger ◄── renewal-grant worker ◄── BullMQ ◄── consumer ──┘
```

Everything meets in Postgres. Processes are the API replicas' BullMQ workers,
the repeatable jobs (which have concurrency 1 each but run beside all others)
and the dispatcher. They coordinate by row locks, advisory locks, leases,
compare-and-swap updates, and in places not at all; that is what the modules
are about.

### Where it is hard

- *Statements of concurrent transactions interleave*, and `createdAt` is the
  start of a transaction while visibility is its commit (ledger, outbox).
- *Check-then-write without a unique index* (grants, outbox bridge, access rows,
  dead-letter retry).
- *Leases* that may run out under a slow but live holder (inbox claim, delivery
  batch).
- *At-least-once everything*: redelivered notifications, stalled jobs, replays,
  retried spends, partially acknowledged sends.
- *Crashes between two commits* (reaper, sweeper announcement, dispatcher mark).
- *Several writers of one row, with state fetched before and written after an
  await* (notification handlers against each other and against the sweeps).

The full list, each at its line, is under `hazards` in `PROJECT.json`.

## 2. Plan

In the order of importance; done in this version unless marked.

1. `CreditLedger` with the merge: money. Runs, proofs.
2. `WebhookInbox`: the pipeline everything else is driven by. Runs, proofs.
3. `OutboxDispatcher` and `WebhookDelivery`: what leaves the system. Runs, proofs.
4. `GoogleEntitlement`: composes the state machine, the guard, the notification
   handler, both sweeps, the access engine and the healer on one row. Run, proofs of
   all its properties.
5. `SubscriptionStatus` (the state machine and the guard on their own) and
   `AppleChain`: chains of transactions, supersession, refund reversal, revenue,
   receipts. Runs; proofs of all the properties of `AppleChain`.
6. `RenewalGrants` behind the outbox, implementing the abstract `GrantContract`;
   `SpendRequests`; `CircuitBreaker`; `AuditChain` under retention. Run, proofs.
7. *Later:* Stripe as the third writer of purchases; integrations fan-out, the
   refund-shield responder, scheduled actions,
   the SDK's event queue; an abstract entitlement specification that
   `GoogleEntitlement` and `AppleChain` both implement.

## 3. Modules and code

Each module keeps the source's names for operations; one action is one
statement, lock wait, remote call or commit, so that the points at which the
code can be overtaken are the points at which the model can. `MC*` modules only
give constants their values. `*Proofs` modules extend the component's module.
Definitions marked *Mutant* are the plausible bugs the properties were tested
against; nothing uses them.

### CreditLedger

`ledger` is the set of committed rows, `owner` and `merged` stand for
`purchases.subscriberId` and `deletedAt`/`mergedInto`, `session` for what each
database session has read so far. `Begin` fixes `at = now()`, `Lock` takes the
wallet's advisory lock, then `Dedupe`, `ReadBalance` and `insertCreditLedger`
(with the commit) follow. `grantProductCurrencies` runs one such transaction per
currency. `BeginTransfer`, `LockLabel`, `ReadSource`, `ReadTarget` and
`reassignAllAssets` are the merge. `int4` overflow and the CHECK on the balance
roll a transaction back. `total` and `inverted` are history: the true sum, and
the wallets for which a transaction committed after a later-begun one.

### WebhookInbox

`seen` are the replay guard's keys, `job` the BullMQ queue with attempts, delays
and stalls, `row` the `webhook_events` rows with the age of the claim, `slot` the
workers, `effect`/`outbox`/`outgoing` what has been applied, `reaper` the rows a
sweep has reclaimed and not yet re-enqueued. The stores' domain writes are one
idempotent effect (their content is the subject of `GoogleEntitlement` and `AppleChain`). `Fact`
says of each event what the handler finds out. `Prompt` is the assumption that a
live handler finishes within its lease; with `Prompt = FALSE` only
`ProcessedMeansDone` is claimed.

### OutboxDispatcher

Rows go from `open` (inserted in an uncommitted transaction) to `unpublished`,
`published`, `deleted`. `Claim` takes the oldest `Batch` rows and filters the
topics in backoff afterwards, as the code does; `Send`/`SendFails` settle each
topic on its own, a rejection possibly having stored some partitions;
`Collect` updates the backoff; `markPublished` marks. Several dispatchers are
allowed by the module, although the deployment runs one, and the proof covers
them.

### WebhookDelivery

`row` has the status, attempts, time to the next retry and the age of the claim;
`rep` each replica's worker with the rest of its batch; `op` a dashboard request
between its check and its update. A tick is the period of the repeatable job and a
request takes up to `RowTicks` of them.

### RenewalGrants and GrantContract

`log` is the partition of `rovenue.revenue`, to which the dispatcher appends an event
any number of times; `committed` and `consumer` are the group's offset and the running consumer;
`job` is the queue by job id (the outbox row), `slot` the workers, `ledger` the number of rows
per event and currency. `Subscribe` starts at the committed offset or, with
`fromBeginning: false` and no offset, at the end; `Enqueue` and `EnqueueThrows` are the two ends of
`eachMessage`; `loadProduct`, `addCredits` and `Complete` are the job, one `addCredits`
per currency; `Throw`, `Stall` and `Evict` are BullMQ's attempts, lost locks and forgotten
ids. `GrantContract` knows only what is owed and what is paid; the refinement
maps `owed` to the debts of the published renewals and `paid` to the ledger.

### SpendRequests

The requests of one project that carry one Idempotency-Key. `cache` is the stored response,
`req` the requests with the answers they got, `row` the SPEND rows by wallet and reference. The
middleware's `redis.get`, the handler and `redis.set` are three steps, so requests overlap
between them; each Redis call may fail and fails open.

### CircuitBreaker

`exec` is two steps, before and after the await of the call; `call` remembers the state
each call found, as the local `current` does. `forgotten` is history: `close()` zeroed the probe
counter while a probe was in flight.

### AuditChain

The chain of one project. `written` is every row ever committed, with the row its `prevHash`
names and its `createdAt`; a hash is the row's place in `written`, which says no more than
that hashes of different rows differ. `live` is the table, `stored` the bundles. `Lock` (with the
tip), `Insert` and `Commit` are a write in the caller's transaction, which may stay open for long; `Start`,
`listAuditProofRows`, `putObject`, `deleteAuditLogRowsByIds` (one batch a step) and a chained write
are `checkpointAndTruncate`, which takes the lock for its own row only. `SweepFails` ends a run at any
step. `Autocommit` are callers that pass a plain connection as `callerTx`.

### SubscriptionStatus, GoogleEntitlement

`SubscriptionStatus` holds the statuses, `TRANSITIONS`, the terminal rule and the billing-issue
stamp; both entitlement modules extend it. `GoogleEntitlement` follows one subscriber, one token, one access id. `store` is Google's record, `inbox` the
undelivered notifications, `row` the purchase, `access` the access rows in order of
creation. A worker goes through fetch, stamp (`eventTime = new Date()`, after the
fetch), guarded write, grant or revoke, sync. The sweeper reads a candidate, swaps the
status, syncs, announces. The reconciliation sweep claims the row `FOR UPDATE`, fetches
and writes in one transaction. `syncAccess` is a read and a write under the advisory
lock, which no other write of these tables takes. History: `newest` and `skewed` tell
whether the last write of the row was of an older state of the store than one already
written (or expired a row that had just been renewed), `unsynced` whether a sync was
lost, `untold` how many lapses wait for their announcement.

### AppleChain

One subscriber and one chain (`originalTransactionId`) of up to `MaxTxn` transactions, on
products of two tiers with an access id each. `log`, `charges` and `store` are Apple's side; `inbox`
holds notifications and receipts to be processed, in any order; `rows`, `access` and `revenue` are the
tables. A worker takes a notification and goes through the handler of its type: the guarded
upsert of one transaction's row, or the chain-wide write of a failed renewal, an expiry or a
revocation, which neither checks nor sets event times; then recovery, supersession of
the tier an upgrade replaced, grants or revocations, revenue under its dedupe key, and the
locked sync. A crash rolls the open statement back and the queue runs the job again. History:
`skewed` (an event was overtaken by a newer one), `unsynced` (a chain write that no sync followed).

## 4. Runs

| Run | Instance | Distinct states | Result |
|---|---|---|---|
| `ledger` | 3 subscribers, one of them in no transfer, 2 currencies, a grant, an admin reference, a spend, transfers both ways, 2 sessions, 3 transactions | 632 k | holds |
| `ledger_overdraft` | 1 wallet, a grant, 3 spends, 2 sessions | – | violated |
| `ledger_transfer_race` | 2 subscribers, both directions, a grant, a spend | – | violated |
| `ledger_grant_again` | 2 subscribers, 1 purchase, 1 transfer, 1 session | – | violated |
| `inbox_safety` | 2 events of one purchase, 2 workers, 2 attempts, 2 failing calls, a dead worker, a dead reaper | 1.3 M | holds |
| `inbox_reaper_crash` | 1 event, 4 attempts against a lease of 3, 2 dead workers, a dead reaper | – | violated |
| `backbone` | seven components side by side, see below; liveness and refinement | 708 k | holds |
| `outbox_starve` | 2 rows of the failing topic fill the batch | – | violated |
| `delivery_double` | 2 rows, a request slower than half the lease, no fault | – | violated |
| `entitlement` | 2 workers, 3 sweeps, 1 change at the store, 1 lost notification, 1 crash or failed sync | 2.1 M | holds |
| `apple` | 2 workers, up to 3 transactions, 4 events (notifications, receipts, failed jobs), 2 of them waiting at a time | 2.2 M | holds |
| `apple_grace` | 1 transaction, 2 notifications | – | violated |

`backbone` instantiates seven modules that share no state. The initial state picks the part that
runs and the others rest, so the state graph is the disjoint union of the seven, and every
property is checked on all of its part:

| Part | Instance | States |
|---|---|---|
| outbox | 3 rows, 2 topics, one failing, batch of 2, 2 faults | 54 k |
| delivery | 2 rows, 2 replicas, a dashboard request, 1 retry, 2 faults | 323 k |
| inbox | 1 event that resolves no subscriber, 4 attempts against a lease of 3, 2 workers, 2 of them dying | 54 k |
| grants | a renewal of 2 currencies, a first charge, a conversion whose product is gone, 2 messages, 2 workers, 2 attempts, 2 faults | 77 k |
| spends | 1 key, 3 operations on 2 wallets, 2 requests at a time, 4 sent, a fault, a top-up | 51 k |
| breaker | 4 calls, threshold 2, 2 probes, 2 outages | 4 k |
| audit | a writer, 2 overlapping sweeps, 4 rows, bundles of 2, batches of 1, clock to 3 | 145 k |

What the passing runs say:

- `ledger`: the inductive invariant; a reference is granted once (`GrantOnce`) and spent once
  (`SpendOnce`); the latest balance is the total wherever commits kept the order of the begins
  (`LatestBalanceIsTotal`); no purchase ends on a retired subscriber; whatever merges overtake it, a
  grant credits the purchase's owner or a subscriber that has been merged, never a stranger
  (`NoStrangerIsGranted`; how often it does across a merge is finding 3); no sessions wait for each
  other in a circle (`NoWaitCycle`). Crashes between two currencies and overflow are in it.
- `inbox_safety`: one handler at a time (`SingleFlight`), one outbox row per event (`BridgedOnce`), a
  PROCESSED row has had all its effects (`ProcessedMeansDone`) and stays PROCESSED (`ProcessedIsFinal`).
- `backbone`, inbox: the job's own retries process an event unless BullMQ gave the job up
  (`EnqueuedIsProcessed`), and then the reaper does (`ReaperRecovers`). One event, crashes only and no side
  effects after the domain writes, because the subject is time: the lease of 3 lies between the first
  and the last retry (1 + 2 + 4), as the real one does.
- `backbone`, outbox: at least once, per-aggregate order except for rows whose transactions
  overlapped, and the healthy topic drains as long as the failing one does not fill a batch.
- `backbone`, delivery: with a batch that fits its lease, every duplicate an endpoint accepts is
  paid for by a fault; dead letters used all their attempts; everything settles. There is
  one dashboard request: two for the same row can undo a sent one (see section 7).
- `backbone`, grants: however often a message is appended, consumed and processed, by two workers
  at once or after its job id was forgotten, the ledger pays each debt once and nothing else
  (`GrantsImplementContract`, a refinement); and every renewal is paid, unless BullMQ gave its job up
  or the group had no offset when the message was written (`RenewalIsGranted`).
- `backbone`, spends: with a key that names one wallet, a 2xx tells the balance that the
  request's own debit left, through overlaps, expiry and failing Redis calls (`AnswerIsOwn`).
- `backbone`, breaker: probes are capped and no slot leaks, until `close()` forgets a
  probe in flight (`ProbesCapped`); the circuit closes again once outages end (`CircuitRecovers`).
- `backbone`, audit: every row ever committed is in the table or in a stored bundle, and both
  verify, through long transactions, overlapping sweeps, half-done deletes and failed runs; a link of the
  whole history is missing only where a checkpoint had emptied the table (`HistoryIsProvable`). Two
  writers and 5 rows were also checked (352 k states, no violation). All callers pass a
  transaction; section 7 has the ones that do not.
- `entitlement`: terminal statuses, event time, holds; access follows the row, and Google,
  when the writers are at rest; lapses are announced once.
- `apple`: REFUNDED and REVOKED rows are left by a reversal only; one charge is one income row under
  all its announcements; when the workers are at rest access follows the rows, and if no event was
  overtaken access and books follow Apple.

*Bounds.* Two workers, sessions or replicas are what every race found here needs: each
is between two parties, and locks and claims treat all others alike. The counts of
transactions, faults and changes are the smallest with which every action and every
mutant's violation is reached. The `ledger` run was also made with a third transfer that chains into
the other two (3→1, 807 k states, no violation); it then has no wallet left for `LatestBalanceIsTotal`.
The entitlement run allows one change at the store
after the purchase. The same module with two changes and two workers, but no lost
notification and no failure (`MaxChanges = 3`, `MaxLost = 0`, `MaxFail = 0`), was also
checked to the end without a violation (8.3 M states, too slow to keep as a run); with
two changes, a longer clock and failures together the search was not completed.
Larger counts are what the proofs are for. Symmetry is used over workers and replicas in runs
without liveness only.

`CHECK_DEADLOCK FALSE` is set where the bounds (transactions, deliveries, changes) or the
purpose (an empty outbox, no notification) let the system come to rest.

*Premises worth reading.* `ServedFollowsStore` assumes no skewed write, in `GoogleEntitlement` also no lost
notification, in `AppleChain` for exactness also a `Plain` history: no grace period (its chain-wide write revives the
rows an upgrade retired) and no reversal of a refund after a failed renewal or a revocation (the recovery dates every row of
the chain, so an older event is then withheld; a revoked row stays revoked); `RevenueFollowsStore` no overtaken event and one refund per transaction;
`ServedFollowsRow` and `ServedFollowsRows` no lost sync; `AnswerIsOwn` one wallet per key; `HistoryIsProvable` transactions as `callerTx`; `EventOrder` no first insert in flight;
`ChurnToldOnce` claims completeness only without failures. Each premise was dropped in
turn and TLC produced the counterexample that the corresponding hazard in `PROJECT.json`
describes: they are limits of the code, not of the model.

## 5. Fairness

Only weak fairness, and only for what runs by itself:

- `WebhookInbox`: a live worker fetches due jobs and finishes; time passes. The reaper is
  fair only in `ReaperFairSpec` and in the premise of `ReaperRecovers`: it is a
  repeatable job. Deliveries and faults are not fair.
- `OutboxDispatcher`: the dispatcher's loop polls forever, time passes; sends on a
  sick topic always fail, others only finitely often (bounded faults).
- `WebhookDelivery`: workers run, requests end by their timeout, the job repeats.
- `RenewalGrants`: the consumer runs or is restarted, workers take and finish jobs. Messages,
  offset commits, evictions and faults are not fair.
- `CircuitBreaker`: requests keep coming (a circuit without traffic stays as it is), calls end,
  time passes, outages end.

The liveness properties of `backbone` have the form `[]<>(nothing is waiting)`, which
implies that each single item is settled.

`CreditLedger` has `NoWaitCycle` instead of liveness: Postgres grants a released lock to its
waiters, so a session waits for good only in a circle. `GoogleEntitlement` and `AppleChain` claim things of
states at rest. `SpendRequests` has no liveness: a request ends or fails. Nor has `AuditChain`: what a failed sweep left,
the next one takes up.

## 6. Proofs

All are checked by TLAPS (SMT, Zenon and LS4) for every value of the constants that
satisfies the named assumption of the module.

The theorems a reader should know of are listed under `theorems` in `PROJECT.json`. Where
a property needs more than its module's assumption, the theorem says so:

| Module | Theorems | Beyond the assumption on constants |
|---|---|---|
| `CreditLedgerProofs` | `LedgerGrantOnce`, `LedgerSpendOnce`, `LedgerBalance`, `LedgerPurchasesStayLive`, `LedgerNoStrangerIsGranted`, `LedgerNoWaitCycle` | – |
| `WebhookInboxProofs` | `InboxProcessedMeansDone`; `InboxSingleFlight`, `InboxBridgedOnce`, `InboxProcessedIsFinal` | none; `Prompt` |
| `OutgoingProofs` | `OutboxAtLeastOnce`, `OutboxInOrder` | – |
| | `DeliveryDuplicatesArePaid`, `DeliveryDeadIsExhausted` | `DeliveryInTime` |
| `GoogleEntitlementProofs` | `EntitlementTypeCorrect`, `EntitlementHoldIsStamped`, `EntitlementTerminal`, `EntitlementEventOrder`, `EntitlementServedFollowsRow`, `EntitlementServedFollowsStore`, `EntitlementChurnToldOnce` | – |
| `AppleChainProofs` | `AppleTypeCorrect`, `AppleTerminal`, `AppleChargeOnce`, `AppleServedFollowsRows`, `AppleRevenueFollowsStore`, `AppleServedFollowsStore` | – |
| `RenewalGrantsProofs` | `Refinement`, `TypeCorrect` | – |
| `RequestGuardProofs` | `ProbesStayCapped`, `AnswersAreOwnDebits` | – |
| `AuditChainProofs` | `HistoryProvable`, `TypeCorrect` | `Autocommit = {}` |

**CreditLedgerProofs** — `Spec => []IInv`, and from it `GrantOnce`, `SpendOnce`,
`LatestBalanceIsTotal` and `NoWaitCycle`. The properties are not inductive: a check-then-insert is
only safe if what was read is still true at the insert. `IInv` adds that transaction times are own
and distinct (`TimesDiffer`), that a wallet has one row per time and a latest one
(`RowsOrdered`), that one session at a time is past a wallet's lock (`WalletExclusive`), that what it
read there is fresh (`ReadsFresh`), and that transfers touch their parties only. Two lemmas carry the
argument: a step that commits nothing (`LocalStep`) and a step that commits rows (`CommitStep`).
No circle of waits: a session waits either for a wallet's lock, whose holder waits for
nothing, or for a transfer's label; labels are taken in sorted order, and of the transfers that wait for
their second one, the one with the highest first label waits for none of the others.

Merges need a second invariant, `TransferInv`: one transfer at a time holds a subscriber's label
(`LabelExclusive`), so the two parties a transfer found live stay so until it commits
(`PartiesAreLive`), so purchases stay on live subscribers (`PurchasesStayLive`); and every credit of
a purchase, committed or on its way, is for the purchase's owner or for a subscriber a merge has
retired (`GrantsGoToOwner`). For the committed ones this is `NoStrangerIsGranted`. It bounds who is credited and not
how often: `GrantOnce` does that for one wallet, and across a merge nothing does (finding 3).

**WebhookInboxProofs** — `Spec => []IInv`; `ProcessedMeansDone` unconditionally;
`SingleFlight`, `BridgedOnce` and `ProcessedIsFinal` under `Prompt`. `IInv` has two
halves: what a handler at each step has behind it (`Behind`, effects only grow, so it survives
every interference), and, under `Prompt`, that its row carries its own unexpired claim and that what
it read of the outbox is still true (`Held`).

**OutgoingProofs**, outbox — `Spec => []PublishedIsStored` for any number of
dispatchers, by induction together with `AcknowledgedIsStored`: what a dispatcher
is about to mark has been stored. The order of an aggregate's events
(`InOrderUnlessOverlapped`) needs `OrderInv` beside it: `createdAt` is counted by the begins (`Timed`), a
row still open when a younger one of its partition is visible is an overlapped one
(`OpenIsOverlapped`), and with each row a dispatcher holds, or Kafka has stored, every older visible
row of its partition is held or dealt with (`BatchIsPrefix`, `StoredIsPrefix`). The last two are
what the oldest-first claim and the all-or-nothing backoff of a topic buy, and why two
dispatchers do not break the order although they may send rows twice.

**OutgoingProofs**, delivery — `DuplicatesArePaid` and `DeadIsExhausted` under `DeliveryInTime`:
`Batch * RowTicks <= Lease`, and one dashboard request at a time. Neither holds without them
(finding 6, and the two dashboard requests of section 7), and the deployment grants the first only for
endpoints fast enough. `DeliveryInv` says why they suffice. A held row's age, and the time
each row of its batch has yet to take, fit into the batch's whole time and the request under way (`InTime`), so
it is never stale, so nobody else claims it (`HeldByOne`); a request the endpoint accepted and no fault
pays for is about to be, or is, recorded as SENT (`AcceptedIsPaid`); and each attempt a claim returned was a
request (`WorkerOK`, `AttemptsAreRequests`). That a claim takes at most a batch is a lemma of its
own (`ClaimIsBatch`): two claimed rows never have the same number of older due rows.

**GoogleEntitlementProofs** — all seven properties, by three invariants on top of each other.
`IInv` gives `HoldIsStamped`, `TerminalIsAbsorbing` and `EventOrder`.
The guard alone does not give them: the sweeper writes without asking it, so its candidate must
be known not to be terminal (`Candidate`), and the reconciliation sweep stamps by the status it
read, so its row lock must have kept it (`Claim`). `Clocks` says that nobody carries a
time from the future.

`ServedInv` gives `TypeOK`, `ServedFollowsRow` and `ChurnToldOnce`. Its core is `Synced`: as long as nobody
still owes a sync (`Pending`), the access rows agree with the purchase, or the process
in the sync's transaction has read them as they are (`Reading`) and will make them agree. A handler
owes its sync until it reaches it, a failed one leaves `unsynced`, and the advisory
lock makes the two cases exclusive (`Locked`). `Announced` counts the lapses: what is untold is what the
sweeper still has in hand.

`StoreInv` gives `ServedFollowsStore`. It speaks of one change `b` of the store, the last that moved its
state or expiry: whoever fetched at or after `b` carries what the store still says (`Fresh`); once a write of such a fetch
was the last, the row mirrors the store (`Mirrors`); and until then the notification of `b`, or of a later change,
is lost or still waiting (`Owing`). `Expiries` keeps everybody's dates at or before the store's until the
subscription is cut short.

`EntitlementAssumption` asks that no worker bears the name of one of the sweeps or of `Nobody`, the free
lock's holder; with such a worker a lock would look free while held.

**AppleChainProofs** — `TypeInv` gives `TypeOK` and, with it, `TerminalLeftByReversal`: every message
in the inbox or in hand is about an event of the log and a charge Apple made (`StoreTyped`), rows are rows of charges
and `latest` is one of them (`RowsTyped`), access lines are of known purchases (`AccessTyped`), and what each process
carries from one step to the next is too, with one process per message and one in the sync's transaction
(`JobsTyped`). The last is what makes it inductive: a process creates an access line two steps after it wrote
the row, so that the row is known must be carried along. The argument goes by the parts of the state a step may touch:
each handler is a `RowsStep`, a `JobStep` and an `AccessStep`, and these keep the parts, whatever the handler. `BooksInv`
gives `ChargeOnce`: rows of revenue differ in transaction or key, income is filed under two keys only, and
under the second only after a reversal.

`SyncInv` gives `ServedFollowsRows`. Grants and revocations write access lines beside the syncs, and a
sync writes what it read a step earlier, so the lines agree with the rows at no fixed point of a handler. What
holds is about who still owes a sync: a message is a debtor (`MustSync`, `Debtors`) if its handling ends with a sync, from whatever
step it is started again, and no process has begun that sync's transaction. While there are no debtors, and the last chain write
was followed by a sync or every row is terminal, the access lines agree with the rows (`Agrees`), or the process in the transaction
holds, in what it read, lines that will (`WillAgree`). Agreement is stated with the expiries, not only for
now, so that the clock cannot break it. `KindInv` says which kinds of message can be at which step: an expiry whose status was
withheld ends with no sync, so it owes none (`Withheld`), and the rows it would have moved were terminal already.

`AccountInv` gives `RevenueFollowsStore`. While no event was overtaken, each charge and each reversal in Apple's log is booked, or
its message is `Pending` (in the inbox, its revenue step not reached), or it is a reversal `Dropped` because its purchase had no row.
A handler whose status write is withheld skips revenue, so the proof must show that the guard withholds nothing
here: `RowGiven` says that a row is no newer than the newest event given to it, and on hold or terminal only when
something newer than its charge was given to it, which makes a withheld charge an overtaken one. That chain-wide writes, which set no event time,
keep it rests on the order in which Apple reports (`LogOrder`: what reports one charge is reported at once, before its
refunds, and charges in their order) and on the upgrades' own retirements (`RetiresGiven`). A dropped reversal stays
dropped: the row it missed could only be made by the charge, which is older. And what is booked as a purchase has a row
(`BookedHappened`), so once everything is processed nothing was dropped.

`FollowInv` and `DatesInv` give `ServedFollowsStore`. Rows and log agree only at rest; meanwhile what holds is relative to the
newest event given to each row. `LiveRow`: a row that grants access is what some event made it, and each later event given
to it that ends what was paid for is not written yet, or is an upgrade that has yet to retire it (`Replaces`: nothing was searched,
or the row is among those found). `DeadRow`: in a `Plain` history a row that grants none was given an end after every charge
and reversal it was given. `Written`: an event is given to all rows it is about, or its notification waits. `Marked`: a row on
hold, or dated by a recovery, was given a failed renewal, and a revoked row a revocation; so `Plain` excludes
the reversals the guard would withhold or refuse. `SparesOwn`: an upgrade does not retire the row it charged for. When everything
is processed nothing waits, so a row grants access exactly when Apple's log, read to its end, says so (`SettledRows`), and
by `SyncInv` the lines agree with the rows. Agreement bounds a line's expiry only from below, so serving no more than was
paid takes `DatesInv`: without a grace period every line, and every line a sync is about to write, ends with the charge
it names, which holds because lines are never removed while a sync is in progress (`Still`).

An earlier form of the property, which held on the `apple` instance, failed with more events (refund, revocation, resubscription,
then the reversal of the refund, which makes the refunded row live again although a revocation followed its charge). The
property now says what was paid for event by event (`Ends`, `PaidFor`), lets a reversal give back what it is about
(`GivenBack`) and names the histories in which the rows part from Apple's account (`Plain`).

`ChainAssumption` asks that no worker bears the name of `Nobody`, as in `GoogleEntitlement`.

**RenewalGrantsProofs** — that the renewal grants implement `GrantContract`. Initial states map to
initial states, `Publish` announces, `addCredits` pays one debt or stutters, and everything else
stutters. Paying only what is owed needs an invariant: a worker that pays has a published
renewal in hand (`WorkIsOwed`), because jobs are made of messages (`JobsArePublished`); a job has one lock
(`LockIsExclusive`) and its attempts (`JobsHaveBudget`), which type correctness takes.

**RequestGuardProofs** — `ProbesCapped`, from `SlotsAreProbes`: the counter is the number of calls that
are probes, until `close()` has forgotten one. `AnswerIsOwn`: a stored or running answer tells the balance
its wallet's row records, and a request knows only rows of the operation it asks for.

**AuditChainProofs** — `HistoryIsProvable` for callers that pass a transaction (`Autocommit = {}`; section
7 has the ones that do not). A transaction past the advisory lock knows the tip, or that the table is empty, and
nobody else can append (`HolderHasTip`); rows are in the order of their
times (`RowsInOrder`); the table is a tail of the history (`LiveIsTail`) because a sweep deletes the
oldest rows it listed, and only once their bundle is stored (`HeadIsStored`).

*Only model-checked:* every liveness property and its fairness (outside the prover's reach);
`TypeOK` of `WebhookInbox` and of the parts in `backbone` together, whose bounds are powers of two
that the provers do not evaluate for a variable exponent; and the violations of section 7. The inductive
invariants `IInv` of the ledger are an invariant of the `ledger` run; those of the other modules were
checked by TLC on the same instances as their properties before they were proved.

## 7. Findings

Seven statements in the repository's comments are refuted by what the code does; each is
a run that expects the violation, and the quotation is in `PROJECT.json`.

1. `ledger_overdraft` — the advisory lock does not keep concurrent spends from
   overdrawing: the lock is taken after `now()` is fixed, and the balance is read by
   `createdAt`.
2. `ledger_transfer_race` — a transfer's balance read and write is not race-free: it holds
   other locks than the credit engine.
3. `ledger_grant_again` — a duplicate delivery of a purchase does grant something further after a merge
   (`GrantedOncePerPurchase`): the dedupe reads the wallet of the subscriber that owns the purchase by
   then, and the merge moved the balance there, but not the row with the reference.
4. `inbox_reaper_crash` — a reclaimed event is not always re-enqueued: the reclaim commits before
   the enqueue, and a sweep looks at PROCESSING rows only.
5. `outbox_starve` — a failing topic can stop the healthy ones: the batch limit is applied
   before the backoff filter.
6. `delivery_double` — two replicas can deliver one row twice without any failure: the lease is
   stamped once per batch and a batch of slow endpoints outlasts it.
7. `apple_grace` — a subscriber in Apple's billing grace period does not keep access: the
   handler of the failed renewal writes GRACE_PERIOD to the row, but resolves no subscriber, so no sync
   extends the access row past the end of the paid period.

Other gaps the models reach:

- The replay guard's key is set before the enqueue and stays when the enqueue fails, so the
  store's redelivery is answered as a duplicate (`webhook-replay-guard.ts:54`).
- An event whose handler failed and whose job was then lost with two stalled workers stays FAILED:
  the reaper's sweep selects PROCESSING rows (`webhook-events.ts:214`); one whose job was lost before its first
  claim has no row at all (`webhook-processor.ts:164`).
- A grant that resolved its subscriber before a merge and commits after it lands on the
  retired subscriber (`credit-engine.ts:81`).
- One Idempotency-Key with one body for another wallet is answered with the first wallet's
  balance (`idempotency.ts:67`).

- Four callers hand `audit()` a plain connection as `callerTx`, which its own comment warns of
  (`lib/audit.ts:375-380`): `invitations.ts:279` directly, and `guardStatusWrite` with `drizzle.db` from
  `stripe-webhook.ts:1050`, `stripe-webhook.ts:1133` and `refund-transaction.ts:55`. The advisory lock then ends with the
  statement that takes it. With such a caller (`Autocommit = {f1}`, two writers) TLC violates
  `HistoryIsProvable` after two concurrent writes: both rows name the same predecessor.
- A checkpoint that deletes every row of a dormant project leaves no tip, so the checkpoint row starts
  a chain with `prevHash` null, although `checkpoint.ts:50` says that the first surviving row names the last deleted
  one. A run that fails between the delete and the checkpoint row leaves a bundle that no row names.
- Two dashboard requests for one dead letter may both pass the check of its status, and the second
  one resets or dismisses the row that the first one's retry has delivered (`routes/dashboard/webhooks.ts:126`).

## 8. What is not modelled

- *Data*: payload formats, signatures, prices, currencies, wording, product
  catalogues, bucketing by hash.
- *Ledger*: ties of `createdAt` (either order of a tie is an order the model has);
  who may call. Identify and the funnel claim, which call the merge, appear as transfers only.
- *Inbox*: eviction of seen keys (they outlive the tolerance window), the content of the
  domain writes.
- *Outbox*: the best-effort copy to the live-events stream.
- *Delivery*: signing, headers, failure notifications. An unbounded body read is the case
  `RowTicks > Lease`.
- *Renewal grants*: changes of a product's grants while its renewal is processed; a message that
  does not parse or lacks an id is one that is not a renewal.
- *Audit chain*: rows from before the chain, several projects, the deletion of a project, the read and
  proof routes, redaction; object storage is configured (without it the sweep skips).
- *Idempotency keys*: the receipts and dashboard-grant routes behind the same middleware.
- *Entitlement, Google*: several purchases or access ids, `linkedPurchaseToken` and deferred
  replacements, acknowledgement, revenue events, the drift healer's circuit breaker, backfill mode.
- *Entitlement, Apple*: trials, pending plan changes and auto-renew flags, refund-shield outcomes,
  consumption requests, external purchase tokens, subscriber resolution; the expiry sweep, whose races
  with a handler `GoogleEntitlement` follows. One chain per subscriber.
- *Components* listed as `not_modelled` in `PROJECT.json`, with the reason for each. Most of the
  repository's lines (dashboard, paywall renderer, SDK facades, schemas, queries, providers) are user
  interface, mapping and I/O without state that several processes share.
