---------------------------- MODULE RenewalGrants ----------------------------
(***************************************************************************)
(* Credits for renewals: the consumer of rovenue.revenue                   *)
(* (services/renewal-grants/consumer.ts), the BullMQ queue behind it       *)
(* (queues/renewal-grants.ts, renewal-grants-boot.ts), the worker          *)
(* (workers/renewal-grant.ts) and its grants                               *)
(* (services/purchase-credits.ts).                                         *)
(*                                                                         *)
(* The topic is one partition, to which the outbox dispatcher appends a    *)
(* message at least once (OutboxDispatcher).  addCredits is one step here: *)
(* its lock and its dedupe are the subject of CreditLedger.                *)
(***************************************************************************)
EXTENDS Integers, Sequences

CONSTANTS
  Event,      \* revenue events; each has one outbox row
  Currency,
  TypeOf,     \* revenueEventType of each event
  GrantsOf,   \* currencies its product grants on RENEWAL, with a positive amount
  Orphan,     \* events whose product is gone
  Worker,     \* concurrent job slots of all replicas
  Attempts,   \* RENEWAL_GRANT_ATTEMPTS
  MaxLog,     \* bound: messages the dispatcher appends
  MaxFault    \* bound: failing calls, crashes, lost job locks

GrantsAssumption ==
  /\ GrantsOf \in [Event -> SUBSET Currency]
  /\ Orphan \subseteq Event
  /\ Attempts \in Nat \ {0}
  /\ MaxLog \in Nat /\ MaxFault \in Nat

VARIABLES
  log,        \* the partition of rovenue.revenue
  committed,  \* the group's committed offset: messages passed; -1: none yet
  consumer,   \* the running consumer: where it started and what it has passed
  job,        \* the queue, by the event of the job id
  slot,       \* what each worker is doing
  ledger,     \* credit_ledger rows of referenceType "renewal", by event and currency
  enqueued,   \* history: events some queue.add has stored
  skipped,    \* history: events a subscription without an offset jumped over
  lost,       \* history: events whose job BullMQ has given up
  faults

vars == <<log, committed, consumer, job, slot, ledger, enqueued, skipped, lost, faults>>

Debt == Event \X Currency

Absent == [state |-> "absent", made |-> 0, stalled |-> 0]

Down == [up |-> FALSE, start |-> 0, pos |-> 0]

Free == [pc |-> "idle"]

TypeOK ==
  /\ log \in Seq(Event)
  /\ committed \in -1..Len(log)
  /\ consumer \in [up: BOOLEAN, start: 0..Len(log), pos: 0..Len(log)]
  /\ consumer.start <= consumer.pos
  /\ job \in [Event -> [state: {"absent", "waiting", "active", "done", "failed"},
                        made: 0..Attempts, stalled: 0..2]]
  /\ \A w \in Worker : slot[w] = Free \/
       /\ slot[w] \in [pc: {"load", "grant"}, ev: Event, todo: SUBSET Currency, holds: BOOLEAN]
       /\ slot[w].holds => job[slot[w].ev].state = "active"
  /\ ledger \in [Debt -> Nat]
  /\ enqueued \subseteq Event /\ skipped \subseteq Event /\ lost \subseteq Event
  /\ faults \in 0..MaxFault

Init ==
  /\ log = << >>
  /\ committed = -1
  /\ consumer = Down
  /\ job = [e \in Event |-> Absent]
  /\ slot = [w \in Worker |-> Free]
  /\ ledger = [d \in Debt |-> 0]
  /\ enqueued = {} /\ skipped = {} /\ lost = {}
  /\ faults = 0

Fail == faults < MaxFault /\ faults' = faults + 1

\* The events with a message in the topic.
Published == {log[i] : i \in DOMAIN log}
-----------------------------------------------------------------------------
(* The topic and its consumer *)

\* The dispatcher appends a message, again after a send it did not see end.
Publish(e) ==
  /\ Len(log) < MaxLog
  /\ log' = Append(log, e)
  /\ UNCHANGED <<committed, consumer, job, slot, ledger, enqueued, skipped, lost, faults>>

\* consumer.subscribe with fromBeginning: false.  A group that has never
\* committed starts at the end of the log.
Subscribe ==
  LET from == IF committed = -1 THEN Len(log) ELSE committed IN
  /\ ~consumer.up
  /\ consumer' = [up |-> TRUE, start |-> from, pos |-> from]
  /\ skipped' = IF committed = -1 THEN skipped \cup (Published \ enqueued) ELSE skipped
  /\ UNCHANGED <<log, committed, job, slot, ledger, enqueued, lost, faults>>

Granting == {"RENEWAL", "TRIAL_CONVERSION", "REACTIVATION"}

\* RENEWAL_GRANT_EVENT_TYPES, in the consumer and again in the worker.
isGranting(e) == TypeOf[e] \in Granting

HasMessage == consumer.up /\ consumer.pos < Len(log)

Message == log[consumer.pos + 1]

Passed == consumer' = [consumer EXCEPT !.pos = @ + 1]

\* eachMessage returns for a message that is not a renewal.
Ignore ==
  /\ HasMessage /\ ~isGranting(Message)
  /\ Passed
  /\ UNCHANGED <<log, committed, job, slot, ledger, enqueued, skipped, lost, faults>>

\* queue.add with the job id of the outbox row: a no-op while BullMQ knows the
\* id, finished and failed jobs included.
queueAdd(e) ==
  /\ job' = IF job[e].state = "absent" THEN [job EXCEPT ![e].state = "waiting"] ELSE job
  /\ enqueued' = enqueued \cup {e}

Enqueue ==
  /\ HasMessage /\ isGranting(Message)
  /\ queueAdd(Message)
  /\ Passed
  /\ UNCHANGED <<log, committed, slot, ledger, skipped, lost, faults>>

\* (Mutant first: the error is logged and the message passed.)
EnqueueSwallowed ==
  /\ HasMessage /\ isGranting(Message) /\ Fail
  /\ Passed
  /\ UNCHANGED <<log, committed, job, slot, ledger, enqueued, skipped, lost>>

\* queue.add throws, before or after Redis stored the job: eachMessage rejects,
\* and kafkajs tries the message again or restarts the consumer.
EnqueueThrows ==
  /\ HasMessage /\ isGranting(Message) /\ Fail
  /\ queueAdd(Message) \/ UNCHANGED <<job, enqueued>>
  /\ consumer' \in {consumer, Down}
  /\ UNCHANGED <<log, committed, slot, ledger, skipped, lost>>

\* autoCommit, once a message has been passed.
CommitOffset ==
  /\ consumer.up /\ consumer.pos > consumer.start /\ committed # consumer.pos
  /\ committed' = consumer.pos
  /\ UNCHANGED <<log, consumer, job, slot, ledger, enqueued, skipped, lost, faults>>

\* The process dies, or the group rebalances, before the offset is committed.
ConsumerCrash ==
  /\ consumer.up /\ Fail
  /\ consumer' = Down
  /\ UNCHANGED <<log, committed, job, slot, ledger, enqueued, skipped, lost>>
-----------------------------------------------------------------------------
(* The worker *)

Fetch(w, e) ==
  /\ slot[w] = Free /\ job[e].state = "waiting"
  /\ job' = [job EXCEPT ![e].state = "active"]
  /\ slot' = [slot EXCEPT ![w] = [pc |-> "load", ev |-> e, todo |-> {}, holds |-> TRUE]]
  /\ UNCHANGED <<log, committed, consumer, ledger, enqueued, skipped, lost, faults>>

\* BullMQ settles the job for the worker that holds its lock.
Settle(w, state) ==
  job' = IF slot[w].holds THEN [job EXCEPT ![slot[w].ev].state = state] ELSE job

\* runRenewalGrant: a type that does not grant and a product that is gone are
\* skipped; otherwise listProductGrantsForTrigger.
loadProduct(w) ==
  LET e == slot[w].ev IN
  /\ slot[w].pc = "load"
  /\ IF ~isGranting(e) \/ e \in Orphan
     THEN Settle(w, "done") /\ slot' = [slot EXCEPT ![w] = Free]
     ELSE /\ slot' = [slot EXCEPT ![w].pc = "grant", ![w].todo = GrantsOf[e]]
          /\ UNCHANGED job
  /\ UNCHANGED <<log, committed, consumer, ledger, enqueued, skipped, lost, faults>>

\* (Mutant first: the job id alone is trusted to make a grant unique.)
addCreditsAlways(w, c) ==
  /\ slot[w].pc = "grant" /\ c \in slot[w].todo
  /\ ledger' = [ledger EXCEPT ![<<slot[w].ev, c>>] = @ + 1]
  /\ slot' = [slot EXCEPT ![w].todo = @ \ {c}]
  /\ UNCHANGED <<log, committed, consumer, job, enqueued, skipped, lost, faults>>

\* One addCredits of the loop of grantProductCurrencies: a row with this
\* reference is looked for, and inserted if there is none, under the lock of
\* the wallet.
addCredits(w, c) ==
  /\ slot[w].pc = "grant" /\ c \in slot[w].todo
  /\ ledger' = [ledger EXCEPT ![<<slot[w].ev, c>>] = IF @ = 0 THEN 1 ELSE @]
  /\ slot' = [slot EXCEPT ![w].todo = @ \ {c}]
  /\ UNCHANGED <<log, committed, consumer, job, enqueued, skipped, lost, faults>>

Complete(w) ==
  /\ slot[w].pc = "grant" /\ slot[w].todo = {}
  /\ Settle(w, "done")
  /\ slot' = [slot EXCEPT ![w] = Free]
  /\ UNCHANGED <<log, committed, consumer, ledger, enqueued, skipped, lost, faults>>

\* attempts and backoff of renewalGrantJobOptions; the delay is any time.
retry(j) ==
  [j EXCEPT !.made = @ + 1, !.state = IF j.made + 1 >= Attempts THEN "failed" ELSE "waiting"]

GivesUp(e) == lost' = IF job'[e].state = "failed" THEN lost \cup {e} ELSE lost

\* A call of the worker throws; runRenewalGrant lets it through to BullMQ.
Throw(w) ==
  /\ slot[w] # Free /\ Fail
  /\ job' = IF slot[w].holds THEN [job EXCEPT ![slot[w].ev] = retry(@)] ELSE job
  /\ GivesUp(slot[w].ev)
  /\ slot' = [slot EXCEPT ![w] = Free]
  /\ UNCHANGED <<log, committed, consumer, ledger, enqueued, skipped>>

\* The job's lock runs out: the worker died, or it goes on, unaware, while
\* another one takes the job.  A second stall fails the job.
Stall(w) ==
  LET e == slot[w].ev IN
  /\ slot[w] # Free /\ slot[w].holds /\ Fail
  /\ job' = [job EXCEPT ![e].stalled = @ + 1,
                        ![e].state = IF job[e].stalled = 0 THEN "waiting" ELSE "failed"]
  /\ GivesUp(e)
  /\ slot' \in {[slot EXCEPT ![w] = Free], [slot EXCEPT ![w].holds = FALSE]}
  /\ UNCHANGED <<log, committed, consumer, ledger, enqueued, skipped>>

\* removeOnComplete, removeOnFail: the job id is forgotten.
Evict(e) ==
  /\ job[e].state \in {"done", "failed"}
  /\ job' = [job EXCEPT ![e] = Absent]
  /\ UNCHANGED <<log, committed, consumer, slot, ledger, enqueued, skipped, lost, faults>>
-----------------------------------------------------------------------------
ConsumerStep == Subscribe \/ Ignore \/ Enqueue

WorkerStep(w) ==
  \/ \E e \in Event : Fetch(w, e)
  \/ loadProduct(w) \/ Complete(w)
  \/ \E c \in Currency : addCredits(w, c)

Fault ==
  \/ EnqueueThrows \/ ConsumerCrash
  \/ \E w \in Worker : Throw(w) \/ Stall(w)

Next ==
  \/ \E e \in Event : Publish(e) \/ Evict(e)
  \/ ConsumerStep \/ CommitOffset
  \/ \E w \in Worker : WorkerStep(w)
  \/ Fault

Spec == Init /\ [][Next]_vars

\* The consumer keeps running, or is restarted, and so do the workers.
FairSpec == Spec /\ WF_vars(ConsumerStep) /\ \A w \in Worker : WF_vars(WorkerStep(w))
-----------------------------------------------------------------------------
(* Properties *)

\* What an event owes its subscriber.
Owes(e) ==
  IF TypeOf[e] \in Granting /\ e \notin Orphan THEN {e} \X GrantsOf[e] ELSE {}

Contract == INSTANCE GrantContract
              WITH owed <- UNION {Owes(e) : e \in Published}, paid <- ledger

\* "addCredits dedupes ..., so a duplicate webhook or a Kafka redelivery grants
\* nothing further" (purchase-credits.ts): messages appended, delivered and
\* processed any number of times, by two workers at once and after the job id
\* was forgotten, implement a ledger that pays each debt once, and only debts
\* of renewals.
GrantsImplementContract == Contract!Spec

\* "swallowing here would silently lose a grant" (renewal-grant.ts), "a failed
\* enqueue must reject so kafkajs does not advance the offset" (consumer.ts): a
\* renewal in the topic is paid in full in the end, and the only ways to miss
\* it are a job that BullMQ gave up and a group that had no offset yet.
RenewalIsGranted ==
  []<>(\A e \in Published : e \in skipped \cup lost \/ \A d \in Owes(e) : ledger[d] > 0)
=============================================================================
