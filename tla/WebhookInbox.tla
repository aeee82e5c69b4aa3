---------------------------- MODULE WebhookInbox ----------------------------
(***************************************************************************)
(* The inbound store-webhook pipeline of apps/api.  A route admits a       *)
(* delivery through the replay guard and enqueues a BullMQ job             *)
(* (routes/webhooks, middleware/webhook-replay-guard.ts).  Workers         *)
(* (services/webhook-processor.ts) claim the event's webhook_events row    *)
(* with a lease, run the store's domain writes, then the side effects, and *)
(* mark the row PROCESSED or FAILED.  The reaper                           *)
(* (workers/webhook-reaper.ts) recovers rows whose worker died.            *)
(*                                                                         *)
(* Time is relative: a row keeps the age of its claim (saturating just     *)
(* past the lease) and a job the delay it still waits, so time passes      *)
(* forever in a finite state space.  One action is one database or queue   *)
(* operation.                                                              *)
(***************************************************************************)
EXTENDS Integers, FiniteSets

CONSTANTS
  Event,        \* store events (notificationUUID, messageId, event.id)
  Fact,         \* what the handler and the project's config yield for each
  None,         \* no purchase
  Worker,       \* concurrent job slots of all replicas
  Attempts,     \* WEBHOOK_JOB_ATTEMPTS
  Lease,        \* WEBHOOK_CLAIM_LEASE_MS, in units of the first backoff delay
  Cap,          \* MAX_REAPER_REQUEUES
  Prompt,       \* TRUE: a live handler finishes or throws within the lease
  MaxDelivery,  \* bound: jobs the store's deliveries enqueue per event
  MaxRetry,     \* bound on webhook_events.retryCount
  MaxThrow,     \* bound: failing calls
  MaxCrash,     \* bound: workers that die
  MaxReaperCrash \* bound: reapers that die

ASSUME InboxAssumption ==
  /\ Attempts \in Nat \ {0}
  /\ Lease \in Nat
  /\ Cap \in Nat
  /\ Prompt \in BOOLEAN
  /\ MaxDelivery \in Nat \ {0}
  /\ MaxRetry \in Nat
  /\ MaxThrow \in Nat /\ MaxCrash \in Nat /\ MaxReaperCrash \in Nat
  /\ \A e \in Event :
       /\ Fact[e].verify \in BOOLEAN      \* Google: the project has credentials
       /\ Fact[e].subscriber \in BOOLEAN  \* dispatch resolved a subscriber
       /\ Fact[e].renewal \in BOOLEAN     \* isRenewalCharge
       /\ Fact[e].public \in BOOLEAN      \* the type maps to a public event key
       /\ Fact[e].v1 \in BOOLEAN          \* webhookUrl set, category subscribed
       /\ Fact[e].replayable \in BOOLEAN  \* the stored payload can be replayed

VARIABLES
  seen,      \* Redis webhook:seen keys
  acked,     \* events the store got a 2xx for
  job,       \* the BullMQ queue: job id -> its state
  row,       \* webhook_events
  slot,      \* what each worker is doing
  effect,    \* idempotent effects applied for each event
  outbox,    \* number of outbox_events rows bridged from each event
  outgoing,  \* number of outgoing_webhooks rows enqueued from each event
  reaper,    \* reclaimed rows the reaper holds in memory, not yet re-enqueued
  left       \* calls and processes that may still fail

vars == <<seen, acked, job, row, slot, effect, outbox, outgoing, reaper, left>>

JobId == [ev: Event, kind: {"store"}, n: 1..MaxDelivery]
           \cup [ev: Event, kind: {"replay"}, n: 1..MaxRetry]

\* (Mutant first: a fixed backoff.)
FixedBackoff(made) == 1

\* BullMQ's exponential backoff after the made-th failed attempt.
Backoff(made) == 2^(made - 1)

Job == [state: {"absent", "waiting", "active", "done", "failed"},
        made: 0..Attempts, stalled: 0..2, delay: 0..2^Attempts]

RowState == [status: {"NONE", "PROCESSING", "PROCESSED", "FAILED"},
             age: 0..(Lease + 1), retry: 0..MaxRetry]

IdleSlot == [pc |-> "idle"]

BusySlot ==
  [pc: {"claim", "dispatch", "access", "credit", "check", "insert", "mark", "fail"},
   job: JobId, bridged: BOOLEAN, sent: BOOLEAN]

Slot == {IdleSlot} \cup BusySlot

TypeOK ==
  /\ seen \subseteq Event /\ acked \subseteq Event
  /\ job \in [JobId -> Job]
  /\ row \in [Event -> RowState]
  /\ slot \in [Worker -> Slot]
  /\ effect \in [Event -> SUBSET {"domain", "access", "credit"}]
  /\ outbox \in [Event -> Nat] /\ outgoing \in [Event -> Nat]
  /\ reaper \subseteq [ev: Event, retry: 1..MaxRetry]
  /\ left \in [throw: 0..MaxThrow, crash: 0..MaxCrash, reaper: 0..MaxReaperCrash]

Init ==
  /\ seen = {} /\ acked = {}
  /\ job = [j \in JobId |-> [state |-> "absent", made |-> 0, stalled |-> 0, delay |-> 0]]
  /\ row = [e \in Event |-> [status |-> "NONE", age |-> 0, retry |-> 0]]
  /\ slot = [w \in Worker |-> IdleSlot]
  /\ effect = [e \in Event |-> {}]
  /\ outbox = [e \in Event |-> 0] /\ outgoing = [e \in Event |-> 0]
  /\ reaper = {}
  /\ left = [throw |-> MaxThrow, crash |-> MaxCrash, reaper |-> MaxReaperCrash]

Busy(w) == slot[w].pc # "idle"

\* The event a busy worker handles.
Ev(w) == slot[w].job.ev

\* A worker that owns a claim: past the claim, not yet settled.
Handling(w) == slot[w].pc \notin {"idle", "claim"}

At(w, pc) == slot[w].pc = pc

Goto(w, pc) == slot' = [slot EXCEPT ![w].pc = pc]

Spend(f) == left[f] > 0 /\ left' = [left EXCEPT ![f] = @ - 1]

-----------------------------------------------------------------------------
(* The route *)

Waiting == [state |-> "waiting", made |-> 0, stalled |-> 0, delay |-> 0]

\* queue.add: a fresh job id per call from the routes.
enqueueWebhookEvent(e) ==
  \E n \in 1..MaxDelivery :
    LET j == [ev |-> e, kind |-> "store", n |-> n] IN
    /\ \A m \in 1..MaxDelivery :
         (job[[j EXCEPT !.n = m]].state = "absent") <=> (m >= n)
    /\ job' = [job EXCEPT ![j] = Waiting]

\* A delivery inside the tolerance window (one outside is refused with a 400
\* and changes nothing; the seen key outlives the window).  The guard's SET NX
\* admits it and the route enqueues a job and answers 202 ...
Deliver(e) ==
  /\ e \notin seen
  /\ seen' = seen \cup {e}
  /\ enqueueWebhookEvent(e)
  /\ acked' = acked \cup {e}
  /\ UNCHANGED <<row, slot, effect, outbox, outgoing, reaper, left>>

\* ... or the guard finds the key and answers 200 duplicate ...
Duplicate(e) ==
  /\ e \in seen
  /\ acked' = acked \cup {e}
  /\ UNCHANGED <<seen, job, row, slot, effect, outbox, outgoing, reaper, left>>

\* ... or SET itself fails, applied or not: the guard fails open ...
FailOpen(e) ==
  /\ Spend("throw")
  /\ seen' \in {seen, seen \cup {e}}
  /\ enqueueWebhookEvent(e)
  /\ acked' = acked \cup {e}
  /\ UNCHANGED <<row, slot, effect, outbox, outgoing, reaper>>

\* ... or queue.add fails, or the process dies, after the guard set the key:
\* the store gets a 5xx or no answer and will deliver again.
EnqueueFails(e) ==
  /\ e \notin seen
  /\ Spend("throw")
  /\ seen' = seen \cup {e}
  /\ UNCHANGED <<acked, job, row, slot, effect, outbox, outgoing, reaper>>

-----------------------------------------------------------------------------
(* The worker *)

\* A free worker takes a job whose delay is over.
Fetch(w, j) ==
  /\ ~Busy(w)
  /\ job[j].state = "waiting" /\ job[j].delay = 0
  /\ job' = [job EXCEPT ![j].state = "active"]
  /\ slot' = [slot EXCEPT ![w] = [pc |-> "claim", job |-> j, bridged |-> FALSE, sent |-> FALSE]]
  /\ UNCHANGED <<seen, acked, row, effect, outbox, outgoing, reaper, left>>

\* The job body returned.
CompleteJob(w) ==
  /\ job' = [job EXCEPT ![slot[w].job].state = "done"]
  /\ slot' = [slot EXCEPT ![w] = IdleSlot]

\* (Mutant first: one attempt too many.)
ExtraAttempt(w) ==
  LET j == slot[w].job
      made == job[j].made + 1
  IN  /\ job' = [job EXCEPT ![j].made = made,
                            ![j].state = IF made <= Attempts THEN "waiting" ELSE "failed",
                            ![j].delay = IF made <= Attempts THEN Backoff(made) ELSE 0]
      /\ slot' = [slot EXCEPT ![w] = IdleSlot]

\* The job body threw: BullMQ delays the next attempt, or gives up.
FailAttempt(w) ==
  LET j == slot[w].job
      made == job[j].made + 1
  IN  /\ job' = [job EXCEPT ![j].made = made,
                            ![j].state = IF made < Attempts THEN "waiting" ELSE "failed",
                            ![j].delay = IF made < Attempts THEN Backoff(made) ELSE 0]
      /\ slot' = [slot EXCEPT ![w] = IdleSlot]

\* (Mutants first: a claim ignores the lease, or that the row is PROCESSED.)
ClaimableAnyAge(e) == row[e].status # "PROCESSED"

ClaimableSettled(e) == row[e].status = "PROCESSING" => row[e].age > Lease

\* setWhere of the claim's upsert.
Claimable(e) ==
  /\ row[e].status # "PROCESSED"
  /\ row[e].status = "PROCESSING" => row[e].age > Lease

\* claimWebhookEvent: claimed, duplicate (acked) or in_progress (thrown).
Claim(w) ==
  /\ At(w, "claim")
  /\ Claimable(Ev(w))
  /\ row' = [row EXCEPT ![Ev(w)] = [status |-> "PROCESSING", age |-> 0, retry |-> @.retry]]
  /\ Goto(w, "dispatch")
  /\ UNCHANGED <<seen, acked, job, effect, outbox, outgoing, reaper, left>>

ClaimDuplicate(w) ==
  /\ At(w, "claim")
  /\ row[Ev(w)].status = "PROCESSED"
  /\ CompleteJob(w)
  /\ UNCHANGED <<seen, acked, row, effect, outbox, outgoing, reaper, left>>

ClaimInProgress(w) ==
  /\ At(w, "claim")
  /\ ~Claimable(Ev(w)) /\ row[Ev(w)].status # "PROCESSED"
  /\ FailAttempt(w)
  /\ UNCHANGED <<seen, acked, row, effect, outbox, outgoing, reaper, left>>

\* The store's domain writes (purchases, revenue events; upserts).  A Google
\* event without credentials skips them and every side effect.
Dispatch(w) ==
  /\ At(w, "dispatch")
  /\ effect' = IF Fact[Ev(w)].verify
               THEN [effect EXCEPT ![Ev(w)] = @ \cup {"domain"}] ELSE effect
  /\ Goto(w, IF Fact[Ev(w)].verify /\ Fact[Ev(w)].subscriber THEN "access" ELSE "mark")
  /\ UNCHANGED <<seen, acked, job, row, outbox, outgoing, reaper, left>>

\* runPostProcessing: syncAccess, ...
SyncAccess(w) ==
  /\ At(w, "access")
  /\ effect' = [effect EXCEPT ![Ev(w)] = @ \cup {"access"}]
  /\ Goto(w, "credit")
  /\ UNCHANGED <<seen, acked, job, row, outbox, outgoing, reaper, left>>

Charged(e) == Fact[e].purchase # None /\ ~Fact[e].renewal

\* ... the PURCHASE-trigger grant unless this is a renewal charge, ...
Credit(w) ==
  /\ At(w, "credit")
  /\ effect' = IF Charged(Ev(w)) THEN [effect EXCEPT ![Ev(w)] = @ \cup {"credit"}] ELSE effect
  /\ Goto(w, "check")
  /\ UNCHANGED <<seen, acked, job, row, outbox, outgoing, reaper, left>>

\* (Mutants first: no dedupe of the outbox bridge; the dedupe by purchase.)
NeverBridged(e) == FALSE

BridgedByPurchase(e) ==
  \E f \in Event : outbox[f] > 0 /\ Fact[f].purchase = Fact[e].purchase

\* ... and enqueueOutgoingWebhook.  Its dedupe reads: the outbox row of this
\* event, and the v1 row of the purchase and type, or of this event.
AlreadyBridged(e) == outbox[e] > 0

AlreadySent(e) ==
  IF Fact[e].purchase = None THEN outgoing[e] > 0
  ELSE \E f \in Event : /\ outgoing[f] > 0
                        /\ Fact[f].purchase = Fact[e].purchase
                        /\ Fact[f].type = Fact[e].type

CheckOutgoing(w) ==
  /\ At(w, "check")
  /\ slot' = [slot EXCEPT ![w].pc = "insert",
                          ![w].bridged = AlreadyBridged(Ev(w)),
                          ![w].sent = AlreadySent(Ev(w))]
  /\ UNCHANGED <<seen, acked, job, row, effect, outbox, outgoing, reaper, left>>

\* ... and its two inserts, committed together.
InsertOutgoing(w) ==
  LET e == Ev(w) IN
  /\ At(w, "insert")
  /\ outbox' = IF Fact[e].public /\ ~slot[w].bridged
               THEN [outbox EXCEPT ![e] = @ + 1] ELSE outbox
  /\ outgoing' = IF Fact[e].v1 /\ ~slot[w].sent
                 THEN [outgoing EXCEPT ![e] = @ + 1] ELSE outgoing
  /\ Goto(w, "mark")
  /\ UNCHANGED <<seen, acked, job, row, effect, reaper, left>>

\* updateWebhookEvent PROCESSED, by id alone; the job returns.
MarkProcessed(w) ==
  /\ At(w, "mark")
  /\ row' = [row EXCEPT ![Ev(w)].status = "PROCESSED"]
  /\ CompleteJob(w)
  /\ UNCHANGED <<seen, acked, effect, outbox, outgoing, reaper, left>>

\* Any call of the handler may throw.  Before the claim, and around the
\* no-credentials mark, nothing catches it; elsewhere the catch follows.
Throw(w) ==
  /\ Busy(w) /\ slot[w].pc # "fail"
  /\ Spend("throw")
  /\ IF At(w, "claim") \/ ~Fact[Ev(w)].verify
     THEN FailAttempt(w)
     ELSE Goto(w, "fail") /\ UNCHANGED job
  /\ UNCHANGED <<seen, acked, row, effect, outbox, outgoing, reaper>>

\* The catch: updateWebhookEvent FAILED, by id alone, and rethrow.
MarkFailed(w) ==
  /\ At(w, "fail")
  /\ row[Ev(w)].retry < MaxRetry
  /\ row' = [row EXCEPT ![Ev(w)].status = "FAILED", ![Ev(w)].retry = @ + 1]
  /\ FailAttempt(w)
  /\ UNCHANGED <<seen, acked, effect, outbox, outgoing, reaper, left>>

\* The update in the catch throws too: the row stays PROCESSING.
MarkFailedThrows(w) ==
  /\ At(w, "fail")
  /\ Spend("throw")
  /\ FailAttempt(w)
  /\ UNCHANGED <<seen, acked, row, effect, outbox, outgoing, reaper>>

\* The process dies.  BullMQ's stalled check hands the job out again, once;
\* the attempt is not counted.
Crash(w) ==
  LET j == slot[w].job IN
  /\ Busy(w)
  /\ Spend("crash")
  /\ job' = [job EXCEPT ![j].stalled = @ + 1,
                        ![j].state = IF job[j].stalled = 0 THEN "waiting" ELSE "failed"]
  /\ slot' = [slot EXCEPT ![w] = IdleSlot]
  /\ UNCHANGED <<seen, acked, row, effect, outbox, outgoing, reaper>>

-----------------------------------------------------------------------------
(* The reaper *)

\* (Mutant first: the reset alone, its rows dropped.)
ResetOnly ==
  /\ \E e \in Event : row[e].status = "PROCESSING" /\ row[e].age > Lease /\ row[e].retry < MaxRetry
  /\ row' = [e \in Event |-> IF row[e].status = "PROCESSING" /\ row[e].age > Lease
               THEN [row[e] EXCEPT !.status = "FAILED"] ELSE row[e]]
  /\ UNCHANGED <<seen, acked, job, slot, effect, outbox, outgoing, reaper, left>>

\* reclaimStaleWebhookEvents: PROCESSING rows past the lease become FAILED.
\* The reaper's next sweep starts when this one ended (concurrency 1).
Reclaim ==
  LET stale == {e \in Event : row[e].status = "PROCESSING" /\ row[e].age > Lease} IN
  /\ reaper = {} /\ stale # {}
  /\ \A e \in stale : row[e].retry < MaxRetry
  /\ row' = [e \in Event |-> IF e \in stale
               THEN [row[e] EXCEPT !.status = "FAILED", !.retry = @ + 1] ELSE row[e]]
  /\ reaper' = {[ev |-> e, retry |-> row[e].retry + 1] : e \in stale}
  /\ UNCHANGED <<seen, acked, job, slot, effect, outbox, outgoing, left>>

\* (Mutant first: the replay job's id does not carry the retry count.)
OneReplayId(r) == [ev |-> r.ev, kind |-> "replay", n |-> 1]

ReplayId(r) == [ev |-> r.ev, kind |-> "replay", n |-> r.retry]

\* The loop over the reclaimed rows: above the cap or without a replayable
\* payload the row is left FAILED; adding a job id that exists is a no-op.
Requeue(r) ==
  /\ r \in reaper
  /\ job' = IF /\ r.retry <= Cap /\ Fact[r.ev].replayable
               /\ job[ReplayId(r)].state = "absent"
            THEN [job EXCEPT ![ReplayId(r)] = Waiting] ELSE job
  /\ reaper' = reaper \ {r}
  /\ UNCHANGED <<seen, acked, row, slot, effect, outbox, outgoing, left>>

ReaperCrash ==
  /\ reaper # {}
  /\ Spend("reaper")
  /\ reaper' = {}
  /\ UNCHANGED <<seen, acked, job, row, slot, effect, outbox, outgoing>>

-----------------------------------------------------------------------------

\* Time passes: claims age and delays run down.
Tick ==
  /\ Prompt => \A w \in Worker : Handling(w) => row[Ev(w)].age < Lease
  /\ \/ \E e \in Event : row[e].status = "PROCESSING" /\ row[e].age <= Lease
     \/ \E j \in JobId : job[j].delay > 0
  /\ row' = [e \in Event |-> IF row[e].status = "PROCESSING" /\ row[e].age <= Lease
                             THEN [row[e] EXCEPT !.age = @ + 1] ELSE row[e]]
  /\ job' = [j \in JobId |-> IF job[j].delay > 0
                             THEN [job[j] EXCEPT !.delay = @ - 1] ELSE job[j]]
  /\ UNCHANGED <<seen, acked, slot, effect, outbox, outgoing, reaper, left>>

Route(e) == Deliver(e) \/ Duplicate(e) \/ FailOpen(e) \/ EnqueueFails(e)

\* What a live worker does of its own accord.
WorkerStep(w) ==
  \/ \E j \in JobId : Fetch(w, j)
  \/ Claim(w) \/ ClaimDuplicate(w) \/ ClaimInProgress(w)
  \/ Dispatch(w) \/ SyncAccess(w) \/ Credit(w)
  \/ CheckOutgoing(w) \/ InsertOutgoing(w)
  \/ MarkProcessed(w) \/ MarkFailed(w)

Fault ==
  \/ \E w \in Worker : Throw(w) \/ MarkFailedThrows(w) \/ Crash(w)
  \/ ReaperCrash

ReaperStep == Reclaim \/ \E r \in reaper : Requeue(r)

Next ==
  \/ \E e \in Event : Route(e)
  \/ \E w \in Worker : WorkerStep(w)
  \/ Fault
  \/ ReaperStep
  \/ Tick

Spec == Init /\ [][Next]_vars

\* A live worker takes jobs and finishes its steps, and time passes.
FairSpec == Spec /\ (\A w \in Worker : WF_vars(WorkerStep(w))) /\ WF_vars(Tick)

\* ... and the repeatable reaper job keeps being run.
ReaperFairSpec == FairSpec /\ WF_vars(ReaperStep)
-----------------------------------------------------------------------------
(* Properties *)

\* The effects an event must have had.
Needed(e) ==
  IF ~Fact[e].verify THEN {}
  ELSE {"domain"} \cup (IF Fact[e].subscriber THEN {"access"} ELSE {})
         \cup (IF Fact[e].subscriber /\ Charged(e) THEN {"credit"} ELSE {})

\* Everything the event stands for has happened.
Done(e) ==
  /\ Needed(e) \subseteq effect[e]
  /\ Fact[e].verify /\ Fact[e].subscriber /\ Fact[e].public => outbox[e] > 0

\* A PROCESSED row is never claimed again, so by then everything the event
\* stands for has happened: the domain writes, the access sync, the credit
\* grant and the outbox row (webhook-processor.ts, WebhookPostProcess).  This
\* holds whatever fails, dies or overruns its lease.
ProcessedMeansDone ==
  \A e \in Event : row[e].status = "PROCESSED" => Done(e)

\* "Atomic single-flight claim - exactly one concurrent worker wins"
\* (apple-webhook.ts), as long as handlers finish within the lease.
SingleFlight ==
  \A v, w \in Worker : v # w /\ Handling(v) /\ Handling(w) => Ev(v) # Ev(w)

\* Retries of a job, duplicate jobs and reaper replays bridge each event to the
\* integrations at most once (enqueueOutgoingWebhook's dedupe; there is no
\* unique index behind it).
BridgedOnce == \A e \in Event : outbox[e] <= 1

-----------------------------------------------------------------------------
(* The inductive invariant behind the four properties above *)

\* The part of the type the argument needs.
Shape ==
  /\ row \in [Event -> [status: {"NONE", "PROCESSING", "PROCESSED", "FAILED"},
                        age: Int, retry: Int]]
  /\ slot \in [Worker -> Slot]
  /\ effect \in [Event -> SUBSET {"domain", "access", "credit"}]
  /\ outbox \in [Event -> Nat] /\ outgoing \in [Event -> Nat]

\* What a handler has already applied when it reaches each step.
Behind(w) ==
  LET e == Ev(w) IN
  /\ At(w, "access") => "domain" \in effect[e]
  /\ At(w, "credit") => {"domain", "access"} \subseteq effect[e]
  /\ slot[w].pc \in {"check", "insert"} => Needed(e) \subseteq effect[e]
  /\ At(w, "insert") /\ slot[w].bridged => outbox[e] > 0
  /\ At(w, "mark") => Done(e)

\* A prompt handler's row carries its own, unexpired claim, and what it read
\* of the outbox is still true.
Held(w) ==
  /\ row[Ev(w)].status = "PROCESSING" /\ row[Ev(w)].age <= Lease
  /\ At(w, "insert") /\ ~slot[w].bridged => outbox[Ev(w)] = 0

\* The inductive invariant of the worker, the reaper and the claim's lease.
IInv ==
  /\ Shape
  /\ \A w \in Worker : Handling(w) => Behind(w)
  /\ ProcessedMeansDone
  /\ Prompt => /\ \A w \in Worker : Handling(w) => Held(w)
               /\ SingleFlight
               /\ BridgedOnce
-----------------------------------------------------------------------------

\* The status moves "PROCESSING -> PROCESSED | FAILED" (updateWebhookEvent): a
\* settled event is never unsettled by a late writer.
ProcessedIsFinal ==
  [][\A e \in Event : row[e].status = "PROCESSED" => row'[e].status = "PROCESSED"]_vars

\* The route has put the event into the queue.
Enqueued(e) == \E j \in JobId : j.ev = e /\ job[j].state # "absent"

\* A job that BullMQ gave up for stalling twice.
GivenUp(e) == \E j \in JobId : j.ev = e /\ job[j].state = "failed" /\ job[j].stalled > 1

\* "total retry span > claim lease" (webhook-processor.ts): a worker's death
\* leaves retries that land after the lease, so an enqueued event is processed
\* whether or not the reaper ever runs, unless its job died with two workers.
EnqueuedIsProcessed ==
  []<>(\A e \in Event : Enqueued(e) => row[e].status = "PROCESSED" \/ GivenUp(e))

\* No event that a worker claimed is left without its effects.
NoneIsLeft == \A e \in Event : row[e].status \in {"NONE", "PROCESSED"}

\* "Each reclaimed row becomes FAILED + retryCount++ AND is re-enqueued as a
\* fresh processing job" (webhook-reaper.ts): once claimed, an event ends
\* PROCESSED even when its own job was lost for good.  This takes the repeated
\* run of the reaper's job.
ClaimedIsProcessed == []<>NoneIsLeft
=============================================================================
