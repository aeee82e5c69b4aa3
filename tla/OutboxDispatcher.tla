-------------------------- MODULE OutboxDispatcher --------------------------
(***************************************************************************)
(* The transactional outbox of apps/api: producers insert outbox_events    *)
(* rows inside their own transactions, the dispatcher                      *)
(* (workers/outbox-dispatcher.ts) reads the oldest unpublished rows,       *)
(* publishes them to Kafka topic by topic, and marks the published ones    *)
(* (packages/db outbox repository).  outbox-cleanup deletes old ones.      *)
(*                                                                         *)
(* createdAt is the time a producer's transaction began; the row becomes   *)
(* visible when it commits.  The claim's row locks end with the claim's    *)
(* own transaction, so the claim itself excludes nobody.                   *)
(***************************************************************************)
EXTENDS Integers, FiniteSets

CONSTANTS
  Row,         \* outbox_events ids
  Topic,       \* Kafka topics
  TopicOf,     \* AGGREGATE_TO_TOPIC of a row's aggregateType
  AggOf,       \* aggregateId of a row: the message key
  Dispatcher,  \* dispatcher processes (the deployment contract is one)
  Batch,       \* BATCH_SIZE
  MaxFailures, \* consecutive failures at which the backoff reaches its maximum
  Sick,        \* topics whose sends always fail
  MaxFault     \* bound: failing calls and crashes

ASSUME OutboxAssumption ==
  /\ TopicOf \in [Row -> Topic]
  /\ Sick \subseteq Topic
  /\ Batch \in Nat \ {0}
  /\ MaxFailures \in Nat
  /\ MaxFault \in Nat

VARIABLES
  state,      \* of each row: not inserted, in an open transaction, visible, ...
  at,         \* createdAt (0: not begun)
  stored,     \* rows some Kafka send has stored
  backoff,    \* topicBackoff, per dispatcher
  disp,       \* what each dispatcher is doing
  faults,     \* failing calls and crashes so far
  late,       \* history: rows first stored after a younger row of their aggregate
  overlapped  \* history: rows still uncommitted when a younger row of theirs committed

vars == <<state, at, stored, backoff, disp, faults, late, overlapped>>

Polling == [pc |-> "poll", batch |-> {}, ok |-> {}, failed |-> {}]

Calm == [failures |-> 0, wait |-> 0]

TypeOK ==
  /\ state \in [Row -> {"none", "open", "unpublished", "published", "deleted"}]
  /\ at \in [Row -> Nat]
  /\ stored \subseteq Row
  /\ backoff \in [Dispatcher -> [Topic -> [failures: 0..MaxFailures, wait: 0..2^MaxFailures]]]
  /\ disp \in [Dispatcher -> [pc: {"poll", "send", "mark"}, batch: SUBSET Row,
                              ok: SUBSET Topic, failed: SUBSET Topic]]
  /\ faults \in 0..MaxFault
  /\ late \subseteq Row /\ overlapped \subseteq Row

Init ==
  /\ state = [r \in Row |-> "none"]
  /\ at = [r \in Row |-> 0]
  /\ stored = {}
  /\ backoff = [d \in Dispatcher |-> [t \in Topic |-> Calm]]
  /\ disp = [d \in Dispatcher |-> Polling]
  /\ faults = 0
  /\ late = {} /\ overlapped = {}

\* Rows of one topic and key share a partition, where order is kept.
Partition(r) == <<TopicOf[r], AggOf[r]>>

Fail == faults < MaxFault /\ faults' = faults + 1
-----------------------------------------------------------------------------
(* Producers: an insert inside a larger transaction *)

Begin(r) ==
  /\ state[r] = "none" /\ at[r] = 0
  /\ state' = [state EXCEPT ![r] = "open"]
  /\ at' = [at EXCEPT ![r] = Cardinality({s \in Row : at[s] > 0}) + 1]
  /\ UNCHANGED <<stored, backoff, disp, faults, late, overlapped>>

Commit(r) ==
  /\ state[r] = "open"
  /\ state' = [state EXCEPT ![r] = "unpublished"]
  /\ overlapped' = overlapped \cup
       {s \in Row : state[s] = "open" /\ Partition(s) = Partition(r) /\ at[s] < at[r]}
  /\ UNCHANGED <<at, stored, backoff, disp, faults, late>>

Rollback(r) ==
  /\ state[r] = "open"
  /\ state' = [state EXCEPT ![r] = "none"]
  /\ UNCHANGED <<at, stored, backoff, disp, faults, late, overlapped>>

-----------------------------------------------------------------------------
(* The dispatcher *)

Unpublished == {r \in Row : state[r] = "unpublished"}

\* (Mutant first: the newest rows first.)
NewestBatch(S) ==
  {r \in S : Cardinality({s \in S : at[s] > at[r]}) < Batch}

\* ORDER BY createdAt LIMIT BATCH_SIZE.
OldestBatch(S) ==
  {r \in S : Cardinality({s \in S : at[s] < at[r]}) < Batch}

TopicsIn(S) == {TopicOf[r] : r \in S}

\* claimBatch and the filter of the topics that are backing off.  An empty
\* batch, or one whose rows are all deferred, sleeps and polls again.
Claim(d) ==
  LET eligible == {r \in OldestBatch(Unpublished) : backoff[d][TopicOf[r]].wait = 0} IN
  /\ disp[d].pc = "poll"
  /\ eligible # {}
  /\ disp' = [disp EXCEPT ![d] = [pc |-> "send", batch |-> eligible, ok |-> {}, failed |-> {}]]
  /\ UNCHANGED <<state, at, stored, backoff, faults, late, overlapped>>

\* Kafka stores rows; rows of one send are stored in createdAt order.
Store(S) ==
  /\ stored' = stored \cup S
  /\ late' = late \cup {r \in S \ stored :
                \E s \in stored : Partition(s) = Partition(r) /\ at[s] > at[r]}

Pending(d, t) ==
  /\ disp[d].pc = "send"
  /\ t \in TopicsIn(disp[d].batch) \ (disp[d].ok \cup disp[d].failed)

RowsOf(d, t) == {r \in disp[d].batch : TopicOf[r] = t}

\* producer.send of one topic is acknowledged.  The topics' sends run
\* concurrently (allSettled).
Send(d, t) ==
  /\ Pending(d, t) /\ t \notin Sick
  /\ Store(RowsOf(d, t))
  /\ disp' = [disp EXCEPT ![d].ok = @ \cup {t}]
  /\ UNCHANGED <<state, at, backoff, faults, overlapped>>

\* ... or rejected, after some partitions (keys) may have stored their part.
Reject(d, t) ==
  /\ Pending(d, t)
  /\ \E keys \in SUBSET {AggOf[r] : r \in RowsOf(d, t)} :
       Store({r \in RowsOf(d, t) : AggOf[r] \in keys})
  /\ disp' = [disp EXCEPT ![d].failed = @ \cup {t}]
  /\ UNCHANGED <<state, at, backoff, overlapped>>

SendFails(d, t) == Fail /\ Reject(d, t)

\* A sick topic's send stores nothing.
SickSend(d, t) ==
  /\ Pending(d, t) /\ t \in Sick
  /\ disp' = [disp EXCEPT ![d].failed = @ \cup {t}]
  /\ UNCHANGED <<state, at, stored, backoff, faults, late, overlapped>>

\* (Mutant first: the delay doubles without BACKOFF_MAX_MS.)
UncappedDelay(b) ==
  [failures |-> IF b.failures < MaxFailures THEN b.failures + 1 ELSE MaxFailures,
   wait |-> 2^(b.failures + 1)]

\* onTopicFailure: exponential up to a maximum; failures are counted only as
\* far as they lengthen the delay.
onTopicFailure(b) ==
  LET n == IF b.failures < MaxFailures THEN b.failures + 1 ELSE MaxFailures
  IN  [failures |-> n, wait |-> 2^n]

\* (Mutant first: Promise.all in place of allSettled.)
CollectAll(d) ==
  /\ disp[d].pc = "send"
  /\ disp[d].ok \cup disp[d].failed = TopicsIn(disp[d].batch)
  /\ backoff' = [backoff EXCEPT ![d] = [t \in Topic |->
       IF t \in disp[d].failed THEN onTopicFailure(@[t]) ELSE @[t]]]
  /\ disp' = [disp EXCEPT ![d] = IF @.failed # {} THEN Polling ELSE [@ EXCEPT !.pc = "mark"]]
  /\ UNCHANGED <<state, at, stored, faults, late, overlapped>>

\* All sends settled: the topics' backoff is updated ...
Collect(d) ==
  /\ disp[d].pc = "send"
  /\ disp[d].ok \cup disp[d].failed = TopicsIn(disp[d].batch)
  /\ backoff' = [backoff EXCEPT ![d] = [t \in Topic |->
       IF t \in disp[d].ok THEN Calm
       ELSE IF t \in disp[d].failed THEN onTopicFailure(@[t]) ELSE @[t]]]
  /\ disp' = [disp EXCEPT ![d] = IF @.ok = {} THEN Polling ELSE [@ EXCEPT !.pc = "mark"]]
  /\ UNCHANGED <<state, at, stored, faults, late, overlapped>>

\* (Mutant first: the whole batch is marked.)
WholeBatch(d) == disp[d].batch

\* ... and the rows of the acknowledged topics are marked, unless already set.
Succeeded(d) == {r \in disp[d].batch : TopicOf[r] \in disp[d].ok}

markPublished(d) ==
  /\ disp[d].pc = "mark"
  /\ state' = [r \in Row |-> IF r \in Succeeded(d) /\ state[r] = "unpublished"
                             THEN "published" ELSE state[r]]
  /\ disp' = [disp EXCEPT ![d] = Polling]
  /\ UNCHANGED <<at, stored, backoff, faults, late, overlapped>>

\* The mark throws; the loop catches it and polls again.
MarkFails(d) ==
  /\ disp[d].pc = "mark"
  /\ Fail
  /\ disp' = [disp EXCEPT ![d] = Polling]
  /\ UNCHANGED <<state, at, stored, backoff, late, overlapped>>

\* The process dies and restarts: the backoff state is gone.
Crash(d) ==
  /\ Fail
  /\ disp' = [disp EXCEPT ![d] = Polling]
  /\ backoff' = [backoff EXCEPT ![d] = [t \in Topic |-> Calm]]
  /\ UNCHANGED <<state, at, stored, late, overlapped>>

\* deletePublishedOlderThan: published rows, when they are old enough.
Cleanup(r) ==
  /\ state[r] = "published"
  /\ state' = [state EXCEPT ![r] = "deleted"]
  /\ UNCHANGED <<at, stored, backoff, disp, faults, late, overlapped>>

\* Time passes.
Tick ==
  /\ \E d \in Dispatcher, t \in Topic : backoff[d][t].wait > 0
  /\ backoff' = [d \in Dispatcher |-> [t \in Topic |->
       IF backoff[d][t].wait > 0 THEN [backoff[d][t] EXCEPT !.wait = @ - 1]
       ELSE backoff[d][t]]]
  /\ UNCHANGED <<state, at, stored, disp, faults, late, overlapped>>

Produce(r) == Begin(r) \/ Commit(r) \/ Rollback(r)

runOnce(d) ==
  \/ Claim(d)
  \/ \E t \in Topic : Send(d, t) \/ SickSend(d, t)
  \/ Collect(d)
  \/ markPublished(d)

Fault(d) == (\E t \in Topic : SendFails(d, t)) \/ MarkFails(d) \/ Crash(d)

Next ==
  \/ \E r \in Row : Produce(r) \/ Cleanup(r)
  \/ \E d \in Dispatcher : runOnce(d) \/ Fault(d)
  \/ Tick

Spec == Init /\ [][Next]_vars

\* A dispatcher keeps polling and time passes; calls may fail finitely often,
\* except on the sick topics.
FairSpec == Spec /\ (\A d \in Dispatcher : WF_vars(runOnce(d))) /\ WF_vars(Tick)
-----------------------------------------------------------------------------
(* Properties *)

\* At-least-once (the module's header): a row marked published, and so never
\* read again, was stored by Kafka, whatever failed in between.
PublishedIsStored ==
  \A r \in Row : state[r] \in {"published", "deleted"} => r \in stored

\* What a dispatcher is about to mark is stored: the fact its memory keeps
\* between the acknowledgement and the mark.  With PublishedIsStored it is
\* inductive.
AcknowledgedIsStored ==
  \A d \in Dispatcher : \A r \in disp[d].batch : TopicOf[r] \in disp[d].ok => r \in stored

\* Events of one aggregate reach its partition in createdAt order through
\* failed, partial and repeated sends, except those whose transaction
\* overlapped the commit of a younger one.
InOrderUnlessOverlapped == late \subseteq overlapped

\* "keeps healthy topics draining while a sick topic backs off": again and
\* again no committed row of a healthy topic waits, so each is published.
HealthyTopicsDrain == []<>(\A r \in Row : state[r] = "unpublished" => TopicOf[r] \in Sick)
=============================================================================
