--------------------------- MODULE OutgoingProofs ---------------------------
(***************************************************************************)
(* What leaves the system, for every number of rows and processes, every   *)
(* batch size and any failures.  The outbox: at-least-once delivery, and   *)
(* the order of an aggregate's events; the single-dispatcher contract is   *)
(* needed for neither.  Outgoing webhooks: no unpaid duplicate, and dead   *)
(* letters that used their attempts, while a batch ends within its lease   *)
(* and one dashboard request runs at a time.                               *)
(***************************************************************************)
EXTENDS OutboxDispatcher, FiniteSetTheorems, TLAPS

\* The part of the type the argument needs.
Shape ==
  /\ state \in [Row -> {"none", "open", "unpublished", "published", "deleted"}]
  /\ disp \in [Dispatcher -> [pc: {"poll", "send", "mark"}, batch: SUBSET Row,
                              ok: SUBSET Topic, failed: SUBSET Topic]]
  /\ stored \subseteq Row

Inv == Shape /\ AcknowledgedIsStored /\ PublishedIsStored

\* Nothing is stored and nothing published.
LEMMA InitInv == Init => Inv
BY DEF Init, Inv, Shape, AcknowledgedIsStored, PublishedIsStored, Polling

\* Kafka never forgets, and no row is marked by a step that leaves the table.
LEMMA DispatcherStep ==
  ASSUME Inv, NEW d \in Dispatcher,
         NEW p \in [pc: {"poll", "send", "mark"}, batch: SUBSET Row,
                    ok: SUBSET Topic, failed: SUBSET Topic],
         disp' = [disp EXCEPT ![d] = p], state' = state,
         stored' \subseteq Row, stored \subseteq stored',
         \A r \in p.batch : TopicOf[r] \in p.ok => r \in stored'
  PROVE  Inv'
<1>1. Shape'
  BY DEF Inv, Shape
<1>2. AcknowledgedIsStored'
  <2> SUFFICES ASSUME NEW c \in Dispatcher, NEW r \in disp'[c].batch, TopicOf[r] \in disp'[c].ok
               PROVE  r \in stored'
    BY DEF AcknowledgedIsStored
  <2>1. CASE c = d
    BY <2>1 DEF Inv, Shape
  <2>2. CASE c # d
    BY <2>2 DEF Inv, Shape, AcknowledgedIsStored
  <2> QED BY <2>1, <2>2
<1>3. PublishedIsStored'
  BY DEF Inv, PublishedIsStored
<1> QED BY <1>1, <1>2, <1>3 DEF Inv

\* Forgetting a batch, on whatever path, is harmless.
LEMMA ForgetStep ==
  ASSUME Inv, NEW d \in Dispatcher, disp' = [disp EXCEPT ![d] = Polling],
         UNCHANGED <<state, stored>>
  PROVE  Inv'
<1>1. Polling \in [pc: {"poll", "send", "mark"}, batch: SUBSET Row,
                   ok: SUBSET Topic, failed: SUBSET Topic]
      /\ Polling.batch = {}
  BY DEF Polling
<1> QED
  BY <1>1, DispatcherStep DEF Inv, Shape

\* A settled send: what is acknowledged is stored.
LEMMA SendSteps ==
  ASSUME Inv, NEW d \in Dispatcher, NEW t \in Topic,
         Send(d, t) \/ SickSend(d, t) \/ SendFails(d, t)
  PROVE  Inv'
<1>1. /\ disp[d] \in [pc: {"poll", "send", "mark"}, batch: SUBSET Row,
                      ok: SUBSET Topic, failed: SUBSET Topic]
      /\ stored \subseteq Row
      /\ \A r \in disp[d].batch : TopicOf[r] \in disp[d].ok => r \in stored
  BY DEF Inv, Shape, AcknowledgedIsStored
<1>2. CASE Send(d, t)
  <2> DEFINE p == [disp[d] EXCEPT !.ok = @ \cup {t}]
  <2>1. p \in [pc: {"poll", "send", "mark"}, batch: SUBSET Row,
               ok: SUBSET Topic, failed: SUBSET Topic]
        /\ p.batch = disp[d].batch /\ p.ok = disp[d].ok \cup {t}
    BY <1>1
  <2>2. /\ disp' = [disp EXCEPT ![d] = p] /\ state' = state
        /\ stored' = stored \cup RowsOf(d, t)
    BY <1>2 DEF Send, Store, Inv, Shape
  <2>3. stored' \subseteq Row /\ stored \subseteq stored'
    BY <1>1, <2>2 DEF RowsOf
  <2>4. \A r \in p.batch : TopicOf[r] \in p.ok => r \in stored'
    BY <1>1, <2>1, <2>2 DEF RowsOf
  <2> QED
    BY <2>1, <2>2, <2>3, <2>4, DispatcherStep
<1>3. CASE SickSend(d, t) \/ SendFails(d, t)
  <2> DEFINE p == [disp[d] EXCEPT !.failed = @ \cup {t}]
  <2>1. p \in [pc: {"poll", "send", "mark"}, batch: SUBSET Row,
               ok: SUBSET Topic, failed: SUBSET Topic]
        /\ p.batch = disp[d].batch /\ p.ok = disp[d].ok
    BY <1>1
  <2>2. disp' = [disp EXCEPT ![d] = p] /\ state' = state
    BY <1>3 DEF SickSend, SendFails, Reject, Inv, Shape
  <2>3. stored' \subseteq Row /\ stored \subseteq stored'
    <3>1. CASE SickSend(d, t)
      BY <1>1, <3>1 DEF SickSend
    <3>2. CASE SendFails(d, t)
      <4>1. PICK keys : Store({r \in RowsOf(d, t) : AggOf[r] \in keys})
        BY <3>2 DEF SendFails, Reject
      <4> QED BY <1>1, <4>1 DEF Store, RowsOf
    <3> QED BY <1>3, <3>1, <3>2
  <2> QED
    BY <1>1, <2>1, <2>2, <2>3, DispatcherStep
<1> QED BY <1>2, <1>3

\* A fresh batch has no acknowledged topic.
LEMMA ClaimStep ==
  ASSUME Inv, NEW d \in Dispatcher, Claim(d)
  PROVE  Inv'
<1>1. PICK b \in SUBSET Row :
        disp' = [disp EXCEPT ![d] = [pc |-> "send", batch |-> b, ok |-> {}, failed |-> {}]]
  BY DEF Claim, OldestBatch, Unpublished
<1> DEFINE p == [pc |-> "send", batch |-> b, ok |-> {}, failed |-> {}]
<1>2. p \in [pc: {"poll", "send", "mark"}, batch: SUBSET Row,
             ok: SUBSET Topic, failed: SUBSET Topic] /\ p.ok = {}
  OBVIOUS
<1>3. UNCHANGED <<state, stored>> /\ stored \subseteq Row
  BY DEF Claim, Inv, Shape
<1> QED
  BY <1>1, <1>2, <1>3, DispatcherStep

\* The dispatcher goes on to mark, or forgets the batch.
LEMMA CollectStep ==
  ASSUME Inv, NEW d \in Dispatcher, Collect(d)
  PROVE  Inv'
<1>1. /\ disp[d] \in [pc: {"poll", "send", "mark"}, batch: SUBSET Row,
                      ok: SUBSET Topic, failed: SUBSET Topic]
      /\ \A r \in disp[d].batch : TopicOf[r] \in disp[d].ok => r \in stored
      /\ UNCHANGED <<state, stored>> /\ stored \subseteq Row
  BY DEF Inv, Shape, AcknowledgedIsStored, Collect
<1>2. CASE disp[d].ok = {}
  <2>1. disp' = [disp EXCEPT ![d] = Polling]
    BY <1>2 DEF Collect
  <2> QED BY <1>1, <2>1, ForgetStep
<1>3. CASE disp[d].ok # {}
  <2> DEFINE p == [disp[d] EXCEPT !.pc = "mark"]
  <2>1. p \in [pc: {"poll", "send", "mark"}, batch: SUBSET Row,
               ok: SUBSET Topic, failed: SUBSET Topic]
        /\ p.batch = disp[d].batch /\ p.ok = disp[d].ok
    BY <1>1
  <2>2. disp' = [disp EXCEPT ![d] = p]
    BY <1>3 DEF Collect
  <2> QED
    BY <1>1, <2>1, <2>2, DispatcherStep
<1> QED BY <1>2, <1>3

\* The mark covers only acknowledged, hence stored, rows.
LEMMA MarkStep ==
  ASSUME Inv, NEW d \in Dispatcher, markPublished(d)
  PROVE  Inv'
<1>1. Shape'
  BY DEF markPublished, Inv, Shape, Polling
<1>2. AcknowledgedIsStored'
  BY DEF markPublished, Inv, Shape, AcknowledgedIsStored, Polling
<1>3. PublishedIsStored'
  <2> SUFFICES ASSUME NEW r \in Row, state'[r] \in {"published", "deleted"}
               PROVE  r \in stored
    BY DEF PublishedIsStored, markPublished
  <2>1. CASE r \in Succeeded(d)
    BY <2>1 DEF Succeeded, Inv, AcknowledgedIsStored
  <2>2. CASE r \notin Succeeded(d)
    BY <2>2 DEF markPublished, Inv, PublishedIsStored
  <2> QED BY <2>1, <2>2
<1> QED BY <1>1, <1>2, <1>3 DEF Inv

\* Producers, cleanup and time: no row becomes published or deleted that was
\* neither before.
LEMMA TableStep ==
  ASSUME Inv, UNCHANGED <<disp, stored>>,
         state' \in [Row -> {"none", "open", "unpublished", "published", "deleted"}],
         \A r \in Row : state'[r] \in {"published", "deleted"} =>
                        state[r] \in {"published", "deleted"}
  PROVE  Inv'
BY DEF Inv, Shape, AcknowledgedIsStored, PublishedIsStored

\* Every step keeps it.
LEMMA NextInv == Inv /\ [Next]_vars => Inv'
<1> SUFFICES ASSUME Inv, [Next]_vars PROVE Inv'
  OBVIOUS
<1>1. ASSUME NEW r \in Row, Produce(r) \/ Cleanup(r) PROVE Inv'
  BY <1>1, TableStep DEF Produce, Begin, Commit, Rollback, Cleanup, Inv, Shape
<1>2. ASSUME NEW d \in Dispatcher, runOnce(d) PROVE Inv'
  BY <1>2, ClaimStep, SendSteps, CollectStep, MarkStep DEF runOnce
<1>3. ASSUME NEW d \in Dispatcher, Fault(d) PROVE Inv'
  <2>1. ASSUME NEW t \in Topic, SendFails(d, t) PROVE Inv'
    BY <2>1, SendSteps
  <2>2. CASE MarkFails(d) \/ Crash(d)
    BY <2>2, ForgetStep DEF MarkFails, Crash
  <2> QED BY <1>3, <2>1, <2>2 DEF Fault
<1>4. CASE Tick \/ UNCHANGED vars
  BY <1>4, TableStep DEF Tick, vars, Inv, Shape
<1> QED
  BY <1>1, <1>2, <1>3, <1>4 DEF Next

\* Every row the dispatcher marked published (and so will never send again, and
\* outbox-cleanup may delete) was stored by Kafka.
THEOREM OutboxAtLeastOnce == Spec => []PublishedIsStored
<1>1. Inv => PublishedIsStored
  BY DEF Inv
<1> QED
  BY <1>1, InitInv, NextInv, PTL DEF Spec

-----------------------------------------------------------------------------
(* The order of one partition *)

Committed == {r \in Row : state[r] \in {"unpublished", "published", "deleted"}}
Begun == {r \in Row : at[r] > 0}

\* createdAt counts the transactions begun so far.
Timed ==
  /\ at \in [Row -> Nat]
  /\ IsFiniteSet(Begun)
  /\ \A r \in Row : at[r] <= Cardinality(Begun) /\ (state[r] # "none" => at[r] > 0)

Older(r, s) == Partition(r) = Partition(s) /\ at[r] < at[s]

\* A row that younger ones need not wait for any more.
Accounted(r) == state[r] = "none" \/ r \in overlapped \/ r \in stored

\* A row that is open while a younger one is visible overlapped its commit.
OpenIsOverlapped ==
  \A s \in Committed, r \in Row : Older(r, s) /\ state[r] = "open" => r \in overlapped

\* A batch skips no older row of a partition it contains, ...
BatchIsPrefix ==
  \A d \in Dispatcher : \A s \in disp[d].batch :
    /\ s \in Committed
    /\ \A r \in Row : Older(r, s) => r \in disp[d].batch \/ Accounted(r)

\* ... and so what Kafka has of a partition skips none either.
StoredIsPrefix ==
  \A s \in stored : s \in Committed /\ \A r \in Row : Older(r, s) => Accounted(r)

OrderInv ==
  /\ Timed /\ OpenIsOverlapped /\ BatchIsPrefix /\ StoredIsPrefix
  /\ InOrderUnlessOverlapped

\* Nothing has begun.
LEMMA InitOrder == Init => OrderInv
<1> SUFFICES ASSUME Init PROVE OrderInv
  OBVIOUS
<1>1. Begun = {} /\ Committed = {} /\ stored = {} /\ late = {}
  BY DEF Init, Begun, Committed
<1>2. IsFiniteSet({}) /\ Cardinality({}) = 0
  BY FS_EmptySet
<1>3. Timed
  BY <1>1, <1>2 DEF Timed, Init
<1>4. BatchIsPrefix
  BY DEF BatchIsPrefix, Init, Polling
<1> QED
  BY <1>1, <1>3, <1>4 DEF OrderInv, OpenIsOverlapped, StoredIsPrefix, InOrderUnlessOverlapped

\* A dispatcher moves on with a batch that is still a prefix, and nothing is
\* sent.
LEMMA OrderKept ==
  ASSUME Inv, OrderInv, NEW d \in Dispatcher, NEW p, disp' = [disp EXCEPT ![d] = p],
         UNCHANGED <<state, at, overlapped>>, stored \subseteq stored',
         StoredIsPrefix', InOrderUnlessOverlapped',
         \A s \in p.batch :
           /\ s \in Committed
           /\ \A r \in Row : Older(r, s) => r \in p.batch \/ Accounted(r)
  PROVE  OrderInv'
<1>1. disp'[d] = p /\ \A c \in Dispatcher \ {d} : disp'[c] = disp[c]
  BY DEF Inv, Shape
<1>2. /\ Committed' = Committed /\ Begun' = Begun
      /\ \A r, s \in Row : Older(r, s)' <=> Older(r, s)
      /\ \A r \in Row : Accounted(r) => Accounted(r)'
  BY DEF Committed, Begun, Older, Partition, Accounted
<1>3. Timed' /\ OpenIsOverlapped'
  BY <1>2 DEF OrderInv, Timed, OpenIsOverlapped, Committed
<1>4. ASSUME NEW c \in Dispatcher, NEW s \in disp'[c].batch
      PROVE  /\ s \in Committed'
             /\ \A r \in Row : Older(r, s)' => r \in disp'[c].batch \/ Accounted(r)'
  <2>1. CASE c = d
    BY <1>1, <1>2, <2>1 DEF Committed
  <2>2. CASE c # d
    BY <1>1, <1>2, <2>2 DEF OrderInv, BatchIsPrefix, Committed
  <2> QED BY <2>1, <2>2
<1> QED
  BY <1>3, <1>4 DEF OrderInv, BatchIsPrefix

\* A batch is forgotten, on whatever path.
LEMMA OrderForgets ==
  ASSUME Inv, OrderInv, NEW d \in Dispatcher, disp' = [disp EXCEPT ![d] = Polling],
         UNCHANGED <<state, at, stored, late, overlapped>>
  PROVE  OrderInv'
<1>1. StoredIsPrefix' /\ InOrderUnlessOverlapped'
  BY DEF OrderInv, StoredIsPrefix, InOrderUnlessOverlapped, Committed, Older, Partition, Accounted
<1>2. Polling.batch = {}
  BY DEF Polling
<1> QED
  BY <1>1, <1>2, OrderKept

\* A part of a batch that has whole partitions reaches Kafka.
LEMMA OrderStored ==
  ASSUME Inv, OrderInv, NEW d \in Dispatcher, NEW p, disp' = [disp EXCEPT ![d] = p],
         p.batch = disp[d].batch, UNCHANGED <<state, at, overlapped>>,
         NEW S \in SUBSET disp[d].batch, Store(S),
         \A s \in S, r \in disp[d].batch : Partition(r) = Partition(s) => r \in S
  PROVE  OrderInv'
<1>1. /\ disp[d].batch \subseteq Row /\ stored' = stored \cup S
      /\ late' = late \cup {r \in S \ stored :
                \E s \in stored : Partition(s) = Partition(r) /\ at[s] > at[r]}
  BY DEF Inv, Shape, Store
<1>2. \A s \in disp[d].batch :
         /\ s \in Committed
         /\ \A r \in Row : Older(r, s) => r \in disp[d].batch \/ Accounted(r)
  BY DEF OrderInv, BatchIsPrefix
<1>3. /\ Committed' = Committed /\ \A r, s \in Row : Older(r, s)' <=> Older(r, s)
      /\ \A r \in Row : Accounted(r) => Accounted(r)'
      /\ \A r \in S : Accounted(r)'
  BY <1>1 DEF Committed, Older, Partition, Accounted
<1>4. StoredIsPrefix'
  <2> SUFFICES ASSUME NEW s \in stored \cup S
               PROVE  s \in Committed /\ \A r \in Row : Older(r, s) => Accounted(r)'
    BY <1>1, <1>3 DEF StoredIsPrefix, Inv, Shape
  <2>1. CASE s \in stored
    BY <1>3, <2>1 DEF OrderInv, StoredIsPrefix
  <2>2. CASE s \in S
    <3>1. ASSUME NEW r \in Row, Older(r, s), r \in disp[d].batch PROVE r \in S
      BY <2>2, <3>1 DEF Older
    <3> QED
      BY <1>2, <1>3, <2>2, <3>1
  <2> QED BY <2>1, <2>2
<1>5. InOrderUnlessOverlapped'
  <2> SUFFICES ASSUME NEW r \in late' PROVE r \in overlapped
    BY DEF InOrderUnlessOverlapped
  <2>1. CASE r \in late
    BY <2>1 DEF OrderInv, InOrderUnlessOverlapped
  <2>2. CASE r \notin late
    <3>1. PICK s \in stored : Partition(s) = Partition(r) /\ at[s] > at[r]
      BY <1>1, <2>2
    <3>2. r \in S /\ r \notin stored /\ r \in Row /\ s \in Row
      BY <1>1, <2>2 DEF Inv, Shape
    <3>3. at[r] < at[s]
      BY <3>1, <3>2 DEF OrderInv, Timed
    <3>4. Accounted(r)
      BY <3>1, <3>2, <3>3 DEF OrderInv, StoredIsPrefix, Older
    <3>5. state[r] # "none"
      BY <1>2, <3>2 DEF Committed
    <3> QED
      BY <3>2, <3>4, <3>5 DEF Accounted
  <2> QED BY <2>1, <2>2
<1> QED
  BY <1>1, <1>2, <1>4, <1>5, OrderKept

\* A send, settled or rejected halfway, stores rows whose older ones are stored
\* or were sent with them.
LEMMA OrderSends ==
  ASSUME Inv, OrderInv, NEW d \in Dispatcher, NEW t \in Topic,
         Send(d, t) \/ SickSend(d, t) \/ SendFails(d, t)
  PROVE  OrderInv'
<1>1. disp[d] \in [pc: {"poll", "send", "mark"}, batch: SUBSET Row,
                   ok: SUBSET Topic, failed: SUBSET Topic]
      /\ UNCHANGED <<state, at, overlapped>>
  BY DEF Inv, Shape, Send, SickSend, SendFails, Reject
<1>2. PICK p : disp' = [disp EXCEPT ![d] = p] /\ p.batch = disp[d].batch
  <2>1. CASE Send(d, t)
    <3>1. PICK p : p = [disp[d] EXCEPT !.ok = @ \cup {t}]
      OBVIOUS
    <3>2. disp' = [disp EXCEPT ![d] = p] /\ p.batch = disp[d].batch
      BY <1>1, <2>1, <3>1 DEF Send, Inv, Shape
    <3> QED BY <3>2
  <2>2. CASE SickSend(d, t) \/ SendFails(d, t)
    <3>1. PICK p : p = [disp[d] EXCEPT !.failed = @ \cup {t}]
      OBVIOUS
    <3>2. disp' = [disp EXCEPT ![d] = p] /\ p.batch = disp[d].batch
      BY <1>1, <2>2, <3>1 DEF SickSend, SendFails, Reject, Inv, Shape
    <3> QED BY <3>2
  <2> QED BY <2>1, <2>2
<1>3. ASSUME NEW S \in SUBSET disp[d].batch, Store(S),
             \A s \in S, r \in disp[d].batch : Partition(r) = Partition(s) => r \in S
      PROVE  OrderInv'
  BY <1>1, <1>2, <1>3, OrderStored
<1>4. CASE Send(d, t)
  <2>1. Store(RowsOf(d, t)) /\ RowsOf(d, t) \in SUBSET disp[d].batch
    BY <1>4 DEF Send, RowsOf
  <2>2. \A s \in RowsOf(d, t), r \in disp[d].batch : Partition(r) = Partition(s) => r \in RowsOf(d, t)
    BY DEF RowsOf, Partition
  <2> QED BY <1>3, <2>1, <2>2
<1>5. CASE SickSend(d, t)
  <2>1. Store({})
    BY <1>5 DEF SickSend, Store
  <2> QED BY <1>3, <2>1
<1>6. CASE SendFails(d, t)
  <2>1. PICK keys : Store({r \in RowsOf(d, t) : AggOf[r] \in keys})
    BY <1>6 DEF SendFails, Reject
  <2>2. PICK S : S = {r \in RowsOf(d, t) : AggOf[r] \in keys}
    OBVIOUS
  <2>3. S \in SUBSET disp[d].batch
        /\ \A s \in S, r \in disp[d].batch : Partition(r) = Partition(s) => r \in S
    BY <2>2 DEF RowsOf, Partition
  <2> QED BY <1>3, <2>1, <2>2, <2>3
<1> QED BY <1>4, <1>5, <1>6

\* The oldest rows first: with a row the batch takes every older visible one.
LEMMA OldestIsPrefix ==
  ASSUME Timed, NEW r \in Unpublished, NEW s \in OldestBatch(Unpublished), at[r] < at[s],
         Batch \in Nat
  PROVE  r \in OldestBatch(Unpublished)
<1> DEFINE R == {u \in Unpublished : at[u] < at[r]}
           S == {u \in Unpublished : at[u] < at[s]}
<1>1. Unpublished \subseteq Begun /\ Unpublished \subseteq Row /\ s \in Unpublished
  BY DEF Unpublished, Begun, Timed, OldestBatch
<1>2. S \subseteq Begun /\ R \subseteq S
  <2>1. \A u \in Row : at[u] \in Nat
    BY DEF Timed
  <2> QED BY <1>1, <2>1
<1>3. IsFiniteSet(S) /\ IsFiniteSet(R) /\ Cardinality(R) <= Cardinality(S)
  <2>1. IsFiniteSet(S)
    BY <1>2, FS_Subset DEF Timed
  <2> QED BY <1>2, <2>1, FS_Subset
<1>4. Cardinality(R) \in Nat /\ Cardinality(S) \in Nat
  BY <1>3, FS_CardinalityType
<1>5. Cardinality(S) < Batch
  BY DEF OldestBatch
<1> QED
  BY <1>3, <1>4, <1>5 DEF OldestBatch

\* The oldest rows are claimed; a topic in backoff is left out as a whole, so
\* with every row its older ones are taken.
LEMMA OrderClaims ==
  ASSUME Inv, OrderInv, NEW d \in Dispatcher, Claim(d)
  PROVE  OrderInv'
<1> DEFINE b == {r \in OldestBatch(Unpublished) : backoff[d][TopicOf[r]].wait = 0}
<1>1. PICK p : p = [pc |-> "send", batch |-> b, ok |-> {}, failed |-> {}]
  OBVIOUS
<1>2. /\ disp' = [disp EXCEPT ![d] = p] /\ p.batch = b
      /\ UNCHANGED <<state, at, stored, late, overlapped>>
  BY <1>1 DEF Claim
<1>3. StoredIsPrefix' /\ InOrderUnlessOverlapped'
  BY <1>2 DEF OrderInv, StoredIsPrefix, InOrderUnlessOverlapped, Committed, Older, Partition, Accounted
<1>4. ASSUME NEW s \in b
      PROVE  /\ s \in Committed
             /\ \A r \in Row : Older(r, s) => r \in b \/ Accounted(r)
  <2>1. s \in Unpublished /\ s \in Committed
    BY DEF OldestBatch, Unpublished, Committed
  <2>2. ASSUME NEW r \in Row, Older(r, s) PROVE r \in b \/ Accounted(r)
    <3>1. CASE state[r] = "unpublished"
      <4>1. r \in OldestBatch(Unpublished)
        BY <2>1, <2>2, <3>1, OldestIsPrefix, OutboxAssumption DEF OrderInv, Older, Unpublished
      <4>2. TopicOf[r] = TopicOf[s]
        BY <2>2 DEF Older, Partition
      <4> QED BY <4>1, <4>2
    <3>2. CASE state[r] = "open"
      BY <2>1, <2>2, <3>2 DEF OrderInv, OpenIsOverlapped, Accounted
    <3>3. CASE state[r] \in {"published", "deleted", "none"}
      BY <3>3 DEF Inv, PublishedIsStored, Accounted
    <3> QED BY <3>1, <3>2, <3>3 DEF Inv, Shape
  <2> QED BY <2>1, <2>2
<1> HIDE DEF b
<1> QED
  BY <1>2, <1>3, <1>4, OrderKept

\* A step of the table: rows become visible, are marked, deleted or rolled back.
LEMMA OrderTable ==
  ASSUME Inv, OrderInv, UNCHANGED <<at, stored, late>>, overlapped \subseteq overlapped',
         Committed \subseteq Committed', OpenIsOverlapped',
         \A r \in Row : state[r] = "none" => state'[r] = "none",
         \A c \in Dispatcher : disp'[c].batch = disp[c].batch \/ disp'[c].batch = {}
  PROVE  OrderInv'
<1>1. /\ Begun' = Begun /\ \A r, s : Older(r, s)' <=> Older(r, s)
      /\ \A r \in Row : Accounted(r) => Accounted(r)'
  BY DEF Begun, Older, Partition, Accounted
<1>2. \A r \in Row : state'[r] # "none" => state[r] # "none"
  OBVIOUS
<1>3. Timed' /\ InOrderUnlessOverlapped'
  BY <1>1, <1>2 DEF OrderInv, Timed, InOrderUnlessOverlapped
<1>4. BatchIsPrefix'
  BY <1>1 DEF OrderInv, BatchIsPrefix
<1>5. StoredIsPrefix'
  BY <1>1 DEF OrderInv, StoredIsPrefix
<1> QED
  BY <1>3, <1>4, <1>5 DEF OrderInv

\* A transaction begins: its row is younger than every other.
LEMMA OrderBegins ==
  ASSUME Inv, OrderInv, NEW r \in Row, Begin(r)
  PROVE  OrderInv'
<1> DEFINE n == Cardinality(Begun) + 1
<1>0. Begun = {s \in Row : at[s] > 0}
  BY DEF Begun
<1>1. /\ state[r] = "none" /\ at[r] = 0 /\ state' = [state EXCEPT ![r] = "open"]
      /\ at' = [at EXCEPT ![r] = n]
      /\ UNCHANGED <<stored, disp, late, overlapped>>
  BY <1>0 DEF Begin
<1>2. Cardinality(Begun) \in Nat /\ IsFiniteSet(Begun) /\ at \in [Row -> Nat]
      /\ \A s \in Row : at[s] <= Cardinality(Begun)
  BY FS_CardinalityType DEF OrderInv, Timed
<1>3. n \in Nat /\ n > 0 /\ at'[r] = n /\ \A s \in Row \ {r} : at'[s] = at[s] /\ at[s] < n
  BY <1>1, <1>2
<1>4. Begun' = Begun \cup {r} /\ r \notin Begun
  <2> HIDE DEF n
  <2>1. \A s \in Row : at'[s] > 0 <=> (s = r \/ at[s] > 0)
    BY <1>2, <1>3
  <2>2. ~ (at[r] > 0)
    BY <1>1
  <2> QED BY <2>1, <2>2 DEF Begun
<1>5. IsFiniteSet(Begun') /\ Cardinality(Begun') = n
  BY <1>2, <1>4, FS_AddElement
<1> HIDE DEF n
<1>6. Timed'
  <2>1. at' \in [Row -> Nat] /\ \A s \in Row : at'[s] <= n
    BY <1>1, <1>2, <1>3
  <2>2. \A s \in Row : state'[s] # "none" => at'[s] > 0
    BY <1>1, <1>3 DEF OrderInv, Timed, Inv, Shape
  <2> QED BY <1>5, <2>1, <2>2 DEF Timed
<1>7. Committed' = Committed /\ r \notin Committed
  BY <1>1 DEF Committed, Inv, Shape
<1>8. ASSUME NEW q \in Row, NEW s \in Committed, Older(q, s)'
      PROVE  q # r /\ Older(q, s) /\ state'[q] = state[q] /\ (Accounted(q) => Accounted(q)')
  <2>1. s # r /\ s \in Row /\ at'[s] = at[s] /\ at[s] < n /\ at[s] \in Nat
    BY <1>2, <1>3, <1>7 DEF Committed
  <2>2. q # r
    BY <1>3, <1>8, <2>1 DEF Older
  <2>3. at'[q] = at[q] /\ state'[q] = state[q]
    BY <1>1, <1>3, <2>2 DEF Inv, Shape
  <2> QED
    BY <1>1, <1>8, <2>1, <2>2, <2>3 DEF Older, Partition, Accounted
<1>9. OpenIsOverlapped'
  BY <1>1, <1>7, <1>8 DEF OrderInv, OpenIsOverlapped
<1>10. BatchIsPrefix'
  <2> SUFFICES ASSUME NEW d \in Dispatcher, NEW s \in disp[d].batch
               PROVE  /\ s \in Committed
                      /\ \A q \in Row : Older(q, s)' => q \in disp[d].batch \/ Accounted(q)'
    BY <1>1, <1>7 DEF BatchIsPrefix
  <2>1. s \in Committed /\ \A q \in Row : Older(q, s) => q \in disp[d].batch \/ Accounted(q)
    BY DEF OrderInv, BatchIsPrefix
  <2> QED BY <1>8, <2>1
<1>11. StoredIsPrefix'
  <2> SUFFICES ASSUME NEW s \in stored
               PROVE  s \in Committed /\ \A q \in Row : Older(q, s)' => Accounted(q)'
    BY <1>1, <1>7 DEF StoredIsPrefix
  <2>1. s \in Committed /\ \A q \in Row : Older(q, s) => Accounted(q)
    BY DEF OrderInv, StoredIsPrefix
  <2> QED BY <1>8, <2>1
<1>12. InOrderUnlessOverlapped'
  BY <1>1 DEF OrderInv, InOrderUnlessOverlapped
<1> QED
  BY <1>6, <1>9, <1>10, <1>11, <1>12 DEF OrderInv

\* A row becomes visible, is rolled back or cleaned up.
LEMMA OrderRows ==
  ASSUME Inv, OrderInv, NEW r \in Row, Commit(r) \/ Rollback(r) \/ Cleanup(r)
  PROVE  OrderInv'
<1>1. /\ UNCHANGED <<at, stored, late, disp>> /\ overlapped \subseteq overlapped'
      /\ state' \in [Row -> {"none", "open", "unpublished", "published", "deleted"}]
      /\ \A s \in Row \ {r} : state'[s] = state[s]
      /\ state[r] # "none"
      /\ state[r] \in {"unpublished", "published", "deleted"} => state'[r] = "deleted"
      /\ state'[r] # "open"
  BY DEF Commit, Rollback, Cleanup, Inv, Shape
<1>2. Committed \subseteq Committed'
  BY <1>1 DEF Committed
<1>3. OpenIsOverlapped'
  <2> SUFFICES ASSUME NEW s \in Committed', NEW q \in Row, Older(q, s)', state'[q] = "open"
               PROVE  q \in overlapped'
    BY DEF OpenIsOverlapped
  <2>1. Older(q, s) /\ q # r /\ state[q] = "open" /\ s \in Row
    BY <1>1 DEF Older, Partition, Committed
  <2>2. CASE s \in Committed
    BY <1>1, <2>1, <2>2 DEF OrderInv, OpenIsOverlapped
  <2>3. CASE s \notin Committed
    <3>1. s = r
      BY <1>1, <2>3 DEF Committed
    <3>2. Commit(r)
      BY <2>3, <3>1 DEF Rollback, Cleanup, Committed, Inv, Shape
    <3> QED BY <2>1, <3>1, <3>2 DEF Commit, Older
  <2> QED BY <2>2, <2>3
<1> QED
  BY <1>1, <1>2, <1>3, OrderTable

\* A batch is marked: its acknowledged rows leave the claimable ones.
LEMMA OrderMarks ==
  ASSUME Inv, OrderInv, NEW d \in Dispatcher, markPublished(d)
  PROVE  OrderInv'
<1>1. /\ UNCHANGED <<at, stored, late, overlapped>> /\ disp' = [disp EXCEPT ![d] = Polling]
      /\ \A r \in Row : state'[r] = state[r] \/ (state[r] = "unpublished" /\ state'[r] = "published")
  BY DEF markPublished
<1>2. Committed \subseteq Committed'
  BY <1>1 DEF Committed
<1>3. \A c \in Dispatcher : disp'[c].batch = disp[c].batch \/ disp'[c].batch = {}
  BY <1>1 DEF Inv, Shape, Polling
<1>4. OpenIsOverlapped'
  BY <1>1 DEF OrderInv, OpenIsOverlapped, Older, Partition, Committed
<1>5. \A r \in Row : state[r] = "none" => state'[r] = "none"
  BY <1>1
<1> QED
  BY <1>1, <1>2, <1>3, <1>4, <1>5, OrderTable

\* Every step keeps the order.
LEMMA NextOrder ==
  ASSUME Inv, OrderInv, [Next]_vars
  PROVE  OrderInv'
<1>1. ASSUME NEW r \in Row, Produce(r) \/ Cleanup(r) PROVE OrderInv'
  BY <1>1, OrderBegins, OrderRows DEF Produce
<1>2. ASSUME NEW d \in Dispatcher, Collect(d) PROVE OrderInv'
  <2>1. UNCHANGED <<state, at, stored, late, overlapped>>
    BY <1>2 DEF Collect
  <2>2. CASE disp[d].ok = {}
    BY <1>2, <2>1, <2>2, OrderForgets DEF Collect
  <2>3. CASE disp[d].ok # {}
    <3>1. PICK p : p = [disp[d] EXCEPT !.pc = "mark"]
      OBVIOUS
    <3>2. disp' = [disp EXCEPT ![d] = p] /\ p.batch = disp[d].batch
      BY <1>2, <2>3, <3>1 DEF Collect, Inv, Shape
    <3>3. StoredIsPrefix' /\ InOrderUnlessOverlapped'
      BY <2>1 DEF OrderInv, StoredIsPrefix, InOrderUnlessOverlapped, Committed, Older,
         Partition, Accounted
    <3> QED BY <2>1, <3>2, <3>3, OrderKept DEF OrderInv, BatchIsPrefix
  <2> QED BY <2>2, <2>3
<1>3. ASSUME NEW d \in Dispatcher, runOnce(d) PROVE OrderInv'
  BY <1>2, <1>3, OrderClaims, OrderSends, OrderMarks DEF runOnce
<1>4. ASSUME NEW d \in Dispatcher, Fault(d) PROVE OrderInv'
  <2>1. ASSUME NEW t \in Topic, SendFails(d, t) PROVE OrderInv'
    BY <2>1, OrderSends
  <2>2. CASE MarkFails(d) \/ Crash(d)
    BY <2>2, OrderForgets DEF MarkFails, Crash
  <2> QED BY <1>4, <2>1, <2>2 DEF Fault
<1>5. CASE Tick \/ UNCHANGED vars
  <2>1. UNCHANGED <<state, at, stored, disp, late, overlapped>>
    BY <1>5 DEF Tick, vars
  <2>2. OpenIsOverlapped' /\ Committed \subseteq Committed'
    BY <2>1 DEF OrderInv, OpenIsOverlapped, Committed, Older, Partition
  <2> QED BY <2>1, <2>2, OrderTable
<1> QED
  BY <1>1, <1>3, <1>4, <1>5 DEF Next

\* Events of one aggregate reach its partition in createdAt order through any
\* failed, partial and repeated sends (runOnce, claimBatch), and through any
\* number of dispatchers, except those that were open when a younger one
\* committed.
THEOREM OutboxInOrder == Spec => []InOrderUnlessOverlapped
<1>1. Init => Inv /\ OrderInv
  BY InitInv, InitOrder
<1>2. Inv /\ OrderInv /\ [Next]_vars => (Inv /\ OrderInv)'
  BY NextInv, NextOrder
<1>3. OrderInv => InOrderUnlessOverlapped
  BY DEF OrderInv
<1> QED
  BY <1>1, <1>2, <1>3, PTL DEF Spec
-----------------------------------------------------------------------------
(* Outgoing webhook delivery *)

CONSTANTS Rows, Replica, Operator, Lease, RowTicks, MAX_ATTEMPTS, BACKOFF_SCHEDULE, MaxOps

VARIABLES row, job, rep, op, posts, accepted, deliveryFaults, ops

Delivery == INSTANCE WebhookDelivery WITH faults <- deliveryFaults

\* Rows with the attempts their claim returned.
Claims == UNION {[X -> Nat] : X \in SUBSET Delivery!Hook}

\* What a worker is doing: every field it can have.
Work == [pc: {"idle", "claim", "next", "post", "sent", "failed"},
         held: Claims,
         cur: Delivery!Hook \cup {0}, timer: Nat]

RowType == [status: Delivery!Status, attempts: Nat, due: Nat, age: Nat]

DeliveryShape ==
  /\ row \in [Delivery!Hook -> RowType]
  /\ rep \in [Replica -> Work]
  /\ op \in [Operator -> {"none", "retry", "dismiss"} \X (Delivery!Hook \cup {0})]
  /\ posts \in [Delivery!Hook -> Nat] /\ accepted \in [Delivery!Hook -> Nat]
  /\ deliveryFaults \in Nat

\* The rows still to be delivered fit into what is left of the lease: a held
\* row's age, and RowTicks for each row its worker has yet to end, never exceed
\* the batch's whole time and the request under way.
InTime(p) ==
  \A h \in Delivery!Holds(p) :
    row[h].age + Cardinality(Delivery!Holds(p)) * RowTicks <= Batch * RowTicks + rep[p].timer

\* One worker and the rows it holds: they are DELIVERING, in time, and each
\* attempt the claim returned, the one under way included, was a request.
WorkerOK(p) ==
  /\ rep[p].pc \in {"idle", "claim"} => Delivery!Holds(p) = {}
  /\ rep[p].pc \in {"idle", "claim", "next"} => rep[p].timer = 0
  /\ rep[p].timer <= RowTicks
  /\ InTime(p)
  /\ \A h \in Delivery!Holds(p) : row[h].status = "DELIVERING" /\ rep[p].held[h] <= posts[h]
  /\ rep[p].pc \in {"post", "sent", "failed"} =>
       rep[p].cur \in Delivery!Holds(p) /\ rep[p].held[rep[p].cur] < posts[rep[p].cur]

\* No row is held by two workers.
HeldByOne ==
  \A p, q \in Replica : p # q => Delivery!Holds(p) \cap Delivery!Holds(q) = {}

\* A request the endpoint accepted and no fault pays for is about to be, or is,
\* recorded.
Recorded(h) == row[h].status = "SENT" \/ \E p \in Replica : rep[p].pc = "sent" /\ rep[p].cur = h

AcceptedIsPaid ==
  \A h \in Delivery!Hook :
    /\ accepted[h] <= deliveryFaults + 1
    /\ accepted[h] = deliveryFaults + 1 => Recorded(h)

AttemptsAreRequests ==
  \A h \in Delivery!Hook :
    row[h].attempts <= posts[h] /\ (row[h].status = "DEAD" => posts[h] > MAX_ATTEMPTS)

\* The row a dashboard request has checked is still dead.
TargetIsDead ==
  \A o \in Operator :
    op[o][1] # "none" => op[o][2] \in Delivery!Hook /\ row[op[o][2]].status = "DEAD"

DeliveryInv ==
  /\ DeliveryShape
  /\ \A p \in Replica : WorkerOK(p)
  /\ HeldByOne /\ AcceptedIsPaid /\ AttemptsAreRequests /\ TargetIsDead

\* What the deployment has to grant: a batch ends within its lease, and one
\* dashboard request at a time.
DeliveryInTime ==
  /\ Delivery!DeliveryAssumption
  /\ Batch * RowTicks <= Lease
  /\ \A o, u \in Operator : o = u

\* Products of naturals: one factor more, and monotony.
LEMMA Times ==
  ASSUME NEW n \in Nat, NEW m \in Nat, NEW t \in Nat
  PROVE  /\ n * t \in Nat /\ (n + 1) * t = n * t + t
         /\ n <= m => n * t <= m * t
<1>1. n * t \in Nat /\ (n + 1) * t = n * t + t
  BY Z3
<1>2. ASSUME n <= m PROVE n * t <= m * t
  <2>1. PICK k \in Nat : m = n + k
    <3>1. m - n \in Nat /\ m = n + (m - n)
      BY <1>2
    <3> QED BY <3>1
  <2>2. (n + k) * t = n * t + k * t /\ n * t \in Nat /\ k * t \in Nat
    BY Z3
  <2> QED BY <2>1, <2>2
<1> QED BY <1>1, <1>2

\* A set of rows is finite.
LEMMA HooksFinite ==
  ASSUME Delivery!DeliveryAssumption, NEW S \in SUBSET Delivery!Hook
  PROVE  /\ IsFiniteSet(S) /\ Cardinality(S) \in Nat
         /\ S # {} => Cardinality(S) >= 1
<1>1. IsFiniteSet(Delivery!Hook)
  BY FS_Interval DEF Delivery!Hook, Delivery!DeliveryAssumption
<1>2. IsFiniteSet(S)
  BY <1>1, FS_Subset
<1>3. Cardinality(S) \in Nat /\ (Cardinality(S) = 0 <=> S = {})
  BY <1>2, FS_CardinalityType, FS_EmptySet
<1> QED BY <1>2, <1>3

\* claimPendingWebhooks claims at most a batch: two of the rows it claims do not
\* have the same number of older due ones.
LEMMA ClaimIsBatch ==
  ASSUME Delivery!DeliveryAssumption
  PROVE  /\ Delivery!Claimable \subseteq Delivery!Hook
         /\ \A h \in Delivery!Claimable : Delivery!Due(row[h])
         /\ Cardinality(Delivery!Claimable) <= Batch
<1> DEFINE D == {h \in Delivery!Hook : Delivery!Due(row[h])}
           Below(h) == {g \in D : g < h}
           f == [h \in Delivery!Claimable |-> Cardinality(Below(h))]
<1>1. Delivery!Claimable = {h \in D : Cardinality(Below(h)) < Batch}
  BY DEF Delivery!Claimable, Delivery!Cardinality, Cardinality
<1>2. Delivery!Claimable \subseteq D /\ D \subseteq Delivery!Hook
  BY <1>1
<1>3. Batch \in Nat \ {0} /\ Delivery!Hook \subseteq Nat
  BY DEF Delivery!DeliveryAssumption, Delivery!Hook
<1>4. \A h : IsFiniteSet(Below(h)) /\ Cardinality(Below(h)) \in Nat
  BY HooksFinite
<1>5. IsFiniteSet(Delivery!Claimable) /\ Cardinality(Delivery!Claimable) \in Nat
  BY <1>2, HooksFinite
<1>6. IsFiniteSet(0..(Batch - 1)) /\ Cardinality(0..(Batch - 1)) = Batch
  BY <1>3, FS_Interval
<1>7. ASSUME NEW h \in Delivery!Claimable, NEW k \in Delivery!Claimable, h < k
      PROVE  Cardinality(Below(h)) # Cardinality(Below(k))
  <2>1. h \in D /\ k \in D /\ h \in Nat /\ k \in Nat
    BY <1>2, <1>3
  <2>2. Below(h) \subseteq Below(k)
    <3> SUFFICES ASSUME NEW g \in D, g < h PROVE g < k
      OBVIOUS
    <3>1. g \in Nat
      BY <1>2, <1>3
    <3> QED BY <1>7, <2>1, <3>1
  <2>3. h \in Below(k) /\ h \notin Below(h)
    BY <1>7, <2>1
  <2>4. Below(h) # Below(k)
    BY <2>3
  <2> HIDE DEF Below
  <2> QED BY <1>4, <2>2, <2>4, FS_Subset
<1>8. f \in [Delivery!Claimable -> 0..(Batch - 1)]
  <2> SUFFICES ASSUME NEW h \in Delivery!Claimable PROVE Cardinality(Below(h)) \in 0..(Batch - 1)
    OBVIOUS
  <2>1. Cardinality(Below(h)) \in Nat /\ Cardinality(Below(h)) < Batch
    BY <1>1, <1>4
  <2> HIDE DEF Below
  <2> QED BY <1>3, <2>1
<1>9. \A h, k \in Delivery!Claimable : h # k => f[h] # f[k]
  <2> SUFFICES ASSUME NEW h \in Delivery!Claimable, NEW k \in Delivery!Claimable, h # k
               PROVE  f[h] # f[k]
    OBVIOUS
  <2>1. h \in Nat /\ k \in Nat
    BY <1>2, <1>3
  <2>2. h < k \/ k < h
    BY <2>1
  <2>3. Cardinality(Below(h)) # Cardinality(Below(k))
    BY <1>7, <2>2
  <2> HIDE DEF Below
  <2> QED BY <2>3
<1>10. ~ (Batch < Cardinality(Delivery!Claimable))
  <2> HIDE DEF f
  <2> QED BY <1>5, <1>6, <1>8, <1>9, FS_PigeonHole
<1> QED BY <1>2, <1>3, <1>5, <1>10

\* A worker that starts anew holds nothing.
LEMMA IdleHoldsNothing ==
  /\ Delivery!Idle \in Work
  /\ Delivery!Idle.pc = "idle" /\ DOMAIN Delivery!Idle.held = {} /\ Delivery!Idle.timer = 0
<1>1. [h \in {} |-> 0] \in [{} -> Nat] /\ DOMAIN [h \in {} |-> 0] = {}
  OBVIOUS
<1>2. [h \in {} |-> 0] \in Claims
  BY <1>1 DEF Claims
<1> QED BY <1>1, <1>2 DEF Delivery!Idle, Work

\* What a worker may hold, field by field.
LEMMA WorkFields ==
  ASSUME NEW w \in Work
  PROVE  /\ DOMAIN w.held \subseteq Delivery!Hook
         /\ \A h \in DOMAIN w.held : w.held[h] \in Nat
         /\ w.timer \in Nat /\ w.cur \in Delivery!Hook \cup {0}
         /\ w.pc \in {"idle", "claim", "next", "post", "sent", "failed"}
<1>1. w.held \in Claims
  BY DEF Work
<1>2. PICK X \in SUBSET Delivery!Hook : w.held \in [X -> Nat]
  BY <1>1 DEF Claims
<1> QED BY <1>2 DEF Work

\* The fields of a worker whose step changes where it is.
LEMMA WorkMoves ==
  ASSUME NEW w \in Work, NEW k \in {"idle", "claim", "next", "post", "sent", "failed"},
         NEW v, v = [w EXCEPT !.pc = k]
  PROVE  v \in Work /\ v.pc = k /\ v.held = w.held /\ v.cur = w.cur /\ v.timer = w.timer
BY DEF Work

\* A held row's lease has not expired.
LEMMA HeldIsFresh ==
  ASSUME DeliveryInTime, DeliveryInv, NEW p \in Replica, NEW h \in Delivery!Holds(p)
  PROVE  /\ h \in Delivery!Hook /\ row[h] \in RowType /\ row[h].status = "DELIVERING"
         /\ row[h].age \in Nat /\ row[h].age <= Lease
<1>1. rep[p] \in Work /\ WorkerOK(p)
  BY DEF DeliveryInv, DeliveryShape
<1>2. Delivery!Holds(p) \subseteq Delivery!Hook /\ rep[p].timer \in Nat
  BY <1>1, WorkFields DEF Delivery!Holds
<1>3. Cardinality(Delivery!Holds(p)) \in Nat /\ Cardinality(Delivery!Holds(p)) >= 1
  BY <1>2, HooksFinite DEF DeliveryInTime
<1>4. row[h] \in RowType /\ row[h].age \in Nat
  BY <1>2 DEF DeliveryInv, DeliveryShape, RowType
<1>5. PICK n \in Nat : n = Cardinality(Delivery!Holds(p))
  BY <1>3
<1>6. Batch \in Nat /\ RowTicks \in Nat /\ Lease \in Nat /\ Batch * RowTicks <= Lease
  BY DEF DeliveryInTime, Delivery!DeliveryAssumption
<1>7. 1 * RowTicks <= n * RowTicks /\ n * RowTicks \in Nat /\ Batch * RowTicks \in Nat
      /\ 1 * RowTicks = RowTicks
  BY <1>3, <1>5, <1>6, Times
<1>8. row[h].age + n * RowTicks <= Batch * RowTicks + rep[p].timer /\ rep[p].timer <= RowTicks
  BY <1>1, <1>5 DEF WorkerOK, InTime
<1>9. row[h].age <= Lease
  <2>1. PICK x \in Nat, y \in Nat : x = n * RowTicks /\ y = Batch * RowTicks
    BY <1>7
  <2> QED BY <1>2, <1>4, <1>6, <1>7, <1>8, <2>1
<1> QED BY <1>1, <1>2, <1>4, <1>9 DEF WorkerOK

\* A step of one worker, which keeps to its own rows.
LEMMA WorkersKept ==
  ASSUME DeliveryInv, NEW p \in Replica, rep' \in [Replica -> Work],
         \A q \in Replica \ {p} : rep'[q] = rep[q],
         WorkerOK(p)',
         \A q \in Replica \ {p} : \A h \in Delivery!Holds(q) :
           h \notin DOMAIN rep'[p].held /\ row'[h] = row[h] /\ posts'[h] = posts[h]
  PROVE  (\A q \in Replica : WorkerOK(q)') /\ HeldByOne'
<1>1. ASSUME NEW q \in Replica, q # p PROVE WorkerOK(q)'
  <2>1. rep'[q] = rep[q] /\ WorkerOK(q) /\ rep[q] \in Work
    BY <1>1 DEF DeliveryInv, DeliveryShape
  <2>2. \A h \in DOMAIN rep[q].held : row'[h] = row[h] /\ posts'[h] = posts[h]
    BY <1>1 DEF Delivery!Holds
  <2>3. /\ rep[q].pc \in {"idle", "claim"} => DOMAIN rep[q].held = {}
        /\ rep[q].pc \in {"idle", "claim", "next"} => rep[q].timer = 0
        /\ rep[q].timer <= RowTicks
    BY <2>1 DEF WorkerOK, Delivery!Holds
  <2>4. InTime(q)'
    BY <2>1, <2>2 DEF WorkerOK, InTime, Delivery!Holds
  <2>5. \A h \in DOMAIN rep[q].held : row'[h].status = "DELIVERING" /\ rep[q].held[h] <= posts'[h]
    BY <2>1, <2>2 DEF WorkerOK, Delivery!Holds
  <2>6. rep[q].pc \in {"post", "sent", "failed"} =>
          rep[q].cur \in DOMAIN rep[q].held /\ rep[q].held[rep[q].cur] < posts'[rep[q].cur]
    BY <2>1, <2>2 DEF WorkerOK, Delivery!Holds
  <2> QED BY <2>1, <2>3, <2>4, <2>5, <2>6 DEF WorkerOK, Delivery!Holds
<1>2. HeldByOne'
  <2> SUFFICES ASSUME NEW a \in Replica, NEW b \in Replica, a # b
               PROVE  DOMAIN rep'[a].held \cap DOMAIN rep'[b].held = {}
    BY DEF HeldByOne, Delivery!Holds
  <2>1. CASE a # p /\ b # p
    BY <2>1 DEF DeliveryInv, HeldByOne, Delivery!Holds
  <2>2. CASE a = p
    BY <2>2 DEF Delivery!Holds
  <2>3. CASE b = p
    BY <2>3 DEF Delivery!Holds
  <2> QED BY <2>1, <2>2, <2>3
<1> QED BY <1>1, <1>2

\* No row is inserted and no worker busy.
LEMMA DeliveryInit ==
  ASSUME DeliveryInTime, Delivery!Init
  PROVE  DeliveryInv
<1>1. DeliveryShape
  <2>1. [status |-> "NONE", attempts |-> 0, due |-> 0, age |-> 0] \in RowType
    BY DEF RowType, Delivery!Status
  <2> QED BY <2>1, IdleHoldsNothing DEF Delivery!Init, DeliveryShape
<1>2. \A p \in Replica : Delivery!Holds(p) = {} /\ rep[p] = Delivery!Idle
  BY IdleHoldsNothing DEF Delivery!Init, Delivery!Holds
<1>3. ASSUME NEW p \in Replica PROVE WorkerOK(p)
  <2>1. Delivery!Holds(p) = {} /\ rep[p].pc = "idle" /\ rep[p].timer = 0 /\ 0 <= RowTicks
    BY <1>2, IdleHoldsNothing DEF DeliveryInTime, Delivery!DeliveryAssumption
  <2> QED BY <2>1 DEF WorkerOK, InTime
<1>4. HeldByOne
  BY <1>2 DEF HeldByOne
<1>5. AcceptedIsPaid /\ AttemptsAreRequests /\ TargetIsDead
  BY DEF Delivery!Init, AcceptedIsPaid, AttemptsAreRequests, TargetIsDead
<1> QED BY <1>1, <1>3, <1>4, <1>5 DEF DeliveryInv

\* A row's fields when its status changes.
LEMMA RowStatus ==
  ASSUME NEW r \in RowType, NEW s \in Delivery!Status, NEW x, x = [r EXCEPT !.status = s]
  PROVE  x \in RowType /\ x.status = s /\ x.attempts = r.attempts
BY DEF RowType

\* A row's fields when it is claimed.
LEMMA RowClaimed ==
  ASSUME NEW r \in RowType, NEW x, x = [r EXCEPT !.status = "DELIVERING", !.age = 0]
  PROVE  x \in RowType /\ x.status = "DELIVERING" /\ x.attempts = r.attempts /\ x.age = 0
BY DEF RowType, Delivery!Status

\* A row's fields when updateOutgoingWebhook writes it.
LEMMA RowWritten ==
  ASSUME NEW r \in RowType, NEW s \in Delivery!Status, NEW a \in Nat, NEW d \in Nat, NEW x,
         x = [status |-> s, attempts |-> a, due |-> d, age |-> r.age]
  PROVE  x \in RowType /\ x.status = s /\ x.attempts = a /\ x.age = r.age
BY DEF RowType

\* A step that leaves the workers and what was sent alone, changes no held row,
\* and neither unsends a row nor kills one.
LEMMA DeliveryTable ==
  ASSUME DeliveryInTime, DeliveryInv, UNCHANGED <<rep, posts, accepted, deliveryFaults>>,
         row' \in [Delivery!Hook -> RowType],
         op' \in [Operator -> {"none", "retry", "dismiss"} \X (Delivery!Hook \cup {0})],
         TargetIsDead',
         \A h \in Delivery!Hook :
           /\ row[h].status = "DELIVERING" => row'[h] = row[h]
           /\ row[h].status = "SENT" => row'[h].status = "SENT"
           /\ row'[h].attempts = row[h].attempts
           /\ row'[h].status = "DEAD" => row[h].status = "DEAD"
  PROVE  DeliveryInv'
<1>1. DeliveryShape'
  BY DEF DeliveryInv, DeliveryShape
<1>2. ASSUME NEW p \in Replica PROVE WorkerOK(p)'
  <2>1. \A h \in Delivery!Holds(p) : row'[h] = row[h]
    BY HeldIsFresh
  <2>2. WorkerOK(p) /\ rep'[p] = rep[p] /\ Delivery!Holds(p)' = Delivery!Holds(p)
    BY DEF DeliveryInv, Delivery!Holds
  <2>3. InTime(p)'
    BY <2>1, <2>2 DEF WorkerOK, InTime
  <2> QED BY <2>1, <2>2, <2>3 DEF WorkerOK
<1>3. HeldByOne'
  BY DEF DeliveryInv, HeldByOne, Delivery!Holds
<1>4. AcceptedIsPaid'
  BY DEF DeliveryInv, AcceptedIsPaid, Recorded
<1>5. AttemptsAreRequests'
  BY DEF DeliveryInv, AttemptsAreRequests
<1> QED BY <1>1, <1>2, <1>3, <1>4, <1>5 DEF DeliveryInv

\* A row is inserted, a dead one is looked at, or dismissed.
LEMMA DeliveryTableSteps ==
  ASSUME DeliveryInTime, DeliveryInv,
         \/ \E h \in Delivery!Hook : Delivery!enqueueOutgoingWebhook(h)
         \/ \E o \in Operator : Delivery!Check(o) \/ Delivery!markWebhookDismissed(o)
  PROVE  DeliveryInv'
<1>1. /\ row \in [Delivery!Hook -> RowType]
      /\ op \in [Operator -> {"none", "retry", "dismiss"} \X (Delivery!Hook \cup {0})]
      /\ TargetIsDead
  BY DEF DeliveryInv, DeliveryShape
<1>2. ASSUME NEW h \in Delivery!Hook, Delivery!enqueueOutgoingWebhook(h) PROVE DeliveryInv'
  <2>0. PICK x : x = [row[h] EXCEPT !.status = "PENDING"]
    OBVIOUS
  <2>1. /\ row[h].status = "NONE" /\ row' = [row EXCEPT ![h] = x] /\ op' = op
        /\ UNCHANGED <<rep, posts, accepted, deliveryFaults>>
    BY <1>1, <1>2, <2>0 DEF Delivery!enqueueOutgoingWebhook
  <2>2. "PENDING" \in Delivery!Status /\ row[h] \in RowType
    BY <1>1 DEF Delivery!Status
  <2>3. x \in RowType /\ x.status = "PENDING" /\ x.attempts = row[h].attempts
    BY <2>0, <2>2, RowStatus
  <2>4. TargetIsDead'
    <3> SUFFICES ASSUME NEW o \in Operator, op[o][1] # "none"
                 PROVE  op[o][2] \in Delivery!Hook /\ row'[op[o][2]].status = "DEAD"
      BY <2>1 DEF TargetIsDead
    <3>1. op[o][2] \in Delivery!Hook /\ row[op[o][2]].status = "DEAD"
      BY <1>1 DEF TargetIsDead
    <3>2. op[o][2] # h
      BY <2>1, <3>1
    <3> QED BY <1>1, <2>1, <3>1, <3>2
  <2>5. row' \in [Delivery!Hook -> RowType]
    BY <1>1, <2>1, <2>3
  <2>6. \A g \in Delivery!Hook :
           /\ row[g].status = "DELIVERING" => row'[g] = row[g]
           /\ row[g].status = "SENT" => row'[g].status = "SENT"
           /\ row'[g].attempts = row[g].attempts
           /\ row'[g].status = "DEAD" => row[g].status = "DEAD"
    BY <1>1, <2>1, <2>3
  <2> QED BY <1>1, <2>1, <2>4, <2>5, <2>6, DeliveryTable
<1>3. ASSUME NEW o \in Operator, Delivery!Check(o) PROVE DeliveryInv'
  <2>1. PICK h \in Delivery!Hook, what \in {"retry", "dismiss"} :
          row[h].status = "DEAD" /\ op' = [op EXCEPT ![o] = <<what, h>>]
    BY <1>3 DEF Delivery!Check
  <2>2. UNCHANGED <<row, rep, posts, accepted, deliveryFaults>>
    BY <1>3 DEF Delivery!Check
  <2>3. op' \in [Operator -> {"none", "retry", "dismiss"} \X (Delivery!Hook \cup {0})]
    BY <1>1, <2>1
  <2>4. TargetIsDead'
    BY <1>1, <2>1, <2>2 DEF TargetIsDead
  <2> QED BY <1>1, <2>2, <2>3, <2>4, DeliveryTable
<1>4. ASSUME NEW o \in Operator, Delivery!markWebhookDismissed(o) PROVE DeliveryInv'
  <2>0. PICK h : h = op[o][2]
    OBVIOUS
  <2>1. PICK x : x = [row[h] EXCEPT !.status = "DISMISSED"]
    OBVIOUS
  <2>2. /\ op[o][1] = "dismiss" /\ h \in Delivery!Hook /\ row[h].status = "DEAD"
        /\ row' = [row EXCEPT ![h] = x]
        /\ op' = [op EXCEPT ![o] = <<"none", 0>>]
        /\ UNCHANGED <<rep, posts, accepted, deliveryFaults>>
    BY <1>1, <1>4, <2>0, <2>1 DEF Delivery!markWebhookDismissed, TargetIsDead
  <2>3. "DISMISSED" \in Delivery!Status /\ row[h] \in RowType
    BY <1>1, <2>2 DEF Delivery!Status
  <2>4. x \in RowType /\ x.status = "DISMISSED" /\ x.attempts = row[h].attempts
    BY <2>1, <2>3, RowStatus
  <2>5. op' \in [Operator -> {"none", "retry", "dismiss"} \X (Delivery!Hook \cup {0})]
    BY <1>1, <2>2
  <2>6. TargetIsDead'
    <3>1. \A u \in Operator : u = o /\ op'[u][1] = "none"
      BY <1>1, <2>2 DEF DeliveryInTime
    <3> QED BY <3>1 DEF TargetIsDead
  <2>7. row' \in [Delivery!Hook -> RowType]
    BY <1>1, <2>2, <2>4
  <2>8. \A g \in Delivery!Hook :
           /\ row[g].status = "DELIVERING" => row'[g] = row[g]
           /\ row[g].status = "SENT" => row'[g].status = "SENT"
           /\ row'[g].attempts = row[g].attempts
           /\ row'[g].status = "DEAD" => row[g].status = "DEAD"
    BY <1>1, <2>2, <2>4
  <2> QED BY <2>2, <2>5, <2>6, <2>7, <2>8, DeliveryTable
<1> QED BY <1>2, <1>3, <1>4

\* A dead row is reset: its count of requests starts anew with its attempts.
LEMMA RetryStep ==
  ASSUME DeliveryInTime, DeliveryInv, NEW o \in Operator, Delivery!resetWebhookForRetry(o)
  PROVE  DeliveryInv'
<1>1. /\ row \in [Delivery!Hook -> RowType]
      /\ op \in [Operator -> {"none", "retry", "dismiss"} \X (Delivery!Hook \cup {0})]
      /\ TargetIsDead /\ posts \in [Delivery!Hook -> Nat]
  BY DEF DeliveryInv, DeliveryShape
<1>2. PICK h : h = op[o][2]
  OBVIOUS
<1>3. PICK r : r = [status |-> "PENDING", attempts |-> 0, due |-> 0, age |-> row[h].age]
  OBVIOUS
<1>4. /\ op[o][1] = "retry" /\ h \in Delivery!Hook /\ row[h].status = "DEAD"
      /\ row' = [row EXCEPT ![h] = r]
      /\ posts' = [posts EXCEPT ![h] = 0]
      /\ op' = [op EXCEPT ![o] = <<"none", 0>>]
      /\ UNCHANGED <<rep, accepted, deliveryFaults>>
  BY <1>1, <1>2, <1>3 DEF Delivery!resetWebhookForRetry, Delivery!updateOutgoingWebhook, TargetIsDead
<1>5. r \in RowType /\ r.status = "PENDING" /\ r.attempts = 0
  <2>1. "PENDING" \in Delivery!Status /\ row[h] \in RowType
    BY <1>1, <1>4 DEF Delivery!Status
  <2> QED BY <1>3, <2>1, RowWritten
<1>6. \A g \in Delivery!Hook \ {h} : row'[g] = row[g] /\ posts'[g] = posts[g]
  BY <1>1, <1>4
<1>7. row'[h] = r /\ posts'[h] = 0
  BY <1>1, <1>4
<1>8. DeliveryShape'
  BY <1>1, <1>4, <1>5 DEF DeliveryInv, DeliveryShape
<1>9. ASSUME NEW p \in Replica PROVE WorkerOK(p)'
  <2>1. \A g \in Delivery!Holds(p) : row'[g] = row[g] /\ posts'[g] = posts[g]
    BY <1>4, <1>6, HeldIsFresh
  <2>2. WorkerOK(p) /\ rep'[p] = rep[p] /\ Delivery!Holds(p)' = Delivery!Holds(p)
    BY <1>4 DEF DeliveryInv, Delivery!Holds
  <2>3. InTime(p)'
    BY <2>1, <2>2 DEF WorkerOK, InTime
  <2> QED BY <2>1, <2>2, <2>3 DEF WorkerOK
<1>10. HeldByOne'
  BY <1>4 DEF DeliveryInv, HeldByOne, Delivery!Holds
<1>11. AcceptedIsPaid'
  <2>1. \A g \in Delivery!Hook : row[g].status = "SENT" => row'[g].status = "SENT"
    BY <1>4, <1>6
  <2> QED BY <1>4, <2>1 DEF DeliveryInv, AcceptedIsPaid, Recorded
<1>12. AttemptsAreRequests'
  BY <1>5, <1>6, <1>7 DEF DeliveryInv, AttemptsAreRequests
<1>13. TargetIsDead'
  <2>1. \A u \in Operator : u = o /\ op'[u][1] = "none"
    BY <1>1, <1>4 DEF DeliveryInTime
  <2> QED BY <2>1 DEF TargetIsDead
<1> QED BY <1>8, <1>9, <1>10, <1>11, <1>12, <1>13 DEF DeliveryInv

\* Only claims nobody works on are taken back.
LEMMA ReclaimStep ==
  ASSUME DeliveryInTime, DeliveryInv, NEW p \in Replica, Delivery!reclaimStaleDeliveries(p)
  PROVE  DeliveryInv'
<1>1. /\ row \in [Delivery!Hook -> RowType] /\ rep \in [Replica -> Work] /\ TargetIsDead
      /\ rep[p] \in Work /\ WorkerOK(p)
  BY DEF DeliveryInv, DeliveryShape
<1>2. PICK w : w = [rep[p] EXCEPT !.pc = "claim"]
  OBVIOUS
<1>3. /\ rep[p].pc = "idle" /\ rep' = [rep EXCEPT ![p] = w]
      /\ row' = [h \in Delivery!Hook |-> IF Delivery!Stale(row[h])
                                         THEN [row[h] EXCEPT !.status = "PENDING"] ELSE row[h]]
      /\ UNCHANGED <<op, posts, accepted, deliveryFaults>>
  BY <1>1, <1>2 DEF Delivery!reclaimStaleDeliveries
<1>4. w \in Work /\ w.pc = "claim" /\ w.held = rep[p].held /\ w.timer = rep[p].timer
  BY <1>1, <1>2, WorkMoves
<1>5. /\ rep' \in [Replica -> Work] /\ rep'[p] = w
      /\ \A q \in Replica \ {p} : rep'[q] = rep[q]
  BY <1>1, <1>3, <1>4
<1>6. ASSUME NEW h \in Delivery!Hook
      PROVE  /\ row'[h] \in RowType /\ row'[h].attempts = row[h].attempts
             /\ Delivery!Stale(row[h]) => row[h].status = "DELIVERING" /\ row'[h].status = "PENDING"
             /\ ~ Delivery!Stale(row[h]) => row'[h] = row[h]
  <2>1. "PENDING" \in Delivery!Status /\ row[h] \in RowType
    BY <1>1 DEF Delivery!Status
  <2>2. Delivery!Stale(row[h]) => row[h].status = "DELIVERING"
    BY DEF Delivery!Stale
  <2>3. PICK x : x = [row[h] EXCEPT !.status = "PENDING"]
    OBVIOUS
  <2>4. x \in RowType /\ x.status = "PENDING" /\ x.attempts = row[h].attempts
    BY <2>1, <2>3, RowStatus
  <2>5. row'[h] = IF Delivery!Stale(row[h]) THEN x ELSE row[h]
    BY <1>3, <2>3
  <2> QED BY <2>1, <2>2, <2>4, <2>5
<1>7. \A q \in Replica : \A h \in Delivery!Holds(q) : row'[h] = row[h] /\ posts'[h] = posts[h]
  <2> SUFFICES ASSUME NEW q \in Replica, NEW h \in Delivery!Holds(q) PROVE row'[h] = row[h]
    BY <1>3
  <2>1. h \in Delivery!Hook /\ row[h].age \in Nat /\ row[h].age <= Lease
    BY HeldIsFresh
  <2>2. ~ Delivery!Stale(row[h])
    BY <2>1 DEF Delivery!Stale, DeliveryInTime, Delivery!DeliveryAssumption
  <2> QED BY <1>6, <2>1, <2>2
<1>8. DeliveryShape'
  <2>1. row' \in [Delivery!Hook -> RowType]
    BY <1>3, <1>6
  <2> QED BY <1>3, <1>5, <2>1 DEF DeliveryInv, DeliveryShape
<1>9. DOMAIN w.held = {}
  BY <1>1, <1>3, <1>4 DEF WorkerOK, Delivery!Holds
<1>10. WorkerOK(p)'
  <2>1. w.timer = 0 /\ 0 <= RowTicks
    BY <1>1, <1>3, <1>4 DEF WorkerOK, DeliveryInTime, Delivery!DeliveryAssumption
  <2> QED BY <1>4, <1>5, <1>9, <2>1 DEF WorkerOK, InTime, Delivery!Holds
<1>11. (\A q \in Replica : WorkerOK(q)') /\ HeldByOne'
  BY <1>5, <1>7, <1>9, <1>10, WorkersKept
<1>12. AcceptedIsPaid'
  <2>1. \A h \in Delivery!Hook : Recorded(h) => Recorded(h)'
    BY <1>3, <1>5, <1>6 DEF Recorded
  <2> QED BY <1>3, <2>1 DEF DeliveryInv, AcceptedIsPaid
<1>13. AttemptsAreRequests' /\ TargetIsDead'
  BY <1>1, <1>3, <1>6 DEF DeliveryInv, AttemptsAreRequests, TargetIsDead
<1> QED BY <1>8, <1>11, <1>12, <1>13 DEF DeliveryInv

\* The claimed rows were nobody's, and they are at most a batch.
LEMMA DeliveryClaim ==
  ASSUME DeliveryInTime, DeliveryInv, NEW p \in Replica, Delivery!claimPendingWebhooks(p)
  PROVE  DeliveryInv'
<1> DEFINE C == Delivery!Claimable
<1>1. /\ row \in [Delivery!Hook -> RowType] /\ rep \in [Replica -> Work] /\ TargetIsDead
      /\ rep[p] \in Work /\ WorkerOK(p) /\ AttemptsAreRequests /\ AcceptedIsPaid
      /\ posts \in [Delivery!Hook -> Nat]
  BY DEF DeliveryInv, DeliveryShape
<1>2. C \subseteq Delivery!Hook /\ (\A h \in C : Delivery!Due(row[h])) /\ Cardinality(C) <= Batch
  BY ClaimIsBatch DEF DeliveryInTime
<1>3. /\ rep[p].pc = "claim"
      /\ row' = [h \in Delivery!Hook |-> IF h \in C
                   THEN [row[h] EXCEPT !.status = "DELIVERING", !.age = 0] ELSE row[h]]
      /\ UNCHANGED <<op, posts, accepted, deliveryFaults>>
  BY DEF Delivery!claimPendingWebhooks
<1>4. PICK w : w = IF C = {} THEN Delivery!Idle
                   ELSE [Delivery!Idle EXCEPT !.pc = "next", !.held = [h \in C |-> row[h].attempts]]
  OBVIOUS
<1>5. rep' = [rep EXCEPT ![p] = w]
  BY <1>4 DEF Delivery!claimPendingWebhooks
<1>6. \A h \in C : row[h].status \in {"PENDING", "FAILED"}
  BY <1>2 DEF Delivery!Due
<1> HIDE DEF C
<1>7. /\ w \in Work /\ w.pc \in {"idle", "next"} /\ w.timer = 0 /\ DOMAIN w.held = C
      /\ w.pc = "idle" => C = {}
      /\ \A h \in C : w.held[h] = row[h].attempts
  <2>1. CASE C = {}
    BY <1>4, <2>1, IdleHoldsNothing
  <2>2. CASE C # {}
    <3>1. PICK f : f = [h \in C |-> row[h].attempts]
      OBVIOUS
    <3>2. f \in [C -> Nat]
      BY <1>1, <1>2, <3>1 DEF RowType
    <3>3. w = [Delivery!Idle EXCEPT !.pc = "next", !.held = f]
      BY <1>4, <2>2, <3>1
    <3>4. w \in Work /\ w.pc = "next" /\ w.held = f /\ DOMAIN w.held = C /\ w.timer = 0
      <4>1. C \in SUBSET Delivery!Hook
        BY <1>2
      <4>2. f \in Claims /\ DOMAIN f = C
        BY <3>2, <4>1 DEF Claims
      <4> QED BY <3>3, <4>2, IdleHoldsNothing DEF Work
    <3> QED BY <3>1, <3>4
  <2> QED BY <2>1, <2>2
<1>8. /\ rep' \in [Replica -> Work] /\ rep'[p] = w
      /\ \A q \in Replica \ {p} : rep'[q] = rep[q]
  BY <1>1, <1>5, <1>7
<1>9. ASSUME NEW h \in Delivery!Hook
      PROVE  /\ row'[h] \in RowType /\ row'[h].attempts = row[h].attempts
             /\ h \in C => row'[h].status = "DELIVERING" /\ row'[h].age = 0
             /\ h \notin C => row'[h] = row[h]
  <2>1. PICK x : x = [row[h] EXCEPT !.status = "DELIVERING", !.age = 0]
    OBVIOUS
  <2>2. row[h] \in RowType
    BY <1>1
  <2>3. x \in RowType /\ x.status = "DELIVERING" /\ x.attempts = row[h].attempts /\ x.age = 0
    BY <2>1, <2>2, RowClaimed
  <2>4. row'[h] = IF h \in C THEN x ELSE row[h]
    BY <1>3, <2>1
  <2> QED BY <2>2, <2>3, <2>4
<1>10. \A q \in Replica \ {p} : \A h \in Delivery!Holds(q) :
         h \notin DOMAIN rep'[p].held /\ row'[h] = row[h] /\ posts'[h] = posts[h]
  <2> SUFFICES ASSUME NEW q \in Replica \ {p}, NEW h \in Delivery!Holds(q)
               PROVE  h \notin C /\ row'[h] = row[h]
    BY <1>3, <1>7, <1>8
  <2>1. h \in Delivery!Hook /\ row[h].status = "DELIVERING"
    BY HeldIsFresh
  <2> QED BY <1>6, <1>9, <2>1
<1>11. DeliveryShape'
  <2>1. row' \in [Delivery!Hook -> RowType]
    BY <1>3, <1>9
  <2> QED BY <1>3, <1>8, <2>1 DEF DeliveryInv, DeliveryShape
<1>12. WorkerOK(p)'
  <2>1. Delivery!Holds(p)' = C
    BY <1>7, <1>8 DEF Delivery!Holds
  <2>2. InTime(p)'
    <3> SUFFICES ASSUME NEW h \in C
                 PROVE  row'[h].age + Cardinality(C) * RowTicks <= Batch * RowTicks + w.timer
      BY <1>8, <2>1 DEF InTime
    <3>1. row'[h].age = 0 /\ w.timer = 0
      BY <1>2, <1>7, <1>9
    <3>2. PICK n \in Nat : n = Cardinality(C)
      BY <1>2, HooksFinite DEF DeliveryInTime
    <3>3. n <= Batch /\ Batch \in Nat /\ RowTicks \in Nat
      BY <1>2, <3>2 DEF DeliveryInTime, Delivery!DeliveryAssumption
    <3>4. n * RowTicks <= Batch * RowTicks /\ n * RowTicks \in Nat /\ Batch * RowTicks \in Nat
      BY <3>3, Times
    <3>5. PICK x \in Nat, y \in Nat : x = n * RowTicks /\ y = Batch * RowTicks
      BY <3>4
    <3> QED BY <3>1, <3>2, <3>4, <3>5
  <2>3. \A h \in C : row'[h].status = "DELIVERING" /\ w.held[h] <= posts'[h]
    BY <1>1, <1>2, <1>3, <1>7, <1>9 DEF AttemptsAreRequests
  <2>4. w.timer <= RowTicks
    BY <1>7 DEF DeliveryInTime, Delivery!DeliveryAssumption
  <2>5. rep'[p].pc \in {"idle", "next"} /\ rep'[p].timer = 0 /\ (rep'[p].pc = "idle" => C = {})
    BY <1>7, <1>8
  <2> QED BY <1>8, <2>1, <2>2, <2>3, <2>4, <2>5 DEF WorkerOK
<1>13. (\A q \in Replica : WorkerOK(q)') /\ HeldByOne'
  BY <1>8, <1>10, <1>12, WorkersKept
<1>14. AcceptedIsPaid'
  <2>1. \A h \in Delivery!Hook : row[h].status = "SENT" => row'[h].status = "SENT"
    BY <1>6, <1>9
  <2>2. \A q \in Replica : rep[q].pc = "sent" => rep'[q] = rep[q]
    BY <1>3, <1>8
  <2>3. \A h \in Delivery!Hook : Recorded(h) => Recorded(h)'
    BY <2>1, <2>2 DEF Recorded
  <2> QED BY <1>1, <1>3, <2>3 DEF AcceptedIsPaid
<1>15. AttemptsAreRequests'
  <2>1. \A h \in Delivery!Hook : row'[h].status = "DEAD" => row[h].status = "DEAD"
    BY <1>9
  <2> QED BY <1>1, <1>3, <1>9, <2>1 DEF AttemptsAreRequests
<1>16. TargetIsDead'
  BY <1>1, <1>3, <1>6, <1>9 DEF TargetIsDead
<1> QED BY <1>11, <1>13, <1>14, <1>15, <1>16 DEF DeliveryInv

\* A request leaves: its attempt is one request more.
LEMMA DeliveryPost ==
  ASSUME DeliveryInTime, DeliveryInv, NEW p \in Replica, Delivery!Post(p)
  PROVE  DeliveryInv'
<1>1. /\ rep \in [Replica -> Work] /\ rep[p] \in Work /\ WorkerOK(p) /\ HeldByOne
      /\ posts \in [Delivery!Hook -> Nat] /\ AcceptedIsPaid /\ AttemptsAreRequests
      /\ row \in [Delivery!Hook -> RowType]
  BY DEF DeliveryInv, DeliveryShape
<1>2. PICK h \in Delivery!Holds(p) :
        /\ rep' = [rep EXCEPT ![p].pc = "post", ![p].cur = h, ![p].timer = 0]
        /\ posts' = [posts EXCEPT ![h] = @ + 1]
  BY DEF Delivery!Post
<1>3. PICK w : w = [rep[p] EXCEPT !.pc = "post", !.cur = h, !.timer = 0]
  OBVIOUS
<1>4. rep[p].pc = "next" /\ UNCHANGED <<row, op, accepted, deliveryFaults>>
  BY DEF Delivery!Post
<1>5. rep' = [rep EXCEPT ![p] = w]
  BY <1>1, <1>2, <1>3
<1>6. h \in Delivery!Hook
  BY HeldIsFresh
<1>7. w \in Work /\ w.pc = "post" /\ w.held = rep[p].held /\ w.cur = h /\ w.timer = 0
  <2>1. PICK u \in Work : u = rep[p]
    BY <1>1
  <2>2. w = [u EXCEPT !.pc = "post", !.cur = h, !.timer = 0]
    BY <1>3, <2>1
  <2>3. w \in Work /\ w.pc = "post" /\ w.held = u.held /\ w.cur = h /\ w.timer = 0
    BY <1>6, <2>2 DEF Work
  <2> QED BY <2>1, <2>3
<1>8. /\ rep' \in [Replica -> Work] /\ rep'[p] = w
      /\ \A q \in Replica \ {p} : rep'[q] = rep[q]
  BY <1>1, <1>5, <1>7
<1>9. /\ posts' \in [Delivery!Hook -> Nat] /\ posts'[h] = posts[h] + 1
      /\ \A g \in Delivery!Hook \ {h} : posts'[g] = posts[g]
  BY <1>1, <1>2, <1>6
<1>10. \A g \in Delivery!Hook : posts[g] <= posts'[g] /\ posts[g] \in Nat /\ posts'[g] \in Nat
  BY <1>1, <1>9
<1>11. \A q \in Replica \ {p} : \A g \in Delivery!Holds(q) :
         g \notin DOMAIN rep'[p].held /\ row'[g] = row[g] /\ posts'[g] = posts[g]
  <2> SUFFICES ASSUME NEW q \in Replica \ {p}, NEW g \in Delivery!Holds(q)
               PROVE  g \notin DOMAIN rep[p].held /\ posts'[g] = posts[g]
    BY <1>4, <1>7, <1>8
  <2>1. g \notin Delivery!Holds(p) /\ g \in Delivery!Hook
    BY <1>1, HeldIsFresh DEF HeldByOne
  <2> QED BY <1>2, <1>9, <2>1 DEF Delivery!Holds
<1>12. WorkerOK(p)'
  <2>1. Delivery!Holds(p)' = Delivery!Holds(p) /\ Delivery!Holds(p) \subseteq Delivery!Hook
    BY <1>1, <1>7, <1>8, WorkFields DEF Delivery!Holds
  <2>2. rep[p].timer = 0 /\ rep'[p].timer = 0
    BY <1>1, <1>4, <1>7, <1>8 DEF WorkerOK
  <2>3. InTime(p)'
    BY <1>1, <1>4, <2>1, <2>2 DEF WorkerOK, InTime
  <2>4. \A g \in Delivery!Holds(p) : rep[p].held[g] \in Nat
    BY <1>1, WorkFields DEF Delivery!Holds
  <2>5. \A g \in Delivery!Holds(p) : row'[g].status = "DELIVERING" /\ rep'[p].held[g] <= posts'[g]
    <3> SUFFICES ASSUME NEW g \in Delivery!Holds(p)
                 PROVE  row[g].status = "DELIVERING" /\ rep[p].held[g] <= posts'[g]
      BY <1>4, <1>7, <1>8
    <3> QED BY <1>1, <1>10, <2>1, <2>4 DEF WorkerOK
  <2>6. rep'[p].held[h] < posts'[h]
    <3>1. rep[p].held[h] <= posts[h] /\ rep[p].held[h] \in Nat /\ posts[h] \in Nat
      BY <1>1, <1>6, <2>4 DEF WorkerOK
    <3> QED BY <1>7, <1>8, <1>9, <3>1
  <2>7. 0 <= RowTicks
    BY DEF DeliveryInTime, Delivery!DeliveryAssumption
  <2>8. rep'[p].pc = "post" /\ rep'[p].cur = h
    BY <1>7, <1>8
  <2> QED BY <1>2, <2>1, <2>2, <2>3, <2>5, <2>6, <2>7, <2>8 DEF WorkerOK
<1>13. (\A q \in Replica : WorkerOK(q)') /\ HeldByOne'
  BY <1>8, <1>11, <1>12, WorkersKept
<1>14. DeliveryShape'
  BY <1>4, <1>8, <1>9 DEF DeliveryInv, DeliveryShape
<1>15. AcceptedIsPaid'
  <2>1. \A q \in Replica : rep[q].pc = "sent" => rep'[q] = rep[q]
    BY <1>4, <1>8
  <2>2. \A g \in Delivery!Hook : Recorded(g) => Recorded(g)'
    BY <1>4, <2>1 DEF Recorded
  <2> QED BY <1>1, <1>4, <2>2 DEF AcceptedIsPaid
<1>16. AttemptsAreRequests'
  <2> SUFFICES ASSUME NEW g \in Delivery!Hook
               PROVE  row[g].attempts <= posts'[g] /\ (row[g].status = "DEAD" => posts'[g] > MAX_ATTEMPTS)
    BY <1>4 DEF AttemptsAreRequests
  <2>1. row[g].attempts \in Nat /\ MAX_ATTEMPTS \in Nat
    BY <1>1 DEF RowType, DeliveryInTime, Delivery!DeliveryAssumption
  <2> QED BY <1>1, <1>10, <2>1 DEF AttemptsAreRequests
<1>17. TargetIsDead'
  BY <1>4 DEF DeliveryInv, TargetIsDead
<1> QED BY <1>13, <1>14, <1>15, <1>16, <1>17 DEF DeliveryInv

\* An answer is read, or lost, or its record fails to be written: only a fault
\* keeps an accepted request from being about to be recorded.
LEMMA DeliveryAnswer ==
  ASSUME DeliveryInTime, DeliveryInv, NEW p \in Replica, NEW k \in {"sent", "failed"},
         NEW n \in {0, 1}, rep[p].pc \in {"post", "sent"},
         rep' = [rep EXCEPT ![p].pc = k],
         accepted' = [accepted EXCEPT ![rep[p].cur] = @ + n],
         row' = row, op' = op, posts' = posts,
         deliveryFaults' = deliveryFaults \/ deliveryFaults' = deliveryFaults + 1,
         n = 1 => k = "sent" \/ deliveryFaults' = deliveryFaults + 1,
         rep[p].pc = "sent" => n = 0 /\ deliveryFaults' = deliveryFaults + 1
  PROVE  DeliveryInv'
<1>1. /\ rep \in [Replica -> Work] /\ rep[p] \in Work /\ WorkerOK(p) /\ HeldByOne
      /\ AcceptedIsPaid /\ accepted \in [Delivery!Hook -> Nat] /\ deliveryFaults \in Nat
      /\ \A q \in Replica : WorkerOK(q)
  BY DEF DeliveryInv, DeliveryShape
<1>2. PICK w : w = [rep[p] EXCEPT !.pc = k]
  OBVIOUS
<1>3. PICK c : c = rep[p].cur
  OBVIOUS
<1>4. rep' = [rep EXCEPT ![p] = w] /\ accepted' = [accepted EXCEPT ![c] = @ + n]
  BY <1>1, <1>2, <1>3
<1>5. w \in Work /\ w.pc = k /\ w.held = rep[p].held /\ w.cur = c /\ w.timer = rep[p].timer
  BY <1>1, <1>2, <1>3, WorkMoves
<1>6. c \in Delivery!Holds(p) /\ rep[p].held[c] < posts[c]
  BY <1>1, <1>3 DEF WorkerOK
<1>7. c \in Delivery!Hook /\ row[c].status = "DELIVERING"
  BY <1>6, HeldIsFresh
<1>8. /\ rep' \in [Replica -> Work] /\ rep'[p] = w
      /\ \A q \in Replica \ {p} : rep'[q] = rep[q]
  BY <1>1, <1>4, <1>5
<1>9. /\ accepted' \in [Delivery!Hook -> Nat] /\ accepted'[c] = accepted[c] + n
      /\ \A h \in Delivery!Hook \ {c} : accepted'[h] = accepted[h]
      /\ deliveryFaults' \in Nat /\ \A h \in Delivery!Hook : accepted[h] \in Nat
  <2>1. n \in Nat /\ accepted[c] \in Nat /\ accepted[c] + n \in Nat
    BY <1>1, <1>7
  <2>2. PICK m \in Nat : m = accepted[c] + n
    BY <2>1
  <2>3. accepted' = [accepted EXCEPT ![c] = m]
    BY <1>4, <2>2
  <2>4. deliveryFaults' \in Nat
    BY <1>1
  <2> QED BY <1>1, <1>7, <2>2, <2>3, <2>4
<1>10. DeliveryShape'
  BY <1>8, <1>9 DEF DeliveryInv, DeliveryShape
<1>11. WorkerOK(p)'
  <2>1. Delivery!Holds(p)' = Delivery!Holds(p)
    BY <1>5, <1>8 DEF Delivery!Holds
  <2>2. InTime(p)'
    BY <1>1, <1>5, <1>8, <2>1 DEF WorkerOK, InTime
  <2>3. rep'[p].timer <= RowTicks
    BY <1>1, <1>5, <1>8 DEF WorkerOK
  <2>4. \A h \in Delivery!Holds(p) : row'[h].status = "DELIVERING" /\ rep'[p].held[h] <= posts'[h]
    BY <1>1, <1>5, <1>8 DEF WorkerOK
  <2>5. rep'[p].pc \in {"sent", "failed"} /\ rep'[p].cur = c /\ rep'[p].held[c] < posts'[c]
    BY <1>5, <1>6, <1>8
  <2> QED BY <1>6, <2>1, <2>2, <2>3, <2>4, <2>5 DEF WorkerOK
<1>12. \A q \in Replica \ {p} : \A h \in Delivery!Holds(q) :
         h \notin DOMAIN rep'[p].held /\ row'[h] = row[h] /\ posts'[h] = posts[h]
  BY <1>1, <1>5, <1>8 DEF HeldByOne, Delivery!Holds
<1>13. (\A q \in Replica : WorkerOK(q)') /\ HeldByOne'
  BY <1>8, <1>11, <1>12, WorkersKept
<1>14. rep[p].pc = "post" => ~ Recorded(c)
  <2> SUFFICES ASSUME rep[p].pc = "post", NEW q \in Replica, rep[q].pc = "sent", rep[q].cur = c
               PROVE  FALSE
    BY <1>7 DEF Recorded
  <2>1. c \in Delivery!Holds(q) /\ q # p
    BY <1>1 DEF WorkerOK
  <2> QED BY <1>1, <1>6, <2>1 DEF HeldByOne
<1>15. AcceptedIsPaid'
  <2> SUFFICES ASSUME NEW h \in Delivery!Hook
               PROVE  /\ accepted'[h] <= deliveryFaults' + 1
                      /\ accepted'[h] = deliveryFaults' + 1 => Recorded(h)'
    BY DEF AcceptedIsPaid
  <2>1. /\ accepted[h] <= deliveryFaults + 1
        /\ accepted[h] = deliveryFaults + 1 => Recorded(h)
    BY <1>1 DEF AcceptedIsPaid
  <2>2. CASE h # c
    <3>1. accepted'[h] = accepted[h]
      BY <1>9, <2>2
    <3>2. Recorded(h) => Recorded(h)'
      BY <1>3, <1>8, <2>2 DEF Recorded
    <3> QED BY <1>1, <1>9, <2>1, <3>1, <3>2
  <2>3. CASE h = c
    <3>1. CASE deliveryFaults' = deliveryFaults + 1
      <4>1. rep[p].pc = "post" => accepted[c] <= deliveryFaults
        BY <1>1, <1>9, <1>14, <2>1, <2>3
      <4>2. accepted'[c] <= deliveryFaults + 1
        <5>1. CASE rep[p].pc = "post"
          <6>1. n <= 1 /\ n \in Nat
            OBVIOUS
          <6> QED BY <1>1, <1>9, <2>3, <4>1, <5>1, <6>1
        <5>2. CASE rep[p].pc = "sent"
          BY <1>1, <1>9, <2>1, <2>3, <5>2
        <5> QED BY <5>1, <5>2
      <4> QED BY <1>1, <1>9, <2>3, <3>1, <4>2
    <3>2. CASE deliveryFaults' = deliveryFaults
      <4>1. rep[p].pc = "post"
        BY <1>1, <3>2
      <4>2. accepted[c] <= deliveryFaults
        BY <1>1, <1>9, <1>14, <2>1, <2>3, <4>1
      <4>3. n = 1 => Recorded(c)'
        <5>1. n = 1 => k = "sent"
          BY <1>1, <3>2
        <5> QED BY <1>5, <1>8, <5>1 DEF Recorded
      <4>4. CASE n = 0
        BY <1>1, <1>9, <2>3, <3>2, <4>2, <4>4
      <4>5. CASE n = 1
        BY <1>1, <1>9, <2>3, <3>2, <4>2, <4>3, <4>5
      <4> QED BY <4>4, <4>5
    <3> QED BY <3>1, <3>2
  <2> QED BY <2>2, <2>3
<1>16. AttemptsAreRequests' /\ TargetIsDead'
  BY DEF DeliveryInv, AttemptsAreRequests, TargetIsDead
<1> QED BY <1>10, <1>13, <1>15, <1>16 DEF DeliveryInv

\* What is left of a batch when its current row is done still ends in time.
LEMMA RestFits ==
  ASSUME DeliveryInTime, DeliveryInv, NEW p \in Replica,
         rep[p].pc \in {"post", "sent", "failed"}, NEW w, w = Delivery!Rest(p)
  PROVE  /\ w \in Work /\ w.pc \in {"idle", "next"} /\ w.timer = 0
         /\ DOMAIN w.held = Delivery!Holds(p) \ {rep[p].cur}
         /\ w.pc = "idle" => DOMAIN w.held = {}
         /\ \A h \in DOMAIN w.held :
              /\ w.held[h] = rep[p].held[h]
              /\ row[h].age + Cardinality(DOMAIN w.held) * RowTicks <= Batch * RowTicks
<1> DEFINE left == Delivery!Holds(p) \ {rep[p].cur}
<1>1. /\ rep[p] \in Work /\ WorkerOK(p) /\ row \in [Delivery!Hook -> RowType]
      /\ Delivery!Holds(p) \subseteq Delivery!Hook
      /\ \A h \in Delivery!Holds(p) : rep[p].held[h] \in Nat
      /\ rep[p].timer \in Nat /\ rep[p].cur \in Delivery!Holds(p)
  <2>1. rep[p] \in Work /\ WorkerOK(p) /\ row \in [Delivery!Hook -> RowType]
    BY DEF DeliveryInv, DeliveryShape
  <2> QED BY <2>1, WorkFields DEF WorkerOK, Delivery!Holds
<1>2. /\ left = {} => w = Delivery!Idle
      /\ left # {} => w = [Delivery!Idle EXCEPT !.pc = "next", !.held = [h \in left |-> rep[p].held[h]]]
  BY DEF Delivery!Rest
<1>3. left \in SUBSET Delivery!Hook /\ left \subseteq Delivery!Holds(p)
  BY <1>1
<1>4. /\ w \in Work /\ w.pc \in {"idle", "next"} /\ w.timer = 0 /\ DOMAIN w.held = left
      /\ w.pc = "idle" => left = {}
      /\ \A h \in left : w.held[h] = rep[p].held[h]
  <2> HIDE DEF left
  <2>1. CASE left = {}
    BY <1>2, <2>1, IdleHoldsNothing
  <2>2. CASE left # {}
    <3>1. PICK f : f = [h \in left |-> rep[p].held[h]]
      OBVIOUS
    <3>2. f \in [left -> Nat]
      BY <1>1, <1>3, <3>1
    <3>3. w = [Delivery!Idle EXCEPT !.pc = "next", !.held = f]
      BY <1>2, <2>2, <3>1
    <3>4. f \in Claims /\ DOMAIN f = left
      BY <1>3, <3>2 DEF Claims
    <3>5. w \in Work /\ w.pc = "next" /\ w.held = f /\ w.timer = 0
      BY <3>3, <3>4, IdleHoldsNothing DEF Work
    <3> QED BY <3>1, <3>4, <3>5
  <2> QED BY <2>1, <2>2
<1>5. ASSUME NEW h \in left
      PROVE  row[h].age + Cardinality(left) * RowTicks <= Batch * RowTicks
  <2>1. IsFiniteSet(Delivery!Holds(p)) /\ Cardinality(Delivery!Holds(p)) \in Nat
        /\ Cardinality(left) \in Nat
    BY <1>1, <1>3, HooksFinite DEF DeliveryInTime
  <2>2. Cardinality(left) = Cardinality(Delivery!Holds(p)) - 1
    BY <1>1, <2>1, FS_RemoveElement
  <2>3. PICK n \in Nat : n = Cardinality(left)
    BY <2>1
  <2>4. Cardinality(Delivery!Holds(p)) = n + 1 /\ n + 1 \in Nat
    BY <2>1, <2>2, <2>3
  <2>5. Batch \in Nat /\ RowTicks \in Nat /\ row[h].age \in Nat
    BY <1>1, <1>3 DEF DeliveryInTime, Delivery!DeliveryAssumption, RowType
  <2>6. (n + 1) * RowTicks = n * RowTicks + RowTicks /\ n * RowTicks \in Nat
        /\ Batch * RowTicks \in Nat
    BY <2>5, Times
  <2>7. row[h].age + (n + 1) * RowTicks <= Batch * RowTicks + rep[p].timer
        /\ rep[p].timer <= RowTicks
    BY <1>1, <1>3, <2>4 DEF WorkerOK, InTime
  <2>8. PICK x \in Nat, y \in Nat : x = n * RowTicks /\ y = Batch * RowTicks
    BY <2>6
  <2>9. row[h].age + (x + RowTicks) <= y + rep[p].timer
    BY <2>6, <2>7, <2>8
  <2>10. row[h].age + x <= y
    BY <1>1, <2>5, <2>7, <2>8, <2>9
  <2> QED BY <2>3, <2>8, <2>10
<1> QED BY <1>4, <1>5

\* A worker that goes on with fewer of its rows, or with none.
LEMMA WorkerShrinks ==
  ASSUME DeliveryInTime, DeliveryInv, NEW p \in Replica, NEW w \in Work,
         rep' = [rep EXCEPT ![p] = w], posts' = posts, op' = op, accepted' = accepted,
         w.pc \in {"idle", "next"}, w.timer = 0, w.pc = "idle" => DOMAIN w.held = {},
         DOMAIN w.held \subseteq Delivery!Holds(p),
         \A h \in DOMAIN w.held :
           /\ w.held[h] = rep[p].held[h]
           /\ row[h].age + Cardinality(DOMAIN w.held) * RowTicks <= Batch * RowTicks,
         row' \in [Delivery!Hook -> RowType],
         \A h \in Delivery!Hook :
           row'[h] = row[h] \/ (h \in Delivery!Holds(p) /\ h \notin DOMAIN w.held),
         \A h \in Delivery!Hook :
           row'[h].attempts <= posts[h] /\ (row'[h].status = "DEAD" => posts[h] > MAX_ATTEMPTS),
         deliveryFaults' = deliveryFaults \/ deliveryFaults' = deliveryFaults + 1,
         rep[p].pc = "sent" =>
           row'[rep[p].cur].status = "SENT" \/ deliveryFaults' = deliveryFaults + 1
  PROVE  DeliveryInv'
<1>1. /\ rep \in [Replica -> Work] /\ WorkerOK(p) /\ HeldByOne /\ AcceptedIsPaid /\ TargetIsDead
      /\ accepted \in [Delivery!Hook -> Nat] /\ deliveryFaults \in Nat
  BY DEF DeliveryInv, DeliveryShape
<1>2. /\ rep' \in [Replica -> Work] /\ rep'[p] = w
      /\ \A q \in Replica \ {p} : rep'[q] = rep[q]
  BY <1>1
<1>3. deliveryFaults' \in Nat /\ \A h \in Delivery!Hook : accepted[h] \in Nat
  BY <1>1
<1>4. DeliveryShape'
  BY <1>2, <1>3 DEF DeliveryInv, DeliveryShape
<1>5. \A h \in Delivery!Holds(p) : h \in Delivery!Hook /\ row[h].status = "DELIVERING"
  BY HeldIsFresh
<1>6. WorkerOK(p)'
  <2>1. Delivery!Holds(p)' = DOMAIN w.held
    BY <1>2 DEF Delivery!Holds
  <2>2. \A h \in DOMAIN w.held : row'[h] = row[h]
    BY <1>5
  <2>3. InTime(p)'
    <3> SUFFICES ASSUME NEW h \in DOMAIN w.held
                 PROVE  row[h].age + Cardinality(DOMAIN w.held) * RowTicks <= Batch * RowTicks + 0
      BY <1>2, <2>1, <2>2 DEF InTime
    <3>1. Batch * RowTicks \in Nat
      BY Times DEF DeliveryInTime, Delivery!DeliveryAssumption
    <3>2. PICK y \in Nat : y = Batch * RowTicks
      BY <3>1
    <3>3. y + 0 = y
      BY <3>2
    <3> QED BY <3>2, <3>3
  <2>4. \A h \in DOMAIN w.held : row'[h].status = "DELIVERING" /\ w.held[h] <= posts'[h]
    BY <1>1, <1>5, <2>2 DEF WorkerOK
  <2>5. 0 <= RowTicks
    BY DEF DeliveryInTime, Delivery!DeliveryAssumption
  <2> QED BY <1>2, <2>1, <2>3, <2>4, <2>5 DEF WorkerOK
<1>7. \A q \in Replica \ {p} : \A h \in Delivery!Holds(q) :
         h \notin DOMAIN rep'[p].held /\ row'[h] = row[h] /\ posts'[h] = posts[h]
  <2> SUFFICES ASSUME NEW q \in Replica \ {p}, NEW h \in Delivery!Holds(q)
               PROVE  h \notin DOMAIN w.held /\ row'[h] = row[h]
    BY <1>2
  <2>1. h \notin Delivery!Holds(p) /\ h \in Delivery!Hook
    BY <1>1, HeldIsFresh DEF HeldByOne
  <2> QED BY <2>1
<1>8. (\A q \in Replica : WorkerOK(q)') /\ HeldByOne'
  BY <1>2, <1>6, <1>7, WorkersKept
<1>9. AcceptedIsPaid'
  <2>1. CASE deliveryFaults' = deliveryFaults + 1
    BY <1>1, <1>3, <2>1 DEF AcceptedIsPaid
  <2>2. CASE deliveryFaults' = deliveryFaults
    <3>1. \A h \in Delivery!Hook : row[h].status = "SENT" => row'[h].status = "SENT"
      BY <1>5
    <3>2. ASSUME NEW h \in Delivery!Hook, Recorded(h) PROVE Recorded(h)'
      <4>1. CASE row[h].status = "SENT"
        BY <3>1, <4>1 DEF Recorded
      <4>2. ASSUME NEW q \in Replica, rep[q].pc = "sent", rep[q].cur = h PROVE Recorded(h)'
        <5>1. CASE q = p
          <6>1. deliveryFaults' # deliveryFaults + 1
            BY <1>1, <2>2
          <6> QED BY <4>2, <5>1, <6>1 DEF Recorded
        <5>2. CASE q # p
          BY <1>2, <4>2, <5>2 DEF Recorded
        <5> QED BY <5>1, <5>2
      <4> QED BY <3>2, <4>1, <4>2 DEF Recorded
    <3> QED BY <1>1, <2>2, <3>2 DEF AcceptedIsPaid
  <2> QED BY <2>1, <2>2
<1>10. AttemptsAreRequests'
  BY DEF AttemptsAreRequests
<1>11. TargetIsDead'
  <2> SUFFICES ASSUME NEW o \in Operator, op[o][1] # "none"
               PROVE  op[o][2] \in Delivery!Hook /\ row'[op[o][2]].status = "DEAD"
    BY DEF TargetIsDead
  <2>1. op[o][2] \in Delivery!Hook /\ row[op[o][2]].status = "DEAD"
    BY <1>1 DEF TargetIsDead
  <2> QED BY <1>5, <2>1
<1> QED BY <1>4, <1>8, <1>9, <1>10, <1>11 DEF DeliveryInv

\* A row is done, a write fails, or the worker dies.
LEMMA DeliverySettles ==
  ASSUME DeliveryInTime, DeliveryInv, NEW p \in Replica,
         \/ Delivery!WriteSent(p) \/ Delivery!WriteFailure(p)
         \/ Delivery!WriteFailureThrows(p) \/ Delivery!Crash(p)
  PROVE  DeliveryInv'
<1>1. /\ rep \in [Replica -> Work] /\ rep[p] \in Work /\ WorkerOK(p) /\ AttemptsAreRequests
      /\ row \in [Delivery!Hook -> RowType] /\ posts \in [Delivery!Hook -> Nat]
  BY DEF DeliveryInv, DeliveryShape
<1>2. CASE Delivery!Crash(p)
  <2>1. /\ rep' = [rep EXCEPT ![p] = Delivery!Idle] /\ deliveryFaults' = deliveryFaults + 1
        /\ row' = row /\ op' = op /\ posts' = posts /\ accepted' = accepted
    BY <1>2 DEF Delivery!Crash, Delivery!Fail
  <2>2. PICK w \in Work : w = Delivery!Idle /\ w.pc = "idle" /\ w.timer = 0 /\ DOMAIN w.held = {}
    BY IdleHoldsNothing
  <2>3. rep' = [rep EXCEPT ![p] = w]
    BY <2>1, <2>2
  <2>4. \A h \in Delivery!Hook :
          row'[h].attempts <= posts[h] /\ (row'[h].status = "DEAD" => posts[h] > MAX_ATTEMPTS)
    BY <1>1, <2>1 DEF AttemptsAreRequests
  <2>5. row' \in [Delivery!Hook -> RowType] /\ \A h \in Delivery!Hook : row'[h] = row[h]
    BY <1>1, <2>1
  <2> QED BY <2>1, <2>2, <2>3, <2>4, <2>5, WorkerShrinks
<1>3. CASE Delivery!WriteSent(p) \/ Delivery!WriteFailure(p) \/ Delivery!WriteFailureThrows(p)
  <2>1. PICK w : w = Delivery!Rest(p)
    OBVIOUS
  <2>2. PICK c : c = rep[p].cur
    OBVIOUS
  <2>3. PICK n : n = Delivery!newAttempts(p)
    OBVIOUS
  <2>4. /\ rep[p].pc \in {"sent", "failed"} /\ rep' = [rep EXCEPT ![p] = w]
        /\ posts' = posts /\ op' = op /\ accepted' = accepted
    BY <1>3, <2>1 DEF Delivery!WriteSent, Delivery!WriteFailure, Delivery!WriteFailureThrows
  <2>5. c \in Delivery!Holds(p) /\ rep[p].held[c] < posts[c] /\ c \in Delivery!Hook
    BY <1>1, <2>2, <2>4, HeldIsFresh DEF WorkerOK
  <2>6. n = rep[p].held[c] + 1 /\ n \in Nat /\ posts[c] \in Nat /\ n <= posts[c]
    <3>1. rep[p].held[c] \in Nat /\ posts[c] \in Nat
      BY <1>1, <2>5, WorkFields DEF Delivery!Holds
    <3> QED BY <2>2, <2>3, <2>5, <3>1 DEF Delivery!newAttempts
  <2>7. /\ w \in Work /\ w.pc \in {"idle", "next"} /\ w.timer = 0
        /\ DOMAIN w.held = Delivery!Holds(p) \ {c}
        /\ w.pc = "idle" => DOMAIN w.held = {}
        /\ \A h \in DOMAIN w.held :
             /\ w.held[h] = rep[p].held[h]
             /\ row[h].age + Cardinality(DOMAIN w.held) * RowTicks <= Batch * RowTicks
    BY <2>1, <2>2, <2>4, RestFits
  <2>8. /\ row' \in [Delivery!Hook -> RowType]
        /\ \A h \in Delivery!Hook \ {c} : row'[h] = row[h]
        /\ row'[c].attempts <= posts[c]
        /\ row'[c].status = "DEAD" => posts[c] > MAX_ATTEMPTS
        /\ rep[p].pc = "sent" => row'[c].status = "SENT"
        /\ deliveryFaults' = deliveryFaults \/ deliveryFaults' = deliveryFaults + 1
    <3>1. CASE Delivery!WriteFailureThrows(p)
      <4>1. row' = row /\ rep[p].pc = "failed" /\ deliveryFaults' = deliveryFaults + 1
        BY <3>1 DEF Delivery!WriteFailureThrows, Delivery!Fail
      <4> QED BY <1>1, <2>5, <4>1 DEF AttemptsAreRequests
    <3>2. ASSUME NEW s \in {"SENT", "FAILED", "DEAD"}, NEW d \in Nat,
                 Delivery!updateOutgoingWebhook(c, s, n, d), deliveryFaults' = deliveryFaults,
                 s = "DEAD" => n > MAX_ATTEMPTS, rep[p].pc = "sent" => s = "SENT"
          PROVE  /\ row' \in [Delivery!Hook -> RowType]
                 /\ \A h \in Delivery!Hook \ {c} : row'[h] = row[h]
                 /\ row'[c].attempts <= posts[c]
                 /\ row'[c].status = "DEAD" => posts[c] > MAX_ATTEMPTS
                 /\ rep[p].pc = "sent" => row'[c].status = "SENT"
                 /\ deliveryFaults' = deliveryFaults \/ deliveryFaults' = deliveryFaults + 1
      <4>1. PICK r \in RowType : r = row[c]
        BY <1>1, <2>5
      <4>2. PICK x : x = [status |-> s, attempts |-> n, due |-> d, age |-> r.age]
        OBVIOUS
      <4>3. row' = [row EXCEPT ![c] = x]
        BY <2>5, <3>2, <4>1, <4>2 DEF Delivery!updateOutgoingWebhook
      <4>4. s \in Delivery!Status
        BY DEF Delivery!Status
      <4>5. x \in RowType /\ x.status = s /\ x.attempts = n
        BY <2>6, <4>2, <4>4 DEF RowType
      <4>6. row'[c] = x /\ \A h \in Delivery!Hook \ {c} : row'[h] = row[h]
        BY <1>1, <2>5, <4>3
      <4>7. s = "DEAD" => posts[c] > MAX_ATTEMPTS
        BY <2>6, <3>2 DEF DeliveryInTime, Delivery!DeliveryAssumption
      <4> QED BY <1>1, <2>5, <2>6, <3>2, <4>3, <4>5, <4>6, <4>7
    <3>3. CASE Delivery!WriteSent(p)
      <4>1. Delivery!updateOutgoingWebhook(c, "SENT", n, 0) /\ deliveryFaults' = deliveryFaults
        BY <2>2, <2>3, <3>3 DEF Delivery!WriteSent
      <4> QED BY <3>2, <4>1
    <3>4. CASE Delivery!WriteFailure(p)
      <4>1. rep[p].pc = "failed" /\ deliveryFaults' = deliveryFaults
        BY <3>4 DEF Delivery!WriteFailure
      <4>2. CASE Delivery!Exhausted(n)
        <5>1. Delivery!updateOutgoingWebhook(c, "DEAD", n, 0) /\ n > MAX_ATTEMPTS
          BY <2>2, <2>3, <3>4, <4>2 DEF Delivery!WriteFailure, Delivery!Exhausted
        <5> QED BY <3>2, <4>1, <5>1
      <4>3. CASE ~ Delivery!Exhausted(n)
        <5>1. Delivery!updateOutgoingWebhook(c, "FAILED", n, Delivery!backoffMs(n))
          BY <2>2, <2>3, <3>4, <4>3 DEF Delivery!WriteFailure
        <5>2. Delivery!backoffMs(n) \in Nat
          <6>1. n \in 1..MAX_ATTEMPTS
            <7>1. n >= 1
              <8>1. rep[p].held[c] \in Nat
                BY <1>1, <2>5, WorkFields DEF Delivery!Holds
              <8> QED BY <2>6, <8>1
            <7> QED BY <2>6, <4>3, <7>1
                    DEF Delivery!Exhausted, DeliveryInTime, Delivery!DeliveryAssumption
          <6> QED BY <6>1 DEF Delivery!backoffMs, DeliveryInTime, Delivery!DeliveryAssumption
        <5> QED BY <3>2, <4>1, <5>1, <5>2
      <4> QED BY <4>2, <4>3
    <3> QED BY <1>3, <3>1, <3>3, <3>4
  <2>9. \A h \in Delivery!Hook :
          row'[h] = row[h] \/ (h \in Delivery!Holds(p) /\ h \notin DOMAIN w.held)
    BY <2>5, <2>7, <2>8
  <2>10. \A h \in Delivery!Hook :
           row'[h].attempts <= posts[h] /\ (row'[h].status = "DEAD" => posts[h] > MAX_ATTEMPTS)
    <3> SUFFICES ASSUME NEW h \in Delivery!Hook
                 PROVE  row'[h].attempts <= posts[h] /\ (row'[h].status = "DEAD" => posts[h] > MAX_ATTEMPTS)
      OBVIOUS
    <3>1. CASE h = c
      BY <2>8, <3>1
    <3>2. CASE h # c
      BY <1>1, <2>8, <3>2 DEF AttemptsAreRequests
    <3> QED BY <3>1, <3>2
  <2>11. DOMAIN w.held \subseteq Delivery!Holds(p)
    BY <2>7
  <2>12. rep[p].pc = "sent" =>
           row'[rep[p].cur].status = "SENT" \/ deliveryFaults' = deliveryFaults + 1
    BY <2>2, <2>8
  <2> QED BY <2>4, <2>7, <2>8, <2>9, <2>10, <2>11, <2>12, WorkerShrinks
<1> QED BY <1>2, <1>3

\* A period passes: a held row grows older only while its worker's request does.
LEMMA DeliveryTick ==
  ASSUME DeliveryInTime, DeliveryInv, Delivery!Tick
  PROVE  DeliveryInv'
<1>1. /\ rep \in [Replica -> Work] /\ row \in [Delivery!Hook -> RowType] /\ HeldByOne
      /\ AcceptedIsPaid /\ AttemptsAreRequests /\ TargetIsDead
      /\ \A p \in Replica : WorkerOK(p)
  BY DEF DeliveryInv, DeliveryShape
<1>2. /\ \A p \in Replica : rep[p].pc = "idle" \/ (rep[p].pc = "post" /\ rep[p].timer < RowTicks)
      /\ rep' = [p \in Replica |-> IF rep[p].pc = "post" THEN [rep[p] EXCEPT !.timer = @ + 1] ELSE rep[p]]
      /\ row' = [h \in Delivery!Hook |->
           [row[h] EXCEPT !.due = IF @ > 0 THEN @ - 1 ELSE 0,
                          !.age = IF row[h].status = "DELIVERING" /\ @ <= Lease THEN @ + 1 ELSE @]]
      /\ op' = op /\ posts' = posts /\ accepted' = accepted /\ deliveryFaults' = deliveryFaults
  BY DEF Delivery!Tick
<1>3. ASSUME NEW h \in Delivery!Hook
      PROVE  /\ row'[h] \in RowType /\ row'[h].status = row[h].status
             /\ row'[h].attempts = row[h].attempts
             /\ row[h].age \in Nat /\ row'[h].age \in Nat /\ row'[h].age <= row[h].age + 1
  <2>1. PICK r \in RowType : r = row[h]
    BY <1>1
  <2>2. r.due \in Nat /\ r.age \in Nat
    BY DEF RowType
  <2>3. PICK d \in Nat : d = IF r.due > 0 THEN r.due - 1 ELSE 0
    BY <2>2
  <2>4. PICK g \in Nat : g = IF r.status = "DELIVERING" /\ r.age <= Lease THEN r.age + 1 ELSE r.age
    BY <2>2
  <2>5. PICK x : x = [r EXCEPT !.due = d, !.age = g]
    OBVIOUS
  <2>6. row'[h] = x
    BY <1>2, <2>1, <2>3, <2>4, <2>5
  <2>7. x \in RowType /\ x.status = r.status /\ x.attempts = r.attempts /\ x.age = g
    BY <2>5 DEF RowType
  <2>8. g <= r.age + 1
    BY <2>2, <2>4
  <2> QED BY <2>1, <2>2, <2>6, <2>7, <2>8
<1>4. ASSUME NEW p \in Replica
      PROVE  /\ rep'[p] \in Work /\ rep'[p].pc = rep[p].pc /\ rep'[p].held = rep[p].held
             /\ rep'[p].cur = rep[p].cur /\ rep[p].timer \in Nat
             /\ rep[p].pc = "post" => rep'[p].timer = rep[p].timer + 1 /\ rep[p].timer < RowTicks
             /\ rep[p].pc # "post" => rep'[p].timer = rep[p].timer /\ rep[p].pc = "idle"
  <2>1. PICK u \in Work : u = rep[p]
    BY <1>1
  <2>2. u.timer \in Nat
    BY DEF Work
  <2>3. PICK t \in Nat : t = u.timer + 1
    BY <2>2
  <2>4. PICK w : w = [u EXCEPT !.timer = t]
    OBVIOUS
  <2>5. w \in Work /\ w.pc = u.pc /\ w.held = u.held /\ w.cur = u.cur /\ w.timer = t
    BY <2>4 DEF Work
  <2>6. rep'[p] = IF u.pc = "post" THEN w ELSE u
    BY <1>2, <2>1, <2>3, <2>4
  <2>7. u.pc = "idle" \/ (u.pc = "post" /\ u.timer < RowTicks)
    BY <1>2, <2>1
  <2> QED BY <2>1, <2>2, <2>3, <2>5, <2>6, <2>7
<1>5. DeliveryShape'
  BY <1>2, <1>3, <1>4 DEF DeliveryInv, DeliveryShape
<1>6. ASSUME NEW p \in Replica PROVE WorkerOK(p)'
  <2>1. Delivery!Holds(p)' = Delivery!Holds(p) /\ WorkerOK(p)
    BY <1>1, <1>4 DEF Delivery!Holds
  <2>2. CASE rep[p].pc = "idle"
    <3>1. Delivery!Holds(p) = {} /\ rep'[p].timer = 0 /\ rep'[p].pc = "idle" /\ 0 <= RowTicks
      BY <1>4, <2>1, <2>2 DEF WorkerOK, DeliveryInTime, Delivery!DeliveryAssumption
    <3> QED BY <2>1, <3>1 DEF WorkerOK, InTime
  <2>3. CASE rep[p].pc = "post"
    <3>1. /\ rep'[p].pc = "post" /\ rep'[p].timer = rep[p].timer + 1 /\ rep[p].timer \in Nat
          /\ rep[p].timer < RowTicks /\ RowTicks \in Nat /\ Batch \in Nat
      BY <1>4, <2>3 DEF DeliveryInTime, Delivery!DeliveryAssumption
    <3>2. InTime(p)'
      <4> SUFFICES ASSUME NEW h \in Delivery!Holds(p)
                   PROVE  row'[h].age + Cardinality(Delivery!Holds(p)) * RowTicks
                            <= Batch * RowTicks + rep'[p].timer
        BY <2>1 DEF InTime
      <4>1. h \in Delivery!Hook
        BY HeldIsFresh
      <4>2. row[h].age + Cardinality(Delivery!Holds(p)) * RowTicks
              <= Batch * RowTicks + rep[p].timer
        BY <2>1 DEF WorkerOK, InTime
      <4>3. Cardinality(Delivery!Holds(p)) \in Nat
        <5>1. Delivery!Holds(p) \in SUBSET Delivery!Hook
          BY HeldIsFresh
        <5> QED BY <5>1, HooksFinite DEF DeliveryInTime
      <4>4. Cardinality(Delivery!Holds(p)) * RowTicks \in Nat /\ Batch * RowTicks \in Nat
        BY <3>1, <4>3, Times
      <4>5. PICK x \in Nat, y \in Nat :
              x = Cardinality(Delivery!Holds(p)) * RowTicks /\ y = Batch * RowTicks
        BY <4>4
      <4>6. row[h].age + x <= y + rep[p].timer
        BY <4>2, <4>5
      <4>7. row[h].age \in Nat /\ row'[h].age \in Nat /\ row'[h].age <= row[h].age + 1
        BY <1>3, <4>1
      <4>8. row'[h].age + x <= y + rep'[p].timer
        BY <3>1, <4>5, <4>6, <4>7
      <4> QED BY <4>5, <4>8
    <3>3. \A h \in Delivery!Holds(p) :
            row'[h].status = "DELIVERING" /\ rep'[p].held[h] <= posts'[h]
      <4> SUFFICES ASSUME NEW h \in Delivery!Holds(p)
                   PROVE  row'[h].status = "DELIVERING" /\ rep[p].held[h] <= posts[h]
        BY <1>2, <1>4
      <4>1. h \in Delivery!Hook /\ row[h].status = "DELIVERING"
        BY HeldIsFresh
      <4> QED BY <1>3, <2>1, <4>1 DEF WorkerOK
    <3>4. rep'[p].cur \in Delivery!Holds(p) /\ rep'[p].held[rep'[p].cur] < posts'[rep'[p].cur]
      BY <1>2, <1>4, <2>1, <2>3 DEF WorkerOK
    <3>5. rep'[p].timer <= RowTicks
      BY <3>1
    <3> QED BY <2>1, <3>1, <3>2, <3>3, <3>4, <3>5 DEF WorkerOK
  <2> QED BY <1>2, <2>2, <2>3
<1>7. HeldByOne'
  BY <1>1, <1>4 DEF HeldByOne, Delivery!Holds
<1>8. AcceptedIsPaid'
  <2>1. \A h \in Delivery!Hook : Recorded(h) => Recorded(h)'
    BY <1>3, <1>4 DEF Recorded
  <2> QED BY <1>1, <1>2, <2>1 DEF AcceptedIsPaid
<1>9. AttemptsAreRequests' /\ TargetIsDead'
  BY <1>1, <1>2, <1>3 DEF AttemptsAreRequests, TargetIsDead
<1> QED BY <1>5, <1>6, <1>7, <1>8, <1>9 DEF DeliveryInv

\* Every step keeps the delivery's invariant.
LEMMA DeliveryNext ==
  ASSUME DeliveryInTime, DeliveryInv, [Delivery!Next]_(Delivery!vars)
  PROVE  DeliveryInv'
<1>1. CASE UNCHANGED Delivery!vars
  <2>1. /\ UNCHANGED <<rep, posts, accepted, deliveryFaults>> /\ row' = row /\ op' = op
    BY <1>1 DEF Delivery!vars
  <2>2. /\ row' \in [Delivery!Hook -> RowType]
        /\ op' \in [Operator -> {"none", "retry", "dismiss"} \X (Delivery!Hook \cup {0})]
        /\ TargetIsDead'
    BY <2>1 DEF DeliveryInv, DeliveryShape, TargetIsDead
  <2>3. \A h \in Delivery!Hook :
          /\ row[h].status = "DELIVERING" => row'[h] = row[h]
          /\ row[h].status = "SENT" => row'[h].status = "SENT"
          /\ row'[h].attempts = row[h].attempts
          /\ row'[h].status = "DEAD" => row[h].status = "DEAD"
    BY <2>1
  <2> QED BY <2>1, <2>2, <2>3, DeliveryTable
<1>2. CASE Delivery!Tick
  BY <1>2, DeliveryTick
<1>3. ASSUME NEW h \in Delivery!Hook, Delivery!enqueueOutgoingWebhook(h) PROVE DeliveryInv'
  BY <1>3, DeliveryTableSteps
<1>4. ASSUME NEW o \in Operator, Delivery!Dashboard(o) PROVE DeliveryInv'
  BY <1>4, DeliveryTableSteps, RetryStep DEF Delivery!Dashboard
<1>5. ASSUME NEW p \in Replica, Delivery!deliverWebhooks(p) \/ Delivery!Fault(p) PROVE DeliveryInv'
  <2>1. CASE Delivery!reclaimStaleDeliveries(p) \/ Delivery!claimPendingWebhooks(p) \/ Delivery!Post(p)
    BY <2>1, ReclaimStep, DeliveryClaim, DeliveryPost
  <2>2. CASE Delivery!Accept(p) \/ Delivery!Refuse(p) \/ Delivery!LostAnswer(p)
    <3>1. PICK k \in {"sent", "failed"}, n \in {0, 1} :
            /\ Delivery!Answer(p, k, n)
            /\ deliveryFaults' = deliveryFaults \/ deliveryFaults' = deliveryFaults + 1
            /\ n = 1 => k = "sent" \/ deliveryFaults' = deliveryFaults + 1
      BY <2>2 DEF Delivery!Accept, Delivery!Refuse, Delivery!LostAnswer, Delivery!Fail
    <3>2. /\ rep[p].pc = "post" /\ rep' = [rep EXCEPT ![p].pc = k]
          /\ accepted' = [accepted EXCEPT ![rep[p].cur] = @ + n]
          /\ row' = row /\ op' = op /\ posts' = posts
      BY <3>1 DEF Delivery!Answer
    <3>3. rep[p].pc \in {"post", "sent"} /\ rep[p].pc # "sent"
      BY <3>2
    <3> QED BY <3>1, <3>2, <3>3, DeliveryAnswer
  <2>3. CASE Delivery!WriteSentThrows(p)
    <3>1. /\ rep[p].pc = "sent" /\ rep' = [rep EXCEPT ![p].pc = "failed"]
          /\ row' = row /\ op' = op /\ posts' = posts /\ accepted' = accepted
          /\ deliveryFaults' = deliveryFaults + 1
      BY <2>3 DEF Delivery!WriteSentThrows, Delivery!Fail
    <3>2. accepted' = [accepted EXCEPT ![rep[p].cur] = @ + 0]
      <4>1. WorkerOK(p) /\ accepted \in [Delivery!Hook -> Nat]
        BY DEF DeliveryInv, DeliveryShape
      <4>2. rep[p].cur \in Delivery!Hook
        BY <3>1, <4>1, HeldIsFresh DEF WorkerOK
      <4>3. accepted[rep[p].cur] + 0 = accepted[rep[p].cur]
        BY <4>1, <4>2
      <4> QED BY <3>1, <4>1, <4>3
    <3>3. rep[p].pc \in {"post", "sent"} /\ 0 \in {0, 1} /\ "failed" \in {"sent", "failed"} /\ 0 # 1
      BY <3>1
    <3> QED BY <3>1, <3>2, <3>3, DeliveryAnswer
  <2>4. CASE \/ Delivery!WriteSent(p) \/ Delivery!WriteFailure(p)
             \/ Delivery!WriteFailureThrows(p) \/ Delivery!Crash(p)
    BY <2>4, DeliverySettles
  <2> QED BY <1>5, <2>1, <2>2, <2>3, <2>4 DEF Delivery!deliverWebhooks, Delivery!Fault
<1> QED BY <1>1, <1>2, <1>3, <1>4, <1>5 DEF Delivery!Next

\* The inductive invariant of the delivery: while a batch ends within its lease
\* and one dashboard request runs at a time, a held row is DELIVERING, held by
\* one worker and never stale, and its requests are counted
\* (claimPendingWebhooks, attemptDelivery, reclaimStaleDeliveries).
THEOREM DeliveryInvariant == DeliveryInTime /\ Delivery!Spec => []DeliveryInv
<1> SUFFICES ASSUME DeliveryInTime PROVE Delivery!Spec => []DeliveryInv
  OBVIOUS
<1>1. Delivery!Init => DeliveryInv
  BY DeliveryInit
<1>2. DeliveryInv /\ [Delivery!Next]_(Delivery!vars) => DeliveryInv'
  BY DeliveryNext
<1> QED BY <1>1, <1>2, PTL DEF Delivery!Spec

\* Every duplicate an endpoint accepts is paid for by a lost answer, a lost
\* write or a crash: replicas, overlapping periods and retries cause none
\* (claimPendingWebhooks, attemptDelivery).
THEOREM DeliveryDuplicatesArePaid ==
  DeliveryInTime /\ Delivery!Spec => []Delivery!DuplicatesArePaid
<1>1. DeliveryInv => Delivery!DuplicatesArePaid
  <2> SUFFICES ASSUME DeliveryInv, NEW h \in Delivery!Hook
               PROVE  accepted[h] <= 1 + deliveryFaults
    BY DEF Delivery!DuplicatesArePaid
  <2>1. accepted[h] <= deliveryFaults + 1 /\ deliveryFaults \in Nat
    BY DEF DeliveryInv, DeliveryShape, AcceptedIsPaid
  <2>2. deliveryFaults + 1 = 1 + deliveryFaults
    BY <2>1
  <2> QED BY <2>1, <2>2
<1> QED BY <1>1, DeliveryInvariant, PTL

\* A row is dead-lettered only after more than MAX_ATTEMPTS attempts, each of
\* them a request (attemptDelivery), in spite of crashes and reclaims.
THEOREM DeliveryDeadIsExhausted ==
  DeliveryInTime /\ Delivery!Spec => []Delivery!DeadIsExhausted
<1>1. DeliveryInv => Delivery!DeadIsExhausted
  BY DEF DeliveryInv, AttemptsAreRequests, Delivery!DeadIsExhausted
<1> QED BY <1>1, DeliveryInvariant, PTL

=============================================================================
