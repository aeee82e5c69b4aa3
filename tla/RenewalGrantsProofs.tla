------------------------- MODULE RenewalGrantsProofs -------------------------
(***************************************************************************)
(* Renewal grants implement GrantContract, for every set of events,        *)
(* products, currencies and workers, any number of redelivered messages,   *)
(* retries, stalled jobs, crashes and evicted job ids.                     *)
(***************************************************************************)
EXTENDS RenewalGrants, TLAPS

JobRec == [state: {"absent", "waiting", "active", "done", "failed"},
           made: 0..Attempts, stalled: 0..2]

SlotRec == [pc: {"load", "grant"}, ev: Event, todo: SUBSET Currency, holds: BOOLEAN]

Shape ==
  /\ log \in Seq(Event)
  /\ committed \in -1..Len(log)
  /\ consumer \in [up: BOOLEAN, start: 0..Len(log), pos: 0..Len(log)]
  /\ consumer.start <= consumer.pos
  /\ job \in [Event -> JobRec]
  /\ slot \in [Worker -> {Free} \cup SlotRec]
  /\ ledger \in [Debt -> {0, 1}]
  /\ enqueued \subseteq Event /\ skipped \subseteq Event /\ lost \subseteq Event
  /\ faults \in 0..MaxFault

\* A job that can still run, or be added, has attempts left and stalled at most once.
JobsHaveBudget ==
  \A e \in Event : job[e].state \in {"absent", "waiting", "active"} =>
    job[e].made < Attempts /\ job[e].stalled <= 1

\* What is queued was announced.
JobsArePublished == \A e \in Event : job[e].state # "absent" => e \in Published

Holds(w, e) == slot[w] # Free /\ slot[w].holds /\ slot[w].ev = e

\* The lock of an active job has one holder.
LockIsExclusive ==
  \A e \in Event : \A w, v \in Worker :
    Holds(w, e) => job[e].state = "active" /\ (Holds(v, e) => v = w)

\* What a worker is about to grant is owed, whether or not it still holds the
\* job.
WorkIsOwed ==
  \A w \in Worker : slot[w] # Free =>
    /\ slot[w].ev \in Published
    /\ slot[w].pc = "grant" =>
         isGranting(slot[w].ev) /\ slot[w].ev \notin Orphan /\ slot[w].todo \subseteq GrantsOf[slot[w].ev]

Inv == Shape /\ JobsHaveBudget /\ JobsArePublished /\ LockIsExclusive /\ WorkIsOwed
-----------------------------------------------------------------------------
\* Nothing is published and nothing paid.
LEMMA InitInv == ASSUME GrantsAssumption, Init PROVE Inv
<1>1. Absent \in JobRec
  BY DEF Absent, JobRec, GrantsAssumption
<1>2. Shape
  BY <1>1 DEF Init, Shape, Down, GrantsAssumption
<1>3. JobsHaveBudget /\ JobsArePublished
  BY DEF Init, JobsHaveBudget, JobsArePublished, Absent, GrantsAssumption
<1>4. LockIsExclusive /\ WorkIsOwed
  BY DEF Init, LockIsExclusive, WorkIsOwed, Holds
<1> QED BY <1>2, <1>3, <1>4 DEF Inv

\* The topic only grows.
LEMMA PublishInv ==
  ASSUME Inv, NEW e \in Event, Publish(e)
  PROVE  Inv' /\ Published' = Published \cup {e}
<1> USE DEF Publish
<1>1. /\ log' \in Seq(Event) /\ Len(log') = Len(log) + 1 /\ Len(log) \in Nat
      /\ DOMAIN log = 1..Len(log) /\ DOMAIN log' = 1..Len(log')
      /\ log'[Len(log')] = e /\ \A i \in 1..Len(log) : log'[i] = log[i]
  BY DEF Inv, Shape
<1>2. Published' = Published \cup {e}
  BY <1>1 DEF Published
<1>3. Shape'
  BY <1>1 DEF Inv, Shape
<1>4. JobsHaveBudget' /\ JobsArePublished'
  BY <1>2 DEF Inv, JobsHaveBudget, JobsArePublished
<1>5. LockIsExclusive' /\ WorkIsOwed'
  BY <1>2 DEF Inv, LockIsExclusive, WorkIsOwed, Holds, isGranting
<1> QED BY <1>2, <1>3, <1>4, <1>5 DEF Inv

\* What the queue and the workers must keep, over an unchanged topic.
Working == JobsHaveBudget /\ JobsArePublished /\ LockIsExclusive /\ WorkIsOwed

\* Steps of the consumer that leave the queue alone.
LEMMA ReadStep ==
  ASSUME Inv, UNCHANGED <<log, job, slot>>
  PROVE  Working'
<1>1. Published' = Published
  BY DEF Published
<1> QED
  BY <1>1 DEF Inv, Working, JobsHaveBudget, JobsArePublished, LockIsExclusive, WorkIsOwed,
              Holds, isGranting

\* One job changes, and keeps its budget.
LEMMA JobStep ==
  ASSUME Inv, NEW e \in Published, NEW j \in JobRec, job' = [job EXCEPT ![e] = j], log' = log,
         j.state \in {"absent", "waiting", "active"} => j.made < Attempts /\ j.stalled <= 1
  PROVE  /\ e \in Event /\ job' \in [Event -> JobRec]
         /\ job'[e] = j /\ \A f \in Event \ {e} : job'[f] = job[f]
         /\ JobsHaveBudget' /\ JobsArePublished'
<1>1. Published' = Published /\ e \in Event
  BY DEF Published, Inv, Shape
<1>2. /\ job' \in [Event -> JobRec]
      /\ job'[e] = j /\ \A f \in Event \ {e} : job'[f] = job[f]
  BY <1>1 DEF Inv, Shape
<1>3. JobsHaveBudget' /\ JobsArePublished'
  BY <1>1, <1>2 DEF Inv, JobsHaveBudget, JobsArePublished
<1> QED BY <1>1, <1>2, <1>3

\* One worker moves: the others keep their locks, and its own is not another's.
LEMMA SlotStep ==
  ASSUME Inv, JobsHaveBudget', JobsArePublished', log' = log,
         NEW w \in Worker, NEW x \in {Free} \cup SlotRec, slot' = [slot EXCEPT ![w] = x],
         \A v \in Worker \ {w} : \A e \in Event : Holds(v, e) => job'[e].state = "active",
         x # Free =>
           /\ x.ev \in Published
           /\ x.pc = "grant" => isGranting(x.ev) /\ x.ev \notin Orphan /\ x.todo \subseteq GrantsOf[x.ev]
           /\ x.holds => job'[x.ev].state = "active" /\ \A v \in Worker \ {w} : ~Holds(v, x.ev)
  PROVE  slot' \in [Worker -> {Free} \cup SlotRec] /\ Working'
<1>1. Published' = Published
  BY DEF Published
<1>2. /\ slot' \in [Worker -> {Free} \cup SlotRec]
      /\ slot'[w] = x /\ \A v \in Worker \ {w} : slot'[v] = slot[v]
  BY DEF Inv, Shape
<1>3. LockIsExclusive'
  <2> SUFFICES ASSUME NEW e \in Event, NEW v \in Worker, NEW u \in Worker, Holds(v, e)'
               PROVE  job'[e].state = "active" /\ (Holds(u, e)' => u = v)
    BY DEF LockIsExclusive
  <2>1. CASE v = w
    BY <1>2, <2>1 DEF Holds
  <2>2. CASE v # w
    BY <1>2, <2>2 DEF Holds, Inv, LockIsExclusive
  <2> QED BY <2>1, <2>2
<1>4. WorkIsOwed'
  BY <1>1, <1>2 DEF Inv, WorkIsOwed, isGranting
<1> QED BY <1>2, <1>3, <1>4 DEF Working

\* A job nobody holds changes: the queue's own steps.
LEMMA QueueStep ==
  ASSUME Inv, NEW e \in Published, NEW j \in JobRec, job' = [job EXCEPT ![e] = j],
         UNCHANGED <<log, slot>>, job[e].state # "active",
         j.state \in {"absent", "waiting", "active"} => j.made < Attempts /\ j.stalled <= 1
  PROVE  job' \in [Event -> JobRec] /\ Working'
<1>1. /\ e \in Event /\ job' \in [Event -> JobRec] /\ JobsHaveBudget' /\ JobsArePublished'
      /\ job'[e] = j /\ \A f \in Event \ {e} : job'[f] = job[f]
  BY JobStep
<1>2. LockIsExclusive'
  BY <1>1 DEF Inv, LockIsExclusive, Holds
<1>3. WorkIsOwed'
  BY DEF Inv, WorkIsOwed, isGranting, Published
<1> QED BY <1>1, <1>2, <1>3 DEF Working

\* queue.add of a message of the topic.
LEMMA AddStep ==
  ASSUME Inv, NEW e \in Published, queueAdd(e), UNCHANGED <<log, slot>>
  PROVE  job' \in [Event -> JobRec] /\ enqueued' \subseteq Event /\ Working'
<1>1. e \in Event
  BY DEF Published, Inv, Shape
<1>2. job \in [Event -> JobRec] /\ enqueued' \subseteq Event
  BY <1>1 DEF Inv, Shape, queueAdd
<1>3. CASE job[e].state # "absent"
  <2>1. job' = job
    BY <1>3 DEF queueAdd
  <2> QED BY <1>2, <2>1, ReadStep
<1>4. CASE job[e].state = "absent"
  <2> DEFINE j == [job[e] EXCEPT !.state = "waiting"]
  <2>1. job' = [job EXCEPT ![e] = j]
    BY <1>4 DEF queueAdd
  <2>2. j \in JobRec /\ j.made = job[e].made /\ j.stalled = job[e].stalled
    BY <1>1, <1>2 DEF JobRec
  <2>3. job[e].made < Attempts /\ job[e].stalled <= 1
    BY <1>1, <1>4 DEF Inv, JobsHaveBudget
  <2> HIDE DEF j
  <2>4. job' \in [Event -> JobRec] /\ Working'
    BY <1>4, <2>1, <2>2, <2>3, QueueStep
  <2> QED BY <1>2, <2>4
<1> QED BY <1>3, <1>4

\* removeOnComplete, removeOnFail.
LEMMA EvictInv ==
  ASSUME GrantsAssumption, Inv, NEW e \in Event, Evict(e)
  PROVE  Inv'
<1>1. Absent \in JobRec /\ Absent.made < Attempts /\ Absent.stalled <= 1
  BY DEF Absent, JobRec, GrantsAssumption
<1>2. e \in Published
  BY DEF Evict, Inv, JobsArePublished
<1>3. job' \in [Event -> JobRec] /\ Working'
  BY <1>1, <1>2, QueueStep DEF Evict
<1> QED BY <1>3 DEF Evict, Inv, Working, Shape

\* The message a consumer stands at was appended by the dispatcher.
LEMMA MessageIsPublished ==
  ASSUME Inv, HasMessage
  PROVE  Message \in Published /\ consumer.pos + 1 \in 0..Len(log)
BY DEF Inv, Shape, HasMessage, Message, Published

\* The consumer starts, moves and dies within the log.
LEMMA ConsumerInv ==
  ASSUME GrantsAssumption, Inv, ConsumerStep \/ CommitOffset \/ EnqueueThrows \/ ConsumerCrash
  PROVE  Inv'
<1>1. Down \in [up: BOOLEAN, start: 0..Len(log), pos: 0..Len(log)] /\ Down.start <= Down.pos
  BY DEF Down, Inv, Shape
<1>2. Published \subseteq Event
  BY DEF Published, Inv, Shape
<1>3. CASE Subscribe
  <2>1. Working'
    BY <1>3, ReadStep DEF Subscribe
  <2>2. Shape'
    BY <1>2, <1>3 DEF Subscribe, Inv, Shape
  <2> QED BY <2>1, <2>2 DEF Inv, Working
<1>4. CASE Ignore
  <2>1. Working'
    BY <1>4, ReadStep DEF Ignore
  <2>2. Shape'
    BY <1>4, MessageIsPublished DEF Ignore, Passed, Inv, Shape
  <2> QED BY <2>1, <2>2 DEF Inv, Working
<1>5. CASE Enqueue
  <2>1. job' \in [Event -> JobRec] /\ enqueued' \subseteq Event /\ Working'
    BY <1>5, MessageIsPublished, AddStep DEF Enqueue
  <2>2. Shape'
    BY <1>5, <2>1, MessageIsPublished DEF Enqueue, Passed, Inv, Shape
  <2> QED BY <2>1, <2>2 DEF Inv, Working
<1>6. CASE CommitOffset
  <2>1. Working'
    BY <1>6, ReadStep DEF CommitOffset
  <2>2. Shape'
    BY <1>6 DEF CommitOffset, Inv, Shape
  <2> QED BY <2>1, <2>2 DEF Inv, Working
<1>7. CASE EnqueueThrows
  <2>1. job' \in [Event -> JobRec] /\ enqueued' \subseteq Event /\ Working'
    <3>1. CASE queueAdd(Message)
      BY <1>7, <3>1, MessageIsPublished, AddStep DEF EnqueueThrows
    <3>2. CASE UNCHANGED <<job, enqueued>>
      BY <1>7, <3>2, ReadStep DEF EnqueueThrows, Inv, Shape
    <3> QED BY <1>7, <3>1, <3>2 DEF EnqueueThrows
  <2>2. Shape'
    BY <1>1, <1>7, <2>1 DEF EnqueueThrows, Fail, Inv, Shape, GrantsAssumption
  <2> QED BY <2>1, <2>2 DEF Inv, Working
<1>8. CASE ConsumerCrash
  <2>1. Working'
    BY <1>8, ReadStep DEF ConsumerCrash
  <2>2. Shape'
    BY <1>1, <1>8 DEF ConsumerCrash, Fail, Inv, Shape, GrantsAssumption
  <2> QED BY <2>1, <2>2 DEF Inv, Working
<1> QED BY <1>3, <1>4, <1>5, <1>6, <1>7, <1>8 DEF ConsumerStep
-----------------------------------------------------------------------------
(* The workers *)

\* A worker takes a job whose renewal is published.
LEMMA FetchInv ==
  ASSUME Inv, NEW w \in Worker, NEW e \in Event, Fetch(w, e)
  PROVE  Inv'
<1> DEFINE j == [job[e] EXCEPT !.state = "active"]
           x == [pc |-> "load", ev |-> e, todo |-> {}, holds |-> TRUE]
<1>1. /\ job' = [job EXCEPT ![e] = j] /\ slot' = [slot EXCEPT ![w] = x]
      /\ log' = log /\ job[e].state = "waiting"
  BY DEF Fetch
<1>2. /\ j \in JobRec /\ j.state = "active" /\ j.made < Attempts /\ j.stalled <= 1
      /\ e \in Published
  BY <1>1 DEF Inv, Shape, JobRec, JobsHaveBudget, JobsArePublished
<1>3. x \in SlotRec /\ x.ev = e /\ x.pc = "load"
  BY DEF SlotRec
<1> HIDE DEF j, x
<1>4. /\ job' \in [Event -> JobRec] /\ JobsHaveBudget' /\ JobsArePublished'
      /\ job'[e] = j /\ \A f \in Event \ {e} : job'[f] = job[f]
  BY <1>1, <1>2, JobStep
<1>5. /\ \A v \in Worker : ~Holds(v, e)
      /\ \A v \in Worker : \A f \in Event : Holds(v, f) => job'[f].state = "active"
  BY <1>1, <1>4 DEF Inv, LockIsExclusive
<1>6. slot' \in [Worker -> {Free} \cup SlotRec] /\ Working'
  BY <1>1, <1>2, <1>3, <1>4, <1>5, SlotStep
<1> QED BY <1>4, <1>6 DEF Fetch, Inv, Working, Shape

\* A worker lets go, and the job it held, if it held one, ends or waits again.
LEMMA ReleaseStep ==
  ASSUME Inv, NEW w \in Worker, slot[w] # Free, NEW x \in {Free} \cup SlotRec,
         x # Free => x = [slot[w] EXCEPT !.holds = FALSE],
         slot' = [slot EXCEPT ![w] = x], log' = log,
         NEW j \in JobRec,
         j.state \in {"absent", "waiting", "active"} => j.made < Attempts /\ j.stalled <= 1,
         job' = IF slot[w].holds THEN [job EXCEPT ![slot[w].ev] = j] ELSE job
  PROVE  /\ job' \in [Event -> JobRec] /\ slot' \in [Worker -> {Free} \cup SlotRec]
         /\ Working'
<1>1. slot[w] \in SlotRec /\ slot[w].ev \in Published /\ slot[w].ev \in Event
      /\ slot[w].holds \in BOOLEAN
  BY DEF Inv, Shape, WorkIsOwed, SlotRec
<1>2. /\ job' \in [Event -> JobRec] /\ JobsHaveBudget' /\ JobsArePublished'
      /\ \A v \in Worker \ {w} : \A e \in Event : Holds(v, e) => job'[e].state = "active"
  <2>1. CASE slot[w].holds
    <3>1. /\ job' \in [Event -> JobRec] /\ JobsHaveBudget' /\ JobsArePublished'
          /\ \A f \in Event \ {slot[w].ev} : job'[f] = job[f]
      BY <1>1, <2>1, JobStep
    <3>2. \A v \in Worker \ {w} : ~Holds(v, slot[w].ev)
      BY <1>1, <2>1 DEF Inv, LockIsExclusive, Holds
    <3> QED BY <3>1, <3>2 DEF Inv, LockIsExclusive
  <2>2. CASE ~slot[w].holds
    <3>1. job' = job
      BY <2>2
    <3>2. JobsHaveBudget' /\ JobsArePublished'
      BY <3>1 DEF Inv, JobsHaveBudget, JobsArePublished, Published
    <3> QED BY <3>1, <3>2 DEF Inv, Shape, LockIsExclusive
  <2> QED BY <2>1, <2>2
<1>3. x # Free =>
         /\ x.ev = slot[w].ev /\ x.pc = slot[w].pc /\ x.todo = slot[w].todo
         /\ x.holds = FALSE
  BY <1>1 DEF SlotRec
<1>4. x # Free =>
        /\ x.ev \in Published
        /\ x.pc = "grant" => isGranting(x.ev) /\ x.ev \notin Orphan /\ x.todo \subseteq GrantsOf[x.ev]
        /\ x.holds => job'[x.ev].state = "active" /\ \A v \in Worker \ {w} : ~Holds(v, x.ev)
  BY <1>1, <1>3 DEF Inv, WorkIsOwed
<1> QED BY <1>2, <1>4, SlotStep

\* Settle and let go.
LEMMA SettleStep ==
  ASSUME Inv, NEW w \in Worker, slot[w] # Free, Settle(w, "done"),
         slot' = [slot EXCEPT ![w] = Free],
         UNCHANGED <<log, committed, consumer, ledger, enqueued, skipped, lost, faults>>
  PROVE  Inv'
<1>1. slot[w].ev \in Event
  BY DEF Inv, Shape, SlotRec
<1> DEFINE j == [job[slot[w].ev] EXCEPT !.state = "done"]
<1>2. j \in JobRec /\ j.state = "done"
  BY ZenonT(60), <1>1 DEF Inv, Shape, JobRec
<1>3. job' = IF slot[w].holds THEN [job EXCEPT ![slot[w].ev] = j] ELSE job
  BY DEF Settle
<1> HIDE DEF j
<1>4. /\ job' \in [Event -> JobRec] /\ slot' \in [Worker -> {Free} \cup SlotRec]
      /\ Working'
  BY <1>2, <1>3, ReleaseStep
<1> QED BY <1>4 DEF Inv, Working, Shape

\* A loaded product names the currencies its renewal owes.
LEMMA LoadInv ==
  ASSUME GrantsAssumption, Inv, NEW w \in Worker, loadProduct(w)
  PROVE  Inv'
<1> DEFINE e == slot[w].ev
<1>1. slot[w] \in SlotRec /\ slot[w] # Free /\ e \in Event /\ e \in Published
  BY DEF loadProduct, Inv, Shape, WorkIsOwed, Free, SlotRec
<1>2. CASE ~isGranting(e) \/ e \in Orphan
  BY <1>1, <1>2, SettleStep DEF loadProduct
<1>3. CASE isGranting(e) /\ e \notin Orphan
  <2> DEFINE x == [slot[w] EXCEPT !.pc = "grant", !.todo = GrantsOf[e]]
  <2>1. slot' = [slot EXCEPT ![w] = x] /\ job' = job /\ log' = log
    BY <1>3 DEF loadProduct, Inv, Shape
  <2>2. GrantsOf[e] \subseteq Currency
    BY <1>1 DEF GrantsAssumption
  <2>3. /\ x \in SlotRec /\ x.ev = e /\ x.todo = GrantsOf[e] /\ x.pc = "grant"
        /\ x.holds = slot[w].holds
    BY <1>1, <2>2 DEF SlotRec
  <2> HIDE DEF x
  <2>4. JobsHaveBudget' /\ JobsArePublished'
    BY <2>1 DEF Inv, JobsHaveBudget, JobsArePublished, Published
  <2>5. /\ \A v \in Worker : \A f \in Event : Holds(v, f) => job'[f].state = "active"
        /\ slot[w].holds => job'[e].state = "active" /\ \A v \in Worker \ {w} : ~Holds(v, e)
    BY <1>1, <2>1 DEF Inv, LockIsExclusive, Holds
  <2>6. slot' \in [Worker -> {Free} \cup SlotRec] /\ Working'
    BY <1>1, <1>3, <2>1, <2>3, <2>4, <2>5, SlotStep
  <2> QED BY <2>1, <2>6 DEF loadProduct, Inv, Working, Shape
<1> QED BY <1>2, <1>3

\* The debt a grant pays is owed, and only its row of the ledger changes.
LEMMA GrantIsOwed ==
  ASSUME GrantsAssumption, Inv, NEW w \in Worker, NEW c \in Currency, addCredits(w, c)
  PROVE  LET d == <<slot[w].ev, c>> IN
         /\ d \in Debt /\ slot[w].ev \in Published /\ d \in Owes(slot[w].ev)
         /\ ledger' = IF ledger[d] = 0 THEN [ledger EXCEPT ![d] = 1] ELSE ledger
<1>1. slot[w] \in SlotRec /\ slot[w] # Free /\ slot[w].ev \in Event
  BY DEF addCredits, Inv, Shape, Free, SlotRec
<1>2. /\ slot[w].ev \in Published /\ isGranting(slot[w].ev) /\ slot[w].ev \notin Orphan
      /\ c \in GrantsOf[slot[w].ev]
  BY <1>1 DEF addCredits, Inv, WorkIsOwed
<1> DEFINE d == <<slot[w].ev, c>>
<1>3. d \in Debt /\ d \in Owes(slot[w].ev)
  BY <1>1, <1>2 DEF Debt, Owes, isGranting
<1>4. ledger \in [Debt -> {0, 1}] /\ ledger' = [ledger EXCEPT ![d] = IF ledger[d] = 0 THEN 1 ELSE ledger[d]]
  BY DEF addCredits, Inv, Shape
<1>5. ledger' = IF ledger[d] = 0 THEN [ledger EXCEPT ![d] = 1] ELSE ledger
  BY <1>3, <1>4
<1> QED BY <1>2, <1>3, <1>5

\* addCredits pays a debt of a published renewal, or finds it paid.
LEMMA GrantInv ==
  ASSUME GrantsAssumption, Inv, NEW w \in Worker, NEW c \in Currency, addCredits(w, c)
  PROVE  Inv'
<1> DEFINE e == slot[w].ev
           x == [slot[w] EXCEPT !.todo = @ \ {c}]
<1>1. slot[w] \in SlotRec /\ slot[w] # Free /\ e \in Event
  BY DEF addCredits, Inv, Shape, Free, SlotRec
<1>2. slot' = [slot EXCEPT ![w] = x] /\ job' = job /\ log' = log
  BY DEF addCredits
<1>3. /\ x \in SlotRec /\ x.ev = e /\ x.todo \subseteq slot[w].todo /\ x.pc = "grant"
      /\ x.holds = slot[w].holds
  BY <1>1 DEF SlotRec, addCredits
<1>4. e \in Published /\ isGranting(e) /\ e \notin Orphan /\ slot[w].todo \subseteq GrantsOf[e]
  BY <1>1 DEF addCredits, Inv, WorkIsOwed
<1> HIDE DEF x
<1>5. JobsHaveBudget' /\ JobsArePublished'
  BY <1>2 DEF Inv, JobsHaveBudget, JobsArePublished, Published
<1>6. /\ \A v \in Worker : \A f \in Event : Holds(v, f) => job'[f].state = "active"
      /\ slot[w].holds => job'[e].state = "active" /\ \A v \in Worker \ {w} : ~Holds(v, e)
  BY <1>1, <1>2 DEF Inv, LockIsExclusive, Holds
<1>7. slot' \in [Worker -> {Free} \cup SlotRec] /\ Working'
  BY <1>1, <1>2, <1>3, <1>4, <1>5, <1>6, SlotStep
<1>8. ledger' \in [Debt -> {0, 1}]
  BY GrantIsOwed DEF Inv, Shape
<1> QED BY <1>2, <1>7, <1>8 DEF addCredits, Inv, Working, Shape

\* A job ends and its worker is free.
LEMMA CompleteInv ==
  ASSUME Inv, NEW w \in Worker, Complete(w)
  PROVE  Inv'
<1>1. slot[w] # Free
  BY DEF Complete, Free
<1> QED BY <1>1, SettleStep DEF Complete

JobState == {"absent", "waiting", "active", "done", "failed"}

\* The last attempt fails the job.
LEMMA RetryKeepsBudget ==
  ASSUME GrantsAssumption, NEW k \in JobRec, k.made < Attempts, k.stalled <= 1
  PROVE  /\ retry(k) \in JobRec
         /\ retry(k).state \in {"absent", "waiting", "active"} =>
              retry(k).made < Attempts /\ retry(k).stalled <= 1
<1> DEFINE st == IF k.made + 1 >= Attempts THEN "failed" ELSE "waiting"
           m == k.made + 1
<1>1. /\ m \in 0..Attempts /\ st \in JobState
      /\ st = "failed" \/ m < Attempts
  BY DEF JobRec, GrantsAssumption, JobState
<1>2. retry(k) = [k EXCEPT !.made = m, !.state = st]
  BY DEF retry
<1> HIDE DEF st, m
<1>3. /\ retry(k) \in JobRec
      /\ retry(k).state = st /\ retry(k).made = m /\ retry(k).stalled = k.stalled
  BY <1>1, <1>2 DEF JobRec, JobState
<1> QED BY <1>1, <1>3

\* A job that throws goes back to the queue with an attempt less, or fails.
LEMMA ThrowInv ==
  ASSUME GrantsAssumption, Inv, NEW w \in Worker, Throw(w)
  PROVE  Inv'
<1>1. slot[w].ev \in Event /\ slot[w] \in SlotRec
  BY DEF Throw, Inv, Shape, SlotRec
<1> DEFINE j == IF slot[w].holds THEN retry(job[slot[w].ev])
                ELSE [job[slot[w].ev] EXCEPT !.state = "done"]
<1>2. j \in JobRec /\ (j.state \in {"absent", "waiting", "active"} => j.made < Attempts /\ j.stalled <= 1)
  <2>1. job[slot[w].ev] \in JobRec /\ Attempts \in Nat \ {0}
    BY <1>1 DEF Inv, Shape, GrantsAssumption
  <2>2. slot[w].holds => job[slot[w].ev].state = "active"
    BY <1>1 DEF Throw, Inv, LockIsExclusive, Holds
  <2>3. slot[w].holds => job[slot[w].ev].made < Attempts /\ job[slot[w].ev].stalled <= 1
    BY <1>1, <2>2 DEF Inv, JobsHaveBudget
  <2>4. CASE slot[w].holds
    BY <2>1, <2>3, <2>4, RetryKeepsBudget
  <2>5. CASE ~slot[w].holds
    BY <2>1, <2>5 DEF JobRec
  <2> QED BY <2>4, <2>5
<1>3. job' = IF slot[w].holds THEN [job EXCEPT ![slot[w].ev] = j] ELSE job
  BY DEF Throw
<1> HIDE DEF j
<1>4. /\ job' \in [Event -> JobRec] /\ slot' \in [Worker -> {Free} \cup SlotRec]
      /\ Working'
  BY <1>2, <1>3, ReleaseStep DEF Throw
<1>5. lost' \subseteq Event /\ faults' \in 0..MaxFault
  BY <1>1 DEF Throw, GivesUp, Fail, Inv, Shape, GrantsAssumption
<1> QED BY <1>4, <1>5 DEF Throw, Inv, Working, Shape

\* A stalled job is in two hands: the first has lost its lock.
LEMMA StallInv ==
  ASSUME GrantsAssumption, Inv, NEW w \in Worker, Stall(w)
  PROVE  Inv'
<1> DEFINE e == slot[w].ev
           j == [job[e] EXCEPT !.stalled = @ + 1,
                               !.state = IF job[e].stalled = 0 THEN "waiting" ELSE "failed"]
<1>1. e \in Event /\ slot[w] \in SlotRec /\ slot[w].holds /\ slot[w] # Free
  BY DEF Stall, Inv, Shape, SlotRec
<1>2. j \in JobRec /\ (j.state \in {"absent", "waiting", "active"} => j.made < Attempts /\ j.stalled <= 1)
  <2>1. job[e] \in JobRec /\ job[e].state = "active"
    BY <1>1 DEF Inv, Shape, LockIsExclusive, Holds
  <2>2. job[e].made < Attempts /\ job[e].stalled <= 1
    BY <1>1, <2>1 DEF Inv, JobsHaveBudget
  <2> DEFINE st == IF job[e].stalled = 0 THEN "waiting" ELSE "failed"
         n == job[e].stalled + 1
  <2>3. j = [job[e] EXCEPT !.stalled = n, !.state = st]
    OBVIOUS
  <2>4. n \in 0..2 /\ st \in JobState /\ (st = "failed" \/ n <= 1)
    BY <2>1, <2>2 DEF JobRec, JobState
  <2> HIDE DEF st, n, j
  <2>5. j \in JobRec /\ j.state = st /\ j.made = job[e].made /\ j.stalled = n
    BY <2>1, <2>3, <2>4 DEF JobRec, JobState
  <2> QED BY <2>2, <2>4, <2>5
<1>3. job' = IF slot[w].holds THEN [job EXCEPT ![e] = j] ELSE job
  BY <1>1 DEF Stall, Inv, Shape
<1>4. [slot[w] EXCEPT !.holds = FALSE] \in SlotRec
  BY <1>1 DEF SlotRec
<1>5. PICK x \in {Free, [slot[w] EXCEPT !.holds = FALSE]} : slot' = [slot EXCEPT ![w] = x]
  BY DEF Stall
<1> HIDE DEF j
<1>6. x \in {Free} \cup SlotRec /\ (x # Free => x = [slot[w] EXCEPT !.holds = FALSE])
  BY <1>4, <1>5
<1>7. /\ job' \in [Event -> JobRec] /\ slot' \in [Worker -> {Free} \cup SlotRec]
      /\ Working'
  BY <1>1, <1>2, <1>3, <1>5, <1>6, ReleaseStep DEF Stall
<1>8. lost' \subseteq Event /\ faults' \in 0..MaxFault
  BY <1>1 DEF Stall, GivesUp, Fail, Inv, Shape, GrantsAssumption
<1> QED BY <1>7, <1>8 DEF Stall, Inv, Working, Shape
-----------------------------------------------------------------------------
\* Every step keeps the invariant.
LEMMA NextInv ==
  ASSUME GrantsAssumption, Inv, [Next]_vars
  PROVE  Inv'
<1>1. CASE \E e \in Event : Publish(e) \/ Evict(e)
  BY <1>1, PublishInv, EvictInv
<1>2. CASE ConsumerStep \/ CommitOffset \/ EnqueueThrows \/ ConsumerCrash
  BY <1>2, ConsumerInv
<1>3. CASE \E w \in Worker : WorkerStep(w)
  BY <1>3, FetchInv, LoadInv, CompleteInv, GrantInv DEF WorkerStep
<1>4. CASE \E w \in Worker : Throw(w) \/ Stall(w)
  BY <1>4, ThrowInv, StallInv
<1>5. CASE UNCHANGED vars
  <2>1. Working'
    BY <1>5, ReadStep DEF vars
  <2> QED BY <1>5, <2>1 DEF vars, Inv, Shape, Working
<1> QED BY <1>1, <1>2, <1>3, <1>4, <1>5 DEF Next, Fault

\* The inductive invariant holds of every reachable state.
LEMMA Invariance == GrantsAssumption => (Spec => []Inv)
<1> SUFFICES ASSUME GrantsAssumption PROVE Spec => []Inv
  OBVIOUS
<1>1. Init => Inv
  BY InitInv
<1>2. Inv /\ [Next]_vars => Inv'
  BY NextInv
<1> QED BY <1>1, <1>2, PTL DEF Spec

\* Type correctness of the queue, its consumer and its workers: no job has more
\* attempts than RENEWAL_GRANT_ATTEMPTS or stalls a third time, and a worker
\* that holds a job's lock finds it active.
THEOREM TypeCorrect == GrantsAssumption => (Spec => []TypeOK)
<1> SUFFICES ASSUME GrantsAssumption PROVE Spec => []TypeOK
  OBVIOUS
<1>1. Inv => TypeOK
  <2> SUFFICES ASSUME Inv PROVE TypeOK
    OBVIOUS
  <2>1. \A w \in Worker : slot[w] = Free \/
          (slot[w] \in SlotRec /\ (slot[w].holds => job[slot[w].ev].state = "active"))
    BY DEF Inv, Shape, LockIsExclusive, Holds, SlotRec
  <2>2. ledger \in [Debt -> Nat]
    BY DEF Inv, Shape
  <2> QED BY <2>1, <2>2 DEF Inv, Shape, TypeOK, JobRec, SlotRec
<1> QED BY <1>1, Invariance, PTL
-----------------------------------------------------------------------------
(* The refinement *)

Owed == UNION {Owes(e) : e \in Published}

\* A message appended to the topic announces the debts of its renewal.
LEMMA PublishAnnounces ==
  ASSUME GrantsAssumption, Inv, NEW e \in Event, Publish(e)
  PROVE  Contract!Announce
<1>1. Inv' /\ Published' = Published \cup {e}
  BY PublishInv
<1>2. Owed' \in SUBSET Debt
  BY <1>1 DEF Owed, Owes, Debt, Published, Inv, Shape, GrantsAssumption
<1>3. Owed \subseteq Owed'
  BY <1>1 DEF Owed, Owes
<1> QED BY <1>2, <1>3 DEF Publish, Contract!Announce, Owed

\* addCredits pays one announced debt, or finds it paid.
LEMMA GrantPays ==
  ASSUME GrantsAssumption, Inv, NEW w \in Worker, NEW c \in Currency, addCredits(w, c)
  PROVE  (\E d \in Debt : Contract!Pay(d)) \/ UNCHANGED <<Owed, ledger>>
<1> DEFINE d == <<slot[w].ev, c>>
<1>1. /\ d \in Debt /\ d \in Owed
      /\ ledger' = IF ledger[d] = 0 THEN [ledger EXCEPT ![d] = 1] ELSE ledger
  BY GrantIsOwed DEF Owed
<1>2. Owed' = Owed
  BY DEF addCredits, Owed, Owes, Published
<1>3. CASE ledger[d] = 0
  <2>1. Contract!Pay(d)
    BY <1>1, <1>2, <1>3 DEF Contract!Pay, Owed
  <2> QED BY <1>1, <2>1
<1>4. CASE ledger[d] # 0
  BY <1>1, <1>2, <1>4
<1> QED BY <1>3, <1>4

\* Every other step leaves the topic and the ledger alone.
LEMMA NextRefines ==
  ASSUME GrantsAssumption, Inv, [Next]_vars
  PROVE  [Contract!Next]_(Contract!vars)
<1>1. CASE \E e \in Event : Publish(e)
  BY <1>1, PublishAnnounces DEF Contract!Next
<1>2. CASE \E w \in Worker, c \in Currency : addCredits(w, c)
  BY <1>2, GrantPays DEF Contract!Next, Contract!vars, Owed
<1>3. CASE UNCHANGED <<log, ledger>>
  BY <1>3 DEF Contract!vars, Published, Owes
<1>4. CASE \E e \in Event : Evict(e)
  BY <1>3, <1>4 DEF Evict
<1>5. CASE ConsumerStep \/ CommitOffset \/ EnqueueThrows \/ ConsumerCrash
  BY <1>3, <1>5 DEF ConsumerStep, Subscribe, Ignore, Enqueue, CommitOffset, EnqueueThrows,
                    ConsumerCrash
<1>6. CASE \E w \in Worker : \/ \E e \in Event : Fetch(w, e)
                             \/ loadProduct(w) \/ Complete(w) \/ Throw(w) \/ Stall(w)
  BY <1>3, <1>6 DEF Fetch, loadProduct, Complete, Throw, Stall
<1> QED
  BY <1>1, <1>2, <1>3, <1>4, <1>5, <1>6 DEF Next, Fault, WorkerStep, vars

\* "addCredits dedupes ..., so a duplicate webhook or a Kafka redelivery grants
\* nothing further" (grantProductCurrencies, runRenewalGrant): the whole
\* pipeline, with redeliveries, concurrent and unaware workers, retries and
\* forgotten job ids, implements a ledger that pays each debt of an announced
\* renewal at most once and nothing else.
THEOREM Refinement == GrantsAssumption => (Spec => GrantsImplementContract)
<1> SUFFICES ASSUME GrantsAssumption PROVE Spec => GrantsImplementContract
  OBVIOUS
<1>1. Init => Contract!Init
  BY DEF Init, Contract!Init, Published
<1>2. Inv /\ [Next]_vars => [Contract!Next]_(Contract!vars)
  BY NextRefines
<1> QED
  BY <1>1, <1>2, Invariance, PTL DEF Spec, GrantsImplementContract, Contract!Spec
=============================================================================
