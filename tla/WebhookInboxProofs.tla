------------------------- MODULE WebhookInboxProofs -------------------------
(***************************************************************************)
(* Proofs about the inbound webhook pipeline, for every set of events and  *)
(* workers, every lease, retry count and number of failures.               *)
(*                                                                         *)
(* The invariant has two halves.  Effects only accumulate, so what a       *)
(* handler has behind it at each step stays behind it (Behind), whoever    *)
(* else runs: a row marked PROCESSED is Done.  When handlers are prompt,   *)
(* a claim excludes every other claim, reclaim and settlement of its row   *)
(* (Held), which gives single flight and one bridge per event.             *)
(***************************************************************************)
EXTENDS WebhookInbox, TLAPS

\* A busy worker's record is complete and names an event of the system.
LEMMA BusyShape ==
  ASSUME Shape, NEW w \in Worker, Busy(w)
  PROVE  slot[w] \in BusySlot /\ Ev(w) \in Event
BY DEF Shape, Busy, Slot, BusySlot, IdleSlot, Ev, JobId

\* A row is a complete record.
LEMMA RowAt ==
  ASSUME Shape, NEW e \in Event
  PROVE  /\ row[e] \in [status: {"NONE", "PROCESSING", "PROCESSED", "FAILED"}, age: Int, retry: Int]
         /\ row[e].age + 1 \in Int /\ row[e].retry + 1 \in Int
BY DEF Shape

\* Effects accumulate.
Grows ==
  /\ effect' \in [Event -> SUBSET {"domain", "access", "credit"}]
  /\ outbox' \in [Event -> Nat]
  /\ \A e \in Event : effect[e] \subseteq effect'[e] /\ outbox[e] <= outbox'[e]

\* What was done stays done.
LEMMA DoneStays ==
  ASSUME Shape, Grows, NEW e \in Event, Done(e)
  PROVE  Done(e)'
BY DEF Shape, Grows, Done, Needed, Charged

\* A worker whose record a step leaves alone keeps what it has behind it.
LEMMA BehindStays ==
  ASSUME Shape, Grows, NEW w \in Worker, slot'[w] = slot[w],
         Handling(w) => Behind(w)
  PROVE  (Handling(w) => Behind(w))'
<1> SUFFICES ASSUME Handling(w), Behind(w) PROVE Behind(w)'
  BY DEF Handling
<1>1. Ev(w) \in Event /\ Ev(w)' = Ev(w)
  BY BusyShape DEF Handling, Busy, Ev
<1>2. Needed(Ev(w))' = Needed(Ev(w))
  BY <1>1 DEF Needed, Charged
<1>3. At(w, "mark") => Done(Ev(w))'
  BY <1>1, DoneStays DEF Behind
<1> QED
  BY <1>1, <1>2, <1>3 DEF Behind, At, Grows, Shape

\* Rows other than PROCESSED ones owe nothing.
LEMMA DoneInvStays ==
  ASSUME Shape, Grows, ProcessedMeansDone,
         \A e \in Event : row'[e].status = "PROCESSED" => row[e].status = "PROCESSED" \/ Done(e)
  PROVE  ProcessedMeansDone'
<1> SUFFICES ASSUME NEW e \in Event, row'[e].status = "PROCESSED" PROVE Done(e)'
  BY DEF ProcessedMeansDone
<1> QED
  BY DoneStays DEF ProcessedMeansDone

-----------------------------------------------------------------------------
(* One lemma for the steps that change one worker and only add effects *)

\* Worker w moves on, keeps its event if it still handles one, and has its new
\* step's effects behind it.
LEMMA LocalStep ==
  ASSUME IInv, NEW w \in Worker, NEW s \in Slot,
         slot' = [slot EXCEPT ![w] = s], UNCHANGED <<row, outbox, outgoing>>, Grows,
         s.pc \notin {"idle", "claim"} => Handling(w) /\ s.job = slot[w].job /\ Behind(w)',
         s.pc = "insert" /\ ~s.bridged => outbox[s.job.ev] = 0
  PROVE  IInv'
<1>1. Shape'
  BY DEF IInv, Shape, Grows
<1>2. ASSUME NEW u \in Worker PROVE (Handling(u) => Behind(u))'
  <2>1. CASE u = w
    BY <2>1 DEF Handling, IInv, Shape
  <2>2. CASE u # w
    BY <2>2, BehindStays DEF IInv, Shape
  <2> QED BY <2>1, <2>2
<1>3. ProcessedMeansDone'
  BY DoneInvStays DEF IInv
<1>4. ASSUME Prompt, NEW u \in Worker PROVE (Handling(u) => Held(u))'
  <2>1. Handling(u) => Held(u)
    BY <1>4 DEF IInv
  <2>2. CASE u = w
    BY <2>1, <2>2 DEF Handling, Held, At, Ev, IInv, Shape
  <2>3. CASE u # w
    BY <2>1, <2>3 DEF Handling, Held, At, Ev, IInv, Shape
  <2> QED BY <2>2, <2>3
<1>5. ASSUME Prompt PROVE SingleFlight'
  <2> SUFFICES ASSUME NEW u \in Worker, NEW v \in Worker, u # v, Handling(u)', Handling(v)'
               PROVE  Ev(u)' # Ev(v)'
    BY DEF SingleFlight
  <2>1. Handling(u) /\ Ev(u)' = Ev(u)
    BY DEF Handling, Ev, IInv, Shape
  <2>2. Handling(v) /\ Ev(v)' = Ev(v)
    BY DEF Handling, Ev, IInv, Shape
  <2> QED BY <1>5, <2>1, <2>2 DEF IInv, SingleFlight
<1>6. Prompt => BridgedOnce'
  BY DEF IInv, BridgedOnce
<1> QED
  BY <1>1, <1>2, <1>3, <1>4, <1>5, <1>6 DEF IInv

\* A worker that lets go of its job, or is only about to claim, owes nothing.
LEMMA ReleaseStep ==
  ASSUME IInv, NEW w \in Worker, NEW s \in Slot, s.pc \in {"idle", "claim", "fail"},
         s.pc = "fail" => Handling(w) /\ s.job = slot[w].job,
         slot' = [slot EXCEPT ![w] = s], UNCHANGED <<row, effect, outbox, outgoing>>
  PROVE  IInv'
<1>1. Grows
  BY DEF IInv, Shape, Grows
<1>2. s.pc = "fail" => Behind(w)'
  BY DEF Behind, At, IInv, Shape
<1> QED
  BY <1>1, <1>2, LocalStep

\* Taking a job, refused claims, throws and crashes.
LEMMA ReleaseSteps ==
  ASSUME IInv, NEW w \in Worker,
         \/ \E j \in JobId : Fetch(w, j)
         \/ ClaimDuplicate(w) \/ ClaimInProgress(w)
         \/ Throw(w) \/ MarkFailedThrows(w) \/ Crash(w)
  PROVE  IInv'
<1> USE DEF IInv
<1>1. ASSUME NEW j \in JobId, Fetch(w, j) PROVE IInv'
  <2> DEFINE s == [pc |-> "claim", job |-> j, bridged |-> FALSE, sent |-> FALSE]
  <2>1. s \in Slot
    BY DEF Slot, BusySlot
  <2> QED
    BY <1>1, <2>1, ReleaseStep DEF Fetch
<1>2. ASSUME slot' = [slot EXCEPT ![w] = IdleSlot], UNCHANGED <<row, effect, outbox, outgoing>>
      PROVE  IInv'
  <2>1. IdleSlot \in Slot /\ IdleSlot.pc = "idle"
    BY DEF Slot, IdleSlot
  <2> QED
    BY <1>2, <2>1, ReleaseStep
<1>3. CASE ClaimDuplicate(w)
  BY <1>2, <1>3 DEF ClaimDuplicate, CompleteJob
<1>4. CASE ClaimInProgress(w)
  BY <1>2, <1>4 DEF ClaimInProgress, FailAttempt
<1>5. CASE MarkFailedThrows(w)
  BY <1>2, <1>5 DEF MarkFailedThrows, FailAttempt
<1>6. CASE Crash(w)
  BY <1>2, <1>6 DEF Crash
<1>7. CASE Throw(w)
  <2>1. CASE FailAttempt(w)
    BY <1>2, <1>7, <2>1 DEF Throw, FailAttempt
  <2>2. CASE Goto(w, "fail") /\ ~At(w, "claim")
    <3> DEFINE s == [slot[w] EXCEPT !.pc = "fail"]
    <3>1. slot[w] \in BusySlot
      BY <1>7, BusyShape DEF Throw
    <3>2. s \in Slot /\ s.pc = "fail" /\ s.job = slot[w].job
      BY <3>1 DEF Slot, BusySlot
    <3>3. slot' = [slot EXCEPT ![w] = s]
      BY <2>2 DEF Goto, Shape
    <3>4. Handling(w)
      BY <1>7, <2>2 DEF Throw, Handling, At, Busy
    <3> QED
      BY <1>7, <3>2, <3>3, <3>4, ReleaseStep DEF Throw
  <2> QED
    BY <1>7, <2>1, <2>2 DEF Throw
<1> QED
  BY <1>1, <1>3, <1>4, <1>5, <1>6, <1>7

\* The handler's steps up to the insert each leave their effect behind.
LEMMA EffectSteps ==
  ASSUME IInv, NEW w \in Worker,
         Dispatch(w) \/ SyncAccess(w) \/ Credit(w) \/ CheckOutgoing(w)
  PROVE  IInv'
<1>1. PICK e \in Event :
        e = Ev(w) /\ slot[w] \in BusySlot /\ Handling(w) /\ Behind(w) /\ Shape
  <2>1. Busy(w) /\ Handling(w)
    BY DEF Dispatch, SyncAccess, Credit, CheckOutgoing, At, Busy, Handling
  <2> QED
    BY <2>1, BusyShape DEF IInv
<1>2. Grows
  BY <1>1 DEF Dispatch, SyncAccess, Credit, CheckOutgoing, Shape, Grows
<1>3. PICK pc \in {"access", "credit", "check", "insert", "mark"},
           b \in BOOLEAN, t \in BOOLEAN :
        /\ slot' = [slot EXCEPT ![w] = [slot[w] EXCEPT !.pc = pc, !.bridged = b, !.sent = t]]
        /\ pc = "insert" /\ ~b => outbox[e] = 0
        /\ pc = "insert" /\ b => outbox[e] > 0
        /\ pc = "insert" => CheckOutgoing(w)
        /\ pc = "access" => Dispatch(w) /\ Fact[e].verify
        /\ pc = "credit" => SyncAccess(w)
        /\ pc = "check" => Credit(w)
        /\ pc = "mark" => Dispatch(w) /\ ~(Fact[e].verify /\ Fact[e].subscriber)
  <2>1. CASE Dispatch(w)
    <3>1. CASE Fact[e].verify /\ Fact[e].subscriber
      <4>1. slot' = [slot EXCEPT ![w].pc = "access"]
        BY <1>1, <2>1, <3>1 DEF Dispatch, Goto
      <4> QED
        BY ZenonT(60), <1>1, <2>1, <3>1, <4>1 DEF Shape, BusySlot
    <3>2. CASE ~(Fact[e].verify /\ Fact[e].subscriber)
      <4>1. slot' = [slot EXCEPT ![w].pc = "mark"]
        BY <1>1, <2>1, <3>2 DEF Dispatch, Goto
      <4> QED
        BY ZenonT(60), <1>1, <2>1, <3>2, <4>1 DEF Shape, BusySlot
    <3> QED BY <3>1, <3>2
  <2>2. CASE SyncAccess(w)
    BY ZenonT(60), <1>1, <2>2 DEF SyncAccess, Goto, Shape, BusySlot
  <2>3. CASE Credit(w)
    BY ZenonT(60), <1>1, <2>3 DEF Credit, Goto, Shape, BusySlot
  <2>4. CASE CheckOutgoing(w)
    <3>1. AlreadyBridged(e) \in BOOLEAN /\ AlreadySent(e) \in BOOLEAN
      <4>1. AlreadyBridged(e) \in BOOLEAN /\ (outgoing[e] > 0) \in BOOLEAN
        BY <1>1 DEF AlreadyBridged, Shape
      <4>2. CASE Fact[e].purchase = None
        BY <4>1, <4>2 DEF AlreadySent
      <4>3. CASE Fact[e].purchase # None
        BY <4>1, <4>3, Zenon DEF AlreadySent
      <4> QED BY <4>2, <4>3, <4>1
    <3>2. (AlreadyBridged(e) => outbox[e] > 0) /\ (~AlreadyBridged(e) => outbox[e] = 0)
      BY <1>1 DEF AlreadyBridged, Shape
    <3> QED
      BY <1>1, <2>4, <3>1, <3>2 DEF CheckOutgoing, Shape, BusySlot
  <2> QED
    BY <2>1, <2>2, <2>3, <2>4
<1> DEFINE s == [slot[w] EXCEPT !.pc = pc, !.bridged = b, !.sent = t]
<1>4. s \in Slot /\ s.pc = pc /\ s.job = slot[w].job /\ s.bridged = b
  BY <1>1 DEF Slot, BusySlot
<1>5. slot'[w] = s /\ Ev(w)' = e
  BY <1>1, <1>3, <1>4 DEF Shape, Ev
<1>6. Behind(w)'
  <2>1. pc = "access" => "domain" \in effect'[e]
    BY <1>1, <1>3 DEF Dispatch, Shape
  <2>2. pc = "credit" => {"domain", "access"} \subseteq effect'[e]
    BY <1>1, <1>3 DEF SyncAccess, Shape, Behind, At
  <2>3. pc = "check" => Needed(e) \subseteq effect'[e]
    BY <1>1, <1>3 DEF Credit, Shape, Behind, At, Needed
  <2>4. pc = "insert" => Needed(e) \subseteq effect'[e]
    BY <1>1, <1>3 DEF CheckOutgoing, Shape, Behind, At
  <2>5. pc = "mark" => Done(e)'
    BY <1>1, <1>3, InboxAssumption DEF Dispatch, Shape, Done, Needed
  <2>6. outbox' = outbox
    BY DEF Dispatch, SyncAccess, Credit, CheckOutgoing
  <2> QED
    BY <1>3, <1>4, <1>5, <2>1, <2>2, <2>3, <2>4, <2>5, <2>6 DEF Behind, At, Needed, Charged
<1>7. UNCHANGED <<row, outbox, outgoing>>
  BY DEF Dispatch, SyncAccess, Credit, CheckOutgoing
<1> QED
  BY <1>1, <1>2, <1>3, <1>4, <1>6, <1>7, LocalStep DEF Ev

-----------------------------------------------------------------------------
(* The steps that write the row or the outbox *)

\* What a busy worker's step may rely on.
LEMMA StepFacts ==
  ASSUME IInv, NEW w \in Worker, Busy(w)
  PROVE  \E e \in Event :
           /\ e = Ev(w) /\ slot[w] \in BusySlot /\ Shape
           /\ Handling(w) => Behind(w)
           /\ Prompt /\ Handling(w) => Held(w)
           /\ \A u \in Worker : Prompt /\ Handling(w) /\ Handling(u) /\ u # w => Ev(u) # e
BY BusyShape DEF IInv, SingleFlight

\* A claim is only granted on a row nobody handles.
LEMMA ClaimStep ==
  ASSUME IInv, NEW w \in Worker, Claim(w)
  PROVE  IInv'
<1>1. PICK e \in Event : e = Ev(w) /\ slot[w] \in BusySlot /\ Shape
  BY StepFacts DEF Claim, At, Busy
<1>2. /\ Claimable(e) /\ UNCHANGED <<effect, outbox, outgoing>>
      /\ row' = [row EXCEPT ![e] = [status |-> "PROCESSING", age |-> 0, retry |-> row[e].retry]]
      /\ slot' = [slot EXCEPT ![w] = [slot[w] EXCEPT !.pc = "dispatch"]]
  BY <1>1 DEF Claim, Goto, Shape
<1>3. Shape' /\ Grows
  <2>1. slot' \in [Worker -> Slot]
    BY <1>1, <1>2 DEF Shape, Slot, BusySlot
  <2>2. row' \in [Event -> [status: {"NONE", "PROCESSING", "PROCESSED", "FAILED"},
                           age: Int, retry: Int]]
    <3> DEFINE r == [status |-> "PROCESSING", age |-> 0, retry |-> row[e].retry]
    <3>1. r \in [status: {"NONE", "PROCESSING", "PROCESSED", "FAILED"}, age: Int, retry: Int]
      BY <1>1, RowAt
    <3>2. row' = [row EXCEPT ![e] = r]
      BY <1>1, <1>2 DEF Shape
    <3> HIDE DEF r
    <3> QED
      BY <1>1, <3>1, <3>2 DEF Shape
  <2> QED
    BY <1>1, <1>2, <2>1, <2>2 DEF Shape, Grows
<1>4. slot'[w].pc = "dispatch" /\ Ev(w)' = e /\ row'[e].status = "PROCESSING" /\ row'[e].age = 0
  BY <1>1, <1>2 DEF Shape, BusySlot, Ev
<1>5. ASSUME NEW u \in Worker PROVE (Handling(u) => Behind(u))'
  <2>1. CASE u = w
    BY <1>4, <2>1 DEF Behind, At
  <2>2. CASE u # w
    BY <1>1, <1>2, <1>3, <2>2, BehindStays DEF IInv, Shape
  <2> QED BY <2>1, <2>2
<1>6. ProcessedMeansDone'
  <2>1. \A f \in Event : row'[f].status = "PROCESSED" => row[f].status = "PROCESSED"
    BY <1>1, <1>2 DEF Shape
  <2> QED BY <1>1, <1>3, <2>1, DoneInvStays DEF IInv
<1>7. ASSUME Prompt PROVE /\ \A u \in Worker : (Handling(u) => Held(u))'
                          /\ SingleFlight' /\ BridgedOnce'
  <2>1. ASSUME NEW u \in Worker, u # w, Handling(u)'
        PROVE  Handling(u) /\ Ev(u)' = Ev(u) /\ Ev(u) # e /\ Ev(u) \in Event /\ Held(u)
    <3>1. Handling(u) /\ Ev(u)' = Ev(u)
      BY <1>1, <1>2, <2>1 DEF Handling, Ev, Shape
    <3>2. Held(u)
      BY <1>7, <3>1 DEF IInv
    <3>3. Ev(u) \in Event
      BY <1>1, <3>1, BusyShape DEF Handling, Busy
    <3>4. Ev(u) # e
      BY <1>1, <1>2, <3>2, <3>3, InboxAssumption DEF Held, Claimable, Shape
    <3> QED BY <3>1, <3>2, <3>3, <3>4
  <2>2. ASSUME NEW u \in Worker, Handling(u)' PROVE Held(u)'
    <3>1. CASE u = w
      BY <1>4, <3>1, InboxAssumption DEF Held, At
    <3>2. CASE u # w
      BY <1>1, <1>2, <2>1, <2>2, <3>2 DEF Held, At, Shape
    <3> QED BY <3>1, <3>2
  <2>3. SingleFlight'
    <3> SUFFICES ASSUME NEW u \in Worker, NEW v \in Worker, u # v, Handling(u)', Handling(v)'
                 PROVE  Ev(u)' # Ev(v)'
      BY DEF SingleFlight
    <3>1. CASE u = w
      BY <1>4, <2>1, <3>1
    <3>2. CASE v = w
      BY <1>4, <2>1, <3>2
    <3>3. CASE u # w /\ v # w
      BY <1>7, <2>1, <3>3 DEF IInv, SingleFlight
    <3> QED BY <3>1, <3>2, <3>3
  <2>4. BridgedOnce'
    BY <1>2, <1>7 DEF IInv, BridgedOnce
  <2> QED BY <2>2, <2>3, <2>4
<1> QED
  BY <1>3, <1>5, <1>6, <1>7 DEF IInv

\* The insert leaves the outbox row behind; nobody else was about to insert it.
LEMMA InsertStep ==
  ASSUME IInv, NEW w \in Worker, InsertOutgoing(w)
  PROVE  IInv'
<1>0. Busy(w) /\ Handling(w) /\ slot[w].pc = "insert"
  BY DEF InsertOutgoing, At, Busy, Handling
<1>1. PICK e \in Event :
           /\ e = Ev(w) /\ slot[w] \in BusySlot /\ Shape
           /\ Behind(w)
           /\ Prompt => Held(w)
           /\ \A u \in Worker : Prompt /\ Handling(u) /\ u # w => Ev(u) # e
  BY <1>0, StepFacts
<1>2. /\ UNCHANGED <<effect, row>>
      /\ outbox' = IF Fact[e].public /\ ~slot[w].bridged THEN [outbox EXCEPT ![e] = @ + 1] ELSE outbox
      /\ outgoing' = IF Fact[e].v1 /\ ~slot[w].sent THEN [outgoing EXCEPT ![e] = @ + 1] ELSE outgoing
      /\ slot' = [slot EXCEPT ![w] = [slot[w] EXCEPT !.pc = "mark"]]
  BY <1>1 DEF InsertOutgoing, Goto, Shape
<1>3. /\ outbox' \in [Event -> Nat] /\ outgoing' \in [Event -> Nat]
      /\ \A f \in Event : outbox[f] <= outbox'[f] /\ (f # e => outbox'[f] = outbox[f])
      /\ outbox'[e] = outbox[e] \/ (~slot[w].bridged /\ outbox'[e] = outbox[e] + 1)
      /\ Fact[e].public => outbox'[e] > 0
  BY <1>0, <1>1, <1>2, InboxAssumption DEF Shape, Behind, At
<1>4. Shape' /\ Grows
  BY <1>1, <1>2, <1>3 DEF Shape, Grows, Slot, BusySlot
<1>5. slot'[w].pc = "mark" /\ Ev(w)' = e
  BY <1>1, <1>2 DEF Shape, BusySlot, Ev
<1>6. ASSUME NEW u \in Worker PROVE (Handling(u) => Behind(u))'
  <2>1. CASE u = w
    <3>1. Done(e)'
      BY <1>0, <1>1, <1>2, <1>3 DEF Done, Needed, Charged, Behind
    <3> QED
      BY <1>5, <2>1, <3>1 DEF Behind, At
  <2>2. CASE u # w
    BY <1>1, <1>2, <1>4, <2>2, BehindStays DEF IInv, Shape
  <2> QED BY <2>1, <2>2
<1>7. ProcessedMeansDone'
  BY <1>1, <1>2, <1>4, DoneInvStays DEF IInv
<1>8. ASSUME Prompt PROVE /\ \A u \in Worker : (Handling(u) => Held(u))'
                          /\ SingleFlight' /\ BridgedOnce'
  <2>1. ASSUME NEW u \in Worker, u # w, Handling(u)'
        PROVE  Handling(u) /\ slot'[u] = slot[u] /\ Ev(u)' = Ev(u) /\ Ev(u) # e
               /\ Ev(u) \in Event /\ Held(u)
    <3>1. Handling(u) /\ slot'[u] = slot[u] /\ Ev(u)' = Ev(u)
      BY <1>1, <1>2, <2>1 DEF Handling, Ev, Shape
    <3> QED
      BY <1>1, <1>8, <2>1, <3>1, BusyShape DEF IInv, Handling, Busy
  <2>2. ASSUME NEW u \in Worker, Handling(u)' PROVE Held(u)'
    <3>1. CASE u = w
      BY <1>1, <1>2, <1>5, <1>8, <3>1 DEF Held, At
    <3>2. CASE u # w
      BY <1>2, <1>3, <2>1, <2>2, <3>2 DEF Held, At
    <3> QED BY <3>1, <3>2
  <2>3. SingleFlight'
    <3> SUFFICES ASSUME NEW u \in Worker, NEW v \in Worker, u # v, Handling(u)', Handling(v)'
                 PROVE  Ev(u)' # Ev(v)'
      BY DEF SingleFlight
    <3>1. CASE u = w
      BY <1>5, <2>1, <3>1
    <3>2. CASE v = w
      BY <1>5, <2>1, <3>2
    <3>3. CASE u # w /\ v # w
      BY <1>8, <2>1, <3>3 DEF IInv, SingleFlight
    <3> QED BY <3>1, <3>2, <3>3
  <2>4. BridgedOnce'
    <3>1. ~slot[w].bridged => outbox[e] = 0
      BY <1>0, <1>1, <1>8 DEF Held, At
    <3> QED
      BY <1>1, <1>3, <1>8, <3>1 DEF IInv, BridgedOnce, Shape
  <2> QED BY <2>2, <2>3, <2>4
<1> QED
  BY <1>4, <1>6, <1>7, <1>8 DEF IInv

\* Settling a row.  A handler marks PROCESSED only what is done, and under
\* Prompt nobody else is handling the row.
LEMMA SettleStep ==
  ASSUME IInv, NEW w \in Worker, MarkProcessed(w) \/ MarkFailed(w)
  PROVE  IInv'
<1>0. Busy(w) /\ Handling(w)
  BY DEF MarkProcessed, MarkFailed, At, Busy, Handling
<1>1. PICK e \in Event :
           /\ e = Ev(w) /\ Shape /\ Behind(w)
           /\ \A u \in Worker : Prompt /\ Handling(u) /\ u # w => Ev(u) # e
  BY <1>0, StepFacts
<1>2. PICK r \in [status: {"PROCESSED", "FAILED"}, age: Int, retry: Int] :
        /\ row' = [row EXCEPT ![e] = r]
        /\ r.status = "PROCESSED" => Done(e)
  <2>1. CASE MarkProcessed(w)
    <3>1. Done(e)
      BY <1>1, <2>1 DEF MarkProcessed, Behind
    <3> QED
      BY <1>1, <2>1, <3>1 DEF MarkProcessed, Shape
  <2>2. CASE MarkFailed(w)
    <3> DEFINE r == [row[e] EXCEPT !.status = "FAILED", !.retry = @ + 1]
    <3>1. r \in [status: {"PROCESSED", "FAILED"}, age: Int, retry: Int] /\ r.status = "FAILED"
      BY <1>1, RowAt
    <3>2. row' = [row EXCEPT ![e] = r]
      BY <1>1, <2>2 DEF MarkFailed, Shape
    <3> QED
      BY <3>1, <3>2
  <2> QED BY <2>1, <2>2
<1>3. UNCHANGED <<effect, outbox, outgoing>> /\ slot' = [slot EXCEPT ![w] = IdleSlot]
  BY DEF MarkProcessed, MarkFailed, CompleteJob, FailAttempt
<1>4. Shape' /\ Grows
  BY <1>1, <1>2, <1>3 DEF Shape, Grows, Slot
<1>5. ASSUME NEW u \in Worker, Handling(u)'
      PROVE  u # w /\ Handling(u) /\ slot'[u] = slot[u] /\ Ev(u)' = Ev(u)
  BY <1>1, <1>3, <1>5 DEF Handling, Ev, Shape, IdleSlot
<1>6. ASSUME NEW u \in Worker PROVE (Handling(u) => Behind(u))'
  BY <1>1, <1>4, <1>5, BehindStays DEF IInv
<1>7. ProcessedMeansDone'
  <2>1. \A f \in Event : row'[f].status = "PROCESSED" => row[f].status = "PROCESSED" \/ Done(f)
    BY <1>1, <1>2 DEF Shape
  <2> QED BY <1>1, <1>4, <2>1, DoneInvStays DEF IInv
<1>8. ASSUME Prompt PROVE /\ \A u \in Worker : (Handling(u) => Held(u))'
                          /\ SingleFlight' /\ BridgedOnce'
  <2>1. ASSUME NEW u \in Worker, Handling(u)' PROVE Held(u)'
    <3>1. Held(u) /\ Ev(u) # e /\ Ev(u)' = Ev(u) /\ slot'[u] = slot[u]
      BY <1>1, <1>5, <1>8, <2>1 DEF IInv
    <3> QED BY <1>1, <1>2, <1>3, <3>1 DEF Held, At, Shape
  <2>2. SingleFlight'
    BY <1>5, <1>8 DEF IInv, SingleFlight
  <2>3. BridgedOnce'
    BY <1>3, <1>8 DEF IInv, BridgedOnce
  <2> QED BY <2>1, <2>2, <2>3
<1> QED
  BY <1>4, <1>6, <1>7, <1>8 DEF IInv

\* Steps that touch rows but no worker: they leave PROCESSED rows alone, and,
\* under Prompt, the claims of live handlers unexpired.
LEMMA RowStep ==
  ASSUME IInv, UNCHANGED <<slot, effect, outbox, outgoing>>,
         row' \in [Event -> [status: {"NONE", "PROCESSING", "PROCESSED", "FAILED"},
                            age: Int, retry: Int]],
         \A e \in Event : row'[e].status = "PROCESSED" => row[e].status = "PROCESSED",
         \A w \in Worker : Prompt /\ Handling(w) =>
            row'[Ev(w)].status = "PROCESSING" /\ row'[Ev(w)].age <= Lease
  PROVE  IInv'
<1>1. Shape' /\ Shape /\ Grows
  BY DEF IInv, Shape, Grows
<1>2. ASSUME NEW u \in Worker PROVE (Handling(u) => Behind(u))'
  BY <1>1, BehindStays DEF IInv
<1>3. ProcessedMeansDone'
  BY <1>1, DoneInvStays DEF IInv
<1>4. Prompt => \A u \in Worker : (Handling(u) => Held(u))'
  BY DEF IInv, Handling, Held, At, Ev
<1>5. Prompt => SingleFlight' /\ BridgedOnce'
  BY DEF IInv, SingleFlight, BridgedOnce, Handling, Ev
<1> QED
  BY <1>1, <1>2, <1>3, <1>4, <1>5 DEF IInv

\* The reaper takes only expired claims, and time stops short of the lease of a
\* prompt handler.
LEMMA TimeAndReaper ==
  ASSUME IInv, Reclaim \/ Tick
  PROVE  IInv'
<1>1. /\ UNCHANGED <<slot, effect, outbox, outgoing>>
      /\ row' \in [Event -> [status: {"NONE", "PROCESSING", "PROCESSED", "FAILED"},
                             age: Int, retry: Int]]
      /\ \A e \in Event : row'[e].status = "PROCESSED" => row[e].status = "PROCESSED"
  <2> DEFINE RowType == [status: {"NONE", "PROCESSING", "PROCESSED", "FAILED"}, age: Int, retry: Int]
  <2>0. Shape
    BY DEF IInv
  <2>1. CASE Reclaim
    <3>1. ASSUME NEW e \in Event
          PROVE  /\ [row[e] EXCEPT !.status = "FAILED", !.retry = @ + 1] \in RowType
                 /\ [row[e] EXCEPT !.status = "FAILED", !.retry = @ + 1].status = "FAILED"
                 /\ row[e] \in RowType
      BY <2>0, RowAt
    <3> HIDE DEF RowType
    <3>2. row' \in [Event -> RowType]
      BY <2>1, <3>1 DEF Reclaim
    <3>3. \A e \in Event : row'[e].status = "PROCESSED" => row[e].status = "PROCESSED"
      BY <2>1, <3>1 DEF Reclaim
    <3> QED
      BY <2>1, <3>2, <3>3 DEF Reclaim, RowType
  <2>2. CASE Tick
    <3>1. ASSUME NEW e \in Event
          PROVE  /\ [row[e] EXCEPT !.age = @ + 1] \in RowType
                 /\ [row[e] EXCEPT !.age = @ + 1].status = row[e].status
                 /\ row[e] \in RowType
      BY <2>0, RowAt
    <3> HIDE DEF RowType
    <3>2. row' \in [Event -> RowType]
      BY <2>2, <3>1 DEF Tick
    <3>3. \A e \in Event : row'[e].status = "PROCESSED" => row[e].status = "PROCESSED"
      BY <2>2, <3>1 DEF Tick
    <3> QED
      BY <2>2, <3>2, <3>3 DEF Tick, RowType
  <2> QED BY <2>1, <2>2
<1>2. ASSUME NEW w \in Worker, Prompt, Handling(w)
      PROVE  row'[Ev(w)].status = "PROCESSING" /\ row'[Ev(w)].age <= Lease
  <2>1. Ev(w) \in Event /\ Held(w) /\ Shape
    BY <1>2, BusyShape DEF IInv, Handling, Busy
  <2>2. CASE Reclaim
    <3> DEFINE e == Ev(w)
    <3>1. ~(row[e].age > Lease)
      BY <2>1, RowAt, InboxAssumption DEF Held
    <3>2. row'[e] = row[e]
      BY <2>1, <2>2, <3>1 DEF Reclaim
    <3> QED
      BY <2>1, <3>2 DEF Held
  <2>3. CASE Tick
    <3> DEFINE e == Ev(w)
    <3>1. row[e].age < Lease
      BY <1>2, <2>3 DEF Tick
    <3>2. row'[e] = row[e] \/ row'[e] = [row[e] EXCEPT !.age = @ + 1]
      BY <2>1, <2>3 DEF Tick
    <3>3. row[e] \in [status: {"NONE", "PROCESSING", "PROCESSED", "FAILED"}, age: Int, retry: Int]
      BY <2>1, RowAt
    <3> QED
      BY <2>1, <3>1, <3>2, <3>3, InboxAssumption DEF Held
  <2> QED BY <2>2, <2>3
<1> QED
  BY <1>1, <1>2, RowStep

\* Steps of the route, the reaper's loop and stuttering.
LEMMA OtherStep ==
  ASSUME IInv, UNCHANGED <<row, slot, effect, outbox, outgoing>>
  PROVE  IInv'
<1>1. \A w \in Worker : Prompt /\ Handling(w) =>
            row'[Ev(w)].status = "PROCESSING" /\ row'[Ev(w)].age <= Lease
  BY DEF IInv, Held
<1> QED
  BY <1>1, RowStep DEF IInv, Shape

-----------------------------------------------------------------------------
(* The theorems *)

\* Nothing has been delivered.
LEMMA InitIInv == Init => IInv
BY InboxAssumption DEF Init, IInv, Shape, Slot, Handling, ProcessedMeansDone, IdleSlot,
                       SingleFlight, BridgedOnce

\* Every step keeps the invariant.
LEMMA NextIInv == IInv /\ [Next]_vars => IInv'
<1> SUFFICES ASSUME IInv, [Next]_vars PROVE IInv'
  OBVIOUS
<1>1. ASSUME NEW e \in Event, Route(e) PROVE IInv'
  BY <1>1, OtherStep DEF Route, Deliver, Duplicate, FailOpen, EnqueueFails
<1>2. ASSUME NEW w \in Worker, WorkerStep(w) PROVE IInv'
  BY <1>2, ReleaseSteps, ClaimStep, EffectSteps, InsertStep, SettleStep DEF WorkerStep
<1>3. CASE Fault
  BY <1>3, ReleaseSteps, OtherStep DEF Fault, ReaperCrash
<1>4. CASE ReaperStep
  BY <1>4, TimeAndReaper, OtherStep DEF ReaperStep, Requeue
<1>5. CASE Tick
  BY <1>5, TimeAndReaper
<1>6. CASE UNCHANGED vars
  BY <1>6, OtherStep DEF vars
<1> QED
  BY <1>1, <1>2, <1>3, <1>4, <1>5, <1>6 DEF Next

\* IInv holds of every reachable state of the webhook pipeline.
THEOREM InboxInvariant == Spec => []IInv
BY InitIInv, NextIInv, PTL DEF Spec

\* A PROCESSED webhook event has had all its effects, whatever crashed, threw
\* or overran its lease (the PROCESSED mark comes last in every handler).
THEOREM InboxProcessedMeansDone == Spec => []ProcessedMeansDone
<1>1. IInv => ProcessedMeansDone
  BY DEF IInv
<1> QED
  BY <1>1, InboxInvariant, PTL

\* The claim admits one handler per event while handlers keep within the lease
\* (claimWebhookEvent's setWhere against the reaper and time).
THEOREM InboxSingleFlight == Prompt => (Spec => []SingleFlight)
<1> SUFFICES ASSUME Prompt PROVE Spec => []SingleFlight
  OBVIOUS
<1>1. IInv => SingleFlight
  BY DEF IInv
<1> QED
  BY <1>1, InboxInvariant, PTL

\* ... and then each event is bridged to the outbox at most once, although
\* enqueueOutgoingWebhook only checks and inserts.
THEOREM InboxBridgedOnce == Prompt => (Spec => []BridgedOnce)
<1> SUFFICES ASSUME Prompt PROVE Spec => []BridgedOnce
  OBVIOUS
<1>1. IInv => BridgedOnce
  BY DEF IInv
<1> QED
  BY <1>1, InboxInvariant, PTL

\* ... and no late writer takes a PROCESSED row back (updateWebhookEvent writes
\* by id alone).
THEOREM InboxProcessedIsFinal == Prompt => (Spec => ProcessedIsFinal)
<1> SUFFICES ASSUME Prompt PROVE Spec => ProcessedIsFinal
  OBVIOUS
<1>1. ASSUME IInv, Next, NEW e \in Event, row[e].status = "PROCESSED"
      PROVE  row'[e].status = "PROCESSED"
  <2> USE <1>1
  <2>1. Shape
    BY DEF IInv
  <2>2. ASSUME NEW w \in Worker, Handling(w)
        PROVE  Ev(w) # e /\ Ev(w) \in Event
    BY <2>1, <2>2, BusyShape DEF IInv, Held, Handling, Busy
  <2>3. CASE row' = row
    BY <2>3
  <2>4. ASSUME NEW w \in Worker, Claim(w) PROVE row'[e].status = "PROCESSED"
    <3>1. Ev(w) \in Event
      BY <2>1, <2>4, BusyShape DEF Claim, At, Busy
    <3> QED
      BY <2>1, <2>4, <3>1 DEF Claim, Claimable, Shape
  <2>5. ASSUME NEW w \in Worker, MarkProcessed(w) PROVE row'[e].status = "PROCESSED"
    BY <2>1, <2>2, <2>5 DEF MarkProcessed, At, Handling, Shape
  <2>6. ASSUME NEW w \in Worker, MarkFailed(w) PROVE row'[e].status = "PROCESSED"
    BY <2>1, <2>2, <2>6 DEF MarkFailed, At, Handling, Shape
  <2>7. CASE Reclaim
    BY <2>1, <2>7 DEF Reclaim, Shape
  <2>8. CASE Tick
    BY <2>1, <2>8 DEF Tick, Shape
  <2> QED
    BY <2>3, <2>4, <2>5, <2>6, <2>7, <2>8
    DEF Next, Route, Deliver, Duplicate, FailOpen, EnqueueFails, WorkerStep, Fetch,
        ClaimDuplicate, ClaimInProgress, Dispatch, SyncAccess, Credit, CheckOutgoing,
        InsertOutgoing, Fault, Throw, MarkFailedThrows, Crash, ReaperCrash, ReaperStep, Requeue
<1>2. IInv /\ [Next]_vars =>
        [\A e \in Event : row[e].status = "PROCESSED" => row'[e].status = "PROCESSED"]_vars
  BY <1>1
<1> QED
  BY <1>2, InboxInvariant, PTL DEF Spec, ProcessedIsFinal
=============================================================================
