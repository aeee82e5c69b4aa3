-------------------------- MODULE RequestGuardProofs --------------------------
(***************************************************************************)
(* The two guards around a request: the Idempotency-Key middleware in      *)
(* front of the spend route, and the circuit breaker in front of the store *)
(* APIs.  For every set of requests, operations, wallets and calls, and    *)
(* every threshold and bound.                                              *)
(***************************************************************************)
EXTENDS SpendRequests, FiniteSetTheorems, TLAPS

CONSTANTS Call, failureThreshold, halfOpenRequests, Reset, MaxOutage

VARIABLES state, failures, halfOpenSuccessCount, halfOpenInFlight, opened, call, up, outages,
          forgotten

Breaker == INSTANCE CircuitBreaker
-----------------------------------------------------------------------------
(* The circuit breaker *)

\* While no probe was forgotten, the counter is the number of probes.
SlotsAreProbes ==
  /\ IsFiniteSet(Breaker!Probes)
  /\ halfOpenInFlight <= Cardinality(Breaker!Probes)
  /\ forgotten \/ halfOpenInFlight = Cardinality(Breaker!Probes)

BreakerInv == Breaker!TypeOK /\ SlotsAreProbes

\* The circuit starts closed, with no call in flight.
LEMMA BreakerInit == ASSUME Breaker!BreakerAssumption, Breaker!Init PROVE BreakerInv
<1>1. Breaker!TypeOK
  <2>1. /\ 0 \in 0..failureThreshold /\ 0 \in 0..(halfOpenRequests - 1)
        /\ 0 \in 0..halfOpenRequests /\ 0 \in 0..Reset /\ 0 \in 0..MaxOutage
    BY DEF Breaker!BreakerAssumption
  <2>2. call \in [Call -> {"idle", "CLOSED", "HALF_OPEN"}]
    BY DEF Breaker!Init
  <2> QED BY <2>1, <2>2, Zenon DEF Breaker!Init, Breaker!TypeOK
<1>2. Breaker!Probes = {}
  BY DEF Breaker!Init, Breaker!Probes
<1>3. IsFiniteSet({}) /\ Cardinality({}) = 0
  BY FS_EmptySet
<1> QED BY <1>1, <1>2, <1>3 DEF BreakerInv, SlotsAreProbes, Breaker!Init

\* A call that ends is no probe any more.
LEMMA ProbeEnds ==
  ASSUME BreakerInv, NEW c \in Call, Breaker!Over(c)
  PROVE  /\ call' \in [Call -> {"idle", "CLOSED", "HALF_OPEN"}]
         /\ Breaker!Probes' = Breaker!Probes \ {c} /\ IsFiniteSet(Breaker!Probes')
         /\ Cardinality(Breaker!Probes) \in Nat /\ Cardinality(Breaker!Probes') \in Nat
         /\ Cardinality(Breaker!Probes') =
              Cardinality(Breaker!Probes) - (IF call[c] = "HALF_OPEN" THEN 1 ELSE 0)
<1>1. /\ call' \in [Call -> {"idle", "CLOSED", "HALF_OPEN"}]
      /\ Breaker!Probes' = Breaker!Probes \ {c}
      /\ call[c] = "HALF_OPEN" <=> c \in Breaker!Probes
  BY DEF BreakerInv, Breaker!TypeOK, Breaker!Over, Breaker!Probes
<1>2. IsFiniteSet(Breaker!Probes)
  BY DEF BreakerInv, SlotsAreProbes
<1>3. /\ IsFiniteSet(Breaker!Probes \ {c})
      /\ Cardinality(Breaker!Probes \ {c}) =
           IF c \in Breaker!Probes THEN Cardinality(Breaker!Probes) - 1 ELSE Cardinality(Breaker!Probes)
  BY <1>2, FS_RemoveElement
<1>4. Cardinality(Breaker!Probes) \in Nat /\ Cardinality(Breaker!Probes \ {c}) \in Nat
  BY <1>2, <1>3, FS_CardinalityType
<1> QED BY <1>1, <1>3, <1>4

\* The finally of exec keeps the counter and the probes in step.
LEMMA SlotGivenBack ==
  ASSUME BreakerInv, NEW c \in Call, Breaker!Over(c),
         halfOpenInFlight' = Breaker!inFlightAfter(c, halfOpenInFlight), forgotten' = forgotten
  PROVE  SlotsAreProbes' /\ halfOpenInFlight' \in 0..halfOpenInFlight
<1> DEFINE m == Cardinality(Breaker!Probes)
           k == Cardinality(Breaker!Probes')
<1>1. /\ m \in Nat /\ k \in Nat /\ k = m - (IF call[c] = "HALF_OPEN" THEN 1 ELSE 0)
      /\ IsFiniteSet(Breaker!Probes')
  BY ProbeEnds
<1>2. /\ halfOpenInFlight <= m /\ (forgotten \/ halfOpenInFlight = m) /\ halfOpenInFlight \in Nat
  BY DEF BreakerInv, SlotsAreProbes, Breaker!TypeOK
<1> HIDE DEF m, k
<1>3. halfOpenInFlight' <= k /\ (forgotten \/ halfOpenInFlight' = k)
      /\ halfOpenInFlight' \in 0..halfOpenInFlight
  <2>1. CASE call[c] = "HALF_OPEN"
    BY <1>1, <1>2, <2>1 DEF Breaker!inFlightAfter
  <2>2. CASE call[c] # "HALF_OPEN"
    BY <1>1, <1>2, <2>2 DEF Breaker!inFlightAfter
  <2> QED BY <2>1, <2>2
<1> QED BY <1>1, <1>3 DEF SlotsAreProbes, k

\* A probe takes a slot.
LEMMA ExecKeeps ==
  ASSUME Breaker!BreakerAssumption, BreakerInv, NEW c \in Call, Breaker!Exec(c)
  PROVE  BreakerInv'
<1>1. /\ call \in [Call -> {"idle", "CLOSED", "HALF_OPEN"}] /\ call[c] = "idle"
      /\ call' = [call EXCEPT ![c] = Breaker!current]
      /\ Breaker!current \in {"CLOSED", "HALF_OPEN"}
      /\ halfOpenInFlight \in Nat /\ halfOpenInFlight <= halfOpenRequests /\ halfOpenRequests \in Nat
  BY DEF BreakerInv, Breaker!TypeOK, Breaker!Exec, Breaker!current, Breaker!BreakerAssumption
<1>2. CASE Breaker!current = "HALF_OPEN"
  <2>1. /\ Breaker!Probes' = Breaker!Probes \cup {c} /\ c \notin Breaker!Probes
        /\ halfOpenInFlight' = halfOpenInFlight + 1 /\ halfOpenInFlight < halfOpenRequests
        /\ state' = "HALF_OPEN" /\ forgotten' = forgotten
    BY <1>1, <1>2 DEF Breaker!Probes, Breaker!Exec
  <2>2. IsFiniteSet(Breaker!Probes)
    BY DEF BreakerInv, SlotsAreProbes
  <2>3. /\ IsFiniteSet(Breaker!Probes \cup {c}) /\ Cardinality(Breaker!Probes) \in Nat
        /\ Cardinality(Breaker!Probes \cup {c}) = Cardinality(Breaker!Probes) + 1
    BY <2>1, <2>2, FS_AddElement, FS_CardinalityType
  <2>4. SlotsAreProbes'
    BY <1>1, <2>1, <2>3 DEF BreakerInv, SlotsAreProbes
  <2>5. Breaker!TypeOK'
    BY <1>1, <2>1 DEF BreakerInv, Breaker!TypeOK, Breaker!Exec
  <2> QED BY <2>4, <2>5 DEF BreakerInv
<1>3. CASE Breaker!current # "HALF_OPEN"
  <2>1. /\ Breaker!Probes' = Breaker!Probes
        /\ UNCHANGED <<state, halfOpenInFlight, forgotten>>
    BY <1>1, <1>3 DEF Breaker!Probes, Breaker!Exec
  <2>2. SlotsAreProbes'
    BY <2>1 DEF BreakerInv, SlotsAreProbes
  <2>3. Breaker!TypeOK'
    BY <1>1, <2>1 DEF BreakerInv, Breaker!TypeOK, Breaker!Exec
  <2> QED BY <2>2, <2>3 DEF BreakerInv
<1> QED BY <1>2, <1>3

\* A call succeeds: a probe gives its slot back, and the last one needed closes
\* the circuit.
LEMMA SucceedKeeps ==
  ASSUME Breaker!BreakerAssumption, BreakerInv, NEW c \in Call, Breaker!Succeed(c)
  PROVE  BreakerInv'
<1>1. Breaker!Over(c) /\ UNCHANGED <<up, outages>>
  BY DEF Breaker!Succeed
<1>2. halfOpenRequests \in Nat \ {0} /\ failureThreshold \in Nat \ {0} /\ halfOpenInFlight \in Nat
      /\ halfOpenSuccessCount \in Nat
  BY DEF Breaker!BreakerAssumption, BreakerInv, Breaker!TypeOK
<1>3. CASE state = "HALF_OPEN" /\ halfOpenSuccessCount + 1 >= halfOpenRequests
  <2>1. Breaker!close(c)
    BY <1>3 DEF Breaker!Succeed
  <2>2. /\ state' = "CLOSED" /\ failures' = 0 /\ halfOpenSuccessCount' = 0
        /\ halfOpenInFlight' = 0 /\ opened' = opened
        /\ forgotten' = (forgotten \/ Breaker!Probes \ {c} # {})
    BY <2>1 DEF Breaker!close, Breaker!inFlightAfter
  <2>3. SlotsAreProbes'
    <3>1. /\ Breaker!Probes' = Breaker!Probes \ {c} /\ IsFiniteSet(Breaker!Probes')
          /\ Cardinality(Breaker!Probes') \in Nat
      BY <1>1, ProbeEnds
    <3>2. forgotten' \/ Cardinality(Breaker!Probes') = 0
      BY <2>2, <3>1, FS_EmptySet
    <3> QED BY <2>2, <3>1, <3>2 DEF SlotsAreProbes
  <2>4. Breaker!TypeOK'
    <3>1. forgotten' \in BOOLEAN
      BY <2>2
    <3> QED BY <1>1, <1>2, <2>2, <3>1, ProbeEnds DEF BreakerInv, Breaker!TypeOK
  <2> QED BY <2>3, <2>4 DEF BreakerInv
<1>4. CASE ~(state = "HALF_OPEN" /\ halfOpenSuccessCount + 1 >= halfOpenRequests)
  <2>1. /\ halfOpenSuccessCount' =
             halfOpenSuccessCount + (IF state = "HALF_OPEN" THEN 1 ELSE 0)
        /\ failures' = IF state = "HALF_OPEN" THEN failures ELSE 0
        /\ halfOpenInFlight' = Breaker!inFlightAfter(c, halfOpenInFlight)
        /\ UNCHANGED <<state, opened, forgotten>>
    BY <1>4 DEF Breaker!Succeed
  <2>2. SlotsAreProbes' /\ halfOpenInFlight' \in 0..halfOpenInFlight
    BY <1>1, <2>1, SlotGivenBack
  <2>3. halfOpenSuccessCount' \in 0..(halfOpenRequests - 1) /\ failures' \in 0..failureThreshold
    BY <1>2, <1>4, <2>1 DEF BreakerInv, Breaker!TypeOK
  <2>4. Breaker!TypeOK'
    BY <1>1, <1>2, <2>1, <2>2, <2>3, ProbeEnds DEF BreakerInv, Breaker!TypeOK
  <2> QED BY <2>2, <2>4 DEF BreakerInv
<1> QED BY <1>3, <1>4

\* A call fails: a probe gives its slot back and opens the circuit again.
LEMMA FailedKeeps ==
  ASSUME Breaker!BreakerAssumption, BreakerInv, NEW c \in Call, Breaker!Failed(c)
  PROVE  BreakerInv'
<1>1. /\ Breaker!Over(c) /\ UNCHANGED <<up, outages, forgotten>>
      /\ halfOpenInFlight' = Breaker!inFlightAfter(c, halfOpenInFlight)
  BY DEF Breaker!Failed
<1>2. halfOpenRequests \in Nat \ {0} /\ failureThreshold \in Nat \ {0} /\ halfOpenInFlight \in Nat
      /\ Reset \in Nat
  BY DEF Breaker!BreakerAssumption, BreakerInv, Breaker!TypeOK
<1>3. SlotsAreProbes' /\ halfOpenInFlight' \in 0..halfOpenInFlight
  BY <1>1, SlotGivenBack
<1>4. failures' \in 0..failureThreshold
  BY <1>2 DEF Breaker!Failed, BreakerInv, Breaker!TypeOK
<1>5. /\ state' \in {"CLOSED", "OPEN", "HALF_OPEN"} /\ opened' \in 0..Reset
      /\ halfOpenSuccessCount' \in 0..(halfOpenRequests - 1)
  BY <1>2 DEF Breaker!Failed, BreakerInv, Breaker!TypeOK
<1>6. Breaker!TypeOK'
  BY <1>1, <1>2, <1>3, <1>4, <1>5, ProbeEnds DEF BreakerInv, Breaker!TypeOK
<1> QED BY <1>3, <1>6 DEF BreakerInv

\* Every step keeps it.
LEMMA BreakerNext ==
  ASSUME Breaker!BreakerAssumption, BreakerInv, [Breaker!Next]_(Breaker!vars)
  PROVE  BreakerInv'
<1>1. CASE \E c \in Call : Breaker!exec(c)
  BY <1>1, ExecKeeps, SucceedKeeps, FailedKeeps DEF Breaker!exec
<1>2. CASE Breaker!Tick
  BY <1>2 DEF Breaker!Tick, BreakerInv, Breaker!TypeOK, SlotsAreProbes, Breaker!Probes,
              Breaker!BreakerAssumption
<1>3. CASE Breaker!Store
  <2>1. outages' \in 0..MaxOutage
    BY <1>3 DEF Breaker!Store, BreakerInv, Breaker!TypeOK, Breaker!BreakerAssumption
  <2>2. up' \in BOOLEAN
    BY <1>3, Zenon DEF Breaker!Store, BreakerInv, Breaker!TypeOK
  <2>3. Breaker!TypeOK'
    BY <1>3, <2>1, <2>2 DEF Breaker!Store, BreakerInv, Breaker!TypeOK
  <2>4. SlotsAreProbes'
    BY <1>3 DEF Breaker!Store, BreakerInv, SlotsAreProbes, Breaker!Probes
  <2> QED BY <2>3, <2>4 DEF BreakerInv
<1>4. CASE UNCHANGED Breaker!vars
  <2>1. Breaker!TypeOK'
    BY <1>4, Zenon DEF Breaker!vars, BreakerInv, Breaker!TypeOK
  <2>2. SlotsAreProbes'
    BY <1>4 DEF Breaker!vars, BreakerInv, SlotsAreProbes, Breaker!Probes
  <2> QED BY <2>1, <2>2 DEF BreakerInv
<1> QED BY <1>1, <1>2, <1>3, <1>4 DEF Breaker!Next

\* "Cap concurrent probes" (CircuitBreaker.exec): no more probes run than
\* halfOpenRequests, through trips, late results and further half-open periods,
\* until close() zeroes the count under a probe in flight, and no slot is held
\* that no probe gives back.
THEOREM ProbesStayCapped ==
  Breaker!BreakerAssumption => (Breaker!Spec => [](Breaker!TypeOK /\ Breaker!ProbesCapped))
<1> SUFFICES ASSUME Breaker!BreakerAssumption
             PROVE  Breaker!Spec => [](Breaker!TypeOK /\ Breaker!ProbesCapped)
  OBVIOUS
<1>1. Breaker!Init => BreakerInv
  BY BreakerInit
<1>2. BreakerInv /\ [Breaker!Next]_(Breaker!vars) => BreakerInv'
  BY BreakerNext
<1>3. BreakerInv => Breaker!TypeOK /\ Breaker!ProbesCapped
  <2>1. Breaker!TypeOK => halfOpenInFlight <= halfOpenRequests
    BY DEF Breaker!TypeOK
  <2>2. Breaker!Cardinality(Breaker!Probes) = Cardinality(Breaker!Probes)
    BY Zenon DEF Cardinality, Breaker!Cardinality
  <2> QED BY <2>1, <2>2, Zenon DEF BreakerInv, SlotsAreProbes, Breaker!ProbesCapped
<1> QED BY <1>1, <1>2, <1>3, PTL DEF Breaker!Spec
-----------------------------------------------------------------------------
(* The spend requests *)

\* The row of an operation's reference in its wallet.
RowOf(o) == row[<<WalletOf[o], BodyOf[o].ref>>]

Pending == [pc: {"get", "run"}, op: Operation]

Debited == [pc: {"set"}, op: Operation, balance: Nat]

Code == {200, 409, 422, 500}

Answered == [pc: {"done"}, op: Operation, status: Code, balance: Nat]

Shape ==
  /\ cache = Missing \/ cache \in [status: {200}, body: Body, balance: Nat]
  /\ req \in [Request -> {Quiet} \cup Pending \cup Debited \cup Answered]
  /\ row \in [Wallet \X Reference -> Nat \cup {None}]
  /\ balance \in [Wallet -> Nat]
  /\ wallets \subseteq Wallet /\ IsFiniteSet(wallets)
  /\ sent \in 0..MaxSend /\ faults \in 0..MaxFault /\ topped \in 0..MaxTopUp

OneWallet == \A x, y \in wallets : x = y

\* The key's history names the wallet of every request in flight or answered.
RequestsAreSeen == \A q \in Request : req[q] # Quiet => WalletOf[req[q].op] \in wallets

\* A request that has debited its wallet found the row of its own debit.
DebitIsOwn == \A q \in Request : req[q].pc = "set" => RowOf(req[q].op) = req[q].balance

\* The cached response tells the debit of some operation of the key.
CacheIsOwn ==
  cache # Missing =>
    \E o \in Operation : /\ WalletOf[o] \in wallets /\ cache.body = BodyOf[o]
                         /\ RowOf(o) = cache.balance

AnswersAreOwn ==
  OneWallet => \A q \in Request : req[q].pc = "done" /\ req[q].status = 200 =>
                 RowOf(req[q].op) = req[q].balance

Inv == Shape /\ RequestsAreSeen /\ DebitIsOwn /\ CacheIsOwn /\ AnswersAreOwn

ReqRec == {Quiet} \cup Pending \cup Debited \cup Answered

\* What a request asks for.
LEMMA Operations ==
  ASSUME SpendAssumption, NEW o \in Operation
  PROVE  /\ WalletOf[o] \in Wallet /\ BodyOf[o] \in Body /\ BodyOf[o].ref \in Reference
         /\ BodyOf[o].amount \in Nat
BY DEF Wallet, Body, Reference, SpendAssumption

\* No request has been sent.
LEMMA SpendInit == ASSUME SpendAssumption, Init PROVE Inv
<1>1. IsFiniteSet({})
  BY FS_EmptySet
<1>2. Shape
  BY <1>1 DEF Init, Shape, SpendAssumption
<1>3. RequestsAreSeen /\ DebitIsOwn /\ CacheIsOwn /\ AnswersAreOwn
  BY DEF Init, RequestsAreSeen, DebitIsOwn, CacheIsOwn, AnswersAreOwn, Quiet
<1> QED BY <1>2, <1>3 DEF Inv

\* A request that is not quiet has an operation, and its state tells its fields.
LEMMA Fields ==
  ASSUME Shape, NEW q \in Request
  PROVE  /\ req[q] # Quiet <=> req[q].pc # "none"
         /\ req[q] # Quiet => req[q].op \in Operation
         /\ req[q].pc \in {"get", "run"} => req[q] \in Pending
         /\ req[q].pc = "set" => req[q] \in Debited
         /\ req[q].pc = "done" => req[q] \in Answered
BY DEF Shape, Quiet, Pending, Debited, Answered

\* Ledger rows are written once, so what was told of one stays true.
LEMMA RowsStay ==
  ASSUME Inv, NEW o \in Operation, NEW n \in Nat, SpendAssumption, RowOf(o) = n,
         row' \in [Wallet \X Reference -> Nat \cup {None}],
         \A k \in Wallet \X Reference : row[k] # None => row'[k] = row[k]
  PROVE  RowOf(o)' = n
<1>1. <<WalletOf[o], BodyOf[o].ref>> \in Wallet \X Reference
  BY Operations
<1> QED BY <1>1 DEF RowOf, None

\* One request moves, over rows that stay and a history that grows: the cache
\* must tell a debit, and so must the request.
LEMMA RequestStep ==
  ASSUME SpendAssumption, Inv, NEW q \in Request, NEW r \in ReqRec,
         req' = [req EXCEPT ![q] = r],
         row' \in [Wallet \X Reference -> Nat \cup {None}],
         \A k \in Wallet \X Reference : row[k] # None => row'[k] = row[k],
         wallets \subseteq wallets',
         r # Quiet => WalletOf[r.op] \in wallets',
         r.pc = "set" => RowOf(r.op)' = r.balance,
         OneWallet' /\ r.pc = "done" /\ r.status = 200 => RowOf(r.op)' = r.balance
  PROVE  /\ req' \in [Request -> ReqRec]
         /\ RequestsAreSeen' /\ DebitIsOwn' /\ AnswersAreOwn'
<1>1. /\ req' \in [Request -> ReqRec] /\ req'[q] = r
      /\ \A p \in Request \ {q} : req'[p] = req[p]
  BY DEF Inv, Shape, ReqRec
<1>2. RequestsAreSeen'
  BY <1>1 DEF Inv, RequestsAreSeen
<1>3. \A o \in Operation : \A n \in Nat : RowOf(o) = n => RowOf(o)' = n
  BY RowsStay
<1>4. DebitIsOwn'
  <2> SUFFICES ASSUME NEW p \in Request, req'[p].pc = "set" PROVE RowOf(req[p].op)' = req'[p].balance
    BY DEF DebitIsOwn
  <2>1. CASE p = q
    BY <1>1, <2>1 DEF RowOf
  <2>2. CASE p # q
    <3>1. req'[p] = req[p] /\ req[p].op \in Operation /\ req[p].balance \in Nat
      BY <1>1, <2>2, Fields DEF Inv, Debited
    <3>2. RowOf(req[p].op) = req[p].balance
      BY <3>1 DEF Inv, DebitIsOwn
    <3> QED BY <1>3, <3>1, <3>2 DEF RowOf
  <2> QED BY <2>1, <2>2
<1>5. AnswersAreOwn'
  <2> SUFFICES ASSUME OneWallet', NEW p \in Request, req'[p].pc = "done", req'[p].status = 200
               PROVE  RowOf(req[p].op)' = req'[p].balance
    BY DEF AnswersAreOwn
  <2>1. CASE p = q
    BY <1>1, <2>1 DEF RowOf
  <2>2. CASE p # q
    <3>1. req'[p] = req[p] /\ req[p].op \in Operation /\ req[p].balance \in Nat
      BY <1>1, <2>2, Fields DEF Inv, Answered
    <3>2. OneWallet
      BY DEF OneWallet
    <3>3. RowOf(req[p].op) = req[p].balance
      BY <3>1, <3>2 DEF Inv, AnswersAreOwn
    <3> QED BY <1>3, <3>1, <3>3 DEF RowOf
  <2> QED BY <2>1, <2>2
<1> QED BY <1>1, <1>2, <1>4, <1>5

\* The cache is left alone, or forgotten.
LEMMA CacheStays ==
  ASSUME SpendAssumption, Inv, cache' \in {cache, Missing},
         row' \in [Wallet \X Reference -> Nat \cup {None}],
         \A k \in Wallet \X Reference : row[k] # None => row'[k] = row[k],
         wallets \subseteq wallets'
  PROVE  /\ CacheIsOwn'
         /\ cache' = Missing \/ cache' \in [status: {200}, body: Body, balance: Nat]
<1>1. cache = Missing \/ cache \in [status: {200}, body: Body, balance: Nat]
  BY DEF Inv, Shape
<1>2. \A o \in Operation : \A n \in Nat : RowOf(o) = n => RowOf(o)' = n
  BY RowsStay
<1>3. CacheIsOwn'
  <2> SUFFICES ASSUME cache' # Missing
               PROVE  \E o \in Operation : /\ WalletOf[o] \in wallets' /\ cache'.body = BodyOf[o]
                                           /\ RowOf(o)' = cache'.balance
    BY DEF CacheIsOwn
  <2>1. cache' = cache /\ cache # Missing /\ cache.balance \in Nat
    BY <1>1
  <2>2. PICK o \in Operation : /\ WalletOf[o] \in wallets /\ cache.body = BodyOf[o]
                               /\ RowOf(o) = cache.balance
    BY <2>1 DEF Inv, CacheIsOwn
  <2>3. RowOf(o)' = cache.balance
    BY <1>2, <2>1, <2>2
  <2> QED BY <2>1, <2>2, <2>3
<1> QED BY <1>1, <1>3

\* A step of one request that leaves the cache, the rows, the balances and the
\* key's history alone.
LEMMA MoveStep ==
  ASSUME SpendAssumption, Inv, NEW q \in Request, NEW r \in ReqRec,
         req' = [req EXCEPT ![q] = r], UNCHANGED <<cache, row, balance, wallets>>,
         sent' \in 0..MaxSend, faults' \in 0..MaxFault, topped' \in 0..MaxTopUp,
         r # Quiet => WalletOf[r.op] \in wallets,
         r.pc = "set" => RowOf(r.op) = r.balance,
         OneWallet /\ r.pc = "done" /\ r.status = 200 => RowOf(r.op) = r.balance
  PROVE  Inv'
<1>1. /\ row' \in [Wallet \X Reference -> Nat \cup {None}]
      /\ \A k \in Wallet \X Reference : row[k] # None => row'[k] = row[k]
      /\ wallets \subseteq wallets' /\ (OneWallet' <=> OneWallet)
      /\ RowOf(r.op)' = RowOf(r.op)
  BY DEF Inv, Shape, OneWallet, RowOf
<1>2. req' \in [Request -> ReqRec] /\ RequestsAreSeen' /\ DebitIsOwn' /\ AnswersAreOwn'
  BY ZenonT(60), <1>1, RequestStep
<1>3. CacheIsOwn'
  BY <1>1, CacheStays
<1>4. Shape'
  BY <1>2 DEF Inv, Shape, ReqRec
<1> QED BY <1>2, <1>3, <1>4 DEF Inv

\* A failing Redis call is within its bound.
LEMMA FailCounts ==
  ASSUME SpendAssumption, Inv, Fail
  PROVE  faults' \in 0..MaxFault
BY DEF SpendAssumption, Inv, Shape, Fail

\* An answer is given; one that tells a balance tells the request's own.
LEMMA ReplyStep ==
  ASSUME SpendAssumption, Inv, NEW q \in Request, req[q] # Quiet,
         NEW code \in Code, NEW n \in Nat, Reply(q, code, n),
         OneWallet /\ code = 200 => RowOf(req[q].op) = n,
         UNCHANGED <<cache, row, balance, wallets, sent, topped>>, faults' \in 0..MaxFault
  PROVE  Inv'
<1> DEFINE r == [pc |-> "done", op |-> req[q].op, status |-> code, balance |-> n]
<1>1. req[q].op \in Operation /\ WalletOf[req[q].op] \in wallets
  BY Fields DEF Inv, RequestsAreSeen
<1>2. /\ r \in ReqRec /\ r.op = req[q].op /\ r.pc = "done" /\ r.status = code /\ r.balance = n
      /\ req' = [req EXCEPT ![q] = r]
  BY <1>1 DEF ReqRec, Answered, Reply
<1> HIDE DEF r
<1>3. sent' \in 0..MaxSend /\ topped' \in 0..MaxTopUp
  BY DEF Inv, Shape
<1> QED BY <1>1, <1>2, <1>3, MoveStep

\* A request without a stored response goes on to its handler.
LEMMA ProceedStep ==
  ASSUME SpendAssumption, Inv, NEW q \in Request, req[q].pc = "get", Proceed(q),
         UNCHANGED <<cache, row, balance, wallets, sent, topped>>, faults' \in 0..MaxFault
  PROVE  Inv'
<1> DEFINE r == [req[q] EXCEPT !.pc = "run"]
<1>1. /\ req[q] \in Pending /\ req[q] # Quiet /\ req[q].op \in Operation
      /\ WalletOf[req[q].op] \in wallets
  BY Fields DEF Inv, RequestsAreSeen
<1>2. r \in Pending /\ r.op = req[q].op /\ r.pc = "run" /\ req' = [req EXCEPT ![q] = r]
  BY <1>1 DEF Pending, Proceed
<1> HIDE DEF r
<1>3. sent' \in 0..MaxSend /\ topped' \in 0..MaxTopUp /\ r \in ReqRec
  BY <1>2 DEF Inv, Shape, ReqRec
<1> QED BY <1>1, <1>2, <1>3, MoveStep

\* A client sends a request: its wallet is one of those the key was used for.
LEMMA SendInv ==
  ASSUME SpendAssumption, Inv, NEW q \in Request, NEW o \in Operation, Send(q, o)
  PROVE  Inv'
<1> DEFINE r == [pc |-> "get", op |-> o]
<1>1. r \in ReqRec /\ r.pc = "get" /\ r.op = o /\ req' = [req EXCEPT ![q] = r]
  BY DEF ReqRec, Pending, Send
<1>2. /\ UNCHANGED <<cache, row, balance, faults, topped>> /\ sent' \in 0..MaxSend
      /\ wallets' = wallets \cup {WalletOf[o]}
  BY DEF Send, Inv, Shape, SpendAssumption
<1>3. wallets' \subseteq Wallet /\ IsFiniteSet(wallets')
  <2>1. IsFiniteSet(wallets)
    BY DEF Inv, Shape
  <2>2. IsFiniteSet(wallets \cup {WalletOf[o]})
    BY <2>1, FS_AddElement
  <2> QED BY <1>2, <2>2, Operations DEF Inv, Shape
<1>4. /\ row' \in [Wallet \X Reference -> Nat \cup {None}]
      /\ \A k \in Wallet \X Reference : row[k] # None => row'[k] = row[k]
  BY <1>2 DEF Inv, Shape
<1> HIDE DEF r
<1>5. req' \in [Request -> ReqRec] /\ RequestsAreSeen' /\ DebitIsOwn' /\ AnswersAreOwn'
  BY <1>1, <1>2, <1>4, RequestStep
<1>6. CacheIsOwn'
  BY <1>2, <1>4, CacheStays
<1>7. Shape'
  BY <1>2, <1>3, <1>5 DEF Inv, Shape, ReqRec
<1> QED BY <1>5, <1>6, <1>7 DEF Inv

\* A replay tells the debit of an operation with this body, which in the key's
\* only wallet is this one.
LEMMA LookupInv ==
  ASSUME SpendAssumption, Inv, NEW q \in Request, Lookup(q)
  PROVE  Inv'
<1>1. /\ req[q].pc = "get" /\ req[q] # Quiet /\ req[q].op \in Operation
      /\ WalletOf[req[q].op] \in wallets
  BY Fields DEF Lookup, Inv, RequestsAreSeen
<1>2. UNCHANGED <<cache, row, balance, wallets, sent, topped>> /\ faults' \in 0..MaxFault
  BY DEF Lookup, Inv, Shape
<1>3. CASE cache = Missing
  BY <1>1, <1>2, <1>3, ProceedStep DEF Lookup
<1>4. CASE cache # Missing /\ sameHash(q)
  <2>1. Reply(q, 200, cache.balance) /\ cache.balance \in Nat
    BY <1>4 DEF Lookup, Inv, Shape
  <2>2. OneWallet => RowOf(req[q].op) = cache.balance
    <3> SUFFICES ASSUME OneWallet PROVE RowOf(req[q].op) = cache.balance
      OBVIOUS
    <3>1. PICK o \in Operation : /\ WalletOf[o] \in wallets /\ cache.body = BodyOf[o]
                                 /\ RowOf(o) = cache.balance
      BY <1>4 DEF Inv, CacheIsOwn
    <3>2. BodyOf[o] = BodyOf[req[q].op] /\ WalletOf[o] = WalletOf[req[q].op]
      BY <1>1, <1>4, <3>1 DEF sameHash, bodyOf, OneWallet
    <3> QED BY <3>1, <3>2 DEF RowOf
  <2>3. 200 \in Code
    BY DEF Code
  <2> QED BY <1>1, <1>2, <2>1, <2>2, <2>3, ReplyStep
<1>5. CASE cache # Missing /\ ~sameHash(q)
  <2>1. Reply(q, 422, 0) /\ 422 \in Code
    BY <1>5 DEF Lookup, Code
  <2> QED BY <1>1, <1>2, <2>1, ReplyStep
<1> QED BY <1>3, <1>4, <1>5

\* The spend: its own row is found, or made.
LEMMA SpendInv ==
  ASSUME SpendAssumption, Inv, NEW q \in Request, Spend(q)
  PROVE  Inv'
<1> DEFINE o == req[q].op
           x == WalletOf[o]
           k == <<x, BodyOf[o].ref>>
           n == balance[x] - BodyOf[o].amount
           known == row[k] # None
           answer == IF known THEN row[k] ELSE n
<1>1. /\ req[q].pc = "run" /\ req[q] # Quiet /\ o \in Operation /\ x \in wallets
  BY Fields DEF Spend, Inv, RequestsAreSeen
<1>2. /\ x \in Wallet /\ k \in Wallet \X Reference /\ BodyOf[o].amount \in Nat
      /\ balance[x] \in Nat /\ row[k] \in Nat \cup {None}
      /\ row \in [Wallet \X Reference -> Nat \cup {None}] /\ balance \in [Wallet -> Nat]
  BY <1>1, Operations DEF Inv, Shape
<1>3. UNCHANGED <<cache, wallets, sent, faults, topped>> /\ faults' \in 0..MaxFault
  BY DEF Spend, Inv, Shape
<1>4. CASE ~known /\ n < 0
  <2>1. Reply(q, 409, 0) /\ UNCHANGED <<row, balance>> /\ 409 \in Code
    BY <1>4 DEF Spend, bodyOf, Code
  <2> QED BY <1>1, <1>3, <2>1, ReplyStep
<1>5. CASE ~(~known /\ n < 0)
  <2> DEFINE r == [pc |-> "set", op |-> o, balance |-> answer]
  <2>1. answer \in Nat /\ (~known => n \in Nat)
    BY <1>2, <1>5 DEF None
  <2>2. /\ req' = [req EXCEPT ![q] = r] /\ row' = [row EXCEPT ![k] = answer]
        /\ balance' = IF known THEN balance ELSE [balance EXCEPT ![x] = n]
    BY <1>5 DEF Spend, bodyOf
  <2> HIDE DEF answer, n
  <2>3. balance' \in [Wallet -> Nat]
    BY <1>2, <2>1, <2>2
  <2>4. r \in ReqRec /\ r.pc = "set" /\ r.op = o /\ r.balance = answer
    BY <1>1, <2>1 DEF ReqRec, Debited
  <2>5. known => row[k] = answer
    BY DEF answer
  <2> HIDE DEF r, known
  <2>6. /\ row' \in [Wallet \X Reference -> Nat \cup {None}] /\ row'[k] = answer
        /\ \A j \in Wallet \X Reference : row[j] # None => row'[j] = row[j]
    BY <1>2, <2>1, <2>2, <2>5 DEF known
  <2>7. row'[<<WalletOf[r.op], BodyOf[r.op].ref>>] = r.balance
    BY <2>4, <2>6
  <2>8. req' \in [Request -> ReqRec] /\ RequestsAreSeen' /\ DebitIsOwn' /\ AnswersAreOwn'
    BY <1>1, <1>3, <2>2, <2>4, <2>6, <2>7, RequestStep DEF RowOf
  <2>9. CacheIsOwn'
    BY <1>3, <2>6, CacheStays
  <2>10. Shape'
    BY <1>3, <2>3, <2>6, <2>8 DEF Inv, Shape, ReqRec
  <2> QED BY <2>8, <2>9, <2>10 DEF Inv
<1> QED BY <1>4, <1>5

\* A handler answers with the balance its own debit left.
LEMMA RespondInv ==
  ASSUME SpendAssumption, Inv, NEW q \in Request, Respond(q)
  PROVE  Inv'
<1> DEFINE o == req[q].op
           n == req[q].balance
           r == [pc |-> "done", op |-> o, status |-> 200, balance |-> n]
<1>1. /\ req[q] \in Debited /\ req[q] # Quiet /\ o \in Operation /\ n \in Nat
      /\ WalletOf[o] \in wallets /\ RowOf(o) = n /\ BodyOf[o] \in Body
  BY Fields, Operations DEF Respond, Inv, RequestsAreSeen, DebitIsOwn, Debited
<1>2. /\ UNCHANGED <<row, balance, wallets, sent, faults, topped>>
      /\ cache' = [status |-> 200, body |-> BodyOf[o], balance |-> n]
      /\ req' = [req EXCEPT ![q] = r]
  BY DEF Respond, storeResponse, bodyOf, Reply
<1>3. /\ r \in ReqRec /\ r.pc = "done" /\ r.op = o /\ r.balance = n
      /\ cache' \in [status: {200}, body: Body, balance: Nat]
      /\ cache'.body = BodyOf[o] /\ cache'.balance = n
  BY <1>1, <1>2 DEF ReqRec, Answered, Code
<1> HIDE DEF r
<1>4. /\ row' \in [Wallet \X Reference -> Nat \cup {None}]
      /\ \A k \in Wallet \X Reference : row[k] # None => row'[k] = row[k]
  BY <1>2 DEF Inv, Shape
<1>5. row'[<<WalletOf[o], BodyOf[o].ref>>] = n
  BY <1>1, <1>2 DEF RowOf
<1>6. req' \in [Request -> ReqRec] /\ RequestsAreSeen' /\ DebitIsOwn' /\ AnswersAreOwn'
  <2>1. /\ row'[<<WalletOf[r.op], BodyOf[r.op].ref>>] = r.balance
        /\ WalletOf[r.op] \in wallets' /\ wallets \subseteq wallets'
    BY <1>1, <1>2, <1>3, <1>5
  <2> QED BY <1>2, <1>3, <1>4, <2>1, RequestStep DEF RowOf
<1>7. CacheIsOwn'
  BY <1>1, <1>2, <1>3, <1>5 DEF CacheIsOwn, RowOf
<1>8. Shape'
  BY <1>2, <1>3, <1>6 DEF Inv, Shape, ReqRec
<1> QED BY <1>6, <1>7, <1>8 DEF Inv

\* Failing Redis calls, errors and crashes.
LEMMA FaultInv ==
  ASSUME SpendAssumption, Inv, NEW q \in Request,
         LookupFails(q) \/ SpendThrows(q) \/ StoreFails(q) \/ Crash(q)
  PROVE  Inv'
<1>1. /\ UNCHANGED <<cache, row, balance, wallets, sent, topped>> /\ faults' \in 0..MaxFault
      /\ sent' \in 0..MaxSend /\ topped' \in 0..MaxTopUp
  BY FailCounts DEF LookupFails, SpendThrows, StoreFails, Crash, Inv, Shape
<1>2. CASE LookupFails(q)
  BY <1>1, <1>2, ProceedStep DEF LookupFails
<1>3. CASE SpendThrows(q)
  <2>1. req[q] # Quiet /\ Reply(q, 500, 0) /\ 500 \in Code
    BY <1>3, Fields DEF SpendThrows, Code, Inv
  <2> QED BY <1>1, <2>1, ReplyStep
<1>4. CASE StoreFails(q)
  <2>1. /\ req[q] # Quiet /\ Reply(q, 200, req[q].balance) /\ 200 \in Code
        /\ req[q].balance \in Nat /\ RowOf(req[q].op) = req[q].balance
    BY <1>4, Fields DEF StoreFails, Code, Inv, DebitIsOwn, Debited
  <2> QED BY <1>1, <2>1, ReplyStep
<1>5. CASE Crash(q)
  <2>1. Quiet \in ReqRec /\ Quiet.pc = "none" /\ req' = [req EXCEPT ![q] = Quiet]
    BY <1>5 DEF Crash, ReqRec, Quiet
  <2> QED BY <1>1, <2>1, MoveStep
<1> QED BY <1>2, <1>3, <1>4, <1>5

\* The key expires, a wallet is topped up, or nothing happens.
LEMMA RestInv ==
  ASSUME SpendAssumption, Inv, Expire \/ (\E x \in Wallet : TopUp(x)) \/ UNCHANGED vars
  PROVE  Inv'
<1>1. /\ UNCHANGED <<req, row, wallets, sent, faults>> /\ cache' \in {cache, Missing}
      /\ balance' \in [Wallet -> Nat] /\ topped' \in 0..MaxTopUp
  <2>1. CASE Expire \/ UNCHANGED vars
    BY <2>1 DEF Expire, vars, Inv, Shape
  <2>2. ASSUME NEW x \in Wallet, TopUp(x)
        PROVE  balance' \in [Wallet -> Nat] /\ topped' \in 0..MaxTopUp
    BY <2>2 DEF TopUp, Inv, Shape, SpendAssumption
  <2> QED BY <2>1, <2>2 DEF TopUp
<1>2. row' \in [Wallet \X Reference -> Nat \cup {None}]
  BY <1>1 DEF Inv, Shape
<1>3. /\ CacheIsOwn'
      /\ cache' = Missing \/ cache' \in [status: {200}, body: Body, balance: Nat]
  BY <1>1, <1>2, CacheStays
<1>4. Shape'
  BY <1>1, <1>2, <1>3 DEF Inv, Shape
<1>5. RequestsAreSeen' /\ DebitIsOwn' /\ AnswersAreOwn'
  BY <1>1 DEF Inv, RequestsAreSeen, DebitIsOwn, AnswersAreOwn, RowOf, OneWallet
<1> QED BY <1>3, <1>4, <1>5 DEF Inv

\* Every step keeps the invariant.
LEMMA SpendNext ==
  ASSUME SpendAssumption, Inv, [Next]_vars
  PROVE  Inv'
BY SendInv, LookupInv, SpendInv, RespondInv, FaultInv, RestInv DEF Next, idempotency

\* A set of at most one element.
LEMMA AtMostOne ==
  ASSUME IsFiniteSet(wallets), Cardinality(wallets) <= 1
  PROVE  OneWallet
<1>1. Cardinality(wallets) \in Nat
  BY FS_CardinalityType
<1>2. CASE Cardinality(wallets) = 0
  BY <1>2, FS_EmptySet DEF OneWallet
<1>3. CASE Cardinality(wallets) = 1
  BY <1>3, FS_Singleton DEF OneWallet
<1> QED BY <1>1, <1>2, <1>3

\* Every 2xx of the spend route, fresh, deduplicated or replayed, tells the
\* balance that the request's own debit left (idempotency, spendCredits), for
\* any number of overlapping requests, expiries, failing Redis calls and bodies
\* under one key, while the key names one wallet.
THEOREM AnswersAreOwnDebits == SpendAssumption => (Spec => [](TypeOK /\ AnswerIsOwn))
<1> SUFFICES ASSUME SpendAssumption PROVE Spec => [](TypeOK /\ AnswerIsOwn)
  OBVIOUS
<1>1. Init => Inv
  BY SpendInit
<1>2. Inv /\ [Next]_vars => Inv'
  BY SpendNext
<1>3. Inv => TypeOK /\ AnswerIsOwn
  <2> SUFFICES ASSUME Inv PROVE TypeOK /\ AnswerIsOwn
    OBVIOUS
  <2>1. TypeOK
    <3>1. cache = Missing \/ cache \in [status: {200}, body: Body, balance: Int]
      BY DEF Inv, Shape
    <3>2. \A q \in Request : \/ req[q] = Quiet
                             \/ req[q].pc \in {"get", "run", "set", "done"} /\ req[q].op \in Operation
      BY DEF Inv, Shape, Pending, Debited, Answered
    <3> QED BY <3>1, <3>2 DEF Inv, Shape, TypeOK
  <2>2. AnswerIsOwn
    BY AtMostOne DEF Inv, Shape, AnswersAreOwn, AnswerIsOwn, RowOf, bodyOf
  <2> QED BY <2>1, <2>2
<1> QED BY <1>1, <1>2, <1>3, PTL DEF Spec
=============================================================================
