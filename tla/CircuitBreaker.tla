--------------------------- MODULE CircuitBreaker ---------------------------
(***************************************************************************)
(* The circuit breaker around the store APIs (lib/circuit-breaker.ts).     *)
(* exec is asynchronous: a call that began in one state may end in any     *)
(* other.  One tick is resetTimeoutMs / Reset.                             *)
(***************************************************************************)
EXTENDS Integers, FiniteSets

CONSTANTS
  Call,              \* calls of exec in flight at a time
  failureThreshold,
  halfOpenRequests,
  Reset,             \* resetTimeoutMs
  MaxOutage          \* bound: how often the store goes down

BreakerAssumption ==
  /\ failureThreshold \in Nat \ {0} /\ halfOpenRequests \in Nat \ {0}
  /\ Reset \in Nat /\ MaxOutage \in Nat

VARIABLES
  state,                 \* _state
  failures,              \* counted as far as the threshold
  halfOpenSuccessCount,
  halfOpenInFlight,
  opened,                \* ticks since openedAt, as far as Reset
  call,                  \* idle, or the state exec found
  up,                    \* the store answers
  outages,
  forgotten              \* history: the circuit closed while a probe was in flight

vars == <<state, failures, halfOpenSuccessCount, halfOpenInFlight, opened, call,
          up, outages, forgotten>>

TypeOK ==
  /\ state \in {"CLOSED", "OPEN", "HALF_OPEN"}
  /\ failures \in 0..failureThreshold
  /\ halfOpenSuccessCount \in 0..(halfOpenRequests - 1)
  /\ halfOpenInFlight \in 0..halfOpenRequests
  /\ opened \in 0..Reset
  /\ call \in [Call -> {"idle", "CLOSED", "HALF_OPEN"}]
  /\ up \in BOOLEAN /\ outages \in 0..MaxOutage
  /\ forgotten \in BOOLEAN

Init ==
  /\ state = "CLOSED" /\ failures = 0
  /\ halfOpenSuccessCount = 0 /\ halfOpenInFlight = 0
  /\ opened = 0
  /\ call = [c \in Call |-> "idle"]
  /\ up = TRUE /\ outages = 0
  /\ forgotten = FALSE

Probes == {c \in Call : call[c] = "HALF_OPEN"}

\* The getter: OPEN reads as HALF_OPEN when the timeout has passed.
current == IF state = "OPEN" /\ opened >= Reset THEN "HALF_OPEN" ELSE state
-----------------------------------------------------------------------------
\* exec up to the call of fn; a rejected call changes nothing.
Exec(c) ==
  /\ call[c] = "idle" /\ current # "OPEN"
  /\ IF current = "HALF_OPEN"
     THEN /\ halfOpenInFlight < halfOpenRequests
          /\ state' = "HALF_OPEN" /\ halfOpenInFlight' = halfOpenInFlight + 1
     ELSE UNCHANGED <<state, halfOpenInFlight>>
  /\ call' = [call EXCEPT ![c] = current]
  /\ UNCHANGED <<failures, halfOpenSuccessCount, opened, up, outages, forgotten>>

\* (Mutant first: a probe's slot is not given back.)
inFlightKept(c, n) == n

\* (Mutant first: every call gives a slot back.)
inFlightAfterAny(c, n) == IF n > 0 THEN n - 1 ELSE 0

\* The finally of exec.
inFlightAfter(c, n) == IF call[c] = "HALF_OPEN" /\ n > 0 THEN n - 1 ELSE n

Over(c) == call' = [call EXCEPT ![c] = "idle"]

close(c) ==
  /\ state' = "CLOSED" /\ failures' = 0
  /\ halfOpenSuccessCount' = 0
  /\ halfOpenInFlight' = inFlightAfter(c, 0)
  /\ forgotten' = (forgotten \/ Probes \ {c} # {})
  /\ UNCHANGED opened

\* fn returned: onSuccess, then finally.
Succeed(c) ==
  /\ call[c] # "idle" /\ up
  /\ Over(c)
  /\ IF state = "HALF_OPEN" /\ halfOpenSuccessCount + 1 >= halfOpenRequests
     THEN close(c)
     ELSE /\ halfOpenSuccessCount' =
               halfOpenSuccessCount + (IF state = "HALF_OPEN" THEN 1 ELSE 0)
          /\ failures' = IF state = "HALF_OPEN" THEN failures ELSE 0
          /\ halfOpenInFlight' = inFlightAfter(c, halfOpenInFlight)
          /\ UNCHANGED <<state, opened, forgotten>>
  /\ UNCHANGED <<up, outages>>

\* A failure while half open trips, and so does the threshold, in OPEN too.
trips(n) == state = "HALF_OPEN" \/ n >= failureThreshold

\* fn threw: onFailure, then finally.
Failed(c) ==
  LET n == IF failures < failureThreshold THEN failures + 1 ELSE failures IN
  /\ call[c] # "idle" /\ ~up
  /\ Over(c)
  /\ failures' = n
  /\ IF trips(n)
     THEN state' = "OPEN" /\ opened' = 0 /\ halfOpenSuccessCount' = 0
     ELSE UNCHANGED <<state, opened, halfOpenSuccessCount>>
  /\ halfOpenInFlight' = inFlightAfter(c, halfOpenInFlight)
  /\ UNCHANGED <<up, outages, forgotten>>

Tick ==
  /\ state = "OPEN" /\ opened < Reset
  /\ opened' = opened + 1
  /\ UNCHANGED <<state, failures, halfOpenSuccessCount, halfOpenInFlight, call, up,
                 outages, forgotten>>

\* The store goes down, or comes back.
Store ==
  /\ \/ up /\ outages < MaxOutage /\ outages' = outages + 1
     \/ ~up /\ UNCHANGED outages
  /\ up' = ~up
  /\ UNCHANGED <<state, failures, halfOpenSuccessCount, halfOpenInFlight, opened, call,
                 forgotten>>

exec(c) == Exec(c) \/ Succeed(c) \/ Failed(c)

Next == (\E c \in Call : exec(c)) \/ Tick \/ Store

Spec == Init /\ [][Next]_vars

\* Requests keep coming, every call ends, time passes and outages end.
FairSpec == /\ Spec
            /\ \A c \in Call : WF_vars(exec(c))
            /\ WF_vars(Tick) /\ WF_vars(Store /\ ~up)
-----------------------------------------------------------------------------
(* Properties *)

\* "Cap concurrent probes" (exec): no more probes run than halfOpenRequests,
\* through trips, late results and further half-open periods, until close()
\* zeroes the count while a probe is in flight; and the counter never holds a
\* slot that no probe will give back, with which the circuit would stay half
\* open and refuse every call for good.
ProbesCapped ==
  /\ forgotten \/ Cardinality(Probes) <= halfOpenRequests
  /\ halfOpenInFlight <= Cardinality(Probes)

\* A circuit that is not closed closes again, through late results of older
\* calls, failed probes and further outages, once outages end.
CircuitRecovers == []<>(state = "CLOSED")
=============================================================================
