--------------------------- MODULE GoogleEntitlement ---------------------------
(***************************************************************************)
(* How one Google Play subscription becomes access.  Several programs      *)
(* write the same purchase row and the same subscriber_access rows:        *)
(*                                                                         *)
(*   - the webhook workers, which answer every notification (RTDN) by      *)
(*     fetching Google's present state and writing it through the          *)
(*     transition guard (services/google/google-webhook.ts);               *)
(*   - the expiry sweeper and its ageing pass (workers/expiry-checker.ts); *)
(*   - the Google reconciliation sweep (workers/google-reconciliation.ts); *)
(*   - the access drift healer (workers/access-reconciliation.ts).         *)
(*                                                                         *)
(* Each of them re-derives access with syncAccess, which serialises on an  *)
(* advisory lock that the other writes of these tables do not take.        *)
(*                                                                         *)
(* The module follows one subscriber with one purchase token that unlocks  *)
(* one access id.  The token carries no linkedPurchaseToken and Google     *)
(* states no grace window, so gracePeriodExpires is always NULL (no Google *)
(* path writes it).  Revenue events, acknowledgement and plan changes are  *)
(* left out: they are written beside the row and never read back here.     *)
(***************************************************************************)
EXTENDS Integers, Sequences, SubscriptionStatus

CONSTANTS
    Worker,       \* the webhook workers
    Period,       \* length of a paid period
    MaxHold,      \* BILLING_ISSUE_MAX_AGE_DAYS
    StaleAfter,   \* RECONCILE_STALE_AFTER_MS
    MaxTime,      \* bound on the clock
    MaxChanges,   \* bound on what happens to the subscription at Google
    MaxLost,      \* bound on notifications that never arrive
    MaxFail       \* bound on crashes and failed access syncs

ASSUME EntitlementAssumption ==
    /\ {Period, MaxHold, StaleAfter, MaxTime, MaxChanges, MaxLost, MaxFail}
         \subseteq Nat
    /\ Period > 0 /\ MaxChanges > 0
    /\ Worker \cap {"sweeper", "recon", "healer", "nobody"} = {}

VARIABLES
    clock,    \* the time every process reads
    store,    \* Google's record: [state, exp, n], n counting its changes
    inbox,    \* notifications not yet processed: [n, kind]
    row,      \* the purchases row of the token, or NoRow
    access,   \* the subscriber_access rows, in order of creation
    job,      \* what each process is doing
    rowLock,  \* the process whose transaction holds the row FOR UPDATE
    syncLock, \* the process that holds the subscriber's advisory lock
    lost,     \* notifications lost so far
    fails,    \* crashes and failed syncs so far
    newest,   \* history: the latest change of the store the row has been given
    skewed,   \* history: the last write of the row was of an older state
    unsynced, \* history: a sync was lost and none has read the row since
    untold    \* history: lapses written by the sweeps and not announced

vars == <<clock, store, inbox, row, access, job, rowLock, syncLock, lost,
          fails, newest, skewed, unsynced, untold>>

Process == Worker \cup {"sweeper", "recon", "healer"}
Time == 0 .. MaxTime + Period
Nobody == "nobody"

--------------------------------------------------------------------------------
(***************************************************************************)
(* The row of the token and the guard of its status.                       *)
(***************************************************************************)
NoRow == [status |-> "NONE", exp |-> Null, at |-> Null, held |-> Null,
          checked |-> Null]

(* Mutant: the guard forgets the event time. *)
isStaleNever(time) == FALSE

(* An event older than the last one applied is stale, legal or not. *)
isStale(time) == row.at # Null /\ time < row.at
guardStatusWrite(to, time) == ~isStale(time) /\ to \in Transitions(row.status)

mapSubscriptionStateToStatus(state) ==
    CASE state = "ACTIVE"          -> "ACTIVE"
      [] state = "IN_GRACE_PERIOD" -> "GRACE_PERIOD"
      [] state = "ON_HOLD"         -> "BILLING_ISSUE"
      [] state = "PAUSED"          -> "PAUSED"
      [] OTHER                     -> "EXPIRED"

mapStatus(state, kind) ==
    IF kind = "REVOKED" THEN "REVOKED" ELSE mapSubscriptionStateToStatus(state)

--------------------------------------------------------------------------------
(***************************************************************************)
(* What a process carries between its steps.  A worker fetched `seen' at   *)
(* change n of the store and stamped it with `time'; the sweeps carry the  *)
(* candidate's status in `from' and the start of their run in `time'; a    *)
(* process that syncs carries what it read.                                *)
(***************************************************************************)
NoMsg == [n |-> 0, kind |-> "NONE"]
Idle == [at |-> "idle", msg |-> NoMsg, to |-> "NONE", exp |-> Null, n |-> 0,
         time |-> Null, from |-> "NONE", want |-> Null, rows |-> <<>>]

At(p, where) == job[p].at = where
(* Go on with nothing but the notification in hand. *)
Go(p, where) ==
    job' = [job EXCEPT ![p] = [Idle EXCEPT !.at = where, !.msg = job[p].msg]]
Stop(p) == job' = [job EXCEPT ![p] = Idle]

Free(p) == rowLock \in {Nobody, p}

(* The row as it is served: access rows active and not past their expiry. *)
findActiveAccess == {i \in DOMAIN access : access[i].active /\ access[i].exp > clock}
Served == findActiveAccess # {}

(* computeDesiredAccess: the expiry to grant until, or Null for no access.  *)
computeDesiredAccess ==
    IF row.status \in AccessGranting /\ ~(row.exp < clock) THEN row.exp ELSE Null

Init ==
    /\ clock = 0
    /\ store = [state |-> "ACTIVE", exp |-> Period, n |-> 1]
    /\ inbox = {[n |-> 1, kind |-> "STATE"]}
    /\ row = NoRow
    /\ access = <<>>
    /\ job = [p \in Process |-> Idle]
    /\ rowLock = Nobody /\ syncLock = Nobody
    /\ lost = 0 /\ fails = 0
    /\ newest = 0 /\ skewed = FALSE /\ unsynced = FALSE /\ untold = 0

--------------------------------------------------------------------------------
(***************************************************************************)
(* The world: time, Google's record of the subscription, and Pub/Sub.      *)
(***************************************************************************)
Tick ==
    /\ clock < MaxTime
    /\ clock' = clock + 1
    /\ UNCHANGED <<store, inbox, row, access, job, rowLock, syncLock, lost,
                   fails, newest, skewed, unsynced, untold>>

(* Google moves and notifies; the notification may never arrive. *)
StoreMove(state, exp, kind) ==
    /\ store.n < MaxChanges
    /\ store' = [state |-> state, exp |-> exp, n |-> store.n + 1]
    /\ \/ inbox' = inbox \cup {[n |-> store.n + 1, kind |-> kind]} /\ UNCHANGED lost
       \/ lost < MaxLost /\ lost' = lost + 1 /\ UNCHANGED inbox
    /\ UNCHANGED <<clock, row, access, job, rowLock, syncLock, fails, newest,
                   skewed, unsynced, untold>>

Charge == store.state # "EXPIRED" /\ StoreMove("ACTIVE", clock + Period, "STATE")
Lapse ==
    /\ store.exp <= clock
    /\ \E next \in CASE store.state = "ACTIVE" ->
                          {"IN_GRACE_PERIOD", "ON_HOLD", "PAUSED", "EXPIRED"}
                     [] store.state = "IN_GRACE_PERIOD" -> {"ON_HOLD", "EXPIRED"}
                     [] store.state \in {"ON_HOLD", "PAUSED"} -> {"EXPIRED"}
                     [] OTHER -> {} :
          StoreMove(next, store.exp, "STATE")
Revoke == store.state # "EXPIRED" /\ StoreMove("EXPIRED", clock, "REVOKED")
Void == StoreMove(store.state, store.exp, "VOIDED")

--------------------------------------------------------------------------------
(***************************************************************************)
(* The webhook worker: processSubscriptionNotification and                 *)
(* processVoidedPurchase, then runPostProcessing's syncAccess.             *)
(***************************************************************************)

(* The live subscriptionsv2.get, and what mapStatus makes of it. *)
Fetch(w, m) ==
    /\ At(w, "idle") /\ m.kind # "VOIDED"
    /\ \A p \in Worker : job[p].msg # m
    /\ job' = [job EXCEPT ![w] = [Idle EXCEPT
                 !.at = "fetched", !.msg = m, !.exp = store.exp, !.n = store.n,
                 !.to = mapStatus(store.state, m.kind)]]
    /\ UNCHANGED <<clock, store, inbox, row, access, rowLock, syncLock, lost,
                   fails, newest, skewed, unsynced, untold>>

(* A void never asks Google; for a token without a row it does nothing. *)
FindVoided(w, m) ==
    /\ At(w, "idle") /\ m.kind = "VOIDED"
    /\ \A p \in Worker : job[p].msg # m
    /\ IF row = NoRow
       THEN inbox' = inbox \ {m} /\ UNCHANGED job
       ELSE /\ job' = [job EXCEPT ![w] = [Idle EXCEPT
                         !.at = "fetched", !.msg = m]]
            /\ UNCHANGED inbox
    /\ UNCHANGED <<clock, store, row, access, rowLock, syncLock, lost, fails,
                   newest, skewed, unsynced, untold>>

(* eventTime = new Date(), after the fetch and every await that follows it. *)
Stamp(w) ==
    /\ At(w, "fetched")
    /\ job' = [job EXCEPT ![w].at = "stamped", ![w].time = clock]
    /\ UNCHANGED <<clock, store, inbox, row, access, rowLock, syncLock, lost,
                   fails, newest, skewed, unsynced, untold>>

(* History of a write of the row that carries change n of the store. *)
Given(n, withheld) ==
    /\ newest' = IF n > newest THEN n ELSE newest
    /\ skewed' = (n < newest \/ withheld)

(* The update half of the upsert: the status only as the guard decided,    *)
(* the expiry always.                                                      *)
updateRow(j, apply, from) ==
    [row EXCEPT
       !.status = IF apply THEN caseGuarded(row.status, j.to) ELSE row.status,
       !.at     = IF apply THEN j.time ELSE row.at,
       !.held   = IF apply THEN billingIssueStamp(from, j.to, j.time, row.held)
                  ELSE row.held,
       !.exp    = j.exp]

(* A write that was withheld, or grants nothing, revokes by purchase id.   *)
GoGrant(w, apply) ==
    IF apply /\ job[w].to \in AccessGranting
    THEN job' = [job EXCEPT ![w] = [Idle EXCEPT
                   !.at = "find", !.msg = job[w].msg, !.exp = job[w].exp]]
    ELSE Go(w, "revoke")

(* Guard and upsert in one transaction: the guard's FOR UPDATE lock on the *)
(* row serialises it, when there is a row to lock.                         *)
WriteRow(w) ==
    LET j == job[w]
        apply == guardStatusWrite(j.to, j.time)
    IN  /\ At(w, "stamped") /\ j.msg.kind # "VOIDED"
        /\ row # NoRow /\ Free(w)
        /\ row' = updateRow(j, apply, row.status)
        /\ Given(j.n, isStale(j.time))
        /\ GoGrant(w, apply)
        /\ UNCHANGED <<clock, store, inbox, access, rowLock, syncLock, lost,
                       fails, unsynced, untold>>

WriteVoided(w) ==
    LET j == job[w]
        apply == guardStatusWrite("REFUNDED", j.time)
    IN  /\ At(w, "stamped") /\ j.msg.kind = "VOIDED"
        /\ Free(w)
        /\ row' = IF apply
                  THEN [row EXCEPT !.at = j.time,
                                   !.status = caseGuarded(row.status, "REFUNDED")]
                  ELSE row
        /\ Go(w, "revoke")
        /\ UNCHANGED <<clock, store, inbox, access, rowLock, syncLock, lost,
                       fails, newest, skewed, unsynced, untold>>

(* No row, nothing to lock: the guard allows the write and the insert      *)
(* follows as a statement of its own.                                      *)
GuardFirst(w) ==
    /\ At(w, "stamped") /\ job[w].msg.kind # "VOIDED"
    /\ row = NoRow
    /\ job' = [job EXCEPT ![w].at = "insert"]
    /\ UNCHANGED <<clock, store, inbox, row, access, rowLock, syncLock, lost,
                   fails, newest, skewed, unsynced, untold>>

(* INSERT ... ON CONFLICT DO UPDATE.  The loser of two first inserts takes *)
(* the update branch with a guard that saw no row.                         *)
upsertPurchase(w) ==
    LET j == job[w]
    IN  /\ At(w, "insert") /\ Free(w)
        /\ row' = IF row = NoRow
                  THEN [status |-> j.to, exp |-> j.exp, at |-> j.time,
                        held |-> billingIssueStamp("NONE", j.to, j.time, Null),
                        checked |-> Null]
                  ELSE updateRow(j, TRUE, "NONE")
        /\ Given(j.n, FALSE)
        /\ GoGrant(w, TRUE)
        /\ UNCHANGED <<clock, store, inbox, access, rowLock, syncLock, lost,
                       fails, unsynced, untold>>

(* grantAccess finds a row to set or, in a later statement, creates one. *)
FindAccess(w) ==
    /\ At(w, "find")
    /\ IF access = <<>>
       THEN job' = [job EXCEPT ![w].at = "create"] /\ UNCHANGED access
       ELSE /\ \E i \in DOMAIN access :
                 access' = [access EXCEPT ![i] = [active |-> TRUE, exp |-> job[w].exp]]
            /\ Go(w, "sync")
    /\ UNCHANGED <<clock, store, inbox, row, rowLock, syncLock, lost, fails,
                   newest, skewed, unsynced, untold>>

createAccess(w) ==
    /\ At(w, "create")
    /\ access' = access \o <<[active |-> TRUE, exp |-> job[w].exp]>>
    /\ Go(w, "sync")
    /\ UNCHANGED <<clock, store, inbox, row, rowLock, syncLock, lost, fails,
                   newest, skewed, unsynced, untold>>

revokeAccessByPurchaseId(w) ==
    /\ At(w, "revoke")
    /\ access' = [i \in DOMAIN access |-> [access[i] EXCEPT !.active = FALSE]]
    /\ Go(w, "sync")
    /\ UNCHANGED <<clock, store, inbox, row, rowLock, syncLock, lost, fails,
                   newest, skewed, unsynced, untold>>

--------------------------------------------------------------------------------
(***************************************************************************)
(* syncAccess, for every process at "sync".  The advisory lock is held     *)
(* from the read to the commit; it excludes other syncs and nothing else.  *)
(***************************************************************************)
(* Mutant: no advisory lock around the read and the writes. *)
syncReadUnlocked(p) ==
    /\ syncLock' = p
    /\ job' = [job EXCEPT ![p].at = "apply", ![p].want = computeDesiredAccess,
                          ![p].rows = access]
    /\ unsynced' = FALSE
    /\ UNCHANGED <<clock, store, inbox, row, access, rowLock, lost, fails,
                   newest, skewed, untold>>

syncRead(p) ==
    /\ syncLock = Nobody
    /\ syncLock' = p
    /\ job' = [job EXCEPT ![p].at = "apply", ![p].want = computeDesiredAccess,
                          ![p].rows = access]
    /\ unsynced' = FALSE
    /\ UNCHANGED <<clock, store, inbox, row, access, rowLock, lost, fails,
                   newest, skewed, untold>>

SyncRead(p) == At(p, "sync") /\ syncRead(p)

(* The access rows after the sync's writes, when the row it found first    *)
(* for the purchase was `first'.  It decides on the rows it read.          *)
reconciled(rows, want, first) ==
    [i \in DOMAIN access |->
       IF i \notin DOMAIN rows THEN access[i]
       ELSE IF want = Null
            THEN [access[i] EXCEPT !.active = access[i].active /\ ~rows[i].active]
       ELSE IF i = first /\ (~rows[i].active \/ rows[i].exp # want)
            THEN [active |-> TRUE, exp |-> want]
       ELSE access[i]]

(* Where a process goes when its sync has committed: a worker's            *)
(* notification is PROCESSED, or fails later on and will be run again.     *)
AfterSync(p) ==
    CASE p \in Worker ->
           /\ \/ inbox' = inbox \ {job[p].msg} /\ UNCHANGED fails
              \/ fails < MaxFail /\ fails' = fails + 1 /\ UNCHANGED inbox
           /\ Stop(p)
      [] p = "sweeper" -> Go(p, "tell") /\ UNCHANGED <<inbox, fails>>
      [] OTHER -> Stop(p) /\ UNCHANGED <<inbox, fails>>

SyncApply(p) ==
    LET j == job[p]
    IN  /\ At(p, "apply")
        /\ IF j.want # Null /\ j.rows = <<>>
           THEN access' = access \o <<[active |-> TRUE, exp |-> j.want]>>
           ELSE \E first \in 1 .. Len(j.rows) \cup {0} :
                  /\ (first = 0) <=> (j.rows = <<>>)
                  /\ access' = reconciled(j.rows, j.want, first)
        /\ syncLock' = Nobody
        /\ AfterSync(p)
        /\ UNCHANGED <<clock, store, row, rowLock, lost, newest, skewed,
                       unsynced, untold>>

(* safeSyncAccess: the sweeps log a failed sync and go on. *)
SyncFail(p) ==
    /\ p \in {"sweeper", "recon"}
    /\ At(p, "sync") /\ fails < MaxFail
    /\ fails' = fails + 1
    /\ unsynced' = TRUE
    /\ IF p = "sweeper" THEN Go(p, "tell") ELSE Stop(p)
    /\ UNCHANGED <<clock, store, inbox, row, access, rowLock, syncLock, lost,
                   newest, skewed, untold>>

--------------------------------------------------------------------------------
(***************************************************************************)
(* The sweeps.  Each is one process: its queue has concurrency 1.          *)
(***************************************************************************)

(* findOverduePurchases and findAgedBillingIssuePurchases. *)
Overdue == row.status \in Sweepable /\ row.exp <= clock
Aged == row.status = "BILLING_ISSUE" /\ row.held # Null /\ row.held < clock - MaxHold

SweepRead ==
    /\ At("sweeper", "idle") /\ (Overdue \/ Aged)
    /\ job' = [job EXCEPT !["sweeper"] = [Idle EXCEPT !.at = "expire",
                                                      !.from = row.status]]
    /\ UNCHANGED <<clock, store, inbox, row, access, rowLock, syncLock, lost,
                   fails, newest, skewed, unsynced, untold>>

(* Mutant: a row somebody else expired counts as swapped. *)
swapMatchesLapsed(expected) == row.status \in {expected, "EXPIRED"}

(* The compare-and-swap of the status, and of nothing else. *)
swapMatches(expected) == row.status = expected

updatePurchaseStatusIf ==
    /\ At("sweeper", "expire") /\ Free("sweeper")
    /\ IF swapMatches(job["sweeper"].from)
       THEN /\ row' = [row EXCEPT !.status = "EXPIRED"]
            /\ untold' = untold + (IF row.status = "EXPIRED" THEN 0 ELSE 1)
            /\ skewed' = (skewed \/ row.exp > clock)
            /\ Go("sweeper", "sync")
       ELSE Stop("sweeper") /\ UNCHANGED <<row, untold, skewed>>
    /\ UNCHANGED <<clock, store, inbox, access, rowLock, syncLock, lost, fails,
                   newest, unsynced>>

(* enqueueExpirationWebhook, then recordCancellationRevenue. *)
Tell ==
    /\ At("sweeper", "tell")
    /\ untold' = untold - 1
    /\ Stop("sweeper")
    /\ UNCHANGED <<clock, store, inbox, row, access, rowLock, syncLock, lost,
                   fails, newest, skewed, unsynced>>

(* The eligibility predicate, evaluated when ids are selected and again,   *)
(* with the same `now', when the row is claimed.                           *)
Eligible(now) ==
    /\ row.status \in Reconcilable
    /\ \/ row.status = "ACTIVE" /\ row.exp < now
       \/ row.checked = Null
       \/ row.checked < now - StaleAfter

(* A sweep that began at `now' claims the row, FOR UPDATE SKIP LOCKED, and *)
(* fetches the live state inside the transaction.                          *)
ReconClaim ==
    /\ At("recon", "idle") /\ rowLock = Nobody
    /\ \E now \in 0 .. clock :
         /\ Eligible(now)
         /\ job' = [job EXCEPT !["recon"] = [Idle EXCEPT
                      !.at = "held", !.time = now, !.from = row.status,
                      !.to = mapSubscriptionStateToStatus(store.state),
                      !.exp = store.exp, !.n = store.n]]
    /\ rowLock' = "recon"
    /\ UNCHANGED <<clock, store, inbox, row, access, syncLock, lost, fails,
                   newest, skewed, unsynced, untold>>

(* Mutant: the claim outlives the failed verification. *)
ReconErrorKeepsLock ==
    /\ At("recon", "held")
    /\ Stop("recon")
    /\ UNCHANGED <<clock, store, inbox, row, access, rowLock, syncLock, lost,
                   fails, newest, skewed, unsynced, untold>>

(* The verification failed: the transaction ends with nothing written. *)
ReconError ==
    /\ At("recon", "held")
    /\ rowLock' = Nobody
    /\ Stop("recon")
    /\ UNCHANGED <<clock, store, inbox, row, access, syncLock, lost, fails,
                   newest, skewed, unsynced, untold>>

(* Confirmed or rejected: only lastReconciledAt moves.  Corrected: status, *)
(* expiry and stamps move, and an EXPIRED is announced in the same commit. *)
ReconWrite ==
    LET j == job["recon"]
        apply == j.to # j.from /\ guardStatusWrite(j.to, j.time)
    IN  /\ At("recon", "held")
        /\ rowLock' = Nobody
        /\ IF apply
           THEN /\ row' = [updateRow(j, TRUE, j.from) EXCEPT !.checked = j.time]
                /\ Given(j.n, FALSE)
                /\ Go("recon", "sync")
           ELSE /\ row' = [row EXCEPT !.checked = j.time]
                /\ Stop("recon")
                /\ UNCHANGED <<newest, skewed>>
        /\ UNCHANGED <<clock, store, inbox, access, syncLock, lost, fails,
                       unsynced, untold>>

(* detectDrift: an active row against the desired access, either way.  A  *)
(* subscriber found drifted is synced; a sync that reads no drift writes   *)
(* nothing, so the healer is taken to detect and to read at once.          *)
Drifted ==
    \/ computeDesiredAccess # Null
         /\ \A i \in DOMAIN access :
              access[i] # [active |-> TRUE, exp |-> computeDesiredAccess]
    \/ computeDesiredAccess = Null /\ \E i \in DOMAIN access : access[i].active

Heal ==
    /\ At("healer", "idle") /\ row # NoRow /\ Drifted
    /\ syncRead("healer")

(* A process dies: its transaction rolls back, its locks are released, and *)
(* a notification it was working on is delivered again.                    *)
Crash(p) ==
    /\ ~At(p, "idle") /\ fails < MaxFail
    /\ fails' = fails + 1
    /\ Stop(p)
    /\ rowLock' = IF rowLock = p THEN Nobody ELSE rowLock
    /\ syncLock' = IF syncLock = p THEN Nobody ELSE syncLock
    /\ unsynced' = (unsynced \/ (p \notin Worker /\ job[p].at \in {"sync", "apply"}))
    /\ UNCHANGED <<clock, store, inbox, row, access, lost, newest, skewed, untold>>

--------------------------------------------------------------------------------
WorkerStep(w) ==
    \/ \E m \in inbox : Fetch(w, m) \/ FindVoided(w, m)
    \/ Stamp(w) \/ WriteRow(w) \/ WriteVoided(w) \/ GuardFirst(w)
    \/ upsertPurchase(w)
    \/ FindAccess(w) \/ createAccess(w) \/ revokeAccessByPurchaseId(w)

SweepStep == SweepRead \/ updatePurchaseStatusIf \/ Tell
ReconStep == ReconClaim \/ ReconError \/ ReconWrite

StoreStep == Charge \/ Lapse \/ Revoke \/ Void

Next ==
    \/ Tick \/ StoreStep
    \/ \E w \in Worker : WorkerStep(w)
    \/ SweepStep \/ ReconStep \/ Heal
    \/ \E p \in Process : SyncRead(p) \/ SyncApply(p) \/ SyncFail(p) \/ Crash(p)

Spec == Init /\ [][Next]_vars
--------------------------------------------------------------------------------
(***************************************************************************)
(* Properties.                                                             *)
(***************************************************************************)
Msg == [n : 1 .. MaxChanges, kind : {"STATE", "REVOKED", "VOIDED"}]
Access == [active : BOOLEAN, exp : Time \cup {Null}]
Row == [status : Status, exp : Time, at : Time, held : Time \cup {Null},
        checked : Time \cup {Null}]

(* Every variable has its type, and each lock belongs to a process that is *)
(* inside the transaction that takes it.                                   *)
TypeOK ==
    /\ clock \in 0 .. MaxTime
    /\ store \in [state : {"ACTIVE", "IN_GRACE_PERIOD", "ON_HOLD", "PAUSED",
                           "EXPIRED"}, exp : Time, n : 1 .. MaxChanges]
    /\ inbox \subseteq Msg
    /\ row \in Row \cup {NoRow}
    /\ \A i \in DOMAIN access : access[i] \in Access
    /\ \A p \in Process : job[p].msg \in inbox \cup {NoMsg}
    /\ rowLock \in {Nobody} \cup {p \in Process : At(p, "held")}
    /\ syncLock \in {Nobody} \cup {p \in Process : At(p, "apply")}
    /\ lost \in 0 .. MaxLost /\ fails \in 0 .. MaxFail
    /\ newest \in 0 .. store.n
    /\ {skewed, unsynced} \subseteq BOOLEAN

(* A refunded or revoked purchase stays so: neither the guard's decision   *)
(* on a row it could not lock, nor a sweep's stale candidate, brings it    *)
(* back (the CASE in upsertPurchase and updatePurchase).                   *)
TerminalIsAbsorbing ==
    [][row.status \in Terminal => row'.status = row.status]_vars

(* The row never goes back to an event older than the one it holds, in     *)
(* whatever order deliveries, retries and the reconciliation sweep reach   *)
(* it (guardStatusWrite's event-time check).  Two first inserts at once    *)
(* are excepted: the guard of the second saw no row.                       *)
EventOrder ==
    [][row # NoRow /\ (\A w \in Worker : ~At(w, "insert"))
         => row'.at >= row.at]_vars

(* A held row carries the date its hold began, whoever put it on hold:     *)
(* the ageing pass never retires a row whose stamp is NULL.                *)
HoldIsStamped ==
    row.status = "BILLING_ISSUE" => row.held \in 0 .. clock

Quiet == \A p \in Process : At(p, "idle")
Settled == Quiet /\ inbox = {} /\ ~unsynced

(* Once the writers have come to rest, a purchase that entitles is served  *)
(* and one whose status grants nothing is not, although access rows are    *)
(* written outside the advisory lock and a sync may work on stale reads    *)
(* (syncAccess is the last step of every writer).                          *)
ServedFollowsRow ==
    Settled =>
      /\ row.status \in AccessGranting /\ row.exp > clock => Served
      /\ Served => row.status \in AccessGranting

(* Every notification processed, in any order and any number of times: a   *)
(* subscription Google reports as paid is served, and one it holds, pauses *)
(* or ended is not, unless the row is refunded or revoked, or a write that *)
(* overtook a newer one was the last (handlers refetch the live state;     *)
(* ACTIVE is a legal move from every status that is not terminal).         *)
ServedFollowsStore ==
    Settled /\ lost = 0 /\ ~skewed /\ row.status \notin Terminal =>
      /\ store.state = "ACTIVE" /\ store.exp > clock => Served
      /\ store.state \in {"ON_HOLD", "PAUSED", "EXPIRED"} => ~Served

(* The sweeper announces each lapse it writes once: no announcement for a  *)
(* row that another process had expired, refunded or revoked in between,   *)
(* and none missing when no process failed (updatePurchaseStatusIf's       *)
(* compare-and-swap before retireCandidate).                               *)
ChurnToldOnce ==
    /\ untold >= 0
    /\ Quiet /\ fails = 0 => untold = 0

================================================================================
