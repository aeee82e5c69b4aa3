------------------------------- MODULE AppleChain -------------------------------
(***************************************************************************)
(* How one App Store subscription becomes purchase rows, access and        *)
(* revenue.  Apple mints a new transaction for every billing period, so a  *)
(* subscription is a chain of rows that share an originalTransactionId.    *)
(* Some notifications carry one transaction and write its row through the  *)
(* transition guard; others (a failed renewal, an expiry, a revocation)    *)
(* write every row of the chain and neither check nor set its event time.  *)
(* The queue runs notifications again after a failure and in any order,    *)
(* several at once, beside receipts that clients present when they like.   *)
(*                                                                         *)
(* The module follows one subscriber with one chain.  A product of tier 1  *)
(* or 2 unlocks the access id of its tier.  Left out: trials, pending plan *)
(* changes and auto-renew flags (columns nothing here reads), subscriber   *)
(* resolution, lifecycle events, the billing-issue stamp and the expiry    *)
(* sweep, which GoogleEntitlement follows.                                 *)
(***************************************************************************)
EXTENDS Integers, Sequences, FiniteSets, SubscriptionStatus

CONSTANTS
    Worker,       \* webhook workers and API processes
    Period,       \* length of a paid period
    Grace,        \* length of the billing grace period
    MaxTxn,       \* bound on the transactions Apple mints
    MaxTime,      \* bound on the clock
    MaxEvents,    \* bound on notifications, receipts and failed jobs together
    MaxBacklog    \* bound on what waits to be processed

ASSUME ChainAssumption ==
    /\ {Period, Grace, MaxTxn, MaxTime, MaxEvents, MaxBacklog} \subseteq Nat
    /\ Period > 0 /\ MaxTxn > 0 /\ MaxEvents > 0
    /\ "nobody" \notin Worker

VARIABLES
    clock,     \* the time every process reads
    log,       \* what happened at Apple: [kind, txn, at], signed in this order
    charges,   \* the transactions Apple minted: [exp, tier]
    store,     \* Apple's record of the subscription: [state, grace]
    inbox,     \* notifications and receipts to process: [n, kind, txn]
    rows,      \* the purchases row of each transaction, or NoRow
    latest,    \* the transaction of the row created last, or 0
    access,    \* the subscriber_access rows, in order of creation
    revenue,   \* the revenue_events rows: [txn, key, type]
    job,       \* what each process is doing
    syncLock,  \* the process that holds the subscriber's advisory lock
    extra,     \* receipts presented and jobs failed so far
    given,     \* history: the newest event written to each row
    skewed,    \* history: an event was overtaken by a newer one
    unsynced   \* history: a chain write without a sync, none since

storeVars == <<clock, log, charges, store>>
history == <<given, skewed, unsynced>>
vars == <<storeVars, inbox, rows, latest, access, revenue, job, syncLock,
          extra, history>>

Txn == 1 .. MaxTxn
Tier == {1, 2}
Nobody == "nobody"
Later(a, b) == IF a > b THEN a ELSE b

(* What a notification carries a transaction for. *)
Upgrades == {"PREF_UPGRADE", "OFFER_UPGRADE"}
Offers == {"OFFER_REDEEMED", "OFFER_UPGRADE"}
Charges == {"SUBSCRIBED", "RESUBSCRIBE", "DID_RENEW", "RECEIPT"} \cup Upgrades
             \cup Offers
Failures == {"FAIL", "FAIL_GRACE"}
Kind == Charges \cup Failures \cup {"EXPIRED", "REFUND", "REVERSED", "REVOKE"}

NoRow == [status |-> "NONE", at |-> 0, grace |-> Null]
NoMsg == [n |-> 0, kind |-> "NONE", txn |-> 0]
Nothing == [tier \in Tier |-> [txn |-> 0, exp |-> Null]]
Idle == [at |-> "idle", msg |-> NoMsg, label |-> "NONE", todo |-> {},
         want |-> Nothing, seen |-> <<>>]

--------------------------------------------------------------------------------
(***************************************************************************)
(* The App Store.                                                          *)
(***************************************************************************)
Current == charges[Len(charges)]

Spent == Len(log) + extra
Waits(k) == Cardinality(inbox) + k <= MaxBacklog

Refunded(t) ==
    \E n \in DOMAIN log :
      /\ log[n].kind = "REFUND" /\ log[n].txn = t
      /\ \A m \in n + 1 .. Len(log) : ~(log[m].kind = "REVERSED" /\ log[m].txn = t)

(* Append events, all about transaction t, and send their notifications. *)
Notify(kinds, t) ==
    /\ Spent + Len(kinds) <= MaxEvents /\ Waits(Len(kinds))
    /\ log' = log \o [i \in DOMAIN kinds |->
                        [kind |-> kinds[i], txn |-> t, at |-> clock]]
    /\ inbox' = inbox \cup {[n |-> Len(log) + i, kind |-> kinds[i], txn |-> t] :
                              i \in DOMAIN kinds}
    /\ UNCHANGED <<clock, extra, rows, latest, access, revenue, job,
                   syncLock, history>>

Charge(kinds, from, tier) ==
    /\ Len(charges) < MaxTxn
    /\ charges' = Append(charges, [exp |-> from + Period, tier |-> tier])
    /\ store' = [state |-> "ACTIVE", grace |-> Null]
    /\ Notify(kinds, Len(charges) + 1)

Move(kind, state, grace) ==
    /\ store' = [state |-> state, grace |-> grace]
    /\ Notify(<<kind>>, Len(charges))
    /\ UNCHANGED charges

(* Apple charges up to a day before the period ends, or retries later. *)
Renew ==
    /\ store.state \in {"ACTIVE", "GRACE", "RETRY"}
    /\ store.state = "ACTIVE" => clock >= Current.exp - 1
    /\ \E kind \in {"DID_RENEW", "OFFER_REDEEMED"} :
         Charge(<<kind>>, Later(clock, Current.exp), Current.tier)

Upgrade ==
    /\ store.state = "ACTIVE" /\ Current.exp > clock /\ Current.tier = 1
    /\ \E kind \in Upgrades : Charge(<<kind>>, clock, 2)

(* A win-back is announced twice, as an offer and as a subscription. *)
Resubscribe ==
    /\ store.state \in {"EXPIRED", "REVOKED"}
    /\ \E kinds \in {<<"RESUBSCRIBE">>, <<"OFFER_REDEEMED", "RESUBSCRIBE">>} :
         Charge(kinds, clock, Current.tier)

FailToRenew ==
    /\ store.state = "ACTIVE" /\ clock >= Current.exp
    /\ \/ Move("FAIL_GRACE", "GRACE", clock + Grace)
       \/ Move("FAIL", "RETRY", Null)

(* EXPIRED, or GRACE_PERIOD_EXPIRED, which is handled alike. *)
Lapse ==
    /\ store.state \in {"ACTIVE", "GRACE", "RETRY"}
    /\ store.state = "ACTIVE" => clock >= Current.exp
    /\ store.state = "GRACE" => clock >= store.grace
    /\ Move("EXPIRED", IF store.state = "GRACE" THEN "RETRY" ELSE "EXPIRED", Null)

Revoke == store.state # "REVOKED" /\ Move("REVOKE", "REVOKED", Null)

Refund ==
    \E t \in DOMAIN charges :
      /\ store.state # "REVOKED"
      /\ Notify(<<IF Refunded(t) THEN "REVERSED" ELSE "REFUND">>, t)
      /\ UNCHANGED <<charges, store>>

Tick ==
    /\ clock < MaxTime
    /\ clock' = clock + 1
    /\ UNCHANGED <<log, charges, store, inbox, rows, latest, access,
                   revenue, job, syncLock, extra, history>>

(* A client presents the receipt Apple signed with a charge. *)
Present ==
    \E n \in DOMAIN log :
      /\ Spent < MaxEvents /\ Waits(1) /\ log[n].kind \in Charges
      /\ extra' = extra + 1
      /\ inbox' = inbox \cup {[n |-> n, kind |-> "RECEIPT", txn |-> log[n].txn]}
      /\ UNCHANGED <<clock, log, charges, store, rows, latest, access, revenue,
                     job, syncLock, history>>

--------------------------------------------------------------------------------
(***************************************************************************)
(* The start and the end of a job.  A notification that fails, or whose    *)
(* worker dies, stays in the inbox and runs again from the start.          *)
(***************************************************************************)
At(p, where) == job[p].at = where
Go(p, where) == job' = [job EXCEPT ![p].at = where]
Done(p) == job' = [job EXCEPT ![p] = Idle] /\ inbox' = inbox \ {job[p].msg}

(* claimWebhookEvent: an idle worker takes a notification nobody has.  An  *)
(* offer reads the status of the chain's last row before it writes.        *)
Takes(p, m) ==
    At(p, "idle") /\ m \in inbox \ {job[q].msg : q \in Worker}

offerLabel(m) ==
    IF m.kind \notin Offers THEN "NONE"
    ELSE IF latest # 0 /\ rows[latest].status = "EXPIRED" THEN "REACTIVATION"
    ELSE "INITIAL"

Begin(p, m, where) ==
    /\ job' = [job EXCEPT ![p] = [Idle EXCEPT !.at = where, !.msg = m,
                                             !.label = offerLabel(m)]]
    /\ UNCHANGED inbox

(* A notification that is handled in one step. *)
Ignore(m) == inbox' = inbox \ {m} /\ UNCHANGED job

(* Mutant: the advisory lock outlives the transaction that took it. *)
CrashKeepsLock(p) ==
    /\ ~At(p, "idle") /\ ~At(p, "insert") /\ Spent < MaxEvents
    /\ extra' = extra + 1
    /\ job' = [job EXCEPT ![p] = Idle]
    /\ UNCHANGED <<storeVars, inbox, rows, latest, access, revenue, syncLock, history>>

(* A job that dies has written something: before its first write, dying    *)
(* and not having started are the same.                                    *)
Crash(p) ==
    /\ ~At(p, "idle") /\ ~At(p, "insert") /\ Spent < MaxEvents
    /\ extra' = extra + 1
    /\ job' = [job EXCEPT ![p] = Idle]
    /\ syncLock' = IF syncLock = p THEN Nobody ELSE syncLock
    /\ UNCHANGED <<storeVars, inbox, rows, latest, access, revenue, history>>

--------------------------------------------------------------------------------
(***************************************************************************)
(* Writes of one row.                                                      *)
(***************************************************************************)
(* guardStatusWrite on a row that exists and is locked. *)
guardStatusWrite(r, to, n, allowFrom) ==
    ~(n < r.at) /\ (to \in Transitions(r.status) \/ r.status \in allowFrom)

written(r, to, n) == [r EXCEPT !.status = caseGuarded(r.status, to), !.at = n]

(* Every other row of the chain that is on hold ends with the recovery. *)
retireChainBillingIssue(rs, t, n) ==
    [u \in Txn |->
       IF /\ u # t /\ rs[u].status = "BILLING_ISSUE"
          /\ guardStatusWrite(rs[u], "EXPIRED", n, {})
       THEN written(rs[u], "EXPIRED", n) ELSE rs[u]]

(* History: g is the newest event of each row, of no use once an event was *)
(* overtaken.                                                              *)
Write(g, overtaken) ==
    /\ skewed' = (skewed \/ overtaken)
    /\ given' = IF skewed' THEN [t \in Txn |-> 0] ELSE g

(* A write of one row.  A notification whose status is withheld skips the  *)
(* rest of its work, a receipt does not.                                   *)
Given(m, applied) ==
    /\ Write([given EXCEPT ![m.txn] = Later(@, m.n)],
             m.n < given[m.txn] /\ (applied \/ m.kind # "RECEIPT"))
    /\ UNCHANGED unsynced

(* A webhook retires the tier it replaces, grants and records revenue only *)
(* if its status was applied; a receipt records revenue in any case.       *)
AfterUpsert(m, applied) ==
    IF m.kind = "RECEIPT" THEN "revenue"
    ELSE IF ~applied THEN "sync"
    ELSE IF m.kind \in Upgrades THEN "siblings" ELSE "find"

(* Guard and upsert in one transaction; the row exists, so the guard locks *)
(* it.  A recovery seen on this very row leaves the rest of the chain.     *)
upsertPurchase(p, m) ==
    LET r == rows[m.txn]
        apply == guardStatusWrite(r, "ACTIVE", m.n, {})
        own == [rows EXCEPT ![m.txn] = IF apply THEN written(r, "ACTIVE", m.n) ELSE r]
    IN  /\ Takes(p, m) /\ m.kind \in Charges /\ r # NoRow
        /\ rows' = IF apply /\ m.kind # "RECEIPT" /\ r.status # "BILLING_ISSUE"
                   THEN retireChainBillingIssue(own, m.txn, m.n) ELSE own
        /\ Given(m, apply)
        /\ Begin(p, m, AfterUpsert(m, apply))
        /\ UNCHANGED <<storeVars, latest, access, revenue, syncLock, extra>>

(* No row, nothing to lock: the guard allows the write, the insert follows *)
(* as a statement of its own and may find that another came first.         *)
GuardFirst(p, m) ==
    /\ Takes(p, m) /\ m.kind \in Charges /\ rows[m.txn] = NoRow
    /\ Begin(p, m, "insert")
    /\ UNCHANGED <<storeVars, rows, latest, access, revenue, syncLock, extra, history>>

insertPurchase(p) ==
    LET m == job[p].msg
        r == rows[m.txn]
        own == [rows EXCEPT ![m.txn] =
                  IF r = NoRow THEN [NoRow EXCEPT !.status = "ACTIVE", !.at = m.n]
                  ELSE written(r, "ACTIVE", m.n)]
    IN  /\ At(p, "insert")
        /\ rows' = IF m.kind # "RECEIPT" THEN retireChainBillingIssue(own, m.txn, m.n)
                   ELSE own
        /\ latest' = IF r = NoRow THEN m.txn ELSE latest
        /\ Given(m, TRUE)
        /\ Go(p, AfterUpsert(m, TRUE))
        /\ UNCHANGED <<storeVars, inbox, access, revenue, syncLock, extra>>

(* A refund of a transaction nobody has recorded is dropped. *)
applyRefund(p, m) ==
    LET r == rows[m.txn]
        apply == r # NoRow /\ guardStatusWrite(r, "REFUNDED", m.n, {})
    IN  /\ Takes(p, m) /\ m.kind = "REFUND"
        /\ rows' = IF apply THEN [rows EXCEPT ![m.txn] = written(r, "REFUNDED", m.n)]
                   ELSE rows
        /\ Given(m, apply)
        /\ IF r = NoRow THEN Ignore(m) ELSE Begin(p, m, "revoke")
        /\ UNCHANGED <<storeVars, latest, access, revenue, syncLock, extra>>

(* The one way out of REFUNDED, past the guard and past the CASE. *)
applyRefundReversed(p, m) ==
    LET r == rows[m.txn]
        to == IF charges[m.txn].exp > clock THEN "ACTIVE" ELSE "EXPIRED"
        apply == r # NoRow /\ guardStatusWrite(r, to, m.n, {"REFUNDED"})
    IN  /\ Takes(p, m) /\ m.kind = "REVERSED"
        /\ rows' = IF apply THEN [rows EXCEPT ![m.txn].status = to, ![m.txn].at = m.n]
                   ELSE rows
        /\ Given(m, apply)
        /\ IF r = NoRow THEN Ignore(m) ELSE Begin(p, m, "revenue")
        /\ UNCHANGED <<storeVars, latest, access, revenue, syncLock, extra>>

--------------------------------------------------------------------------------
(***************************************************************************)
(* Writes of the whole chain.  They leave lastStoreEventAt as it is.       *)
(***************************************************************************)
(* Mutant: the unguarded update of every row of the chain. *)
updateEveryRow(to, grace) ==
    [t \in Txn |-> IF rows[t] = NoRow THEN NoRow
                   ELSE [rows[t] EXCEPT !.status = to, !.grace = grace[t]]]

updateChainStatusGuarded(to, grace) ==
    [t \in Txn |-> IF rows[t] = NoRow \/ rows[t].status \in Terminal THEN rows[t]
                   ELSE [rows[t] EXCEPT !.status = to, !.grace = grace[t]]]

ChainGiven(n) ==
    Write([t \in Txn |-> Later(given[t], n)],
          \E t \in Txn : rows[t] # NoRow /\ n < given[t])

(* Nothing resolves the subscriber, so post-processing does not sync. *)
applyFailedRenewal(p, m) ==
    LET status == IF m.kind = "FAIL" THEN "BILLING_ISSUE" ELSE "GRACE_PERIOD"
        ends == IF m.kind = "FAIL" THEN Null ELSE log[m.n].at + Grace
    IN  /\ Takes(p, m) /\ m.kind \in Failures
        /\ rows' = updateChainStatusGuarded(status, [t \in Txn |-> ends])
        /\ ChainGiven(m.n)
        /\ unsynced' = (unsynced \/ rows' # rows)
        /\ Ignore(m)
        /\ UNCHANGED <<storeVars, latest, access, revenue, syncLock, extra>>

(* EXPIRED and REVOKE: every row, then every access row. *)
ChainEnd(p, m) ==
    LET status == IF m.kind = "REVOKE" THEN "REVOKED" ELSE "EXPIRED"
        moved == \E t \in Txn : rows[t] # NoRow /\ rows[t].status \notin Terminal
    IN  /\ Takes(p, m) /\ m.kind \in {"EXPIRED", "REVOKE"}
        /\ rows' = updateChainStatusGuarded(status, [t \in Txn |-> rows[t].grace])
        /\ ChainGiven(m.n)
        /\ job' = [job EXCEPT ![p] = [Idle EXCEPT !.at = "revoke", !.msg = m,
                                    !.label = IF moved THEN "NONE" ELSE "withheld"]]
        /\ UNCHANGED <<storeVars, inbox, latest, access, revenue, syncLock,
                       extra, unsynced>>

--------------------------------------------------------------------------------
(***************************************************************************)
(* Access rows outside of a sync.                                          *)
(***************************************************************************)
(* Mutant: an upgrade finds nothing to retire. *)
supersedesNothing(t, n) == {}

(* Rows of the chain whose period the upgrade cut short. *)
findSupersedable(t, n) ==
    {u \in Txn \ {t} : /\ rows[u] # NoRow /\ rows[u].status \notin Terminal
                       /\ charges[u].exp > log[n].at}

FindSiblings(p) ==
    LET m == job[p].msg
        found == findSupersedable(m.txn, m.n)
    IN  /\ At(p, "siblings")
        /\ job' = [job EXCEPT ![p].todo = found,
                              ![p].at = IF found = {} THEN "find" ELSE "supersede"]
        /\ Write([u \in Txn |-> IF u < m.txn THEN Later(given[u], m.n) ELSE given[u]],
                 FALSE)
        /\ UNCHANGED <<storeVars, inbox, rows, latest, access, revenue, syncLock,
                       extra, unsynced>>

(* One transaction and one sync for each. *)
expireSuperseded(p) ==
    LET n == job[p].msg.n
    IN  /\ At(p, "supersede")
        /\ \E u \in job[p].todo :
             LET apply == guardStatusWrite(rows[u], "EXPIRED", n, {})
             IN  /\ rows' = IF apply THEN [rows EXCEPT ![u] = written(@, "EXPIRED", n)]
                            ELSE rows
                 /\ Write(given, apply /\ n < given[u])
                 /\ job' = [job EXCEPT ![p].at = "resync", ![p].todo = @ \ {u}]
        /\ UNCHANGED <<storeVars, inbox, latest, access, revenue, syncLock,
                       extra, unsynced>>

Granted(t) == [txn |-> t, active |-> TRUE, exp |-> charges[t].exp]

(* grantAccess finds a row to set or, in a later statement, creates one. *)
FindAccess(p) ==
    LET t == job[p].msg.txn
        mine == {i \in DOMAIN access : access[i].txn = t}
    IN  /\ At(p, "find")
        /\ IF mine = {} THEN Go(p, "create") /\ UNCHANGED access
           ELSE /\ \E i \in mine : access' = [access EXCEPT ![i] = Granted(t)]
                /\ Go(p, "revenue")
        /\ UNCHANGED <<storeVars, inbox, rows, latest, revenue, syncLock, extra,
                       history>>

createAccess(p) ==
    /\ At(p, "create")
    /\ access' = Append(access, Granted(job[p].msg.txn))
    /\ Go(p, "revenue")
    /\ UNCHANGED <<storeVars, inbox, rows, latest, revenue, syncLock, extra,
                   history>>

(* A refund revokes its purchase, an expiry or a revocation the chain.  An *)
(* expiry that moved no row ends here; one that did records the churn.     *)
revokeAccess(p) ==
    LET m == job[p].msg
    IN  /\ At(p, "revoke")
        /\ access' = [i \in DOMAIN access |->
                        IF m.kind = "REFUND" /\ access[i].txn # m.txn THEN access[i]
                        ELSE [access[i] EXCEPT !.active = FALSE]]
        /\ CASE m.kind = "REVOKE" /\ latest # 0 ->
                  Go(p, "sync") /\ UNCHANGED <<inbox, unsynced>>
             [] \/ m.kind = "REVOKE" /\ latest = 0
                \/ m.kind = "EXPIRED" /\ job[p].label = "withheld" ->
                  Done(p) /\ unsynced' = (unsynced \/ access' # access)
             [] OTHER -> Go(p, "revenue") /\ UNCHANGED <<inbox, unsynced>>
        /\ UNCHANGED <<storeVars, rows, latest, revenue, syncLock, extra, given,
                       skewed>>

--------------------------------------------------------------------------------
(***************************************************************************)
(* Revenue.                                                                *)
(***************************************************************************)
revenueType(m, label) ==
    CASE m.kind \in {"SUBSCRIBED", "PREF_UPGRADE"} -> "INITIAL"
      [] m.kind \in {"RESUBSCRIBE", "REVERSED"}    -> "REACTIVATION"
      [] m.kind \in Offers                         -> label
      [] m.kind = "RECEIPT" -> IF m.txn = 1 THEN "INITIAL" ELSE "RENEWAL"
      [] m.kind = "DID_RENEW"                      -> "RENEWAL"
      [] m.kind = "REFUND"                         -> "REFUND"
      [] OTHER                                     -> "CANCELLATION"

revenueDedupeKind(type) ==
    CASE type \in {"INITIAL", "RENEWAL"} -> "purchase"
      [] type = "REACTIVATION"           -> "reactivation"
      [] type = "REFUND"                 -> "refund"
      [] OTHER                           -> "cancel"

(* Mutant: a first charge is filed under its own label. *)
dedupeKeyByLabel(m, type) == revenueDedupeKind(type)

(* Mutant: a reactivation is filed as a first charge, a reversal too. *)
dedupeKeyFolded(m, type) ==
    IF type = "REACTIVATION" THEN "purchase" ELSE revenueDedupeKind(type)

(* The first charge of a transaction has one key, whatever it is called. *)
dedupeKey(m, type) ==
    IF m.kind \in Charges THEN revenueDedupeKind("INITIAL") ELSE revenueDedupeKind(type)

(* createRevenueEvent: insert, or nothing when the key is taken. *)
emitRevenueEvent(p) ==
    LET m == job[p].msg
        type == revenueType(m, job[p].label)
        event == [txn |-> m.txn, key |-> dedupeKey(m, type), type |-> type]
    IN  /\ At(p, "revenue")
        /\ revenue' = IF \E r \in revenue : r.txn = event.txn /\ r.key = event.key
                      THEN revenue ELSE revenue \cup {event}
        /\ job' = [job EXCEPT ![p].at = "sync", ![p].label = "NONE"]
        /\ UNCHANGED <<storeVars, inbox, rows, latest, access, syncLock, extra,
                       history>>

--------------------------------------------------------------------------------
(***************************************************************************)
(* syncAccess.                                                             *)
(***************************************************************************)
entitlementExpiry(t) ==
    IF rows[t].status = "GRACE_PERIOD" THEN Later(rows[t].grace, charges[t].exp)
    ELSE charges[t].exp

(* computeDesiredAccess: the granting rows of a tier that expire last, or  *)
(* 0 for none.  Of rows that tie, the query's order decides.               *)
desired(tier) ==
    LET live == {t \in DOMAIN charges :
                   /\ rows[t].status \in AccessGranting /\ charges[t].tier = tier
                   /\ entitlementExpiry(t) >= clock}
        last == {t \in live :
                   \A u \in live : entitlementExpiry(t) >= entitlementExpiry(u)}
    IN  IF last = {} THEN {0} ELSE last

(* The purchases, then the access rows, as the sync decides on them. *)
readAccess(p) ==
    /\ \E one \in desired(1), two \in desired(2) :
         LET target(t) ==
               [txn |-> t, exp |-> IF t = 0 THEN Null ELSE entitlementExpiry(t)]
         IN  job' = [job EXCEPT ![p].want = <<target(one), target(two)>>,
                                ![p].seen = access,
                                ![p].at = IF At(p, "sync") THEN "apply" ELSE "reapply"]
    /\ syncLock' = p
    /\ unsynced' = FALSE
    /\ UNCHANGED <<storeVars, inbox, rows, latest, access, revenue, extra, given,
                   skewed>>

(* Mutant: no advisory lock around the read and the writes. *)
syncReadUnlocked(p) == (At(p, "sync") \/ At(p, "resync")) /\ readAccess(p)

SyncRead(p) ==
    (At(p, "sync") \/ At(p, "resync")) /\ syncLock = Nobody /\ readAccess(p)

(* The access rows after the sync's writes: a row that was read active and *)
(* is not the source of its access id is turned off, the first row of each *)
(* source is turned on, and a source without a row gets one.               *)
reconciled(seen, want, first) ==
    [i \in DOMAIN access |->
       IF i \notin DOMAIN seen THEN access[i]
       ELSE LET target == want[charges[seen[i].txn].tier]
            IN  IF target.txn # seen[i].txn
                THEN [access[i] EXCEPT !.active = access[i].active /\ ~seen[i].active]
                ELSE IF i \in first /\ (~seen[i].active \/ seen[i].exp # target.exp)
                THEN [access[i] EXCEPT !.active = TRUE, !.exp = target.exp]
                ELSE access[i]]

RowsOf(seen, t) == {i \in DOMAIN seen : seen[i].txn = t}
FirstOf(seen, t) == IF RowsOf(seen, t) = {} THEN {0} ELSE RowsOf(seen, t)

(* The rows a sync creates, in the order of the desired map. *)
created(seen, want) ==
    LET row(to) == IF to.txn = 0 \/ RowsOf(seen, to.txn) # {} THEN <<>>
                   ELSE <<[txn |-> to.txn, active |-> TRUE, exp |-> to.exp]>>
    IN  row(want[1]) \o row(want[2])

(* The last sync of a job ends it; one after a retired tier goes on. *)
SyncApply(p) ==
    LET j == job[p]
    IN  /\ At(p, "apply") \/ At(p, "reapply")
        /\ \E i \in FirstOf(j.seen, j.want[1].txn),
              k \in FirstOf(j.seen, j.want[2].txn) :
             access' = reconciled(j.seen, j.want, {i, k}) \o created(j.seen, j.want)
        /\ syncLock' = Nobody
        /\ IF At(p, "apply") THEN Done(p)
           ELSE /\ job' = [job EXCEPT
                     ![p].at = IF j.todo = {} THEN "find" ELSE "supersede",
                     ![p].want = Nothing, ![p].seen = <<>>]
                /\ UNCHANGED inbox
        /\ UNCHANGED <<storeVars, rows, latest, revenue, extra, history>>

--------------------------------------------------------------------------------
Init ==
    /\ clock = 0
    /\ log = <<[kind |-> "SUBSCRIBED", txn |-> 1, at |-> 0]>>
    /\ charges = <<[exp |-> Period, tier |-> 1]>>
    /\ store = [state |-> "ACTIVE", grace |-> Null]
    /\ inbox = {[n |-> 1, kind |-> "SUBSCRIBED", txn |-> 1]}
    /\ rows = [t \in Txn |-> NoRow]
    /\ latest = 0
    /\ access = <<>>
    /\ revenue = {}
    /\ job = [p \in Worker |-> Idle]
    /\ syncLock = Nobody
    /\ extra = 0
    /\ given = [t \in Txn |-> 0]
    /\ skewed = FALSE
    /\ unsynced = FALSE

AppStore == Renew \/ Upgrade \/ Resubscribe \/ FailToRenew \/ Lapse \/ Revoke
              \/ Refund \/ Present \/ Tick

Handle(p) ==
    \/ \E m \in inbox :
         \/ upsertPurchase(p, m) \/ GuardFirst(p, m) \/ applyRefund(p, m)
         \/ applyRefundReversed(p, m) \/ applyFailedRenewal(p, m) \/ ChainEnd(p, m)
    \/ insertPurchase(p) \/ FindSiblings(p) \/ expireSuperseded(p)
    \/ FindAccess(p) \/ createAccess(p) \/ revokeAccess(p)
    \/ emitRevenueEvent(p) \/ SyncRead(p) \/ SyncApply(p)

Next == AppStore \/ \E p \in Worker : Handle(p) \/ Crash(p)

Spec == Init /\ [][Next]_vars

--------------------------------------------------------------------------------
(***************************************************************************)
(* Properties.                                                             *)
(***************************************************************************)
Message == [n : 1 .. MaxEvents, kind : Kind, txn : Txn]
Time == 0 .. MaxTime + (MaxTxn + 1) * Period + Grace
Place == {"idle", "insert", "siblings", "supersede", "resync", "reapply",
          "find", "create", "revoke", "revenue", "sync", "apply"}

(* The shape of the state. *)
TypeOK ==
    /\ clock \in 0 .. MaxTime
    /\ Len(log) \in 1 .. MaxEvents /\ Len(charges) \in Txn
    /\ store.state \in {"ACTIVE", "GRACE", "RETRY", "EXPIRED", "REVOKED"}
    /\ inbox \subseteq Message
    /\ \A t \in Txn : rows[t] = NoRow \/ rows[t] \in
         [status : Status, at : 1 .. MaxEvents, grace : Time \cup {Null}]
    /\ \A t \in Txn : rows[t] # NoRow => t \in DOMAIN charges
    /\ (latest = 0) <=> (rows = [t \in Txn |-> NoRow])
    /\ \A i \in DOMAIN access : rows[access[i].txn] # NoRow
    /\ \A p \in Worker : job[p].at \in Place /\ (At(p, "idle") <=> job[p] = Idle)
    /\ \A p \in Worker : job[p].msg \in inbox \cup {NoMsg}
    /\ \A p, q \in Worker : job[p].msg = job[q].msg => p = q \/ job[p].msg = NoMsg
    /\ \A p \in Worker : (At(p, "apply") \/ At(p, "reapply")) <=> syncLock = p

Settled == inbox = {}

(* Apple has sent such an event about t since event n. *)
After(n, kind, t) == \E m \in n + 1 .. Len(log) : log[m].kind = kind /\ log[m].txn = t

(* getActiveAccess: the tiers a subscriber is served now. *)
Served == {charges[access[i].txn].tier : i \in
             {i \in DOMAIN access : access[i].active /\ access[i].exp > clock}}

(* The tiers the purchase rows entitle to now. *)
Entitled == {charges[t].tier : t \in
               {t \in DOMAIN charges : /\ rows[t].status \in AccessGranting
                                       /\ entitlementExpiry(t) > clock}}

(* A refunded or revoked purchase comes back by a reversal of that very    *)
(* transaction only, and then from REFUNDED only: not by a late renewal, a *)
(* receipt, a chain-wide write or the insert of a handler that saw no row. *)
TerminalLeftByReversal ==
    [][\A t \in Txn :
         rows[t].status \in Terminal /\ rows'[t].status # rows[t].status =>
           /\ rows[t].status = "REFUNDED"
           /\ \E m \in inbox : m.kind = "REVERSED" /\ m.txn = t]_vars

(* One charge is income once, however many notifications, receipts and     *)
(* retries report it and whatever each calls it; a reversed refund adds    *)
(* its one compensating row.                                               *)
ChargeOnce ==
    \A t \in DOMAIN charges :
      Cardinality({r \in revenue : r.txn = t /\ r.type \in {"INITIAL", "RENEWAL",
                                                           "REACTIVATION"}})
        <= IF After(0, "REVERSED", t) THEN 2 ELSE 1

(* Two access rows of one purchase: a grant and a sync both created one. *)
NoTwin == \A i, j \in DOMAIN access : access[i].txn = access[j].txn => i = j

(* With everything processed, what is served is what the rows entitle to,  *)
(* whatever the handlers granted and revoked beside the syncs, unless the  *)
(* last write was a failed renewal's, which nobody syncs.                  *)
ServedFollowsRows ==
    Settled /\ ~unsynced => /\ Entitled \subseteq Served
                            /\ NoTwin => Served \subseteq Entitled

(* Apple's own account: event m ends what was paid for with transaction t, *)
(* and t is paid for since its charge, or since the reversal of its refund,*)
(* unless an event ended it.                                               *)
Ends(m, t) ==
    \/ log[m].kind \in {"FAIL", "EXPIRED", "REVOKE"}
    \/ log[m].kind = "REFUND" /\ log[m].txn = t
    \/ log[m].kind \in Upgrades /\ log[m].txn > t
PaidFor(t) ==
    \E s \in DOMAIN log :
      /\ log[s].txn = t /\ log[s].kind \in Charges \cup {"REVERSED"}
      /\ \A m \in s + 1 .. Len(log) : ~Ends(m, t)

Tiers(ts) == {charges[t].tier : t \in ts}
Paid == Tiers({t \in DOMAIN charges : charges[t].exp > clock /\ PaidFor(t)})
GivenBack == Tiers({t \in DOMAIN charges : PaidFor(t) /\ After(0, "REVERSED", t)})

(* The rows and Apple part where a grace period revives every row that is  *)
(* not terminal, and where a reversal follows a failed renewal, whose      *)
(* recovery dates rows it was not about, or a revocation.                  *)
Plain ==
    \A m \in DOMAIN log :
      /\ log[m].kind # "FAIL_GRACE"
      /\ log[m].kind \in {"FAIL", "REVOKE"} =>
           \A n \in m + 1 .. Len(log) : log[n].kind # "REVERSED"

(* When no event was written over a newer one, an ended subscription is    *)
(* served nothing but what the reversal of a refund gave back since, and   *)
(* otherwise, those two cases aside, exactly what Apple was paid for: an   *)
(* upgrade has retired the tier it replaced, a charge revived what it pays.*)
ServedFollowsStore ==
    Settled /\ ~unsynced /\ ~skewed =>
      /\ store.state \in {"EXPIRED", "REVOKED"} => Served \subseteq GivenBack
      /\ Plain => Served = Paid

(* Booked: the row of revenue with this key. *)
Booked(t, key) == \E r \in revenue : r.txn = t /\ r.key = key
Refunds(t) == {n \in DOMAIN log : log[n].kind = "REFUND" /\ log[n].txn = t}

(* When no event was overtaken, the books say what Apple says: every       *)
(* charge is booked, and it is booked as refunded, net of a reversal,      *)
(* exactly while Apple holds it refunded.  The claim ends with a second    *)
(* refund of one transaction, whose row has the key of the first.          *)
RevenueFollowsStore ==
    Settled /\ ~skewed =>
      \A t \in DOMAIN charges :
        /\ Booked(t, "purchase")
        /\ (\A n, m \in Refunds(t) : n = m) =>
             (Refunded(t) <=> (Booked(t, "refund") /\ ~Booked(t, "reactivation")))

(* With everything processed and nothing overtaken, a subscriber in the    *)
(* billing grace period is served until it ends: the one case, says        *)
(* applyFailedRenewal, in which access survives a failed renewal.          *)
GraceIsServed ==
    Settled /\ ~skewed /\ store.state = "GRACE" /\ clock < store.grace
             /\ ~Refunded(Len(charges))
      => Current.tier \in Served

================================================================================
