---------------------------- MODULE AppleChainProofs ----------------------------
(***************************************************************************)
(* What AppleChain establishes for any number of workers, transactions,    *)
(* notifications, receipts and failed jobs.                                *)
(*                                                                         *)
(*   TypeInv    types; what waits is what Apple sent or a client may       *)
(*              present; a notification has one worker and the advisory    *)
(*              lock one holder; and every purchase that a job or an       *)
(*              access row names has a row.                                *)
(*   BooksInv   every row of income has the key of its charge or belongs   *)
(*              to a reversal, and a key is taken once.                    *)
(*   SyncInv    while nobody owes a sync, access agrees with the rows, or  *)
(*              the sync in progress will make it agree; a line is on only *)
(*              while its purchase grants access.                          *)
(*   AccountInv while no event is overtaken, a row is as new as what was   *)
(*              written to it, so every charge, refund and reversal is     *)
(*              booked, or waits to be, or was dropped for lack of a row.  *)
(*   FollowInv  while no event is overtaken, a row that grants access is   *)
(*              what some event made it and none has ended since, a row    *)
(*              that grants none was given an end of all that began, and   *)
(*              what is still to end or retire a row waits or is in hand.  *)
(*   DatesInv   meanwhile, and without a grace period, a line of access    *)
(*              lasts as long as the charge it is of.                      *)
(***************************************************************************)
EXTENDS AppleChain, FiniteSetTheorems, SequenceTheorems, TLAPS

LogKind == Kind \ {"RECEIPT"}
Entry == [kind : LogKind, txn : Txn, at : 0 .. MaxTime]
Priced == [exp : Nat, tier : Tier]
Kept == [status : Status, at : 1 .. MaxEvents, grace : Time \cup {Null}]
Label == {"NONE", "INITIAL", "REACTIVATION", "withheld"}
Target == [txn : 0 .. MaxTxn, exp : Int]
Line == [txn : Txn, active : BOOLEAN, exp : Int]
Work == [at : Place, msg : Message \cup {NoMsg}, label : Label,
         todo : SUBSET Txn, want : [Tier -> Target], seen : Seq(Line)]

(* Apple's side, and what waits: each names an event of the log.           *)
StoreTyped ==
    /\ clock \in 0 .. MaxTime /\ extra \in Nat
    /\ log \in Seq(Entry) /\ Len(log) >= 1 /\ Len(log) + extra <= MaxEvents
    /\ charges \in Seq(Priced) /\ Len(charges) \in Txn
    /\ \A n \in DOMAIN log : log[n].txn \in DOMAIN charges
    /\ store.state \in {"ACTIVE", "GRACE", "RETRY", "EXPIRED", "REVOKED"}
    /\ inbox \subseteq Message
    /\ \A m \in inbox :
         /\ m.n \in DOMAIN log /\ m.txn = log[m.n].txn
         /\ m.kind = log[m.n].kind \/ m.kind = "RECEIPT"

(* A purchase row is of a transaction that Apple minted.                   *)
RowsTyped ==
    /\ rows \in [Txn -> Kept \cup {NoRow}]
    /\ \A t \in Txn : rows[t] # NoRow => t \in DOMAIN charges
    /\ latest \in 0 .. MaxTxn
    /\ (latest = 0) <=> (\A t \in Txn : rows[t] = NoRow)
    /\ latest # 0 => rows[latest] # NoRow

Known(t) == t \in Txn /\ rows[t] # NoRow

(* Access rows, and what a job is about to write of them, name purchases   *)
(* that have a row.                                                        *)
AccessTyped ==
    /\ access \in Seq(Line)
    /\ \A i \in DOMAIN access : Known(access[i].txn)
    /\ \A p \in Worker :
         /\ job[p].at \in {"find", "create", "siblings", "supersede", "resync",
                           "reapply"} => Known(job[p].msg.txn)
         /\ \A tier \in Tier : job[p].want[tier].txn = 0
                                \/ Known(job[p].want[tier].txn)
         /\ \A i \in DOMAIN job[p].seen : Known(job[p].seen[i].txn)

(* A job has a notification of its own, and the lock of a sync one holder. *)
JobsTyped ==
    /\ job \in [Worker -> Work]
    /\ \A p \in Worker : At(p, "idle") <=> job[p] = Idle
    /\ \A p \in Worker : job[p].msg \in inbox \cup {NoMsg}
    /\ \A p \in Worker : ~At(p, "idle") => job[p].msg \in inbox
    /\ \A p, q \in Worker : job[p].msg = job[q].msg => p = q \/ job[p].msg = NoMsg
    /\ \A p \in Worker : (At(p, "apply") \/ At(p, "reapply")) <=> syncLock = p

TypeInv == StoreTyped /\ RowsTyped /\ AccessTyped /\ JobsTyped

(* The constants are numbers, and a transaction is not zero.               *)
LEMMA Numbers ==
    /\ Period \in Nat /\ Grace \in Nat /\ MaxTxn \in Nat /\ MaxTime \in Nat
    /\ MaxEvents \in Nat /\ MaxBacklog \in Nat
    /\ Period > 0 /\ MaxTxn > 0 /\ MaxEvents > 0 /\ Nobody \notin Worker
    /\ Txn \subseteq Nat \ {0} /\ 1 \in Txn
  BY ChainAssumption DEF Txn, Nobody

(* A notification is not the absence of one, nor a row the absence of one. *)
LEMMA Absent == NoMsg \notin Message /\ NoRow \notin Kept
<1>1. NoMsg.n = 0 /\ NoRow.at = 0
  BY DEF NoMsg, NoRow
<1>2. (\A m \in Message : m.n # 0) /\ (\A r \in Kept : r.at # 0)
  BY DEF Message, Kept
<1> QED BY <1>1, <1>2

(* The initial state is typed.                                             *)
LEMMA InitTypeInv == Init => TypeInv
<1> SUFFICES ASSUME Init PROVE TypeInv
  OBVIOUS
<1> USE Numbers
<1>1. StoreTyped
  BY DEF Init, StoreTyped, Entry, Priced, LogKind, Kind, Charges, Upgrades, Offers,
     Failures, Tier, Message, Txn
<1>2. RowsTyped
  BY DEF Init, RowsTyped, NoRow
<1>3. NoMsg \notin Message /\ Idle \in Work
  BY Absent DEF Idle, Work, Place, Label, Nothing, Target, Tier, Null
<1>4. Idle.msg = NoMsg /\ Idle.at = "idle" /\ Idle.want = Nothing /\ Idle.seen = <<>>
  BY DEF Idle
<1>5. AccessTyped
  BY <1>4 DEF Init, AccessTyped, Nothing
<1>6. JobsTyped
  BY <1>3, <1>4 DEF Init, JobsTyped, At, Nobody
<1> QED BY <1>1, <1>2, <1>5, <1>6 DEF TypeInv

--------------------------------------------------------------------------------
(***************************************************************************)
(* Apple's side.                                                           *)
(***************************************************************************)
(* The log and the charges only grow.                                      *)
StoreGrows ==
    /\ DOMAIN charges \subseteq DOMAIN charges'
    /\ \A t \in DOMAIN charges : charges'[t] = charges[t]
    /\ DOMAIN log \subseteq DOMAIN log'
    /\ \A n \in DOMAIN log : log'[n] = log[n]

(* What leaves the subscriber's side of the state alone.                   *)
Outside ==
    /\ inbox \subseteq inbox'
    /\ UNCHANGED <<rows, latest, access, revenue, job, syncLock, given, skewed,
                   unsynced>>

(* One or two events about a transaction of the charges keep the types.    *)
LEMMA NotifyTyped ==
  ASSUME StoreTyped, NEW kinds \in Seq(LogKind), NEW t \in DOMAIN charges',
         Len(kinds) >= 1, Notify(kinds, t),
         charges' \in Seq(Priced), Len(charges') \in Txn,
         DOMAIN charges \subseteq DOMAIN charges',
         \A u \in DOMAIN charges : charges'[u] = charges[u],
         store'.state \in {"ACTIVE", "GRACE", "RETRY", "EXPIRED", "REVOKED"}
  PROVE  StoreTyped' /\ StoreGrows /\ Outside
<1> USE Numbers
<1> DEFINE new == [i \in DOMAIN kinds |-> [kind |-> kinds[i], txn |-> t, at |-> clock]]
<1>1. /\ Spent + Len(kinds) <= MaxEvents
      /\ log' = log \o new
      /\ inbox' = inbox \cup {[n |-> Len(log) + i, kind |-> kinds[i], txn |-> t] :
                                i \in DOMAIN kinds}
      /\ UNCHANGED <<clock, extra, rows, latest, access, revenue, job, syncLock, history>>
  BY DEF Notify
<1>2. t \in Txn /\ DOMAIN charges' = 1 .. Len(charges')
  BY DEF Txn
<1>3. DOMAIN kinds = 1 .. Len(kinds) /\ Len(kinds) \in Nat
      /\ \A i \in DOMAIN kinds : kinds[i] \in LogKind
  OBVIOUS
<1>4. new \in Seq(Entry) /\ Len(new) = Len(kinds)
      /\ \A i \in DOMAIN kinds : new[i] = [kind |-> kinds[i], txn |-> t, at |-> clock]
  <2>1. \A i \in DOMAIN kinds : [kind |-> kinds[i], txn |-> t, at |-> clock] \in Entry
    BY <1>2, <1>3 DEF StoreTyped, Entry
  <2>2. new \in [1 .. Len(kinds) -> Entry]
    BY <1>3, <2>1
  <2> QED BY <1>3, <2>2
<1> HIDE DEF new
<1>5. log \in Seq(Entry) /\ Len(log) \in Nat /\ DOMAIN log = 1 .. Len(log)
  BY DEF StoreTyped
<1>6. /\ log' \in Seq(Entry) /\ Len(log') = Len(log) + Len(kinds)
      /\ DOMAIN log' = 1 .. Len(log')
      /\ \A n \in DOMAIN log : log'[n] = log[n]
      /\ \A i \in DOMAIN kinds : /\ Len(log) + i \in DOMAIN log'
                                 /\ log'[Len(log) + i] = new[i]
  <2>1. log' = log \o new
    BY <1>1
  <2>2. log' \in Seq(Entry) /\ Len(log') = Len(log) + Len(kinds)
    <3>1. log \o new \in Seq(Entry) /\ Len(log \o new) = Len(log) + Len(new)
      <4>1. log \in Seq(Entry) /\ new \in Seq(Entry)
        BY <1>4, <1>5
      <4> QED BY ONLY <4>1, ConcatProperties
    <3> QED BY <3>1, <2>1, <1>4
  <2>3. DOMAIN log' = 1 .. Len(log')
    BY <2>2
  <2>4. \A n \in DOMAIN log : log'[n] = log[n]
    BY <2>1, <1>3, <1>4, <1>5, ConcatProperties
  <2>5. ASSUME NEW i \in DOMAIN kinds
        PROVE  Len(log) + i \in DOMAIN log' /\ log'[Len(log) + i] = new[i]
    <3>1. Len(log) + i \in 1 .. Len(log) + Len(new) /\ Len(log) + i > Len(log)
          /\ (Len(log) + i) - Len(log) = i
      BY <1>3, <1>4, <1>5
    <3> QED BY <3>1, <2>1, <2>2, <2>3, <1>4, <1>5, ConcatProperties
  <2> QED BY <2>2, <2>3, <2>4, <2>5
<1>7. \A n \in DOMAIN log' : n \in DOMAIN log \/ \E i \in DOMAIN kinds : n = Len(log) + i
  <2> SUFFICES ASSUME NEW n \in DOMAIN log', n \notin DOMAIN log
               PROVE  \E i \in DOMAIN kinds : n = Len(log) + i
    OBVIOUS
  <2>1. n - Len(log) \in DOMAIN kinds /\ n = Len(log) + (n - Len(log))
    BY <1>3, <1>5, <1>6
  <2> QED BY <2>1
<1>8. Outside
  BY <1>1 DEF Outside, history
<1>9. StoreGrows
  BY <1>5, <1>6, <1>3 DEF StoreGrows
<1>10. clock' \in 0 .. MaxTime /\ extra' \in Nat /\ Len(log') >= 1
       /\ Len(log') + extra' <= MaxEvents
  BY <1>1, <1>3, <1>5, <1>6 DEF StoreTyped, Spent
<1>11. \A n \in DOMAIN log' : log'[n].txn \in DOMAIN charges'
  <2> SUFFICES ASSUME NEW n \in DOMAIN log' PROVE log'[n].txn \in DOMAIN charges'
    OBVIOUS
  <2>1. CASE n \in DOMAIN log
    BY <2>1, <1>6 DEF StoreTyped
  <2>2. CASE n \notin DOMAIN log
    <3>1. PICK i \in DOMAIN kinds : n = Len(log) + i
      BY <1>7, <2>2
    <3>2. log'[n] = [kind |-> kinds[i], txn |-> t, at |-> clock]
      BY <3>1, <1>4, <1>6
    <3> QED BY <3>2
  <2> QED BY <2>1, <2>2
<1>12. \A m \in inbox' : /\ m \in Message /\ m.n \in DOMAIN log' /\ m.txn = log'[m.n].txn
                         /\ m.kind = log'[m.n].kind \/ m.kind = "RECEIPT"
  <2> SUFFICES ASSUME NEW m \in inbox'
               PROVE  /\ m \in Message /\ m.n \in DOMAIN log' /\ m.txn = log'[m.n].txn
                      /\ m.kind = log'[m.n].kind \/ m.kind = "RECEIPT"
    OBVIOUS
  <2>1. CASE m \in inbox
    BY <2>1, <1>6, <1>9 DEF StoreTyped, StoreGrows
  <2>2. CASE m \notin inbox
    <3>1. PICK i \in DOMAIN kinds : m = [n |-> Len(log) + i, kind |-> kinds[i], txn |-> t]
      BY <2>2, <1>1
    <3>2. Len(log) + i \in 1 .. MaxEvents
      BY <1>3, <1>5, <1>6, <1>10
    <3>3. m \in Message
      BY <3>1, <3>2, <1>2, <1>3 DEF Message, LogKind
    <3>4. m.n \in DOMAIN log' /\ log'[m.n] = [kind |-> kinds[i], txn |-> t, at |-> clock]
      BY <3>1, <1>4, <1>6
    <3> QED BY <3>1, <3>3, <3>4
  <2> QED BY <2>1, <2>2
<1> QED BY <1>6, <1>8, <1>9, <1>10, <1>11, <1>12 DEF StoreTyped

(* A charge is a new transaction.                                          *)
LEMMA ChargeTyped ==
  ASSUME StoreTyped, NEW kinds \in Seq(LogKind), Len(kinds) >= 1,
         NEW from \in Nat, NEW tier \in Tier, Charge(kinds, from, tier)
  PROVE  StoreTyped' /\ StoreGrows /\ Outside
<1> USE Numbers
<1>1. /\ Len(charges) < MaxTxn
      /\ charges' = Append(charges, [exp |-> from + Period, tier |-> tier])
      /\ store' = [state |-> "ACTIVE", grace |-> Null]
      /\ Notify(kinds, Len(charges) + 1)
  BY DEF Charge
<1>2. charges \in Seq(Priced) /\ Len(charges) \in Nat
  BY DEF StoreTyped
<1>3. [exp |-> from + Period, tier |-> tier] \in Priced
  BY DEF Priced
<1>4. /\ charges' \in Seq(Priced) /\ Len(charges') = Len(charges) + 1
      /\ \A u \in DOMAIN charges : u \in DOMAIN charges' /\ charges'[u] = charges[u]
  BY <1>1, <1>2, <1>3
<1>5. Len(charges') \in Txn /\ Len(charges) + 1 \in DOMAIN charges'
  BY <1>1, <1>2, <1>4 DEF Txn
<1>6. store'.state = "ACTIVE"
  BY <1>1
<1> QED BY <1>1, <1>4, <1>5, <1>6, NotifyTyped

(* So do the moves without a charge.                                       *)
LEMMA MoveTyped ==
  ASSUME StoreTyped, NEW kind \in LogKind, NEW g,
         NEW state \in {"ACTIVE", "GRACE", "RETRY", "EXPIRED", "REVOKED"},
         Move(kind, state, g)
  PROVE  StoreTyped' /\ StoreGrows /\ Outside
<1> USE Numbers
<1>1. store'.state = state /\ Notify(<<kind>>, Len(charges)) /\ charges' = charges
  BY DEF Move
<1>2. charges' \in Seq(Priced) /\ Len(charges') \in Txn /\ Len(charges) \in DOMAIN charges'
  BY <1>1 DEF StoreTyped, Txn
<1>3. <<kind>> \in Seq(LogKind) /\ Len(<<kind>>) >= 1
  OBVIOUS
<1> QED BY <1>1, <1>2, <1>3, NotifyTyped

(* No step of Apple's or of a client's breaks the types, and none touches  *)
(* the subscriber's side.                                                  *)
LEMMA AppStoreTyped ==
  ASSUME StoreTyped, AppStore
  PROVE  StoreTyped' /\ StoreGrows /\ Outside
<1> USE Numbers
<1>0. /\ clock \in Nat /\ charges \in Seq(Priced) /\ Len(charges) \in DOMAIN charges
      /\ Current.exp \in Nat /\ Current.tier \in Tier
  <2>1. charges \in Seq(Priced) /\ Len(charges) \in DOMAIN charges /\ clock \in Nat
    BY DEF StoreTyped, Txn
  <2>2. Current \in Priced
    BY <2>1 DEF Current
  <2> QED BY <2>1, <2>2 DEF Priced
<1>1. CASE Renew
  <2>1. PICK kind \in {"DID_RENEW", "OFFER_REDEEMED"} :
          Charge(<<kind>>, Later(clock, Current.exp), Current.tier)
    BY <1>1 DEF Renew
  <2>2. <<kind>> \in Seq(LogKind) /\ Len(<<kind>>) >= 1
    BY DEF LogKind, Kind, Charges, Offers
  <2>3. Later(clock, Current.exp) \in Nat
    BY <1>0 DEF Later
  <2> QED BY <1>0, <2>1, <2>2, <2>3, ChargeTyped
<1>2. CASE Upgrade
  <2>1. PICK kind \in Upgrades : Charge(<<kind>>, clock, 2)
    BY <1>2 DEF Upgrade
  <2>2. <<kind>> \in Seq(LogKind) /\ Len(<<kind>>) >= 1
    BY DEF LogKind, Kind, Charges, Upgrades
  <2>3. 2 \in Tier
    BY DEF Tier
  <2> QED BY <1>0, <2>1, <2>2, <2>3, ChargeTyped
<1>3. CASE Resubscribe
  <2>1. PICK kinds \in {<<"RESUBSCRIBE">>, <<"OFFER_REDEEMED", "RESUBSCRIBE">>} :
          Charge(kinds, clock, Current.tier)
    BY <1>3 DEF Resubscribe
  <2>2. {"RESUBSCRIBE", "OFFER_REDEEMED"} \subseteq LogKind
    BY DEF LogKind, Kind, Charges, Offers
  <2>3. kinds \in Seq(LogKind) /\ Len(kinds) >= 1
    <3>1. CASE kinds = <<"RESUBSCRIBE">>
      BY <3>1, <2>2
    <3>2. CASE kinds = <<"OFFER_REDEEMED", "RESUBSCRIBE">>
      BY <3>2, <2>2
    <3> QED BY <3>1, <3>2
  <2> QED BY <1>0, <2>1, <2>3, ChargeTyped
<1>4. CASE FailToRenew
  <2>1. {"FAIL", "FAIL_GRACE"} \subseteq LogKind
    BY DEF LogKind, Kind, Failures
  <2> QED BY <1>4, <2>1, MoveTyped DEF FailToRenew
<1>5. CASE Lapse
  <2>1. "EXPIRED" \in LogKind
    BY DEF LogKind, Kind
  <2> QED BY <1>5, <2>1, MoveTyped DEF Lapse
<1>6. CASE Revoke
  <2>1. "REVOKE" \in LogKind
    BY DEF LogKind, Kind
  <2> QED BY <1>6, <2>1, MoveTyped DEF Revoke
<1>7. CASE Refund
  <2>1. PICK t \in DOMAIN charges :
          /\ Notify(<<IF Refunded(t) THEN "REVERSED" ELSE "REFUND">>, t)
          /\ UNCHANGED <<charges, store>>
    BY <1>7 DEF Refund
  <2>2. <<IF Refunded(t) THEN "REVERSED" ELSE "REFUND">> \in Seq(LogKind)
        /\ Len(<<IF Refunded(t) THEN "REVERSED" ELSE "REFUND">>) >= 1
    BY DEF LogKind, Kind
  <2>3. charges' \in Seq(Priced) /\ Len(charges') \in Txn /\ t \in DOMAIN charges'
        /\ store'.state \in {"ACTIVE", "GRACE", "RETRY", "EXPIRED", "REVOKED"}
    BY <2>1 DEF StoreTyped
  <2> QED BY <2>1, <2>2, <2>3, NotifyTyped
<1>8. CASE Present
  <2>1. PICK n \in DOMAIN log :
          /\ Spent < MaxEvents
          /\ extra' = extra + 1
          /\ inbox' = inbox \cup {[n |-> n, kind |-> "RECEIPT", txn |-> log[n].txn]}
          /\ UNCHANGED <<clock, log, charges, store, rows, latest, access, revenue,
                         job, syncLock, history>>
    BY <1>8 DEF Present
  <2>2. [n |-> n, kind |-> "RECEIPT", txn |-> log[n].txn] \in Message
    <3>1. n \in 1 .. MaxEvents /\ log[n] \in Entry
      BY DEF StoreTyped
    <3>2. log[n].txn \in Txn
      BY <3>1 DEF Entry
    <3> QED BY <3>1, <3>2 DEF Message, Kind, Charges
  <2>3. StoreTyped'
    BY <2>1, <2>2 DEF StoreTyped, Spent
  <2> QED BY <2>1, <2>3 DEF StoreGrows, Outside, history
<1>9. CASE Tick
  <2>1. StoreTyped'
    BY <1>9 DEF Tick, StoreTyped
  <2> QED BY <1>9, <2>1 DEF Tick, StoreGrows, Outside, history
<1> QED
  BY <1>1, <1>2, <1>3, <1>4, <1>5, <1>6, <1>7, <1>8, <1>9 DEF AppStore

--------------------------------------------------------------------------------
(***************************************************************************)
(* Writes of the purchase rows.                                            *)
(***************************************************************************)
Table == [Txn -> Kept \cup {NoRow}]

(* What a write may do to a row: keep it, type it, never take it away, and *)
(* never move it out of a terminal status.                                 *)
RowMoves(from, to) ==
    /\ to \in Kept \cup {NoRow}
    /\ (from = NoRow) <=> (to = NoRow)
    /\ from.status \in Terminal => to.status = from.status

(* A status outside of the column's is not a status of a row.              *)
LEMMA NoRowStatus == NoRow.status = "NONE" /\ "NONE" \notin Status
                     /\ Terminal \subseteq Status
  BY DEF NoRow, Status, Terminal

(* The CASE of the upsert: a write of a row keeps a terminal status.       *)
LEMMA WrittenMoves ==
  ASSUME NEW r \in Kept, NEW to \in Status, NEW n \in 1 .. MaxEvents
  PROVE  RowMoves(r, written(r, to, n))
<1>1. r.status \in Status
  BY DEF Kept
<1>2. PICK s \in Status : s = caseGuarded(r.status, to)
  BY <1>1 DEF caseGuarded
<1>3. written(r, to, n) = [r EXCEPT !.status = s, !.at = n]
  BY <1>2 DEF written
<1>4. written(r, to, n) \in Kept
  BY <1>3 DEF Kept
<1>5. r.status \in Terminal => written(r, to, n).status = r.status
  <2>1. written(r, to, n).status = s
    BY <1>3 DEF Kept
  <2> QED BY <2>1, <1>2 DEF caseGuarded
<1> QED BY <1>4, <1>5, Absent DEF RowMoves

(* Retiring the chain's billing issues moves rows on hold only.            *)
LEMMA RetireMoves ==
  ASSUME NEW rs \in Table, NEW t \in Txn, NEW n \in 1 .. MaxEvents
  PROVE  /\ retireChainBillingIssue(rs, t, n) \in Table
         /\ \A u \in Txn : RowMoves(rs[u], retireChainBillingIssue(rs, t, n)[u])
<1> DEFINE now == retireChainBillingIssue(rs, t, n)
<1>1. ASSUME NEW u \in Txn
      PROVE  RowMoves(rs[u], now[u])
  <2>1. now[u] = rs[u] \/ (rs[u].status = "BILLING_ISSUE"
                            /\ now[u] = written(rs[u], "EXPIRED", n))
    BY DEF retireChainBillingIssue
  <2>2. rs[u] \in Kept \cup {NoRow}
    BY DEF Table
  <2>3. CASE now[u] = rs[u]
    BY <2>2, <2>3 DEF RowMoves
  <2>4. CASE rs[u].status = "BILLING_ISSUE" /\ now[u] = written(rs[u], "EXPIRED", n)
    <3>1. rs[u] \in Kept /\ "EXPIRED" \in Status
      BY <2>2, <2>4, NoRowStatus DEF Status
    <3> QED BY <3>1, <2>4, WrittenMoves
  <2> QED BY <2>1, <2>3, <2>4
<1>2. now = [u \in Txn |-> now[u]]
  BY DEF retireChainBillingIssue
<1>3. now \in Table
  <2> HIDE DEF now
  <2> QED BY <1>1, <1>2 DEF Table, RowMoves
<1> QED BY <1>1, <1>3

(* A write of the whole chain leaves what is terminal as it is.            *)
LEMMA ChainMoves ==
  ASSUME rows \in Table, NEW to \in Status, NEW grace,
         \A t \in Txn : rows[t] # NoRow => grace[t] \in Time \cup {Null}
  PROVE  /\ updateChainStatusGuarded(to, grace) \in Table
         /\ \A u \in Txn : RowMoves(rows[u], updateChainStatusGuarded(to, grace)[u])
<1> DEFINE now == updateChainStatusGuarded(to, grace)
<1>1. ASSUME NEW u \in Txn
      PROVE  RowMoves(rows[u], now[u])
  <2>2. rows[u] \in Kept \cup {NoRow}
    BY DEF Table
  <2>3. CASE rows[u] = NoRow \/ rows[u].status \in Terminal
    <3>1. now[u] = rows[u]
      BY <2>3 DEF updateChainStatusGuarded
    <3> QED BY <3>1, <2>2 DEF RowMoves
  <2>4. CASE rows[u] # NoRow /\ rows[u].status \notin Terminal
    <3>1. rows[u] \in Kept /\ now[u] = [rows[u] EXCEPT !.status = to, !.grace = grace[u]]
      BY <2>2, <2>4 DEF updateChainStatusGuarded
    <3>2. now[u] = [status |-> to, at |-> rows[u].at, grace |-> grace[u]]
          /\ rows[u].at \in 1 .. MaxEvents
      BY <3>1 DEF Kept
    <3>3. now[u] \in Kept
      BY <3>2, <2>4 DEF Kept
    <3> QED BY <3>1, <3>3, <2>4, Absent DEF RowMoves
  <2> QED BY <2>3, <2>4
<1>2. now = [u \in Txn |-> now[u]]
  BY DEF updateChainStatusGuarded
<1>3. now \in Table
  <2> HIDE DEF now
  <2> QED BY <1>1, <1>2 DEF Table, RowMoves
<1> QED BY <1>1, <1>3

(* A step of a handler on the rows.                                        *)
RowsStep ==
    /\ rows' \in Table
    /\ \A t \in Txn :
         /\ rows[t] # NoRow => rows'[t] # NoRow
         /\ rows'[t] # NoRow => rows[t] # NoRow \/ t \in DOMAIN charges
         /\ rows[t].status \in Terminal /\ rows'[t].status # rows[t].status =>
              /\ rows[t].status = "REFUNDED"
              /\ \E m \in inbox : m.kind = "REVERSED" /\ m.txn = t
    /\ \/ latest' = latest /\ \A t \in Txn : rows[t] = NoRow <=> rows'[t] = NoRow
       \/ latest' \in Txn /\ rows'[latest'] # NoRow

(* Rows that all move as RowMoves allows, none of them new.                *)
LEMMA MovesStep ==
  ASSUME rows' \in Table, latest' = latest, \A t \in Txn : RowMoves(rows[t], rows'[t])
  PROVE  RowsStep
  BY DEF RowsStep, RowMoves

(* What the writers know of the notification they handle.                  *)
LEMMA Carried ==
  ASSUME StoreTyped, NEW m \in inbox
  PROVE  /\ m \in Message /\ m.n \in 1 .. MaxEvents /\ m.txn \in Txn /\ m.kind \in Kind
         /\ m.n \in DOMAIN log /\ m.txn \in DOMAIN charges
         /\ log[m.n].at \in 0 .. MaxTime
         /\ charges[m.txn].exp \in Nat /\ charges[m.txn].tier \in Tier
<1>1. m \in Message /\ m.n \in DOMAIN log /\ m.txn = log[m.n].txn
  BY DEF StoreTyped
<1>2. m.n \in 1 .. MaxEvents /\ m.txn \in Txn /\ m.kind \in Kind
  BY <1>1 DEF Message
<1>3. m.txn \in DOMAIN charges
  BY <1>1 DEF StoreTyped
<1>4. log[m.n] \in Entry /\ charges[m.txn] \in Priced
  BY <1>1, <1>3 DEF StoreTyped
<1> QED BY <1>1, <1>2, <1>3, <1>4 DEF Entry, Priced

(* The upsert of a row that exists.                                        *)
LEMMA UpsertStep ==
  ASSUME TypeInv, NEW p \in Worker, NEW m \in inbox, upsertPurchase(p, m)
  PROVE  RowsStep
<1> DEFINE r == rows[m.txn]
           apply == guardStatusWrite(r, "ACTIVE", m.n, {})
           w == IF apply THEN written(r, "ACTIVE", m.n) ELSE r
           own == [rows EXCEPT ![m.txn] = w]
<1>1. /\ r # NoRow /\ latest' = latest
      /\ rows' = own \/ rows' = retireChainBillingIssue(own, m.txn, m.n)
  BY DEF upsertPurchase
<1>2. m.txn \in Txn /\ m.n \in 1 .. MaxEvents /\ rows \in Table
  BY Carried DEF TypeInv, RowsTyped, Table
<1>3. r \in Kept /\ "ACTIVE" \in Status
  BY <1>1, <1>2 DEF Table, Status
<1>4. RowMoves(r, w)
  BY <1>2, <1>3, WrittenMoves DEF RowMoves
<1>5. own \in Table /\ \A t \in Txn : RowMoves(rows[t], own[t])
  <2> HIDE DEF w
  <2>1. w \in Kept \cup {NoRow}
    BY <1>4 DEF RowMoves
  <2>2. own \in Table /\ own[m.txn] = w /\ \A t \in Txn \ {m.txn} : own[t] = rows[t]
    BY <1>2, <2>1 DEF Table
  <2>3. \A t \in Txn : RowMoves(rows[t], rows[t])
    BY <1>2 DEF RowMoves, Table
  <2> QED BY <1>4, <2>2, <2>3
<1> HIDE DEF own
<1>6. rows' \in Table /\ \A t \in Txn : RowMoves(rows[t], rows'[t])
  <2>1. CASE rows' = own
    BY <1>5, <2>1
  <2>2. CASE rows' = retireChainBillingIssue(own, m.txn, m.n)
    <3>1. \A t \in Txn : RowMoves(own[t], rows'[t])
      BY <1>2, <1>5, <2>2, RetireMoves
    <3>2. rows' \in Table
      BY <1>2, <1>5, <2>2, RetireMoves
    <3>3. \A t \in Txn : RowMoves(rows[t], own[t])
      BY <1>5
    <3> QED BY <3>1, <3>2, <3>3 DEF RowMoves
  <2> QED BY <1>1, <2>1, <2>2
<1> QED BY <1>1, <1>6, MovesStep

(* The insert of a row, or the upsert of one that came first.              *)
LEMMA InsertStep ==
  ASSUME TypeInv, NEW p \in Worker, insertPurchase(p)
  PROVE  RowsStep /\ rows'[job[p].msg.txn] # NoRow
<1> DEFINE m == job[p].msg
           r == rows[m.txn]
           w == IF r = NoRow THEN [NoRow EXCEPT !.status = "ACTIVE", !.at = m.n]
                ELSE written(r, "ACTIVE", m.n)
           own == [rows EXCEPT ![m.txn] = w]
<1>1. /\ At(p, "insert")
      /\ latest' = IF r = NoRow THEN m.txn ELSE latest
      /\ rows' = own \/ rows' = retireChainBillingIssue(own, m.txn, m.n)
  BY DEF insertPurchase
<1>0. m \in inbox
  BY <1>1 DEF TypeInv, JobsTyped, At
<1>2. m.txn \in Txn /\ m.n \in 1 .. MaxEvents /\ rows \in Table /\ m.txn \in DOMAIN charges
  BY <1>0, Carried DEF TypeInv, RowsTyped, Table
<1>3. r \in Kept \cup {NoRow} /\ "ACTIVE" \in Status
  BY <1>2 DEF Table, Status
<1>4. w \in Kept /\ (r.status \in Terminal => w.status = r.status)
  <2>1. CASE r = NoRow
    <3>1. w = [status |-> "ACTIVE", at |-> m.n, grace |-> Null]
      BY <2>1 DEF NoRow
    <3>2. [status |-> "ACTIVE", at |-> m.n, grace |-> Null] \in Kept
      BY <1>2, <1>3 DEF Kept
    <3>3. w \in Kept
      BY <3>1, <3>2
    <3> QED BY <3>3, <2>1, NoRowStatus
  <2>2. CASE r # NoRow
    <3>1. r \in Kept
      BY <1>3, <2>2
    <3>2. RowMoves(r, written(r, "ACTIVE", m.n))
      BY <3>1, <1>2, <1>3, WrittenMoves
    <3> QED BY <2>2, <3>2 DEF RowMoves
  <2> QED BY <2>1, <2>2
<1>5. own \in Table /\ own[m.txn] = w /\ \A t \in Txn \ {m.txn} : own[t] = rows[t]
  <2> HIDE DEF w
  <2> QED BY <1>2, <1>4 DEF Table
<1>6. rows' \in Table /\ \A t \in Txn : RowMoves(own[t], rows'[t])
  <2> HIDE DEF own
  <2>1. CASE rows' = own
    BY <1>5, <2>1 DEF RowMoves, Table
  <2>2. CASE rows' = retireChainBillingIssue(own, m.txn, m.n)
    BY <1>2, <1>5, <2>2, RetireMoves
  <2> QED BY <1>1, <2>1, <2>2
<1>7. rows'[m.txn] # NoRow /\ (r.status \in Terminal => rows'[m.txn].status = r.status)
  <2> HIDE DEF w, own
  <2>1. RowMoves(own[m.txn], rows'[m.txn]) /\ w # NoRow
    BY <1>2, <1>4, <1>6, Absent
  <2> QED BY <2>1, <1>4, <1>5 DEF RowMoves
<1>8. \A t \in Txn \ {m.txn} : RowMoves(rows[t], rows'[t])
  <2> HIDE DEF own
  <2> QED BY <1>5, <1>6
<1> HIDE DEF w, own
<1>9. \/ latest' = latest /\ \A t \in Txn : rows[t] = NoRow <=> rows'[t] = NoRow
      \/ latest' \in Txn /\ rows'[latest'] # NoRow
  <2>1. CASE r = NoRow
    BY <2>1, <1>1, <1>2, <1>7
  <2>2. CASE r # NoRow
    <3>1. \A t \in Txn : rows[t] = NoRow <=> rows'[t] = NoRow
      BY <2>2, <1>7, <1>8 DEF RowMoves
    <3> QED BY <3>1, <2>2, <1>1
  <2> QED BY <2>1, <2>2
<1>10. ASSUME NEW t \in Txn
       PROVE  /\ rows[t] # NoRow => rows'[t] # NoRow
              /\ rows'[t] # NoRow => rows[t] # NoRow \/ t \in DOMAIN charges
              /\ rows[t].status \in Terminal => rows'[t].status = rows[t].status
  <2>1. CASE t = m.txn
    BY <2>1, <1>2, <1>7
  <2>2. CASE t # m.txn
    BY <2>2, <1>8 DEF RowMoves
  <2> QED BY <2>1, <2>2
<1> QED BY <1>6, <1>7, <1>9, <1>10 DEF RowsStep

(* A refund, and a retired tier: one row through the guard.                *)
LEMMA RefundStep ==
  ASSUME TypeInv, NEW p \in Worker, NEW m \in inbox, applyRefund(p, m)
  PROVE  RowsStep
<1> DEFINE r == rows[m.txn]
<1>1. /\ latest' = latest
      /\ \/ rows' = rows
         \/ r # NoRow /\ rows' = [rows EXCEPT ![m.txn] = written(r, "REFUNDED", m.n)]
  BY DEF applyRefund
<1>2. m.txn \in Txn /\ m.n \in 1 .. MaxEvents /\ rows \in Table /\ "REFUNDED" \in Status
  BY Carried DEF TypeInv, RowsTyped, Table, Status
<1>3. \A t \in Txn : RowMoves(rows[t], rows[t])
  BY <1>2 DEF RowMoves, Table
<1>4. CASE rows' = rows
  BY <1>1, <1>2, <1>3, <1>4, MovesStep
<1>5. CASE r # NoRow /\ rows' = [rows EXCEPT ![m.txn] = written(r, "REFUNDED", m.n)]
  <2>1. r \in Kept
    BY <1>2, <1>5 DEF Table
  <2>2. PICK w : w = written(r, "REFUNDED", m.n)
    OBVIOUS
  <2>3. RowMoves(r, w)
    BY <2>1, <2>2, <1>2, WrittenMoves
  <2>4. rows' = [rows EXCEPT ![m.txn] = w] /\ w \in Kept \cup {NoRow}
    BY <1>5, <2>2, <2>3 DEF RowMoves
  <2>5. rows' \in Table /\ rows'[m.txn] = w /\ \A t \in Txn \ {m.txn} : rows'[t] = rows[t]
    BY <2>4, <1>2 DEF Table
  <2>6. \A t \in Txn : RowMoves(rows[t], rows'[t])
    BY <2>3, <2>5, <1>3
  <2> QED BY <1>1, <2>5, <2>6, MovesStep
<1> QED BY <1>1, <1>4, <1>5

(* So for a tier that an upgrade retires.                                  *)
LEMMA SupersedeStep ==
  ASSUME TypeInv, NEW p \in Worker, expireSuperseded(p)
  PROVE  RowsStep
<1> DEFINE n == job[p].msg.n
<1>1. PICK u \in job[p].todo :
        /\ latest' = latest /\ At(p, "supersede")
        /\ \/ rows' = rows
           \/ /\ guardStatusWrite(rows[u], "EXPIRED", n, {})
              /\ rows' = [rows EXCEPT ![u] = written(@, "EXPIRED", n)]
  BY DEF expireSuperseded
<1>2. n \in 1 .. MaxEvents /\ rows \in Table /\ "EXPIRED" \in Status /\ u \in Txn
  <2>1. job[p].msg \in inbox
    BY <1>1 DEF TypeInv, JobsTyped, At
  <2>2. job[p] \in Work
    BY DEF TypeInv, JobsTyped
  <2> QED BY <2>1, <2>2, Carried DEF TypeInv, RowsTyped, Table, Status, Work
<1>3. \A t \in Txn : RowMoves(rows[t], rows[t])
  BY <1>2 DEF RowMoves, Table
<1>4. CASE rows' = rows
  BY <1>1, <1>2, <1>3, <1>4, MovesStep
<1>5. CASE rows' = [rows EXCEPT ![u] = written(@, "EXPIRED", n)] /\ rows[u] # NoRow
  <2>1. rows[u] \in Kept
    BY <1>2, <1>5 DEF Table
  <2>2. PICK w : w = written(rows[u], "EXPIRED", n)
    OBVIOUS
  <2>3. RowMoves(rows[u], w)
    BY <2>1, <2>2, <1>2, WrittenMoves
  <2>4. rows' = [rows EXCEPT ![u] = w] /\ w \in Kept \cup {NoRow}
    BY <1>5, <2>2, <2>3 DEF RowMoves
  <2>5. rows' \in Table /\ rows'[u] = w /\ \A t \in Txn \ {u} : rows'[t] = rows[t]
    BY <2>4, <1>2 DEF Table
  <2>6. \A t \in Txn : RowMoves(rows[t], rows'[t])
    BY <2>3, <2>5, <1>3
  <2> QED BY <1>1, <2>5, <2>6, MovesStep
<1>6. rows[u] # NoRow \/ rows' = rows
  <2>1. guardStatusWrite(NoRow, "EXPIRED", n, {}) => FALSE
    BY NoRowStatus DEF guardStatusWrite, Transitions
  <2> QED BY <1>1, <2>1
<1> QED BY <1>1, <1>4, <1>5, <1>6

(* A reversal leaves REFUNDED, and nothing leaves REVOKED.                 *)
LEMMA ReversedStep ==
  ASSUME TypeInv, NEW p \in Worker, NEW m \in inbox, applyRefundReversed(p, m)
  PROVE  RowsStep
<1> DEFINE r == rows[m.txn]
           to == IF charges[m.txn].exp > clock THEN "ACTIVE" ELSE "EXPIRED"
<1>1. /\ latest' = latest /\ m.kind = "REVERSED"
      /\ \/ rows' = rows
         \/ /\ r # NoRow /\ guardStatusWrite(r, to, m.n, {"REFUNDED"})
            /\ rows' = [rows EXCEPT ![m.txn].status = to, ![m.txn].at = m.n]
  BY DEF applyRefundReversed
<1>2. m.txn \in Txn /\ m.n \in 1 .. MaxEvents /\ rows \in Table
  BY Carried DEF TypeInv, RowsTyped, Table
<1>3. \A t \in Txn : RowMoves(rows[t], rows[t])
  BY <1>2 DEF RowMoves, Table
<1>4. CASE rows' = rows
  BY <1>1, <1>2, <1>3, <1>4, MovesStep
<1>5. CASE /\ r # NoRow /\ guardStatusWrite(r, to, m.n, {"REFUNDED"})
           /\ rows' = [rows EXCEPT ![m.txn].status = to, ![m.txn].at = m.n]
  <2>1. r \in Kept /\ to \in Status /\ to \in {"ACTIVE", "EXPIRED"}
    BY <1>2, <1>5 DEF Table, Status
  <2> HIDE DEF to
  <2>2. PICK w : w = [r EXCEPT !.status = to, !.at = m.n]
    OBVIOUS
  <2>3. w \in Kept
    BY <2>1, <2>2, <1>2 DEF Kept
  <2>4. rows' = [rows EXCEPT ![m.txn] = w]
    BY <1>5, <2>2, <1>2 DEF Table
  <2>5. rows' \in Table /\ rows'[m.txn] = w /\ \A t \in Txn \ {m.txn} : rows'[t] = rows[t]
    BY <2>3, <2>4, <1>2 DEF Table
  <2>6. r.status \in Terminal => r.status = "REFUNDED"
    <3>1. to \in Transitions(r.status) \/ r.status = "REFUNDED"
      BY <1>5 DEF guardStatusWrite
    <3>2. Transitions("REVOKED") = {"REVOKED"}
      BY DEF Transitions
    <3> QED BY <3>1, <3>2, <2>1 DEF Terminal
  <2>7. ASSUME NEW t \in Txn
        PROVE  /\ rows[t] = NoRow <=> rows'[t] = NoRow
               /\ rows[t].status \in Terminal /\ rows'[t].status # rows[t].status =>
                    rows[t].status = "REFUNDED" /\ m.txn = t
    <3>1. CASE t = m.txn
      BY <3>1, <1>5, <2>3, <2>5, <2>6, Absent
    <3>2. CASE t # m.txn
      BY <3>2, <2>5
    <3> QED BY <3>1, <3>2
  <2> QED BY <1>1, <2>5, <2>7 DEF RowsStep
<1> QED BY <1>1, <1>4, <1>5

(* A failed renewal writes what is not terminal.                           *)
LEMMA FailedStep ==
  ASSUME TypeInv, NEW p \in Worker, NEW m \in inbox, applyFailedRenewal(p, m)
  PROVE  RowsStep
<1> USE Numbers
<1>1. PICK status \in {"BILLING_ISSUE", "GRACE_PERIOD"},
           ends \in {Null, log[m.n].at + Grace} :
        rows' = updateChainStatusGuarded(status, [t \in Txn |-> ends])
        /\ latest' = latest
  BY DEF applyFailedRenewal
<1>2. rows \in Table /\ status \in Status
  BY DEF TypeInv, RowsTyped, Table, Status
<1>3. log[m.n].at + Grace \in Time
  <2>1. log[m.n].at \in 0 .. MaxTime
    BY Carried DEF TypeInv
  <2>2. PICK k \in Nat : k = (MaxTxn + 1) * Period
    OBVIOUS
  <2> QED BY <2>1, <2>2 DEF Time
<1>4. \A t \in Txn : [u \in Txn |-> ends][t] \in Time \cup {Null}
  BY <1>3
<1>5. rows' \in Table /\ \A u \in Txn : RowMoves(rows[u], rows'[u])
  BY <1>1, <1>2, <1>4, ChainMoves
<1> QED BY <1>1, <1>5, MovesStep

(* So do an expiry and a revocation.                                       *)
LEMMA ChainEndStep ==
  ASSUME TypeInv, NEW p \in Worker, NEW m \in inbox, ChainEnd(p, m)
  PROVE  RowsStep
<1>1. PICK status \in {"REVOKED", "EXPIRED"} :
        rows' = updateChainStatusGuarded(status, [t \in Txn |-> rows[t].grace])
        /\ latest' = latest
  BY DEF ChainEnd
<1>2. rows \in Table /\ status \in Status
  BY DEF TypeInv, RowsTyped, Table, Status
<1>3. \A t \in Txn : rows[t] # NoRow =>
        [u \in Txn |-> rows[u].grace][t] \in Time \cup {Null}
  <2> SUFFICES ASSUME NEW t \in Txn, rows[t] # NoRow
               PROVE  rows[t].grace \in Time \cup {Null}
    OBVIOUS
  <2>1. rows[t] \in Kept
    BY <1>2 DEF Table
  <2> QED BY <2>1 DEF Kept
<1>5. rows' \in Table /\ \A u \in Txn : RowMoves(rows[u], rows'[u])
  BY <1>1, <1>2, <1>3, ChainMoves
<1> QED BY <1>1, <1>5, MovesStep

(* A step of a handler that leaves the purchase rows alone.                *)
LEMMA NoRowsStep ==
  ASSUME TypeInv, UNCHANGED <<rows, latest>>
  PROVE  RowsStep
  BY DEF RowsStep, TypeInv, RowsTyped, Table

(* Every step of a handler, and its death.                                 *)
LEMMA HandlerRows ==
  ASSUME TypeInv, NEW p \in Worker, Handle(p) \/ Crash(p)
  PROVE  RowsStep
<1>1. ASSUME NEW m \in inbox, upsertPurchase(p, m) PROVE RowsStep
  BY <1>1, UpsertStep
<1>2. ASSUME NEW m \in inbox, GuardFirst(p, m) PROVE RowsStep
  BY <1>2, NoRowsStep DEF GuardFirst
<1>3. ASSUME NEW m \in inbox, applyRefund(p, m) PROVE RowsStep
  BY <1>3, RefundStep
<1>4. ASSUME NEW m \in inbox, applyRefundReversed(p, m) PROVE RowsStep
  BY <1>4, ReversedStep
<1>5. ASSUME NEW m \in inbox, applyFailedRenewal(p, m) PROVE RowsStep
  BY <1>5, FailedStep
<1>6. ASSUME NEW m \in inbox, ChainEnd(p, m) PROVE RowsStep
  BY <1>6, ChainEndStep
<1>7. CASE insertPurchase(p)
  BY <1>7, InsertStep
<1>8. CASE FindSiblings(p)
  BY <1>8, NoRowsStep DEF FindSiblings
<1>9. CASE expireSuperseded(p)
  BY <1>9, SupersedeStep
<1>10. CASE FindAccess(p)
  BY <1>10, NoRowsStep DEF FindAccess
<1>11. CASE createAccess(p)
  BY <1>11, NoRowsStep DEF createAccess
<1>12. CASE revokeAccess(p)
  BY <1>12, NoRowsStep DEF revokeAccess
<1>13. CASE emitRevenueEvent(p)
  BY <1>13, NoRowsStep DEF emitRevenueEvent
<1>14. CASE SyncRead(p)
  BY <1>14, NoRowsStep DEF SyncRead, readAccess
<1>15. CASE SyncApply(p)
  BY <1>15, NoRowsStep DEF SyncApply
<1>16. CASE Crash(p)
  BY <1>16, NoRowsStep DEF Crash
<1> QED
  BY <1>1, <1>2, <1>3, <1>4, <1>5, <1>6, <1>7, <1>8, <1>9, <1>10, <1>11, <1>12, <1>13,
     <1>14, <1>15, <1>16 DEF Handle

(* Rows stay typed under a step of a handler.                              *)
LEMMA RowsStepTyped ==
  ASSUME TypeInv, RowsStep, UNCHANGED charges
  PROVE  RowsTyped' /\ \A t : Known(t) => Known(t)'
<1>1. /\ rows' \in Table
      /\ \A t \in Txn : /\ rows[t] # NoRow => rows'[t] # NoRow
                        /\ rows'[t] # NoRow => t \in DOMAIN charges'
  BY DEF RowsStep, TypeInv, RowsTyped
<1>2. \/ latest' = latest /\ \A t \in Txn : rows[t] = NoRow <=> rows'[t] = NoRow
      \/ latest' \in Txn /\ rows'[latest'] # NoRow
  BY DEF RowsStep
<1>3. /\ latest' \in 0 .. MaxTxn
      /\ (latest' = 0) <=> (\A t \in Txn : rows'[t] = NoRow)
      /\ latest' # 0 => rows'[latest'] # NoRow
  <2>1. CASE latest' = latest /\ \A t \in Txn : rows[t] = NoRow <=> rows'[t] = NoRow
    <3>1. latest # 0 => latest \in Txn
      BY Numbers DEF TypeInv, RowsTyped, Txn
    <3> QED BY <2>1, <3>1 DEF TypeInv, RowsTyped
  <2>2. CASE latest' \in Txn /\ rows'[latest'] # NoRow
    BY <2>2, Numbers DEF Txn
  <2> QED BY <1>2, <2>1, <2>2
<1> QED BY <1>1, <1>3 DEF RowsTyped, Table, Known

--------------------------------------------------------------------------------
(***************************************************************************)
(* Jobs, the inbox and the advisory lock.                                  *)
(***************************************************************************)
Syncing == {"apply", "reapply"}

(* Process p goes on as j, with its notification or one that nobody has.   *)
JobBecomes(p, j) ==
    /\ j \in Work
    /\ job' = [job EXCEPT ![p] = j]
    /\ inbox' \subseteq inbox
    /\ \A q \in Worker \ {p} : job[q].msg \in inbox => job[q].msg \in inbox'
    /\ j.at = "idle" <=> j = Idle
    /\ j # Idle => j.msg \in inbox' /\ \A q \in Worker \ {p} : job[q].msg # j.msg
    /\ j.at \in Syncing <=> syncLock' = p
    /\ \A q \in Worker \ {p} : syncLock' = q <=> syncLock = q

(* What is known of a job at work, and of one at rest.                     *)
LEMMA AtWork ==
  ASSUME TypeInv, NEW p \in Worker
  PROVE  /\ job[p] \in Work /\ (At(p, "idle") <=> job[p] = Idle)
         /\ ~At(p, "idle") => job[p].msg \in inbox
                               /\ \A q \in Worker \ {p} : job[q].msg # job[p].msg
         /\ job[p].at \in Syncing <=> syncLock = p
         /\ Idle \in Work /\ Idle.at = "idle" /\ Idle.msg = NoMsg
         /\ Idle.want = Nothing /\ Idle.seen = <<>>
         /\ NoMsg \notin inbox
<1>1. NoMsg \notin inbox
  BY Absent DEF TypeInv, StoreTyped
<1>2. Idle.at = "idle" /\ Idle.msg = NoMsg /\ Idle.want = Nothing /\ Idle.seen = <<>>
  BY DEF Idle
<1>3. Idle \in Work
  BY Numbers DEF Idle, Work, Place, Label, Nothing, Target, Tier, Null
<1>4. job[p] \in Work /\ (At(p, "idle") <=> job[p] = Idle)
      /\ (job[p].at \in Syncing <=> syncLock = p)
  BY DEF TypeInv, JobsTyped, Syncing, At
<1>5. ~At(p, "idle") => job[p].msg \in inbox
                               /\ \A q \in Worker \ {p} : job[q].msg # job[p].msg
  BY <1>1 DEF TypeInv, JobsTyped
<1> QED BY <1>1, <1>2, <1>3, <1>4, <1>5

(* Such a step keeps the jobs typed and apart.                             *)
LEMMA JobBecomesTyped ==
  ASSUME TypeInv, NEW p \in Worker, NEW j, JobBecomes(p, j)
  PROVE  JobsTyped'
<1>1. /\ job' \in [Worker -> Work] /\ job'[p] = j
      /\ \A q \in Worker \ {p} : job'[q] = job[q]
  BY DEF JobBecomes, TypeInv, JobsTyped
<1>2. Idle.at = "idle" /\ Idle.msg = NoMsg /\ NoMsg \notin inbox
  BY AtWork
<1>3. ASSUME NEW q \in Worker
      PROVE  /\ job'[q].at = "idle" <=> job'[q] = Idle
             /\ job'[q].msg \in inbox' \cup {NoMsg}
             /\ job'[q].at # "idle" => job'[q].msg \in inbox'
             /\ job'[q].at \in Syncing <=> syncLock' = q
  <2>1. CASE q = p
    BY <2>1, <1>1, <1>2 DEF JobBecomes
  <2>2. CASE q # p
    BY <2>2, <1>1 DEF JobBecomes, TypeInv, JobsTyped, At, Syncing
  <2> QED BY <2>1, <2>2
<1>4. ASSUME NEW q \in Worker, NEW o \in Worker, job'[q].msg = job'[o].msg,
             q # o, job'[q].msg # NoMsg
      PROVE  FALSE
  <2>1. CASE q # p /\ o # p
    BY <2>1, <1>1, <1>4 DEF TypeInv, JobsTyped
  <2>2. CASE q = p
    BY <2>2, <1>1, <1>2, <1>4 DEF JobBecomes
  <2>3. CASE o = p
    BY <2>3, <1>1, <1>2, <1>4 DEF JobBecomes
  <2> QED BY <2>1, <2>2, <2>3
<1> QED BY <1>1, <1>3, <1>4 DEF JobsTyped, At, Syncing

(* A process that takes a notification holds it alone from then on: none   *)
(* of the others is at work on that notification.                          *)
LEMMA BeginBecomes ==
  ASSUME TypeInv, NEW p \in Worker, NEW m \in inbox, Takes(p, m),
         NEW j \in Work, j.msg = m, j.at \notin Syncing, j.at # "idle",
         job' = [job EXCEPT ![p] = j], inbox' = inbox, syncLock' = syncLock
  PROVE  JobBecomes(p, j)
<1>1. j # Idle /\ At(p, "idle") /\ syncLock # p
  BY AtWork DEF Takes, Syncing, At
<1>2. \A q \in Worker \ {p} : job[q].msg # m
  BY DEF Takes
<1> QED BY <1>1, <1>2 DEF JobBecomes

(* A job goes on.                                                          *)
LEMMA GoesBecomes ==
  ASSUME TypeInv, NEW p \in Worker, NEW j \in Work, ~At(p, "idle"), j.at # "idle",
         job' = [job EXCEPT ![p] = j], j.msg = job[p].msg, UNCHANGED inbox,
         j.at \in Syncing <=> syncLock' = p,
         \A q \in Worker \ {p} : syncLock' = q <=> syncLock = q
  PROVE  JobBecomes(p, j)
  BY AtWork DEF JobBecomes

(* A job goes on at another place, and nothing else of it changes.         *)
LEMMA GoBecomes ==
  ASSUME TypeInv, NEW p \in Worker, NEW where \in Place \ ({"idle"} \cup Syncing),
         job[p].at \notin {"idle"} \cup Syncing,
         Go(p, where), inbox' = inbox, syncLock' = syncLock
  PROVE  \E j \in Work : /\ JobBecomes(p, j) /\ j.at = where /\ j.msg = job[p].msg
                         /\ j.want = job[p].want /\ j.seen = job[p].seen
<1>1. PICK j : j = [job[p] EXCEPT !.at = where]
  OBVIOUS
<1>2. job[p] \in Work /\ ~At(p, "idle") /\ syncLock # p
  BY AtWork DEF At
<1>3. j \in Work /\ j.at = where /\ j.msg = job[p].msg /\ j.want = job[p].want
      /\ j.seen = job[p].seen
  BY <1>1, <1>2 DEF Work
<1>4. job' = [job EXCEPT ![p] = j]
  BY <1>1, <1>2 DEF Go, TypeInv, JobsTyped
<1>5. JobBecomes(p, j)
  BY <1>2, <1>3, <1>4, GoesBecomes DEF Syncing
<1> QED BY <1>3, <1>5

(* A job ends: its notification is out of the inbox, the others' are not.  *)
LEMMA DoneBecomes ==
  ASSUME TypeInv, NEW p \in Worker, Done(p), ~At(p, "idle"), syncLock' # p,
         \A q \in Worker \ {p} : syncLock' = q <=> syncLock = q
  PROVE  JobBecomes(p, Idle)
  BY AtWork DEF JobBecomes, Done, Syncing

(* A job dies: its notification stays.                                     *)
LEMMA CrashBecomes ==
  ASSUME TypeInv, NEW p \in Worker, Crash(p)
  PROVE  JobBecomes(p, Idle)
<1>1. Nobody # p /\ \A q \in Worker : Nobody # q
  BY Numbers
<1> QED BY <1>1, AtWork DEF JobBecomes, Crash, Syncing

(* A notification that is handled in one step.                             *)
LEMMA IgnoreBecomes ==
  ASSUME TypeInv, NEW p \in Worker, NEW m \in inbox, Takes(p, m), Ignore(m),
         UNCHANGED syncLock
  PROVE  JobBecomes(p, Idle)
<1>1. job[p] = Idle /\ syncLock # p
  BY AtWork DEF Takes, Syncing, At
<1>2. job' = [job EXCEPT ![p] = Idle]
  BY <1>1 DEF Ignore, TypeInv, JobsTyped
<1>3. \A q \in Worker \ {p} : job[q].msg # m
  BY DEF Takes
<1> QED BY <1>1, <1>2, <1>3, AtWork DEF JobBecomes, Ignore, Syncing

(***************************************************************************)
(* What each step of a handler does to its job and to the access rows.     *)
(***************************************************************************)
Named == {"find", "create", "siblings", "supersede", "resync", "reapply"}

(* A job in the state after the step names purchases that have a row.      *)
Names(j) ==
    /\ j.at \in Named => Known(j.msg.txn)'
    /\ \A tier \in Tier : j.want[tier].txn = 0 \/ Known(j.want[tier].txn)'
    /\ \A i \in DOMAIN j.seen : Known(j.seen[i].txn)'

JobStep(p) == \E j \in Work : JobBecomes(p, j) /\ Names(j)

AccessStep == access' \in Seq(Line) /\ \A i \in DOMAIN access' : Known(access[i].txn)'

(* What the rows a handler has written tell the rest of its step.          *)
LEMMA HandlerKnown ==
  ASSUME TypeInv, NEW p \in Worker, Handle(p) \/ Crash(p)
  PROVE  /\ \A t : Known(t) => Known(t)'
         /\ RowsTyped' /\ UNCHANGED storeVars
<1>1. UNCHANGED storeVars
  BY DEF Handle, Crash, upsertPurchase, GuardFirst, applyRefund, applyRefundReversed,
     applyFailedRenewal, ChainEnd, insertPurchase, FindSiblings, expireSuperseded,
     FindAccess, createAccess, revokeAccess, emitRevenueEvent, SyncRead, readAccess,
     SyncApply
<1>2. UNCHANGED charges
  BY <1>1 DEF storeVars
<1> QED BY <1>1, <1>2, HandlerRows, RowsStepTyped

(* Idle names nothing, a job that keeps its wants names what it did.       *)
LEMMA WantsKept ==
  ASSUME TypeInv, NEW p \in Worker, \A t : Known(t) => Known(t)',
         NEW j \in Work, j.want = job[p].want \/ j.want = Nothing,
         j.seen = job[p].seen \/ j.seen = <<>>,
         j.at \in Named => Known(j.msg.txn)'
  PROVE  Names(j)
<1>1. ASSUME NEW tier \in Tier
      PROVE  j.want[tier].txn = 0 \/ Known(j.want[tier].txn)'
  <2>1. CASE j.want = job[p].want
    <3>1. job[p].want[tier].txn = 0 \/ Known(job[p].want[tier].txn)
      BY DEF TypeInv, AccessTyped
    <3> QED BY <2>1, <3>1
  <2>2. CASE j.want = Nothing
    BY <2>2 DEF Nothing
  <2> QED BY <2>1, <2>2
<1>2. \A i \in DOMAIN j.seen : Known(j.seen[i].txn)'
  <2>1. \A i \in DOMAIN job[p].seen : Known(job[p].seen[i].txn)
    BY DEF TypeInv, AccessTyped
  <2>2. CASE j.seen = job[p].seen
    <3> SUFFICES ASSUME NEW i \in DOMAIN j.seen PROVE Known(j.seen[i].txn)'
      OBVIOUS
    <3>1. Known(j.seen[i].txn)
      BY <2>1, <2>2
    <3> QED BY <3>1
  <2>3. CASE j.seen = <<>>
    BY <2>3
  <2> QED BY <2>2, <2>3
<1>3. j.at \in Named => Known(j.msg.txn)'
  OBVIOUS
<1> QED BY <1>1, <1>2, <1>3 DEF Names

(* A step at whose end the job is idle.                                    *)
LEMMA IdleStep ==
  ASSUME TypeInv, NEW p \in Worker, JobBecomes(p, Idle)
  PROVE  JobStep(p)
<1>1. Idle \in Work /\ Idle.at = "idle" /\ Idle.want = Nothing /\ Idle.seen = <<>>
  BY AtWork
<1>2. Names(Idle)
  BY <1>1 DEF Names, Named, Nothing
<1> QED BY <1>1, <1>2 DEF JobStep

(* The access rows as they were.                                           *)
LEMMA SameAccess ==
  ASSUME TypeInv, \A t : Known(t) => Known(t)', UNCHANGED access
  PROVE  AccessStep
  BY DEF AccessStep, TypeInv, AccessTyped

(* Where a charge goes on.                                                 *)
LEMMA AfterUpsertPlaces ==
  ASSUME NEW m, NEW applied
  PROVE  AfterUpsert(m, applied) \in {"revenue", "sync", "siblings", "find"}
  BY DEF AfterUpsert

(* Labels are labels.                                                      *)
LEMMA OfferLabels == \A m : offerLabel(m) \in Label
  BY DEF offerLabel, Label

(* The steps that take a notification.                                     *)
LEMMA TakeSteps ==
  ASSUME TypeInv, NEW p \in Worker, NEW m \in inbox,
         \/ upsertPurchase(p, m) \/ GuardFirst(p, m) \/ applyRefund(p, m)
         \/ applyRefundReversed(p, m) \/ applyFailedRenewal(p, m) \/ ChainEnd(p, m)
  PROVE  JobStep(p) /\ AccessStep
<1>0. (\A t : Known(t) => Known(t)') /\ Takes(p, m)
      /\ UNCHANGED access /\ UNCHANGED syncLock
  <2>1. Handle(p)
    BY DEF Handle
  <2>2. Takes(p, m) /\ UNCHANGED access /\ UNCHANGED syncLock
    BY DEF upsertPurchase, GuardFirst, applyRefund, applyRefundReversed,
       applyFailedRenewal, ChainEnd
  <2> QED BY <2>1, <2>2, HandlerKnown
<1>1. ASSUME NEW where \in Place \ ({"idle"} \cup Syncing), NEW l \in Label,
             job' = [job EXCEPT ![p] = [Idle EXCEPT !.at = where, !.msg = m, !.label = l]],
             UNCHANGED inbox, where \in Named => Known(m.txn)'
      PROVE  JobStep(p)
  <2>1. PICK j \in Work : /\ JobBecomes(p, j) /\ j.at = where /\ j.msg = m
                          /\ j.want = Nothing /\ j.seen = <<>>
    <3>1. PICK j : j = [Idle EXCEPT !.at = where, !.msg = m, !.label = l]
      OBVIOUS
    <3>2. inbox' = inbox /\ syncLock' = syncLock /\ Takes(p, m)
          /\ job' = [job EXCEPT ![p] = j]
      BY <1>0, <1>1, <3>1
    <3>3. m \in Message
      BY Carried DEF TypeInv
    <3>4. /\ j \in Work /\ j.at = where /\ j.msg = m
          /\ j.want = Nothing /\ j.seen = <<>>
      <4>1. j = [at |-> where, msg |-> m, label |-> l, todo |-> {}, want |-> Nothing,
                 seen |-> <<>>]
        BY <3>1 DEF Idle
      <4>2. Nothing \in [Tier -> Target]
        BY Numbers DEF Nothing, Tier, Target, Null
      <4>3. where \in Place /\ m \in Message \cup {NoMsg} /\ {} \in SUBSET Txn
            /\ <<>> \in Seq(Line)
        BY <3>3
      <4>4. j \in Work
        BY ONLY <4>1, <4>2, <4>3, l \in Label DEF Work
      <4> QED BY <4>1, <4>4
    <3>5. JobBecomes(p, j)
      BY <3>2, <3>4, BeginBecomes
    <3> QED BY <3>4, <3>5
  <2>2. Names(j)
    BY <1>0, <1>1, <2>1, WantsKept
  <2> QED BY <2>1, <2>2 DEF JobStep
<1>2. ASSUME NEW where \in Place \ ({"idle"} \cup Syncing), Begin(p, m, where),
             where \in Named => Known(m.txn)'
      PROVE  JobStep(p)
  BY <1>1, <1>2, OfferLabels DEF Begin
<1>3. ASSUME Ignore(m)
      PROVE  JobStep(p)
  BY <1>0, <1>3, IgnoreBecomes, IdleStep
<1>4. {"insert", "revoke", "revenue", "sync", "siblings", "find"}
        \subseteq Place \ ({"idle"} \cup Syncing)
  BY DEF Place, Syncing
<1>5. CASE upsertPurchase(p, m)
  <2>1. PICK applied : Begin(p, m, AfterUpsert(m, applied)) /\ rows[m.txn] # NoRow
    BY <1>5 DEF upsertPurchase
  <2>2. PICK where \in {"revenue", "sync", "siblings", "find"} :
          where = AfterUpsert(m, applied)
    BY AfterUpsertPlaces
  <2>3. Known(m.txn)'
    <3>1. m.txn \in Txn
      BY Carried DEF TypeInv
    <3> QED BY <1>0, <2>1, <3>1 DEF Known
  <2> QED BY <1>0, <1>2, <1>4, <2>1, <2>2, <2>3, SameAccess
<1>6. CASE GuardFirst(p, m)
  <2>1. Begin(p, m, "insert") /\ "insert" \notin Named
    BY <1>6 DEF GuardFirst, Named
  <2> QED BY <1>0, <1>2, <1>4, <2>1, SameAccess
<1>7. CASE applyRefund(p, m)
  <2>1. (Ignore(m) \/ Begin(p, m, "revoke")) /\ "revoke" \notin Named
    BY <1>7 DEF applyRefund, Named
  <2> QED BY <1>0, <1>2, <1>3, <1>4, <2>1, SameAccess
<1>8. CASE applyRefundReversed(p, m)
  <2>1. (Ignore(m) \/ Begin(p, m, "revenue")) /\ "revenue" \notin Named
    BY <1>8 DEF applyRefundReversed, Named
  <2> QED BY <1>0, <1>2, <1>3, <1>4, <2>1, SameAccess
<1>9. CASE applyFailedRenewal(p, m)
  <2>1. Ignore(m)
    BY <1>9 DEF applyFailedRenewal
  <2> QED BY <1>0, <1>3, <2>1, SameAccess
<1>10. CASE ChainEnd(p, m)
  <2>1. PICK l \in {"NONE", "withheld"} :
          /\ job' = [job EXCEPT ![p] = [Idle EXCEPT !.at = "revoke", !.msg = m, !.label = l]]
          /\ UNCHANGED inbox
    BY <1>10 DEF ChainEnd
  <2>2. l \in Label /\ "revoke" \notin Named
    BY DEF Label, Named
  <2> QED BY <1>0, <1>1, <1>4, <2>1, <2>2, SameAccess
<1> QED BY <1>5, <1>6, <1>7, <1>8, <1>9, <1>10

(* A job goes on at another place and its wants stay.                      *)
LEMMA GoStep ==
  ASSUME TypeInv, NEW p \in Worker, \A t : Known(t) => Known(t)',
         NEW where \in Place \ ({"idle"} \cup Syncing),
         job[p].at \notin {"idle"} \cup Syncing, Go(p, where),
         inbox' = inbox, syncLock' = syncLock,
         NEW t, t = job[p].msg.txn, where \in Named => Known(t)'
  PROVE  JobStep(p)
<1>1. PICK j \in Work : /\ JobBecomes(p, j) /\ j.at = where /\ j.msg = job[p].msg
                        /\ j.want = job[p].want /\ j.seen = job[p].seen
  BY GoBecomes
<1>2. j.at \in Named => Known(j.msg.txn)'
  BY <1>1
<1>3. Names(j)
  BY <1>1, <1>2, WantsKept
<1> QED BY <1>1, <1>3 DEF JobStep

(* The row of a purchase is written, and the job goes on to what follows it. *)
LEMMA InsertTyped ==
  ASSUME TypeInv, NEW p \in Worker, insertPurchase(p)
  PROVE  JobStep(p) /\ AccessStep
<1> DEFINE m == job[p].msg
<1>0. (\A t : Known(t) => Known(t)') /\ Handle(p)
  BY HandlerKnown DEF Handle
<1>1. /\ At(p, "insert") /\ Go(p, AfterUpsert(m, TRUE))
      /\ inbox' = inbox /\ syncLock' = syncLock /\ UNCHANGED access
  BY DEF insertPurchase
<1>2. PICK where \in {"revenue", "sync", "siblings", "find"} : where = AfterUpsert(m, TRUE)
  BY AfterUpsertPlaces
<1>3. where \in Place \ ({"idle"} \cup Syncing) /\ job[p].at \notin {"idle"} \cup Syncing
  BY <1>1 DEF Place, Syncing, At
<1>4. PICK t : t = m.txn
  OBVIOUS
<1>5. Known(t)'
  <2>1. m \in inbox
    BY <1>1, AtWork DEF At
  <2>2. t \in Txn
    BY <2>1, <1>4, Carried DEF TypeInv
  <2>3. rows'[t] # NoRow
    BY <1>4, InsertStep
  <2> QED BY <2>2, <2>3 DEF Known
<1>6. Go(p, where)
  BY <1>1, <1>2
<1>7. JobStep(p)
  BY <1>0, <1>1, <1>3, <1>4, <1>5, <1>6, GoStep
<1> QED BY <1>0, <1>1, <1>7, SameAccess

(* findSupersedable: the rows to expire are known, and not the job's own.  *)
LEMMA SiblingsTyped ==
  ASSUME TypeInv, NEW p \in Worker, FindSiblings(p)
  PROVE  JobStep(p) /\ AccessStep
<1> DEFINE found == findSupersedable(job[p].msg.txn, job[p].msg.n)
<1>0. (\A t : Known(t) => Known(t)') /\ Handle(p)
  BY HandlerKnown DEF Handle
<1>1. /\ At(p, "siblings")
      /\ job' = [job EXCEPT ![p].todo = found,
                            ![p].at = IF found = {} THEN "find" ELSE "supersede"]
      /\ inbox' = inbox /\ syncLock' = syncLock /\ UNCHANGED access
  BY DEF FindSiblings
<1>2. found \in SUBSET Txn
  BY DEF findSupersedable
<1>3. PICK where \in {"find", "supersede"} : where = IF found = {} THEN "find" ELSE "supersede"
  OBVIOUS
<1>4. PICK u \in SUBSET Txn : u = found
  BY <1>2
<1>5. PICK j : j = [job[p] EXCEPT !.todo = u, !.at = where]
  OBVIOUS
<1>6. job' = [job EXCEPT ![p] = j]
  BY <1>1, <1>3, <1>4, <1>5 DEF TypeInv, JobsTyped
<1>7. job[p] \in Work /\ where \in Place
  BY AtWork DEF Place
<1>8. j \in Work /\ j.at = where /\ j.msg = job[p].msg /\ j.want = job[p].want
      /\ j.seen = job[p].seen
  BY <1>5, <1>7 DEF Work
<1>9. ~At(p, "idle") /\ syncLock # p /\ j.at # "idle" /\ j.at \notin Syncing
  BY <1>1, <1>8, AtWork DEF At, Syncing
<1>10. JobBecomes(p, j)
  BY <1>1, <1>6, <1>8, <1>9, GoesBecomes
<1>11. Known(j.msg.txn)'
  BY <1>0, <1>1, <1>8 DEF TypeInv, AccessTyped, At
<1>12. Names(j)
  BY <1>0, <1>8, <1>11, WantsKept
<1> QED BY <1>0, <1>1, <1>10, <1>12, <1>8, SameAccess DEF JobStep

(* One superseded row is expired, and the job stays in its chain.          *)
LEMMA SupersedeTyped ==
  ASSUME TypeInv, NEW p \in Worker, expireSuperseded(p)
  PROVE  JobStep(p) /\ AccessStep
<1>0. (\A t : Known(t) => Known(t)') /\ Handle(p)
  BY HandlerKnown DEF Handle
<1>1. PICK u \in job[p].todo :
        /\ At(p, "supersede")
        /\ job' = [job EXCEPT ![p].at = "resync", ![p].todo = @ \ {u}]
        /\ inbox' = inbox /\ syncLock' = syncLock /\ UNCHANGED access
  BY DEF expireSuperseded
<1>7. job[p] \in Work /\ "resync" \in Place
  BY AtWork DEF Place
<1>4. PICK v \in SUBSET Txn : v = job[p].todo \ {u}
  BY <1>7 DEF Work
<1>5. PICK j : j = [job[p] EXCEPT !.at = "resync", !.todo = v]
  OBVIOUS
<1>6. job' = [job EXCEPT ![p] = j]
  BY <1>1, <1>4, <1>5, <1>7 DEF TypeInv, JobsTyped, Work
<1>8. j \in Work /\ j.at = "resync" /\ j.msg = job[p].msg /\ j.want = job[p].want
      /\ j.seen = job[p].seen
  BY <1>5, <1>7 DEF Work
<1>9. ~At(p, "idle") /\ syncLock # p /\ j.at # "idle" /\ j.at \notin Syncing
  BY <1>1, <1>8, AtWork DEF At, Syncing
<1>10. JobBecomes(p, j)
  BY <1>1, <1>6, <1>8, <1>9, GoesBecomes
<1>11. Known(j.msg.txn)'
  BY <1>0, <1>1, <1>8 DEF TypeInv, AccessTyped, At
<1>12. Names(j)
  BY <1>0, <1>8, <1>11, WantsKept
<1> QED BY <1>0, <1>1, <1>10, <1>12, <1>8, SameAccess DEF JobStep

(* A revenue row is written, and the job goes on to the access sync.       *)
LEMMA EmitTyped ==
  ASSUME TypeInv, NEW p \in Worker, emitRevenueEvent(p)
  PROVE  JobStep(p) /\ AccessStep
<1>0. (\A t : Known(t) => Known(t)') /\ Handle(p)
  BY HandlerKnown DEF Handle
<1>1. /\ At(p, "revenue")
      /\ job' = [job EXCEPT ![p].at = "sync", ![p].label = "NONE"]
      /\ inbox' = inbox /\ syncLock' = syncLock /\ UNCHANGED access
  BY DEF emitRevenueEvent
<1>7. job[p] \in Work /\ "sync" \in Place /\ "NONE" \in Label
  BY AtWork DEF Place, Label
<1>5. PICK j : j = [job[p] EXCEPT !.at = "sync", !.label = "NONE"]
  OBVIOUS
<1>6. job' = [job EXCEPT ![p] = j]
  BY <1>1, <1>5 DEF TypeInv, JobsTyped
<1>8. j \in Work /\ j.at = "sync" /\ j.msg = job[p].msg /\ j.want = job[p].want
      /\ j.seen = job[p].seen
  BY <1>5, <1>7 DEF Work
<1>9. ~At(p, "idle") /\ syncLock # p /\ j.at # "idle" /\ j.at \notin Syncing
      /\ j.at \notin Named
  BY <1>1, <1>8, AtWork DEF At, Syncing, Named
<1>10. JobBecomes(p, j)
  BY <1>1, <1>6, <1>8, <1>9, GoesBecomes
<1>12. Names(j)
  BY <1>0, <1>8, <1>9, WantsKept
<1> QED BY <1>0, <1>1, <1>10, <1>12, <1>8, SameAccess DEF JobStep

(***************************************************************************)
(* The steps that write access rows.                                       *)
(***************************************************************************)
LEMMA Grants ==
  ASSUME TypeInv, NEW t, Known(t)
  PROVE  Granted(t) \in Line /\ Granted(t).txn = t
<1>1. t \in Txn /\ t \in DOMAIN charges
  BY DEF Known, TypeInv, RowsTyped
<1>2. charges[t].exp \in Nat
  <2>1. charges[t] \in Priced
    BY <1>1 DEF TypeInv, StoreTyped
  <2> QED BY <2>1 DEF Priced
<1> QED BY <1>1, <1>2 DEF Granted, Line

(* A line found by its purchase is rewritten for that purchase, whose row  *)
(* the job wrote before.                                                   *)
LEMMA FindTyped ==
  ASSUME TypeInv, NEW p \in Worker, FindAccess(p)
  PROVE  JobStep(p) /\ AccessStep
<1>0. (\A t : Known(t) => Known(t)') /\ Handle(p)
  BY HandlerKnown DEF Handle
<1>1. PICK t : t = job[p].msg.txn
  OBVIOUS
<1>2. /\ At(p, "find") /\ inbox' = inbox /\ syncLock' = syncLock
      /\ \/ Go(p, "create") /\ UNCHANGED access
         \/ /\ \E i \in DOMAIN access : access' = [access EXCEPT ![i] = Granted(t)]
            /\ Go(p, "revenue")
  BY <1>1 DEF FindAccess
<1>3. Known(t)
  BY <1>1, <1>2 DEF TypeInv, AccessTyped, At
<1>4. {"create", "revenue"} \subseteq Place \ ({"idle"} \cup Syncing)
      /\ job[p].at \notin {"idle"} \cup Syncing
  BY <1>2 DEF Place, Syncing, At
<1>5. JobStep(p)
  BY <1>0, <1>1, <1>2, <1>3, <1>4, GoStep
<1>6. AccessStep
  <2>1. CASE UNCHANGED access
    BY <1>0, <2>1, SameAccess
  <2>2. CASE \E i \in DOMAIN access : access' = [access EXCEPT ![i] = Granted(t)]
    <3>1. PICK i \in DOMAIN access : access' = [access EXCEPT ![i] = Granted(t)]
      BY <2>2
    <3>2. Granted(t) \in Line /\ Granted(t).txn = t /\ access \in Seq(Line)
      BY <1>3, Grants DEF TypeInv, AccessTyped
    <3>3. access' \in Seq(Line) /\ DOMAIN access' = DOMAIN access
      BY <3>1, <3>2
    <3>4. \A k \in DOMAIN access' : access'[k].txn = t \/ access'[k].txn = access[k].txn
      BY <3>1, <3>2, <3>3
    <3>5. \A k \in DOMAIN access : Known(access[k].txn)
      BY DEF TypeInv, AccessTyped
    <3> QED BY <1>0, <1>3, <3>3, <3>4, <3>5 DEF AccessStep, Known
  <2> QED BY <1>2, <2>1, <2>2
<1> QED BY <1>5, <1>6

(* No line found: one is appended, for a purchase whose row is known.      *)
LEMMA CreateTyped ==
  ASSUME TypeInv, NEW p \in Worker, createAccess(p)
  PROVE  JobStep(p) /\ AccessStep
<1>0. (\A t : Known(t) => Known(t)') /\ Handle(p)
  BY HandlerKnown DEF Handle
<1>1. PICK t : t = job[p].msg.txn
  OBVIOUS
<1>2. /\ At(p, "create") /\ inbox' = inbox /\ syncLock' = syncLock
      /\ Go(p, "revenue") /\ access' = Append(access, Granted(t))
  BY <1>1 DEF createAccess
<1>3. Known(t)
  BY <1>1, <1>2 DEF TypeInv, AccessTyped, At
<1>4. "revenue" \in Place \ ({"idle"} \cup Syncing)
      /\ job[p].at \notin {"idle"} \cup Syncing
  BY <1>2 DEF Place, Syncing, At
<1>5. JobStep(p)
  BY <1>0, <1>1, <1>2, <1>3, <1>4, GoStep
<1>6. AccessStep
  <2>1. Granted(t) \in Line /\ Granted(t).txn = t /\ access \in Seq(Line)
    BY <1>3, Grants DEF TypeInv, AccessTyped
  <2>2. access' \in Seq(Line)
        /\ \A k \in DOMAIN access' :
              \/ k \in DOMAIN access /\ access'[k] = access[k]
              \/ access'[k] = Granted(t)
    BY <1>2, <2>1
  <2>3. \A k \in DOMAIN access : Known(access[k].txn)
    BY DEF TypeInv, AccessTyped
  <2> QED BY <1>0, <1>3, <2>1, <2>2, <2>3 DEF AccessStep, Known
<1> QED BY <1>5, <1>6

(* revokeAccess puts out lines only; the job goes on to the revenue row or *)
(* to the access sync, or ends.                                            *)
LEMMA RevokeTyped ==
  ASSUME TypeInv, NEW p \in Worker, revokeAccess(p)
  PROVE  JobStep(p) /\ AccessStep
<1>0. (\A t : Known(t) => Known(t)') /\ Handle(p)
  BY HandlerKnown DEF Handle
<1>1. PICK t : t = job[p].msg.txn
  OBVIOUS
<1>2. /\ At(p, "revoke") /\ syncLock' = syncLock
      /\ \/ Go(p, "sync") /\ inbox' = inbox
         \/ Done(p)
         \/ Go(p, "revenue") /\ inbox' = inbox
      /\ access' = [i \in DOMAIN access |->
                      IF job[p].msg.kind = "REFUND" /\ access[i].txn # job[p].msg.txn
                      THEN access[i] ELSE [access[i] EXCEPT !.active = FALSE]]
  BY DEF revokeAccess
<1>3. /\ {"sync", "revenue"} \subseteq Place \ ({"idle"} \cup Syncing)
      /\ "sync" \notin Named /\ "revenue" \notin Named
      /\ job[p].at \notin {"idle"} \cup Syncing /\ ~At(p, "idle")
  BY <1>2 DEF Place, Syncing, At, Named
<1>4. JobStep(p)
  <2>1. CASE Done(p)
    <3>1. syncLock # p
      BY <1>3, AtWork
    <3> QED BY <1>2, <1>3, <2>1, <3>1, DoneBecomes, IdleStep
  <2>2. CASE Go(p, "sync") /\ inbox' = inbox
    BY <1>0, <1>1, <1>2, <1>3, <2>2, GoStep
  <2>3. CASE Go(p, "revenue") /\ inbox' = inbox
    BY <1>0, <1>1, <1>2, <1>3, <2>3, GoStep
  <2> QED BY <1>2, <2>1, <2>2, <2>3
<1>5. AccessStep
  <2>1. access \in Seq(Line) /\ \A k \in DOMAIN access : access[k] \in Line
    BY DEF TypeInv, AccessTyped
  <2>2. \A k \in DOMAIN access : access'[k] \in Line /\ access'[k].txn = access[k].txn
    BY <1>2, <2>1 DEF Line
  <2>3. DOMAIN access' = DOMAIN access /\ access' = [k \in 1 .. Len(access) |-> access'[k]]
    BY <1>2, <2>1
  <2>4. access' \in Seq(Line)
    BY <2>1, <2>2, <2>3
  <2>5. \A k \in DOMAIN access : Known(access[k].txn)
    BY DEF TypeInv, AccessTyped
  <2> QED BY <1>0, <2>2, <2>3, <2>4, <2>5 DEF AccessStep, Known
<1> QED BY <1>4, <1>5

(* What the sync decides on has a row, and an expiry.                      *)
LEMMA DesiredKnown ==
  ASSUME TypeInv, NEW tier, NEW t \in desired(tier), t # 0
  PROVE  Known(t) /\ entitlementExpiry(t) \in Int
<1>1. t \in DOMAIN charges /\ rows[t].status \in AccessGranting
  BY DEF desired
<1>2. t \in Txn
  BY <1>1, Numbers DEF TypeInv, StoreTyped, Txn
<1>3. rows[t] # NoRow
  BY <1>1 DEF NoRow, AccessGranting
<1>4. rows[t] \in Kept /\ charges[t].exp \in Nat
  <2>1. charges[t] \in Priced
    BY <1>1 DEF TypeInv, StoreTyped
  <2>2. rows[t] \in Kept
    BY <1>2, <1>3 DEF TypeInv, RowsTyped
  <2> QED BY <2>1, <2>2 DEF Priced
<1>5. rows[t].grace \in Int
  <2>1. PICK k \in Nat : k = (MaxTxn + 1) * Period
    BY Numbers
  <2> QED BY <1>4, <2>1, Numbers DEF Kept, Time, Null
<1>6. entitlementExpiry(t) \in Int
  BY <1>4, <1>5 DEF entitlementExpiry, Later
<1> QED BY <1>2, <1>3, <1>6 DEF Known

(* syncAccess reads the lines and the purchases under its lock: what it    *)
(* means to serve is nothing or a known purchase.                          *)
LEMMA SyncReadTyped ==
  ASSUME TypeInv, NEW p \in Worker, SyncRead(p)
  PROVE  JobStep(p) /\ AccessStep
<1> DEFINE target(t) == [txn |-> t, exp |-> IF t = 0 THEN Null ELSE entitlementExpiry(t)]
<1>0. (\A t : Known(t) => Known(t)') /\ Handle(p)
  BY HandlerKnown DEF Handle
<1>1. PICK one \in desired(1), two \in desired(2) :
        job' = [job EXCEPT ![p].want = <<target(one), target(two)>>,
                           ![p].seen = access,
                           ![p].at = IF At(p, "sync") THEN "apply" ELSE "reapply"]
  BY DEF SyncRead, readAccess
<1>2. /\ At(p, "sync") \/ At(p, "resync")
      /\ syncLock = Nobody /\ syncLock' = p
      /\ inbox' = inbox /\ UNCHANGED access
  BY DEF SyncRead, readAccess
<1>3. PICK where \in Syncing : where = IF At(p, "sync") THEN "apply" ELSE "reapply"
  BY DEF Syncing
<1>4. \A t \in desired(1) \cup desired(2) :
        target(t) \in Target /\ target(t).txn = t /\ (t = 0 \/ Known(t))
  <2> SUFFICES ASSUME NEW t \in desired(1) \cup desired(2)
               PROVE  target(t) \in Target /\ (t = 0 \/ Known(t))
    OBVIOUS
  <2>1. CASE t = 0
    BY <2>1, Numbers DEF Target, Null
  <2>2. CASE t # 0
    <3>1. Known(t) /\ entitlementExpiry(t) \in Int
      BY <2>2, DesiredKnown
    <3> QED BY <2>2, <3>1 DEF Target, Known, Txn
  <2> QED BY <2>1, <2>2
<1>5. PICK a \in Target, b \in Target :
        /\ a = target(one) /\ b = target(two)
        /\ a.txn = 0 \/ Known(a.txn)
        /\ b.txn = 0 \/ Known(b.txn)
  BY <1>4
<1>6. PICK w : w = <<a, b>>
  OBVIOUS
<1>7. w \in [Tier -> Target] /\ w[1] = a /\ w[2] = b
  BY <1>6 DEF Tier
<1>8. PICK j : j = [job[p] EXCEPT !.want = w, !.seen = access, !.at = where]
  OBVIOUS
<1>9. job' = [job EXCEPT ![p] = j]
  <2> HIDE DEF target
  <2>1. job' = [job EXCEPT ![p].want = w, ![p].seen = access, ![p].at = where]
    BY <1>1, <1>3, <1>5, <1>6
  <2> QED BY <2>1, <1>8 DEF TypeInv, JobsTyped
<1> HIDE DEF target
<1>10. job[p] \in Work /\ where \in Place /\ access \in Seq(Line)
  BY AtWork DEF Place, Syncing, TypeInv, AccessTyped
<1>11. j \in Work /\ j.at = where /\ j.msg = job[p].msg /\ j.want = w
       /\ j.seen = access
  BY <1>7, <1>8, <1>10 DEF Work
<1>12. ~At(p, "idle") /\ j.at # "idle" /\ j.at \in Syncing
  BY <1>2, <1>11 DEF At, Syncing
<1>13. \A q \in Worker \ {p} : syncLock' = q <=> syncLock = q
  BY <1>2, Numbers
<1>14. JobBecomes(p, j)
  BY <1>2, <1>9, <1>11, <1>12, <1>13, GoesBecomes
<1>15. j.at \in Named => Known(j.msg.txn)'
  <2> SUFFICES ASSUME j.at \in Named PROVE Known(j.msg.txn)'
    OBVIOUS
  <2>1. At(p, "resync")
    BY <1>2, <1>3, <1>11 DEF Named, At
  <2> QED BY <2>1, <1>0, <1>11 DEF TypeInv, AccessTyped, At
<1>16. \A tier \in Tier : j.want[tier].txn = 0 \/ Known(j.want[tier].txn)'
  <2>1. /\ a.txn = 0 \/ Known(a.txn)'
        /\ b.txn = 0 \/ Known(b.txn)'
    BY <1>0, <1>5
  <2>2. \A tier \in Tier : j.want[tier] = a \/ j.want[tier] = b
    BY <1>7, <1>11 DEF Tier
  <2> QED BY <2>1, <2>2
<1>17. \A i \in DOMAIN j.seen : Known(j.seen[i].txn)'
  <2> SUFFICES ASSUME NEW i \in DOMAIN j.seen PROVE Known(j.seen[i].txn)'
    OBVIOUS
  <2>1. Known(access[i].txn) /\ j.seen[i] = access[i]
    BY <1>11 DEF TypeInv, AccessTyped
  <2>2. Known(j.seen[i].txn)
    BY <2>1
  <2> QED BY <1>0, <2>2
<1>18. Names(j)
  BY <1>15, <1>16, <1>17 DEF Names
<1> QED BY <1>0, <1>2, <1>11, <1>14, <1>18, SameAccess DEF JobStep

(* A sync keeps the transaction of every access row it sets.               *)
LEMMA ReconciledTyped ==
  ASSUME TypeInv, NEW p \in Worker, NEW first
  PROVE  LET new == reconciled(job[p].seen, job[p].want, first)
         IN  /\ new \in Seq(Line) /\ DOMAIN new = DOMAIN access
             /\ \A i \in DOMAIN access : new[i].txn = access[i].txn
<1> DEFINE new == reconciled(job[p].seen, job[p].want, first)
<1>1. job[p] \in Work /\ job[p].want \in [Tier -> Target]
  BY AtWork DEF Work
<1>2. access \in Seq(Line) /\ \A i \in DOMAIN access : access[i] \in Line
  BY DEF TypeInv, AccessTyped
<1>3. ASSUME NEW i \in DOMAIN access
      PROVE  new[i] \in Line /\ new[i].txn = access[i].txn
  <2>1. CASE i \notin DOMAIN job[p].seen
    BY <2>1, <1>2 DEF reconciled
  <2>2. CASE i \in DOMAIN job[p].seen
    <3>1. PICK s : s = job[p].seen[i]
      OBVIOUS
    <3>2. PICK target : target = job[p].want[charges[s.txn].tier]
      OBVIOUS
    <3>3. target.exp \in Int
      <4>1. Known(s.txn)
        BY <2>2, <3>1 DEF TypeInv, AccessTyped
      <4>2. charges[s.txn] \in Priced
        BY <4>1 DEF Known, TypeInv, RowsTyped, StoreTyped
      <4>3. charges[s.txn].tier \in Tier
        BY <4>2 DEF Priced
      <4>4. target \in Target
        BY <3>2, <4>3, <1>1
      <4> QED BY <4>4 DEF Target
    <3>4. \/ new[i] = [access[i] EXCEPT !.active = access[i].active /\ ~s.active]
          \/ new[i] = [access[i] EXCEPT !.active = TRUE, !.exp = target.exp]
          \/ new[i] = access[i]
      BY <2>2, <3>1, <3>2, <1>2 DEF reconciled
    <3>5. access[i] \in Line
      BY <1>2
    <3>6. CASE new[i] = [access[i] EXCEPT !.active = access[i].active /\ ~s.active]
      <4>1. PICK b \in BOOLEAN : b = (access[i].active /\ ~s.active)
        OBVIOUS
      <4>2. new[i] = [access[i] EXCEPT !.active = b]
        BY <3>6, <4>1
      <4> QED BY <4>2, <3>5 DEF Line
    <3>7. CASE new[i] = [access[i] EXCEPT !.active = TRUE, !.exp = target.exp]
      BY <3>3, <3>5, <3>7 DEF Line
    <3> QED BY <3>4, <3>5, <3>6, <3>7
  <2> QED BY <2>1, <2>2
<1>4. DOMAIN new = DOMAIN access /\ new = [i \in DOMAIN access |-> new[i]]
  BY DEF reconciled
<1> HIDE DEF new
<1>5. new \in Seq(Line)
  BY <1>2, <1>3, <1>4
<1>6. /\ new \in Seq(Line) /\ DOMAIN new = DOMAIN access
      /\ \A i \in DOMAIN access : new[i].txn = access[i].txn
  BY <1>3, <1>4, <1>5
<1> QED BY <1>6 DEF new

(* The rows a sync creates are of purchases that have a row.               *)
LEMMA CreatedTyped ==
  ASSUME TypeInv, NEW p \in Worker
  PROVE  LET new == created(job[p].seen, job[p].want)
         IN  new \in Seq(Line) /\ \A i \in DOMAIN new : Known(new[i].txn)
<1> DEFINE row(to) == IF to.txn = 0 \/ RowsOf(job[p].seen, to.txn) # {} THEN <<>>
                      ELSE <<[txn |-> to.txn, active |-> TRUE, exp |-> to.exp]>>
<1>1. job[p] \in Work /\ job[p].want[1] \in Target /\ job[p].want[2] \in Target
  BY AtWork DEF Work, Tier
<1>2. ASSUME NEW tier \in Tier
      PROVE  /\ row(job[p].want[tier]) \in Seq(Line)
             /\ \A i \in DOMAIN row(job[p].want[tier]) :
                  Known(row(job[p].want[tier])[i].txn)
  <2>1. PICK to \in Target : to = job[p].want[tier]
    BY <1>1 DEF Tier
  <2>2. to.txn = 0 \/ Known(to.txn)
    BY <2>1 DEF TypeInv, AccessTyped
  <2>3. CASE row(to) = <<>>
    BY <2>1, <2>3
  <2>4. CASE row(to) # <<>>
    <3>1. row(to) = <<[txn |-> to.txn, active |-> TRUE, exp |-> to.exp]>> /\ to.txn # 0
      BY <2>4
    <3>2. [txn |-> to.txn, active |-> TRUE, exp |-> to.exp] \in Line /\ Known(to.txn)
      BY <2>2, <3>1 DEF Line, Target, Known
    <3> HIDE DEF row
    <3>3. row(to) \in Seq(Line) /\ DOMAIN row(to) = {1} /\ row(to)[1].txn = to.txn
      BY <3>1, <3>2
    <3> QED BY <2>1, <3>2, <3>3
  <2> QED BY <2>3, <2>4
<1>3. created(job[p].seen, job[p].want) = row(job[p].want[1]) \o row(job[p].want[2])
  BY DEF created
<1>4. PICK a \in Seq(Line), b \in Seq(Line) :
        /\ a = row(job[p].want[1]) /\ b = row(job[p].want[2])
        /\ \A i \in DOMAIN a : Known(a[i].txn)
        /\ \A i \in DOMAIN b : Known(b[i].txn)
  <2> HIDE DEF row
  <2>1. 1 \in Tier /\ 2 \in Tier
    BY DEF Tier
  <2> QED BY <1>2, <2>1
<1>5. created(job[p].seen, job[p].want) = a \o b
  BY <1>3, <1>4
<1>6. a \o b \in Seq(Line) /\ \A i \in DOMAIN (a \o b) : Known((a \o b)[i].txn)
  <2>1. /\ a \o b \in Seq(Line) /\ Len(a \o b) = Len(a) + Len(b)
        /\ \A i \in 1 .. Len(a) + Len(b) :
             (a \o b)[i] = IF i <= Len(a) THEN a[i] ELSE b[i - Len(a)]
    BY ConcatProperties
  <2>2. DOMAIN (a \o b) = 1 .. Len(a) + Len(b) /\ Len(a) \in Nat /\ Len(b) \in Nat
        /\ DOMAIN a = 1 .. Len(a) /\ DOMAIN b = 1 .. Len(b)
    BY <2>1
  <2>3. ASSUME NEW i \in DOMAIN (a \o b)
        PROVE  Known((a \o b)[i].txn)
    <3>1. CASE i <= Len(a)
      <4>1. i \in DOMAIN a /\ (a \o b)[i] = a[i]
        BY <2>1, <2>2, <3>1
      <4> QED BY <4>1, <1>4
    <3>2. CASE ~(i <= Len(a))
      <4>1. i - Len(a) \in DOMAIN b /\ (a \o b)[i] = b[i - Len(a)]
        BY <2>1, <2>2, <3>2
      <4> QED BY <4>1, <1>4
    <3> QED BY <3>1, <3>2
  <2> QED BY <2>1, <2>3
<1> QED BY <1>5, <1>6

(* syncAccess writes what it read: lines put out, lines rewritten and lines *)
(* appended for known purchases only.                                      *)
LEMMA SyncApplyTyped ==
  ASSUME TypeInv, NEW p \in Worker, SyncApply(p)
  PROVE  JobStep(p) /\ AccessStep
<1>0. (\A t : Known(t) => Known(t)') /\ Handle(p)
  BY HandlerKnown DEF Handle
<1>1. AccessStep
  <2>1. PICK i, k : access' = reconciled(job[p].seen, job[p].want, {i, k})
                                \o created(job[p].seen, job[p].want)
    BY DEF SyncApply
  <2>2. PICK a, b : /\ a = reconciled(job[p].seen, job[p].want, {i, k})
                    /\ b = created(job[p].seen, job[p].want)
    OBVIOUS
  <2>3. /\ a \in Seq(Line) /\ DOMAIN a = DOMAIN access
        /\ \A n \in DOMAIN access : a[n].txn = access[n].txn
    BY <2>2, ReconciledTyped
  <2>4. b \in Seq(Line) /\ \A n \in DOMAIN b : Known(b[n].txn)
    BY <2>2, CreatedTyped
  <2>5. \A n \in DOMAIN a : Known(a[n].txn)
    BY <2>3 DEF TypeInv, AccessTyped
  <2>6. /\ a \o b \in Seq(Line) /\ Len(a \o b) = Len(a) + Len(b)
        /\ \A n \in 1 .. Len(a) + Len(b) :
             (a \o b)[n] = IF n <= Len(a) THEN a[n] ELSE b[n - Len(a)]
    BY <2>3, <2>4, ConcatProperties
  <2>7. access' = a \o b /\ access' \in Seq(Line) /\ DOMAIN access' = 1 .. Len(a) + Len(b)
        /\ DOMAIN a = 1 .. Len(a) /\ DOMAIN b = 1 .. Len(b)
        /\ Len(a) \in Nat /\ Len(b) \in Nat
    BY <2>1, <2>2, <2>3, <2>4, <2>6
  <2>8. ASSUME NEW n \in DOMAIN access'
        PROVE  Known(access[n].txn)'
    <3>1. PICK line : line = access'[n]
      OBVIOUS
    <3>2. CASE n <= Len(a)
      <4>1. n \in DOMAIN a /\ line = a[n]
        BY <2>6, <2>7, <3>1, <3>2
      <4>2. Known(line.txn)
        BY <4>1, <2>5
      <4> QED BY <1>0, <3>1, <4>2
    <3>3. CASE ~(n <= Len(a))
      <4>1. n - Len(a) \in DOMAIN b /\ line = b[n - Len(a)]
        BY <2>6, <2>7, <3>1, <3>3
      <4>2. Known(line.txn)
        BY <4>1, <2>4
      <4> QED BY <1>0, <3>1, <4>2
    <3> QED BY <3>2, <3>3
  <2> QED BY <2>7, <2>8 DEF AccessStep
<1>2. /\ At(p, "apply") \/ At(p, "reapply")
      /\ syncLock' = Nobody
  BY DEF SyncApply
<1>3. ~At(p, "idle") /\ syncLock = p /\ Nobody # p
      /\ \A q \in Worker \ {p} : syncLock' = q <=> syncLock = q
  BY <1>2, AtWork, Numbers DEF At, Syncing
<1>4. CASE At(p, "apply")
  <2>1. Done(p)
    BY <1>4 DEF SyncApply
  <2>2. JobBecomes(p, Idle)
    BY <1>2, <1>3, <2>1, DoneBecomes
  <2> QED BY <1>1, <2>2, IdleStep
<1>5. CASE ~At(p, "apply")
  <2>1. /\ inbox' = inbox
        /\ job' = [job EXCEPT
             ![p].at = IF job[p].todo = {} THEN "find" ELSE "supersede",
             ![p].want = Nothing, ![p].seen = <<>>]
    BY <1>5 DEF SyncApply
  <2>2. PICK where \in {"find", "supersede"} :
          where = IF job[p].todo = {} THEN "find" ELSE "supersede"
    OBVIOUS
  <2>3. PICK j : j = [job[p] EXCEPT !.at = where, !.want = Nothing, !.seen = <<>>]
    OBVIOUS
  <2>4. job' = [job EXCEPT ![p] = j]
    BY <2>1, <2>2, <2>3 DEF TypeInv, JobsTyped
  <2>5. job[p] \in Work /\ where \in Place /\ Nothing \in [Tier -> Target]
        /\ <<>> \in Seq(Line)
    BY AtWork, Numbers DEF Place, Nothing, Tier, Target, Null
  <2>6. j \in Work /\ j.at = where /\ j.msg = job[p].msg /\ j.want = Nothing
        /\ j.seen = <<>>
    BY <2>3, <2>5 DEF Work
  <2>7. j.at # "idle" /\ (j.at \in Syncing <=> syncLock' = p)
    BY <1>2, <1>3, <2>6 DEF Syncing
  <2>8. JobBecomes(p, j)
    BY <1>3, <2>1, <2>4, <2>6, <2>7, GoesBecomes
  <2>9. Known(j.msg.txn)'
    BY <1>0, <1>2, <1>5, <2>6 DEF TypeInv, AccessTyped, At
  <2>10. Names(j)
    BY <1>0, <2>6, <2>9, WantsKept
  <2> QED BY <1>1, <2>6, <2>8, <2>10 DEF JobStep
<1> QED BY <1>4, <1>5

(* Every step of a handler, and its death.                                 *)
LEMMA HandlerSteps ==
  ASSUME TypeInv, NEW p \in Worker, Handle(p) \/ Crash(p)
  PROVE  JobStep(p) /\ AccessStep
<1>1. CASE Crash(p)
  <2>1. JobStep(p)
    BY <1>1, CrashBecomes, IdleStep
  <2>2. UNCHANGED access /\ \A t : Known(t) => Known(t)'
    BY <1>1, HandlerKnown DEF Crash
  <2> QED BY <2>1, <2>2, SameAccess
<1>2. CASE Handle(p)
  BY <1>2, TakeSteps, InsertTyped, SiblingsTyped, SupersedeTyped, FindTyped, CreateTyped,
     RevokeTyped, EmitTyped, SyncReadTyped, SyncApplyTyped DEF Handle
<1> QED BY <1>1, <1>2

--------------------------------------------------------------------------------
(***************************************************************************)
(* The invariant of the types.                                             *)
(***************************************************************************)
(* The access rows and the jobs after a step of one process.               *)
LEMMA AccessStepTyped ==
  ASSUME TypeInv, NEW p \in Worker, JobStep(p), AccessStep, \A t : Known(t) => Known(t)'
  PROVE  AccessTyped' /\ JobsTyped'
<1>1. PICK j \in Work : JobBecomes(p, j) /\ Names(j)
  BY DEF JobStep
<1>2. JobsTyped'
  BY <1>1, JobBecomesTyped
<1>3. job'[p] = j /\ \A q \in Worker \ {p} : job'[q] = job[q]
  BY <1>1 DEF JobBecomes, TypeInv, JobsTyped
<1>4. ASSUME NEW q \in Worker
      PROVE  (/\ job[q].at \in Named => Known(job[q].msg.txn)
              /\ \A tier \in Tier : job[q].want[tier].txn = 0
                                     \/ Known(job[q].want[tier].txn)
              /\ \A i \in DOMAIN job[q].seen : Known(job[q].seen[i].txn))'
  <2>1. PICK k : k = job'[q]
    OBVIOUS
  <2>2. Names(k)
    <3>1. CASE q = p
      BY <1>1, <1>3, <2>1, <3>1
    <3>2. CASE q # p
      <4>1. k = job[q]
        BY <1>3, <2>1, <3>2
      <4>2. /\ k.at \in Named => Known(k.msg.txn)
            /\ \A tier \in Tier : k.want[tier].txn = 0 \/ Known(k.want[tier].txn)
            /\ \A i \in DOMAIN k.seen : Known(k.seen[i].txn)
        BY <4>1 DEF TypeInv, AccessTyped, Named
      <4> QED BY <4>2 DEF Names
    <3> QED BY <3>1, <3>2
  <2>3. /\ k.at \in Named => Known(k.msg.txn)'
        /\ \A tier \in Tier : k.want[tier].txn = 0 \/ Known(k.want[tier].txn)'
        /\ \A i \in DOMAIN k.seen : Known(k.seen[i].txn)'
    BY <2>2 DEF Names
  <2> QED BY <2>1, <2>3
<1>5. /\ access' \in Seq(Line)
      /\ \A i \in DOMAIN access' : Known(access[i].txn)'
  BY DEF AccessStep
<1>6. AccessTyped'
  BY <1>4, <1>5 DEF AccessTyped, Named
<1> QED BY <1>2, <1>6

(* A step of a process keeps Apple's side: the inbox only shrinks.         *)
LEMMA HandlerStore ==
  ASSUME TypeInv, NEW p \in Worker, Handle(p) \/ Crash(p)
  PROVE  StoreTyped'
<1>1. UNCHANGED storeVars
  BY HandlerKnown
<1>2. inbox' \subseteq inbox
  BY HandlerSteps DEF JobStep, JobBecomes
<1>3. extra' \in Nat /\ Len(log') + extra' <= MaxEvents
  <2>1. CASE Handle(p)
    <3>1. extra' = extra
      BY <2>1 DEF Handle, upsertPurchase, GuardFirst, applyRefund, applyRefundReversed,
         applyFailedRenewal, ChainEnd, insertPurchase, FindSiblings, expireSuperseded,
         FindAccess, createAccess, revokeAccess, emitRevenueEvent, SyncRead, readAccess,
         SyncApply
    <3> QED BY <1>1, <3>1 DEF TypeInv, StoreTyped, storeVars
  <2>2. CASE Crash(p)
    <3>1. extra' = extra + 1 /\ Len(log) + extra < MaxEvents
      BY <2>2 DEF Crash, Spent
    <3>2. Len(log) \in Nat /\ extra \in Nat
      BY DEF TypeInv, StoreTyped
    <3> QED BY <1>1, <3>1, <3>2, Numbers DEF storeVars
  <2> QED BY <2>1, <2>2
<1> QED BY <1>1, <1>2, <1>3 DEF TypeInv, StoreTyped, storeVars

(* What Apple and the clients do disturbs no job and no row.               *)
LEMMA OutsideTyped ==
  ASSUME TypeInv, StoreGrows, Outside
  PROVE  RowsTyped' /\ AccessTyped' /\ JobsTyped'
<1>1. RowsTyped'
  BY DEF Outside, StoreGrows, TypeInv, RowsTyped
<1>2. AccessTyped'
  BY DEF Outside, TypeInv, AccessTyped, Known
<1>3. JobsTyped'
  BY DEF Outside, TypeInv, JobsTyped, At
<1> QED BY <1>1, <1>2, <1>3

(* Every step keeps the types.                                             *)
LEMMA NextTypeInv == TypeInv /\ [Next]_vars => TypeInv'
<1> SUFFICES ASSUME TypeInv, [Next]_vars PROVE TypeInv'
  OBVIOUS
<1>1. CASE AppStore
  <2>1. StoreTyped' /\ StoreGrows /\ Outside
    BY <1>1, AppStoreTyped DEF TypeInv
  <2> QED BY <2>1, OutsideTyped DEF TypeInv
<1>2. ASSUME NEW p \in Worker, Handle(p) \/ Crash(p)
      PROVE  TypeInv'
  <2>1. StoreTyped'
    BY <1>2, HandlerStore
  <2>2. RowsTyped' /\ \A t : Known(t) => Known(t)'
    BY <1>2, HandlerKnown
  <2>3. JobStep(p) /\ AccessStep
    BY <1>2, HandlerSteps
  <2>4. AccessTyped' /\ JobsTyped'
    BY <2>2, <2>3, AccessStepTyped
  <2> QED BY <2>1, <2>2, <2>4 DEF TypeInv
<1>3. CASE UNCHANGED vars
  BY <1>3 DEF vars, storeVars, history, TypeInv, StoreTyped, RowsTyped, AccessTyped,
     JobsTyped, Known, At
<1> QED BY <1>1, <1>2, <1>3 DEF Next

(* The run's type invariant is what TypeInv says of the state alone.       *)
LEMMA TypeInvIsTypeOK == TypeInv => TypeOK
<1> SUFFICES ASSUME TypeInv PROVE TypeOK
  OBVIOUS
<1>1. clock \in 0 .. MaxTime /\ Len(log) \in 1 .. MaxEvents /\ Len(charges) \in Txn
      /\ store.state \in {"ACTIVE", "GRACE", "RETRY", "EXPIRED", "REVOKED"}
      /\ inbox \subseteq Message
  BY Numbers DEF TypeInv, StoreTyped
<1>2. \A t \in Txn : rows[t] = NoRow \/ rows[t] \in
         [status : Status, at : 1 .. MaxEvents, grace : Time \cup {Null}]
  BY DEF TypeInv, RowsTyped, Kept
<1>3. /\ \A t \in Txn : rows[t] # NoRow => t \in DOMAIN charges
      /\ (latest = 0) <=> (rows = [t \in Txn |-> NoRow])
  <2>1. (\A t \in Txn : rows[t] = NoRow) <=> (rows = [t \in Txn |-> NoRow])
    BY DEF TypeInv, RowsTyped
  <2> QED BY <2>1 DEF TypeInv, RowsTyped
<1>4. \A i \in DOMAIN access : rows[access[i].txn] # NoRow
  BY DEF TypeInv, AccessTyped, Known
<1>5. \A p \in Worker : job[p].at \in Place /\ (At(p, "idle") <=> job[p] = Idle)
  BY DEF TypeInv, JobsTyped, Work
<1>6. /\ \A p \in Worker : job[p].msg \in inbox \cup {NoMsg}
      /\ \A p, q \in Worker : job[p].msg = job[q].msg => p = q \/ job[p].msg = NoMsg
      /\ \A p \in Worker : (At(p, "apply") \/ At(p, "reapply")) <=> syncLock = p
  BY DEF TypeInv, JobsTyped
<1> QED BY <1>1, <1>2, <1>3, <1>4, <1>5, <1>6 DEF TypeOK

(* For any number of workers, transactions, events and failures the state  *)
(* is well formed: a notification has one worker, the advisory lock of     *)
(* syncAccess one holder, and every access row a purchase that has a row.  *)
THEOREM AppleTypeCorrect == Spec => []TypeOK
<1>1. Spec => []TypeInv
  BY InitTypeInv, NextTypeInv, PTL DEF Spec
<1> QED BY <1>1, TypeInvIsTypeOK, PTL

(* upsertPurchase, the refund guard and the chain-wide updates: a refunded *)
(* or revoked purchase comes back by a reversal of that very transaction   *)
(* only, in whatever order and however often notifications run.            *)
THEOREM AppleTerminal == Spec => TerminalLeftByReversal
<1> DEFINE Left == \A t \in Txn :
         rows[t].status \in Terminal /\ rows'[t].status # rows[t].status =>
           /\ rows[t].status = "REFUNDED"
           /\ \E m \in inbox : m.kind = "REVERSED" /\ m.txn = t
<1>1. ASSUME TypeInv, [Next]_vars PROVE Left
  <2>1. CASE AppStore
    <3>1. UNCHANGED rows
      BY <1>1, <2>1, AppStoreTyped DEF TypeInv, Outside
    <3> QED BY <3>1
  <2>2. ASSUME NEW p \in Worker, Handle(p) \/ Crash(p) PROVE Left
    <3>1. RowsStep
      BY <1>1, <2>2, HandlerRows
    <3> QED BY <3>1 DEF RowsStep
  <2>3. CASE UNCHANGED vars
    BY <2>3 DEF vars
  <2> QED BY <1>1, <2>1, <2>2, <2>3 DEF Next
<1>2. TypeInv /\ [Next]_vars => [Left]_vars
  BY <1>1
<1>3. Spec => []TypeInv
  BY InitTypeInv, NextTypeInv, PTL DEF Spec
<1>4. Spec => [][Left]_vars
  BY <1>2, <1>3, PTL DEF Spec
<1> QED BY <1>4 DEF TerminalLeftByReversal

--------------------------------------------------------------------------------
(***************************************************************************)
(* The books.                                                              *)
(***************************************************************************)
Income == {"INITIAL", "RENEWAL", "REACTIVATION"}

(* Income has the key of its charge, or that of a reversal of Apple's, and *)
(* a key is taken once.                                                    *)
BooksInv ==
    /\ \A r \in revenue : r.type \in Income =>
         r.key = "purchase" \/ (r.key = "reactivation" /\ After(0, "REVERSED", r.txn))
    /\ \A r, s \in revenue : r.txn = s.txn /\ r.key = s.key => r = s

(* Apple does not take back what it sent.                                  *)
LEMMA AfterStays ==
  ASSUME StoreTyped, StoreTyped', StoreGrows, NEW kind, NEW t, After(0, kind, t)
  PROVE  After(0, kind, t)'
<1>1. PICK n \in 1 .. Len(log) : log[n].kind = kind /\ log[n].txn = t
  BY DEF After
<1>2. DOMAIN log = 1 .. Len(log) /\ DOMAIN log' = 1 .. Len(log')
  BY DEF StoreTyped
<1>3. n \in 1 .. Len(log') /\ log'[n] = log[n]
  BY <1>1, <1>2 DEF StoreGrows
<1> QED BY <1>1, <1>3 DEF After

(* Every notification of a charge has one key; of the others only a        *)
(* reversal is income.                                                     *)
LEMMA KeysOfIncome ==
  ASSUME StoreTyped, NEW m \in inbox, NEW label,
         revenueType(m, label) \in Income
  PROVE  \/ dedupeKey(m, revenueType(m, label)) = "purchase"
         \/ /\ dedupeKey(m, revenueType(m, label)) = "reactivation"
            /\ After(0, "REVERSED", m.txn)
<1>1. m.kind \in Kind /\ m.n \in DOMAIN log /\ m.txn = log[m.n].txn
      /\ (m.kind = log[m.n].kind \/ m.kind = "RECEIPT")
  BY DEF StoreTyped, Message
<1>2. CASE m.kind \in Charges
  BY <1>2 DEF dedupeKey, revenueDedupeKind
<1>3. CASE m.kind = "REVERSED"
  <2>1. m.kind \notin Charges
    BY <1>3 DEF Charges, Upgrades, Offers
  <2>2. revenueType(m, label) = "REACTIVATION"
    BY <1>3 DEF revenueType, Offers
  <2>3. dedupeKey(m, revenueType(m, label)) = "reactivation"
    BY <2>1, <2>2 DEF dedupeKey, revenueDedupeKind
  <2>4. m.n \in 0 + 1 .. Len(log)
    BY <1>1 DEF StoreTyped
  <2>5. After(0, "REVERSED", m.txn)
    BY <1>1, <1>3, <2>4 DEF After
  <2> QED BY <2>3, <2>5
<1>4. CASE m.kind \in {"EXPIRED", "REFUND", "REVOKE", "FAIL", "FAIL_GRACE"}
  <2>1. revenueType(m, label) \in {"REFUND", "CANCELLATION"}
    BY <1>4 DEF revenueType, Offers
  <2> QED BY <2>1 DEF Income
<1> QED BY <1>1, <1>2, <1>3, <1>4 DEF Kind, Failures

(* The books of a step that leaves revenue alone.                          *)
LEMMA BooksKept ==
  ASSUME BooksInv, StoreTyped, StoreTyped', StoreGrows, UNCHANGED revenue
  PROVE  BooksInv'
<1>1. \A r \in revenue : After(0, "REVERSED", r.txn) => After(0, "REVERSED", r.txn)'
  BY AfterStays
<1>2. ASSUME NEW r \in revenue', r.type \in Income
      PROVE  r.key = "purchase" \/ (r.key = "reactivation" /\ After(0, "REVERSED", r.txn)')
  BY <1>1, <1>2 DEF BooksInv
<1>3. \A r, s \in revenue' : r.txn = s.txn /\ r.key = s.key => r = s
  BY DEF BooksInv
<1> QED BY <1>2, <1>3 DEF BooksInv

(* createRevenueEvent inserts a row, or nothing when its key is taken.     *)
LEMMA EmitBooks ==
  ASSUME TypeInv, BooksInv, NEW p \in Worker, emitRevenueEvent(p)
  PROVE  BooksInv'
<1>1. PICK m, type, event :
        /\ m = job[p].msg /\ type = revenueType(m, job[p].label)
        /\ event = [txn |-> m.txn, key |-> dedupeKey(m, type), type |-> type]
        /\ At(p, "revenue")
        /\ revenue' = IF \E r \in revenue : r.txn = event.txn /\ r.key = event.key
                      THEN revenue ELSE revenue \cup {event}
  BY DEF emitRevenueEvent
<1>2. UNCHANGED storeVars
  BY DEF emitRevenueEvent
<1>3. m \in inbox /\ event.txn = m.txn /\ event.key = dedupeKey(m, type)
      /\ event.type = type
  BY <1>1, AtWork DEF At
<1>4. event.type \in Income =>
        event.key = "purchase" \/ (event.key = "reactivation" /\ After(0, "REVERSED", event.txn))
  BY <1>1, <1>3, KeysOfIncome DEF TypeInv
<1>5. ASSUME NEW r \in revenue', r.type \in Income
      PROVE  r.key = "purchase" \/ (r.key = "reactivation" /\ After(0, "REVERSED", r.txn)')
  <2>1. r.key = "purchase" \/ (r.key = "reactivation" /\ After(0, "REVERSED", r.txn))
    BY <1>1, <1>4, <1>5 DEF BooksInv
  <2> QED BY <2>1, <1>2 DEF After, storeVars
<1>6. ASSUME NEW r \in revenue', NEW s \in revenue', r.txn = s.txn, r.key = s.key
      PROVE  r = s
  BY <1>1, <1>6 DEF BooksInv
<1> QED BY <1>5, <1>6 DEF BooksInv

(* Every step keeps the books.                                             *)
LEMMA NextBooks == TypeInv /\ BooksInv /\ [Next]_vars => BooksInv'
<1> SUFFICES ASSUME TypeInv, BooksInv, [Next]_vars PROVE BooksInv'
  OBVIOUS
<1>0. StoreTyped /\ StoreTyped'
  BY NextTypeInv DEF TypeInv
<1>1. CASE AppStore
  <2>1. StoreGrows /\ UNCHANGED revenue
    BY <1>1, AppStoreTyped DEF TypeInv, Outside
  <2> QED BY <1>0, <2>1, BooksKept
<1>2. ASSUME NEW p \in Worker, Handle(p) \/ Crash(p)
      PROVE  BooksInv'
  <2>1. CASE emitRevenueEvent(p)
    BY <2>1, EmitBooks
  <2>2. CASE ~emitRevenueEvent(p)
    <3>1. UNCHANGED storeVars
      BY <1>2, HandlerKnown
    <3>2. StoreGrows
      BY <3>1 DEF storeVars, StoreGrows
    <3>3. UNCHANGED revenue
      BY <1>2, <2>2 DEF Handle, Crash, upsertPurchase, GuardFirst, applyRefund,
         applyRefundReversed, applyFailedRenewal, ChainEnd, insertPurchase, FindSiblings,
         expireSuperseded, FindAccess, createAccess, revokeAccess, SyncRead, readAccess,
         SyncApply
    <3> QED BY <1>0, <3>2, <3>3, BooksKept
  <2> QED BY <2>1, <2>2
<1>3. CASE UNCHANGED vars
  <2>1. StoreGrows /\ UNCHANGED revenue
    BY <1>3 DEF vars, storeVars, StoreGrows
  <2> QED BY <1>0, <2>1, BooksKept
<1> QED BY <1>1, <1>2, <1>3 DEF Next

(* A set within two elements has at most two, within one at most one.      *)
LEMMA FewElements ==
  /\ \A S, a : S \subseteq {a} => Cardinality(S) <= 1
  /\ \A S, a, b : S \subseteq {a, b} => Cardinality(S) <= 2
<1>1. \A a : IsFiniteSet({a}) /\ Cardinality({a}) = 1
  BY FS_Singleton
<1>2. ASSUME NEW S, NEW a, S \subseteq {a}
      PROVE  Cardinality(S) <= 1
  <2>1. IsFiniteSet({a}) /\ Cardinality({a}) = 1
    BY <1>1
  <2>2. IsFiniteSet(S) /\ Cardinality(S) <= Cardinality({a})
    BY <1>2, <2>1, FS_Subset
  <2> QED BY <2>1, <2>2
<1>3. ASSUME NEW a, NEW b
      PROVE  IsFiniteSet({a, b}) /\ Cardinality({a, b}) <= 2
  <2>1. {a, b} = {a} \cup {b}
    OBVIOUS
  <2>2. /\ IsFiniteSet({a} \cup {b})
        /\ Cardinality({a} \cup {b}) =
             IF b \in {a} THEN Cardinality({a}) ELSE Cardinality({a}) + 1
    BY <1>1, FS_AddElement
  <2>3. Cardinality({a}) = 1
    BY <1>1
  <2>4. Cardinality({a} \cup {b}) \in {1, 2}
    <3>1. CASE b \in {a}
      BY <2>2, <2>3, <3>1
    <3>2. CASE b \notin {a}
      BY <2>2, <2>3, <3>2
    <3> QED BY <3>1, <3>2
  <2> QED BY <2>1, <2>2, <2>4
<1>4. ASSUME NEW S, NEW a, NEW b, S \subseteq {a, b}
      PROVE  Cardinality(S) <= 2
  <2>1. IsFiniteSet({a, b}) /\ Cardinality({a, b}) <= 2
    BY <1>3
  <2>2. IsFiniteSet(S) /\ Cardinality(S) <= Cardinality({a, b})
    BY <1>4, <2>1, FS_Subset
  <2>3. Cardinality(S) \in Nat /\ Cardinality({a, b}) \in Nat
    BY <2>1, <2>2, FS_CardinalityType
  <2> QED BY <2>1, <2>2, <2>3
<1> QED BY <1>2, <1>4

(* Such books hold one row of income for a charge, two for a reversed one. *)
LEMMA BooksCount == BooksInv => ChargeOnce
<1> SUFFICES ASSUME BooksInv, NEW t \in DOMAIN charges
             PROVE  Cardinality({r \in revenue : r.txn = t /\ r.type \in Income})
                      <= IF After(0, "REVERSED", t) THEN 2 ELSE 1
  BY DEF ChargeOnce, Income
<1> DEFINE S == {r \in revenue : r.txn = t /\ r.type \in Income}
<1>1. PICK a : (a \in S /\ a.key = "purchase") \/ ~\E r \in S : r.key = "purchase"
  OBVIOUS
<1>2. PICK b : (b \in S /\ b.key = "reactivation") \/ ~\E r \in S : r.key = "reactivation"
  OBVIOUS
<1>3. \A r \in S : /\ r.key = "purchase" => r = a
                   /\ r.key = "reactivation" => r = b
  BY <1>1, <1>2 DEF BooksInv
<1>4. \A r \in S : r.key = "purchase" \/ (r.key = "reactivation" /\ After(0, "REVERSED", t))
  BY DEF BooksInv
<1>5. S \subseteq {a, b}
  BY <1>3, <1>4
<1>6. ~After(0, "REVERSED", t) => S \subseteq {a}
  BY <1>3, <1>4
<1> HIDE DEF S
<1>7. Cardinality(S) <= 2 /\ (~After(0, "REVERSED", t) => Cardinality(S) <= 1)
  BY <1>5, <1>6, FewElements
<1>8. Cardinality(S) <= IF After(0, "REVERSED", t) THEN 2 ELSE 1
  BY <1>7
<1> QED BY <1>8 DEF S

(* dedupeKey and createRevenueEvent: however many notifications, receipts, *)
(* retries and crashes report a charge, it is income once, and a reversed  *)
(* refund adds one compensating row.                                       *)
THEOREM AppleChargeOnce == Spec => []ChargeOnce
<1>1. Init => BooksInv
  BY DEF Init, BooksInv
<1>2. Spec => []TypeInv
  BY InitTypeInv, NextTypeInv, PTL DEF Spec
<1>3. Spec => []BooksInv
  BY <1>1, <1>2, NextBooks, PTL DEF Spec
<1> QED BY <1>3, BooksCount, PTL

--------------------------------------------------------------------------------
(***************************************************************************)
(* Access follows the rows.                                                *)
(***************************************************************************)
AllTerminal == \A t \in Txn : Known(t) => rows[t].status \in Terminal

(* The messages whose handling ends with a sync, however often it is       *)
(* started again.                                                          *)
MustSync(m) ==
    \/ m.kind \in Charges
    \/ m.kind \in {"REFUND", "REVERSED"} /\ Known(m.txn)
    \/ m.kind = "REVOKE" /\ latest # 0
    \/ m.kind = "EXPIRED" /\ ~AllTerminal

Withheld(p) == /\ At(p, "revoke") /\ job[p].msg.kind = "EXPIRED"
               /\ job[p].label = "withheld"

(* Those of which no process has begun the last sync.                      *)
Debtors ==
    {m \in inbox : /\ MustSync(m)
                   /\ \A p \in Worker : job[p].msg = m => ~At(p, "apply") /\ ~Withheld(p)}

Entitles(t) == rows[t].status \in AccessGranting
Twinless(acc) == \A i, j \in DOMAIN acc : acc[i].txn = acc[j].txn => i = j

(* The lines acc serve what the rows entitle to, at least as long; a line  *)
(* is active only while its purchase grants access, and, if no purchase    *)
(* has two, served no longer than it grants.                               *)
Serves(acc) ==
    \A t \in Txn : Entitles(t) /\ entitlementExpiry(t) > clock =>
      \E i \in DOMAIN acc : /\ acc[i].active
                            /\ charges[acc[i].txn].tier = charges[t].tier
                            /\ acc[i].exp >= entitlementExpiry(t)
ServesOnly(acc) ==
    \A i \in DOMAIN acc : acc[i].active /\ acc[i].exp > clock =>
      Entitles(acc[i].txn) /\ entitlementExpiry(acc[i].txn) >= acc[i].exp
LivesOn(acc) == \A i \in DOMAIN acc : acc[i].active => Entitles(acc[i].txn)
Agrees(acc) == Serves(acc) /\ LivesOn(acc) /\ (Twinless(acc) => ServesOnly(acc))

(* The access lines when the sync of j ends, for each choice of first rows.*)
Outcome(j, i, k) == reconciled(j.seen, j.want, {i, k}) \o created(j.seen, j.want)
WillAgree(j) ==
    \A i \in FirstOf(j.seen, j.want[1].txn), k \in FirstOf(j.seen, j.want[2].txn) :
      Agrees(Outcome(j, i, k))

(* What a process at each step has in hand.                                *)
Replacing == {"siblings", "supersede", "resync", "reapply"}
KindOf(j) ==
    /\ j.at \in {"insert", "siblings", "supersede", "resync", "reapply", "find",
                 "create"} => j.msg.kind \in Charges
    /\ j.at \in Replacing => j.msg.kind \in Upgrades
    /\ j.at = "revoke" => j.msg.kind \in {"REFUND", "REVOKE", "EXPIRED"}
    /\ j.at = "revenue" => j.msg.kind # "REVOKE"
    /\ j.at # "idle" => j.msg.kind \notin Failures
    /\ j.at # "idle" /\ j.msg.kind \in {"REFUND", "REVERSED"} => Known(j.msg.txn)
    /\ j.at \in {"sync", "apply"} /\ j.msg.kind = "REVOKE" => latest # 0
KindInv == \A p \in Worker : KindOf(job[p])

(* When nobody owes a sync, what is served agrees with the rows, or the    *)
(* process in a sync's transaction will make it agree.                     *)
Synced ==
    Debtors = {} /\ (~unsynced \/ AllTerminal) =>
      /\ \A p \in Worker : At(p, "apply") => WillAgree(job[p])
      /\ Agrees(access) \/ \E p \in Worker : At(p, "apply") /\ MustSync(job[p].msg)
SyncInv == KindInv /\ Synced

(* What a row that entitles is.                                            *)
LEMMA Entitling ==
  ASSUME TypeInv, NEW t \in Txn, Entitles(t)
  PROVE  /\ Known(t) /\ t \in DOMAIN charges /\ charges[t].tier \in Tier
         /\ entitlementExpiry(t) \in Int /\ rows[t].status \notin Terminal
<1>1. rows[t] # NoRow /\ rows[t].status \notin Terminal
  BY DEF NoRow, Entitles, AccessGranting, Terminal
<1>2. t \in DOMAIN charges /\ rows[t] \in Kept
  BY <1>1 DEF TypeInv, RowsTyped
<1>3. charges[t] \in Priced
  BY <1>2 DEF TypeInv, StoreTyped
<1>4. rows[t].grace \in Int
  <2>1. PICK k \in Nat : k = (MaxTxn + 1) * Period
    BY Numbers
  <2> QED BY <1>2, <2>1, Numbers DEF Kept, Time, Null
<1>5. charges[t].exp \in Int /\ charges[t].tier \in Tier
  BY <1>3 DEF Priced
<1>6. entitlementExpiry(t) \in Int
  BY <1>4, <1>5 DEF entitlementExpiry, Later
<1> QED BY <1>1, <1>2, <1>5, <1>6 DEF Known

(* While the rows stay as they are, agreement outlives the clock and new   *)
(* charges.                                                                *)
LEMMA AgreesLater ==
  ASSUME TypeInv, StoreGrows, rows' = rows, clock' \in Int, clock' >= clock,
         NEW acc \in Seq(Line), \A i \in DOMAIN acc : Known(acc[i].txn), Agrees(acc)
  PROVE  Agrees(acc)'
<1>0. clock \in Int
  BY DEF TypeInv, StoreTyped
<1>1. \A t : Known(t) => /\ t \in DOMAIN charges /\ charges'[t] = charges[t]
                         /\ entitlementExpiry(t)' = entitlementExpiry(t)
  BY DEF Known, TypeInv, RowsTyped, StoreGrows, entitlementExpiry
<1>2. \A t : Entitles(t)' = Entitles(t)
  BY DEF Entitles
<1>3. Serves(acc)'
  <2> SUFFICES ASSUME NEW t \in Txn, Entitles(t)', entitlementExpiry(t)' > clock'
               PROVE  \E i \in DOMAIN acc : /\ acc[i].active
                            /\ charges'[acc[i].txn].tier = charges'[t].tier
                            /\ acc[i].exp >= entitlementExpiry(t)'
    BY DEF Serves
  <2>1. Entitles(t) /\ Known(t) /\ entitlementExpiry(t) \in Int
    BY <1>2, Entitling
  <2>2. entitlementExpiry(t)' = entitlementExpiry(t) /\ charges'[t] = charges[t]
    BY <1>1, <2>1
  <2>3. entitlementExpiry(t) > clock
    BY <1>0, <2>1, <2>2
  <2>4. PICK i \in DOMAIN acc : /\ acc[i].active
                            /\ charges[acc[i].txn].tier = charges[t].tier
                            /\ acc[i].exp >= entitlementExpiry(t)
    BY <2>1, <2>3 DEF Agrees, Serves
  <2>5. charges'[acc[i].txn] = charges[acc[i].txn]
    BY <1>1
  <2> QED BY <2>2, <2>4, <2>5
<1>4. ServesOnly(acc) => ServesOnly(acc)'
  <2> SUFFICES ASSUME ServesOnly(acc), NEW i \in DOMAIN acc, acc[i].active,
                      acc[i].exp > clock'
               PROVE  Entitles(acc[i].txn)' /\ entitlementExpiry(acc[i].txn)' >= acc[i].exp
    BY DEF ServesOnly
  <2>1. acc[i] \in Line
    OBVIOUS
  <2>2. acc[i].exp > clock
    BY <1>0, <2>1 DEF Line
  <2>3. Entitles(acc[i].txn) /\ entitlementExpiry(acc[i].txn) >= acc[i].exp
    BY <2>2 DEF ServesOnly
  <2> QED BY <1>1, <1>2, <2>3
<1>5. Twinless(acc)' = Twinless(acc)
  BY DEF Twinless
<1>6. LivesOn(acc)'
  BY <1>2 DEF Agrees, LivesOn
<1> QED BY <1>3, <1>4, <1>5, <1>6 DEF Agrees

(* What agrees serves the entitled, and, twins aside, nobody else.         *)
LEMMA AgreementServes ==
  ASSUME TypeInv, Agrees(access)
  PROVE  Entitled \subseteq Served /\ (NoTwin => Served \subseteq Entitled)
<1>0. clock \in Int /\ access \in Seq(Line) /\ \A i \in DOMAIN access : Known(access[i].txn)
  BY DEF TypeInv, StoreTyped, AccessTyped
<1>1. ASSUME NEW tier \in Entitled PROVE tier \in Served
  <2>1. PICK t \in DOMAIN charges : /\ rows[t].status \in AccessGranting
                                    /\ entitlementExpiry(t) > clock
                                    /\ tier = charges[t].tier
    BY <1>1 DEF Entitled
  <2>2. t \in Txn
    BY <2>1, Numbers DEF TypeInv, StoreTyped, Txn
  <2>3. entitlementExpiry(t) \in Int
    BY <2>1, <2>2, Entitling DEF Entitles
  <2>4. PICK i \in DOMAIN access : /\ access[i].active
                            /\ charges[access[i].txn].tier = charges[t].tier
                            /\ access[i].exp >= entitlementExpiry(t)
    BY <2>1, <2>2 DEF Agrees, Serves, Entitles
  <2>5. access[i].exp \in Int
    <3>1. access[i] \in Line
      BY <1>0
    <3> QED BY <3>1 DEF Line
  <2>6. access[i].exp > clock
    BY <1>0, <2>1, <2>3, <2>4, <2>5
  <2> QED BY <2>1, <2>4, <2>6 DEF Served
<1>2. ASSUME NoTwin, NEW tier \in Served PROVE tier \in Entitled
  <2>1. PICK i \in DOMAIN access : /\ access[i].active /\ access[i].exp > clock
                                   /\ tier = charges[access[i].txn].tier
    BY <1>2 DEF Served
  <2>2. Twinless(access)
    BY <1>2 DEF NoTwin, Twinless
  <2>3. Entitles(access[i].txn) /\ entitlementExpiry(access[i].txn) >= access[i].exp
    BY <2>1, <2>2 DEF Agrees, ServesOnly
  <2>4. access[i].txn \in Txn
    BY <1>0 DEF Known
  <2>5. entitlementExpiry(access[i].txn) \in Int /\ access[i].txn \in DOMAIN charges
    BY <2>3, <2>4, Entitling
  <2>6. access[i].exp \in Int
    <3>1. access[i] \in Line
      BY <1>0
    <3> QED BY <3>1 DEF Line
  <2>7. entitlementExpiry(access[i].txn) > clock
    BY <1>0, <2>1, <2>3, <2>5, <2>6
  <2> QED BY <2>1, <2>3, <2>5, <2>7 DEF Entitled, Entitles
<1> QED BY <1>1, <1>2

(* Among finitely many transactions one expires last.                      *)
LEMMA SomeLast ==
  ASSUME NEW T, T # {}, IsFiniteSet(T), NEW f, \A u \in T : f[u] \in Int
  PROVE  \E t \in T : \A u \in T : f[t] >= f[u]
<1> DEFINE Above(t) == {u \in T : f[u] > f[t]}
           Aboves == {Above(t) : t \in T}
<1>1. Aboves \subseteq FiniteSubsetsOf(T) /\ Aboves # {}
  <2>1. \A U \in SUBSET T : IsFiniteSet(U)
    BY FS_Subset
  <2>2. \A t \in T : Above(t) \in SUBSET T
    OBVIOUS
  <2> HIDE DEF Above
  <2> QED BY <2>1, <2>2 DEF FiniteSubsetsOf
<1>2. IsWellFoundedOn(StrictSubsetOrdering(T), FiniteSubsetsOf(T))
  BY FS_StrictSubsetOrderingWellFounded
<1>3. PICK m \in Aboves : \A y \in Aboves : <<y, m>> \notin StrictSubsetOrdering(T)
  <2> HIDE DEF Aboves
  <2> QED BY <1>1, <1>2, WFMin
<1>4. PICK t \in T : m = Above(t)
  BY <1>3
<1>5. ASSUME NEW u \in T, f[u] > f[t] PROVE FALSE
  <2>1. Above(u) \subseteq Above(t) /\ u \in Above(t) /\ u \notin Above(u)
    BY <1>5
  <2>2. <<Above(u), Above(t)>> \in StrictSubsetOrdering(T)
    BY <2>1 DEF StrictSubsetOrdering
  <2> QED BY <1>3, <1>4, <2>2
<1> QED BY <1>5

(* computeDesiredAccess: of the rows that entitle to a tier none expires   *)
(* after the one it chooses, and it chooses none only if there is none.    *)
LEMMA Chosen ==
  ASSUME TypeInv, NEW tier \in Tier, NEW s \in desired(tier)
  PROVE  /\ s # 0 => s \in Txn /\ Entitles(s) /\ charges[s].tier = tier
         /\ \A t \in Txn : Entitles(t) /\ charges[t].tier = tier
                             /\ entitlementExpiry(t) > clock
              => s # 0 /\ entitlementExpiry(s) >= entitlementExpiry(t)
<1> DEFINE live == {t \in DOMAIN charges :
                      /\ rows[t].status \in AccessGranting /\ charges[t].tier = tier
                      /\ entitlementExpiry(t) >= clock}
           last == {t \in live :
                      \A u \in live : entitlementExpiry(t) >= entitlementExpiry(u)}
           f == [t \in live |-> entitlementExpiry(t)]
<1>1. desired(tier) = IF last = {} THEN {0} ELSE last
  BY DEF desired
<1>2. DOMAIN charges \subseteq Txn /\ IsFiniteSet(DOMAIN charges) /\ clock \in Int
  <2>1. DOMAIN charges = 1 .. Len(charges) /\ Len(charges) \in Nat
        /\ Len(charges) <= MaxTxn /\ clock \in Int
    BY Numbers DEF TypeInv, StoreTyped, Txn
  <2>2. IsFiniteSet(1 .. Len(charges))
    BY <2>1, FS_Interval
  <2> QED BY <2>1, <2>2, Numbers DEF Txn
<1>3. \A t \in live : t \in Txn /\ Entitles(t) /\ entitlementExpiry(t) \in Int
  BY <1>2, Entitling DEF Entitles
<1>4. live # {} => last # {}
  <2> SUFFICES ASSUME live # {} PROVE last # {}
    OBVIOUS
  <2>1. IsFiniteSet(live)
    BY <1>2, FS_Subset
  <2>2. \A u \in live : f[u] \in Int
    BY <1>3
  <2>3. PICK t \in live : \A u \in live : f[t] >= f[u]
    <3> HIDE DEF live, f
    <3> QED BY <2>1, <2>2, SomeLast
  <2>4. \A u \in live : entitlementExpiry(t) >= entitlementExpiry(u)
    BY <2>3
  <2> QED BY <2>4
<1>5. 0 \notin Txn
  BY DEF Txn
<1>6. s # 0 => s \in last
  BY <1>1
<1>7. s # 0 => s \in Txn /\ Entitles(s) /\ charges[s].tier = tier
  BY <1>3, <1>6
<1>8. ASSUME NEW t \in Txn, Entitles(t), charges[t].tier = tier,
             entitlementExpiry(t) > clock
      PROVE  s # 0 /\ entitlementExpiry(s) >= entitlementExpiry(t)
  <2>1. t \in DOMAIN charges /\ entitlementExpiry(t) \in Int
    BY <1>8, Entitling
  <2>2. t \in live
    BY <1>2, <1>8, <2>1 DEF Entitles
  <2>3. s \in last
    BY <1>1, <1>4, <2>2
  <2>4. s \in live
    BY <2>3
  <2>5. s # 0
    BY <1>3, <1>5, <2>4
  <2> QED BY <2>2, <2>3, <2>5
<1> QED BY <1>7, <1>8

AnyLine == [txn : 0 .. MaxTxn, active : BOOLEAN, exp : Int]

(* The lines a sync creates: one for each purchase it chose that has none. *)
LEMMA CreatedRows ==
  ASSUME NEW seen, NEW w \in [Tier -> Target]
  PROVE  /\ created(seen, w) \in Seq(AnyLine)
         /\ \A tier \in Tier : w[tier].txn # 0 /\ RowsOf(seen, w[tier].txn) = {} =>
              \E x \in DOMAIN created(seen, w) :
                created(seen, w)[x] = [txn |-> w[tier].txn, active |-> TRUE,
                                       exp |-> w[tier].exp]
         /\ \A x \in DOMAIN created(seen, w) :
              \E tier \in Tier : /\ w[tier].txn # 0
                                 /\ created(seen, w)[x].txn = w[tier].txn
                                 /\ created(seen, w)[x].exp = w[tier].exp
<1> DEFINE line(to) == [txn |-> to.txn, active |-> TRUE, exp |-> to.exp]
           row(to) == IF to.txn = 0 \/ RowsOf(seen, to.txn) # {} THEN <<>>
                      ELSE <<line(to)>>
<1>1. PICK one \in Target, two \in Target : one = w[1] /\ two = w[2]
  BY DEF Tier
<1>2. \A to \in Target : line(to) \in AnyLine /\ line(to).txn = to.txn
                         /\ line(to).exp = to.exp
  BY DEF Target, AnyLine
<1>3. created(seen, w) = row(one) \o row(two)
  BY <1>1 DEF created
<1>4. ASSUME NEW to \in Target
      PROVE  /\ row(to) \in Seq(AnyLine)
             /\ \A x \in DOMAIN row(to) : to.txn # 0 /\ row(to)[x] = line(to)
             /\ to.txn # 0 /\ RowsOf(seen, to.txn) = {} => 1 \in DOMAIN row(to)
  <2>1. CASE to.txn = 0 \/ RowsOf(seen, to.txn) # {}
    <3>1. row(to) = <<>>
      BY <2>1
    <3> QED BY <2>1, <3>1
  <2>2. CASE ~(to.txn = 0 \/ RowsOf(seen, to.txn) # {})
    <3>1. row(to) = <<line(to)>> /\ line(to) \in AnyLine
      BY <1>2, <2>2
    <3> HIDE DEF line, row
    <3>2. row(to) \in Seq(AnyLine) /\ DOMAIN row(to) = {1} /\ row(to)[1] = line(to)
      BY <3>1
    <3> QED BY <2>2, <3>2
  <2> QED BY <2>1, <2>2
<1>5. PICK a \in Seq(AnyLine), b \in Seq(AnyLine) :
        /\ a = row(one) /\ b = row(two)
        /\ \A x \in DOMAIN a : one.txn # 0 /\ a[x] = line(one)
        /\ \A x \in DOMAIN b : two.txn # 0 /\ b[x] = line(two)
        /\ one.txn # 0 /\ RowsOf(seen, one.txn) = {} => 1 \in DOMAIN a
        /\ two.txn # 0 /\ RowsOf(seen, two.txn) = {} => 1 \in DOMAIN b
  <2> HIDE DEF line, row
  <2> QED BY <1>4
<1> HIDE DEF line, row
<1>10. /\ a \o b \in Seq(AnyLine) /\ Len(a \o b) = Len(a) + Len(b)
       /\ \A x \in 1 .. Len(a) + Len(b) :
            (a \o b)[x] = IF x <= Len(a) THEN a[x] ELSE b[x - Len(a)]
  BY <1>5, ConcatProperties
<1>11. DOMAIN (a \o b) = 1 .. Len(a) + Len(b) /\ Len(a) \in Nat /\ Len(b) \in Nat
       /\ DOMAIN a = 1 .. Len(a) /\ DOMAIN b = 1 .. Len(b)
  BY <1>5, <1>10
<1>12. \A x \in DOMAIN a : x \in DOMAIN (a \o b) /\ (a \o b)[x] = a[x]
  BY <1>10, <1>11
<1>13. \A x \in DOMAIN b : x + Len(a) \in DOMAIN (a \o b) /\ (a \o b)[x + Len(a)] = b[x]
  <2> SUFFICES ASSUME NEW x \in DOMAIN b
               PROVE  x + Len(a) \in DOMAIN (a \o b) /\ (a \o b)[x + Len(a)] = b[x]
    OBVIOUS
  <2>1. x \in 1 .. Len(b)
    BY <1>11
  <2>2. x + Len(a) \in 1 .. Len(a) + Len(b) /\ ~(x + Len(a) <= Len(a))
        /\ (x + Len(a)) - Len(a) = x
    BY <1>11, <2>1
  <2> QED BY <1>10, <1>11, <2>2
<1>14. ASSUME NEW x \in DOMAIN (a \o b)
       PROVE  \/ one.txn # 0 /\ (a \o b)[x] = line(one)
              \/ two.txn # 0 /\ (a \o b)[x] = line(two)
  <2>1. CASE x <= Len(a)
    <3>1. x \in DOMAIN a /\ (a \o b)[x] = a[x]
      BY <1>10, <1>11, <1>14, <2>1
    <3> QED BY <1>5, <3>1
  <2>2. CASE ~(x <= Len(a))
    <3>1. x - Len(a) \in DOMAIN b /\ (a \o b)[x] = b[x - Len(a)]
      BY <1>10, <1>11, <1>14, <2>2
    <3> QED BY <1>5, <3>1
  <2> QED BY <2>1, <2>2
<1>15. one.txn # 0 /\ RowsOf(seen, one.txn) = {} =>
         \E x \in DOMAIN (a \o b) : (a \o b)[x] = line(one)
  BY <1>5, <1>12
<1>16. two.txn # 0 /\ RowsOf(seen, two.txn) = {} =>
         \E x \in DOMAIN (a \o b) : (a \o b)[x] = line(two)
  <2> SUFFICES ASSUME two.txn # 0, RowsOf(seen, two.txn) = {}
               PROVE  \E x \in DOMAIN (a \o b) : (a \o b)[x] = line(two)
    OBVIOUS
  <2>1. 1 \in DOMAIN b /\ b[1] = line(two)
    BY <1>5
  <2>2. 1 + Len(a) \in DOMAIN (a \o b) /\ (a \o b)[1 + Len(a)] = line(two)
    BY <1>13, <2>1
  <2> QED BY <2>2
<1>17. created(seen, w) = a \o b
  BY <1>3, <1>5
<1>18. \A tier \in Tier : w[tier] = one \/ w[tier] = two
  BY <1>1 DEF Tier
<1>19. \A tier \in Tier : w[tier].txn # 0 /\ RowsOf(seen, w[tier].txn) = {} =>
         \E x \in DOMAIN (a \o b) : (a \o b)[x] = line(w[tier])
  BY <1>15, <1>16, <1>18
<1>20. \A x \in DOMAIN (a \o b) : \E tier \in Tier :
         /\ w[tier].txn # 0 /\ (a \o b)[x].txn = w[tier].txn
         /\ (a \o b)[x].exp = w[tier].exp
  <2> SUFFICES ASSUME NEW x \in DOMAIN (a \o b)
               PROVE  \E tier \in Tier :
                        /\ w[tier].txn # 0 /\ (a \o b)[x].txn = w[tier].txn
                        /\ (a \o b)[x].exp = w[tier].exp
    OBVIOUS
  <2>1. 1 \in Tier /\ 2 \in Tier
    BY DEF Tier
  <2> QED BY <1>1, <1>2, <1>14, <2>1
<1>21. created(seen, w) \in Seq(AnyLine)
  BY <1>10, <1>17
<1>22. \A tier \in Tier : w[tier].txn # 0 /\ RowsOf(seen, w[tier].txn) = {} =>
         \E x \in DOMAIN created(seen, w) : created(seen, w)[x] = line(w[tier])
  BY <1>17, <1>19
<1>23. \A x \in DOMAIN created(seen, w) : \E tier \in Tier :
         /\ w[tier].txn # 0 /\ created(seen, w)[x].txn = w[tier].txn
         /\ created(seen, w)[x].exp = w[tier].exp
  BY <1>17, <1>20
<1> QED BY <1>21, <1>22, <1>23 DEF line

(* What a sync makes of a line it has read: out, unless it is of a purchase *)
(* the sync chose; the first of those serves as long as the purchase grants. *)
LEMMA ReconciledRows ==
  ASSUME TypeInv, NEW w \in [Tier -> Target], NEW first
  PROVE  LET new == reconciled(access, w, first)
         IN  /\ new \in Seq(Line) /\ DOMAIN new = DOMAIN access
             /\ \A x \in DOMAIN access :
                  LET target == w[charges[access[x].txn].tier]
                  IN  /\ new[x].txn = access[x].txn
                      /\ target.txn # access[x].txn => ~new[x].active
                      /\ target.txn = access[x].txn /\ x \in first =>
                           new[x].active /\ new[x].exp = target.exp
<1> DEFINE new == reconciled(access, w, first)
<1>1. access \in Seq(Line) /\ (\A x \in DOMAIN access : access[x] \in Line)
      /\ DOMAIN access = 1 .. Len(access) /\ Len(access) \in Nat
  BY DEF TypeInv, AccessTyped
<1>2. ASSUME NEW x \in DOMAIN access
      PROVE  LET target == w[charges[access[x].txn].tier]
             IN  /\ new[x] \in Line /\ new[x].txn = access[x].txn
                 /\ target.txn # access[x].txn => ~new[x].active
                 /\ target.txn = access[x].txn /\ x \in first =>
                      new[x].active /\ new[x].exp = target.exp
  <2>1. PICK s \in Line : s = access[x]
    BY <1>1
  <2>2. charges[s.txn].tier \in Tier
    <3>1. Known(s.txn)
      BY <2>1 DEF TypeInv, AccessTyped
    <3>2. charges[s.txn] \in Priced
      BY <3>1 DEF Known, TypeInv, RowsTyped, StoreTyped
    <3> QED BY <3>2 DEF Priced
  <2>3. PICK target \in Target : target = w[charges[s.txn].tier]
    BY <2>2
  <2>4. new[x] = IF target.txn # s.txn
                 THEN [s EXCEPT !.active = s.active /\ ~s.active]
                 ELSE IF x \in first /\ (~s.active \/ s.exp # target.exp)
                 THEN [s EXCEPT !.active = TRUE, !.exp = target.exp]
                 ELSE s
    BY <2>1, <2>3 DEF reconciled
  <2>5. target.exp \in Int
    BY DEF Target
  <2>6. CASE target.txn # s.txn
    <3>1. new[x] = [s EXCEPT !.active = FALSE]
      BY <2>4, <2>6
    <3>2. new[x] \in Line /\ new[x].txn = s.txn /\ ~new[x].active
      BY <3>1 DEF Line
    <3> QED BY <2>1, <2>3, <2>6, <3>2
  <2>7. CASE target.txn = s.txn /\ x \in first /\ (~s.active \/ s.exp # target.exp)
    <3>1. new[x] = [s EXCEPT !.active = TRUE, !.exp = target.exp]
      BY <2>4, <2>7
    <3>2. new[x] \in Line /\ new[x].txn = s.txn /\ new[x].active
          /\ new[x].exp = target.exp
      BY <2>5, <3>1 DEF Line
    <3> QED BY <2>1, <2>3, <2>7, <3>2
  <2>8. CASE target.txn = s.txn /\ ~(x \in first /\ (~s.active \/ s.exp # target.exp))
    <3>1. new[x] = s
      BY <2>4, <2>8
    <3> QED BY <2>1, <2>3, <2>8, <3>1
  <2> QED BY <2>6, <2>7, <2>8
<1>3. DOMAIN new = DOMAIN access /\ new = [x \in DOMAIN access |-> new[x]]
  BY DEF reconciled
<1> HIDE DEF new
<1>4. \A x \in DOMAIN access : new[x] \in Line
  BY <1>2
<1>5. new \in Seq(Line)
  BY <1>1, <1>3, <1>4
<1> QED BY <1>2, <1>3, <1>5 DEF new

(* The elements of a concatenation are those of its parts.                 *)
LEMMA Joined ==
  ASSUME NEW S, NEW a \in Seq(S), NEW b \in Seq(S)
  PROVE  /\ a \o b \in Seq(S) /\ Len(a) \in Nat
         /\ \A x \in DOMAIN a : x \in DOMAIN (a \o b) /\ (a \o b)[x] = a[x]
         /\ \A x \in DOMAIN b : x + Len(a) \in DOMAIN (a \o b)
                                /\ (a \o b)[x + Len(a)] = b[x]
         /\ \A x \in DOMAIN (a \o b) :
              \/ x \in DOMAIN a /\ (a \o b)[x] = a[x]
              \/ x - Len(a) \in DOMAIN b /\ (a \o b)[x] = b[x - Len(a)]
<1>1. /\ a \o b \in Seq(S) /\ Len(a \o b) = Len(a) + Len(b)
      /\ \A x \in 1 .. Len(a) + Len(b) :
           (a \o b)[x] = IF x <= Len(a) THEN a[x] ELSE b[x - Len(a)]
  BY ConcatProperties
<1>2. DOMAIN (a \o b) = 1 .. Len(a) + Len(b) /\ Len(a) \in Nat /\ Len(b) \in Nat
      /\ DOMAIN a = 1 .. Len(a) /\ DOMAIN b = 1 .. Len(b)
  BY <1>1
<1>3. \A x \in DOMAIN a : x \in DOMAIN (a \o b) /\ (a \o b)[x] = a[x]
  BY <1>1, <1>2
<1>4. ASSUME NEW x \in DOMAIN b
      PROVE  x + Len(a) \in DOMAIN (a \o b) /\ (a \o b)[x + Len(a)] = b[x]
  <2>1. x \in 1 .. Len(b)
    BY <1>2
  <2>2. x + Len(a) \in 1 .. Len(a) + Len(b) /\ ~(x + Len(a) <= Len(a))
        /\ (x + Len(a)) - Len(a) = x
    BY <1>2, <2>1
  <2> QED BY <1>1, <1>2, <2>2
<1>5. ASSUME NEW x \in DOMAIN (a \o b)
      PROVE  \/ x \in DOMAIN a /\ (a \o b)[x] = a[x]
             \/ x - Len(a) \in DOMAIN b /\ (a \o b)[x] = b[x - Len(a)]
  <2>1. CASE x <= Len(a)
    BY <1>1, <1>2, <2>1
  <2>2. CASE ~(x <= Len(a))
    BY <1>1, <1>2, <2>2
  <2> QED BY <2>1, <2>2
<1> QED BY <1>1, <1>2, <1>3, <1>4, <1>5

(* A sync that read the purchases and the lines as they are makes the      *)
(* lines agree with the purchases.                                         *)
LEMMA ReadAgrees ==
  ASSUME TypeInv, NEW w \in [Tier -> Target],
         \A tier \in Tier : /\ w[tier].txn \in desired(tier)
                            /\ w[tier].txn # 0 =>
                                 w[tier].exp = entitlementExpiry(w[tier].txn),
         NEW i \in FirstOf(access, w[1].txn), NEW k \in FirstOf(access, w[2].txn)
  PROVE  Agrees(reconciled(access, w, {i, k}) \o created(access, w))
<1>1. PICK a : a = reconciled(access, w, {i, k})
  OBVIOUS
<1>2. PICK b : b = created(access, w)
  OBVIOUS
<1>3. /\ a \in Seq(Line) /\ DOMAIN a = DOMAIN access
      /\ \A x \in DOMAIN access :
           LET target == w[charges[access[x].txn].tier]
           IN  /\ a[x].txn = access[x].txn
               /\ target.txn # access[x].txn => ~a[x].active
               /\ target.txn = access[x].txn /\ x \in {i, k} =>
                    a[x].active /\ a[x].exp = target.exp
  BY <1>1, ReconciledRows
<1>4. /\ b \in Seq(AnyLine)
      /\ \A tier \in Tier : w[tier].txn # 0 /\ RowsOf(access, w[tier].txn) = {} =>
           \E x \in DOMAIN b :
             b[x] = [txn |-> w[tier].txn, active |-> TRUE, exp |-> w[tier].exp]
      /\ \A x \in DOMAIN b : \E tier \in Tier :
           /\ w[tier].txn # 0 /\ b[x].txn = w[tier].txn /\ b[x].exp = w[tier].exp
  BY ONLY <1>2, CreatedRows, w \in [Tier -> Target]
<1>5. a \in Seq(AnyLine)
  <2>1. Line \subseteq AnyLine
    BY Numbers DEF Line, Txn, AnyLine
  <2> QED BY ONLY <1>3, <2>1
<1>6. PICK acc \in Seq(AnyLine) :
        /\ acc = a \o b
        /\ \A x \in DOMAIN a : x \in DOMAIN acc /\ acc[x] = a[x]
        /\ \A x \in DOMAIN b : x + Len(a) \in DOMAIN acc /\ acc[x + Len(a)] = b[x]
        /\ \A x \in DOMAIN acc :
             \/ x \in DOMAIN a /\ acc[x] = a[x]
             \/ x - Len(a) \in DOMAIN b /\ acc[x] = b[x - Len(a)]
  <2>1. a \in Seq(AnyLine) /\ b \in Seq(AnyLine)
    BY <1>4, <1>5
  <2>2. PICK acc : acc = a \o b
    OBVIOUS
  <2>3. /\ a \o b \in Seq(AnyLine)
        /\ \A x \in DOMAIN a : x \in DOMAIN (a \o b) /\ (a \o b)[x] = a[x]
        /\ \A x \in DOMAIN b : x + Len(a) \in DOMAIN (a \o b)
                               /\ (a \o b)[x + Len(a)] = b[x]
        /\ \A x \in DOMAIN (a \o b) :
             \/ x \in DOMAIN a /\ (a \o b)[x] = a[x]
             \/ x - Len(a) \in DOMAIN b /\ (a \o b)[x] = b[x - Len(a)]
    BY ONLY <2>1, Joined
  <2> QED BY ONLY <2>2, <2>3
<1>7. ASSUME NEW tier \in Tier, w[tier].txn # 0, RowsOf(access, w[tier].txn) # {}
      PROVE  \E x \in {i, k} : x \in DOMAIN access /\ access[x].txn = w[tier].txn
  <2>1. FirstOf(access, w[tier].txn) = RowsOf(access, w[tier].txn)
    BY <1>7 DEF FirstOf
  <2>2. (tier = 1 /\ i \in FirstOf(access, w[tier].txn))
        \/ (tier = 2 /\ k \in FirstOf(access, w[tier].txn))
    BY DEF Tier
  <2> QED BY <2>1, <2>2 DEF RowsOf
<1>8. Serves(acc)
  <2> SUFFICES ASSUME NEW t \in Txn, Entitles(t), entitlementExpiry(t) > clock
               PROVE  \E x \in DOMAIN acc :
                        /\ acc[x].active /\ charges[acc[x].txn].tier = charges[t].tier
                        /\ acc[x].exp >= entitlementExpiry(t)
    BY DEF Serves
  <2>1. PICK tier \in Tier : tier = charges[t].tier
    BY Entitling
  <2>2. PICK s : s = w[tier].txn
    OBVIOUS
  <2>3. s # 0 /\ entitlementExpiry(s) >= entitlementExpiry(t)
    BY <2>1, <2>2, Chosen
  <2>4. charges[s].tier = tier /\ w[tier].exp >= entitlementExpiry(t)
    BY <2>2, <2>3, Chosen
  <2>5. CASE RowsOf(access, s) = {}
    <3>1. PICK x \in DOMAIN b :
            b[x] = [txn |-> w[tier].txn, active |-> TRUE, exp |-> w[tier].exp]
      BY <1>4, <2>2, <2>3, <2>5
    <3>2. b[x].txn = s /\ b[x].active /\ b[x].exp = w[tier].exp
      BY <2>2, <3>1
    <3>3. x + Len(a) \in DOMAIN acc /\ acc[x + Len(a)] = b[x]
      BY <1>6
    <3> QED BY <2>1, <2>4, <3>2, <3>3
  <2>6. CASE RowsOf(access, s) # {}
    <3>1. PICK x \in {i, k} : x \in DOMAIN access /\ access[x].txn = s
      BY <1>7, <2>2, <2>3, <2>6
    <3>2. a[x].txn = s /\ a[x].active /\ a[x].exp = w[tier].exp
      BY <1>3, <2>2, <2>4, <3>1
    <3>3. x \in DOMAIN acc /\ acc[x] = a[x]
      BY <1>3, <1>6, <3>1
    <3> QED BY <2>1, <2>4, <3>2, <3>3
  <2> QED BY <2>5, <2>6
<1>9. ASSUME NEW x \in DOMAIN acc, acc[x].active
       PROVE  Entitles(acc[x].txn)
  <2>1. \E tier \in Tier : w[tier].txn # 0 /\ acc[x].txn = w[tier].txn
    <3>1. CASE x - Len(a) \in DOMAIN b /\ acc[x] = b[x - Len(a)]
      BY <1>4, <3>1
    <3>2. CASE x \in DOMAIN a /\ acc[x] = a[x]
      <4>1. x \in DOMAIN access /\ Known(access[x].txn)
        BY <1>3, <3>2 DEF TypeInv, AccessTyped
      <4>2. PICK s : s = access[x].txn
        OBVIOUS
      <4>3. s \in Txn /\ charges[s] \in Priced
        BY <4>1, <4>2 DEF Known, TypeInv, RowsTyped, StoreTyped
      <4>4. PICK tier \in Tier : tier = charges[s].tier
        BY <4>3 DEF Priced
      <4>5. w[tier].txn = s /\ a[x].txn = s
        BY <1>3, <1>9, <3>2, <4>1, <4>2, <4>4
      <4> QED BY <3>2, <4>3, <4>5, Numbers
    <3> QED BY <1>6, <3>1, <3>2
  <2>2. PICK tier \in Tier : w[tier].txn # 0 /\ acc[x].txn = w[tier].txn
    BY <2>1
  <2>3. PICK s : s = w[tier].txn
    OBVIOUS
  <2> QED BY <2>2, <2>3, Chosen
<1>10. LivesOn(acc)
  BY <1>9 DEF LivesOn
<1>11. ASSUME Twinless(acc), NEW x \in DOMAIN acc, acc[x].active
      PROVE  Entitles(acc[x].txn) /\ entitlementExpiry(acc[x].txn) >= acc[x].exp
  <2>1. \E tier \in Tier : /\ w[tier].txn # 0 /\ acc[x].txn = w[tier].txn
                           /\ acc[x].exp = w[tier].exp
    <3>1. CASE x - Len(a) \in DOMAIN b /\ acc[x] = b[x - Len(a)]
      BY <1>4, <3>1
    <3>2. CASE x \in DOMAIN a /\ acc[x] = a[x]
      <4>1. x \in DOMAIN access /\ Known(access[x].txn)
        BY <1>3, <3>2 DEF TypeInv, AccessTyped
      <4>2. PICK s : s = access[x].txn
        OBVIOUS
      <4>3. s \in Txn /\ charges[s] \in Priced
        BY <4>1, <4>2 DEF Known, TypeInv, RowsTyped, StoreTyped
      <4>4. PICK tier \in Tier : tier = charges[s].tier
        BY <4>3 DEF Priced
      <4>5. w[tier].txn = s /\ a[x].txn = s
        BY <1>3, <1>11, <3>2, <4>1, <4>2, <4>4
      <4>6. w[tier].txn # 0 /\ RowsOf(access, w[tier].txn) # {}
        BY <4>1, <4>2, <4>3, <4>5, Numbers DEF RowsOf
      <4>7. PICK y \in {i, k} : y \in DOMAIN access /\ access[y].txn = s
        BY <1>7, <4>5, <4>6
      <4>8. y \in DOMAIN acc /\ acc[y] = a[y] /\ a[y].txn = s
        BY <1>3, <1>6, <4>7
      <4>9. x = y
        BY <1>11, <3>2, <4>5, <4>8 DEF Twinless
      <4>10. a[x].exp = w[tier].exp
        BY <1>3, <4>2, <4>4, <4>5, <4>7, <4>9
      <4> QED BY <3>2, <4>5, <4>6, <4>10
    <3> QED BY <1>6, <3>1, <3>2
  <2>2. PICK tier \in Tier : /\ w[tier].txn # 0 /\ acc[x].txn = w[tier].txn
                             /\ acc[x].exp = w[tier].exp
    BY <2>1
  <2>3. PICK s : s = w[tier].txn
    OBVIOUS
  <2>4. s \in Txn /\ Entitles(s)
    BY <2>2, <2>3, Chosen
  <2>5. entitlementExpiry(s) \in Int /\ acc[x].exp = entitlementExpiry(s)
    BY <2>2, <2>3, <2>4, Entitling
  <2> QED BY <2>2, <2>3, <2>4, <2>5
<1>12. Twinless(acc) => ServesOnly(acc)
  BY <1>11 DEF ServesOnly
<1> QED BY <1>1, <1>2, <1>6, <1>8, <1>12, <1>10 DEF Agrees

(* Others stay as they are while one process takes a step.                 *)
LEMMA OthersStay ==
  ASSUME TypeInv, NEW p \in Worker, Handle(p) \/ Crash(p)
  PROVE  /\ job'[p] \in Work /\ \A q \in Worker \ {p} : job'[q] = job[q]
         /\ inbox' \subseteq inbox
<1>1. PICK j \in Work : JobBecomes(p, j)
  BY HandlerSteps DEF JobStep
<1>2. job' = [job EXCEPT ![p] = j] /\ inbox' \subseteq inbox
  BY <1>1 DEF JobBecomes
<1> QED BY <1>1, <1>2 DEF TypeInv, JobsTyped

(* A message that must be followed by a sync which nobody has begun.       *)
LEMMA StillOwed ==
  ASSUME NEW m \in inbox', MustSync(m)',
         \A q \in Worker : job'[q].msg = m => job'[q].at # "apply" /\ ~Withheld(q)'
  PROVE  Synced'
<1>1. m \in Debtors'
  BY DEF Debtors, At
<1> QED BY <1>1 DEF Synced

(* A process before its sync is such a debt, unless it was withheld.       *)
LEMMA StillOwes ==
  ASSUME TypeInv', NEW p \in Worker, MustSync(job[p].msg)',
         job'[p].at \notin {"idle", "apply"}, ~Withheld(p)'
  PROVE  Synced'
<1>1. PICK m : m = job'[p].msg
  OBVIOUS
<1>2. m \in inbox' /\ m # NoMsg
  <2>1. NoMsg \notin inbox'
    BY Absent DEF TypeInv, StoreTyped
  <2> QED BY <1>1, <2>1 DEF TypeInv, JobsTyped, At
<1>3. \A q \in Worker : job'[q].msg = m => q = p
  BY <1>1, <1>2 DEF TypeInv, JobsTyped
<1>4. MustSync(m)'
  BY <1>1
<1> QED BY <1>1, <1>2, <1>3, <1>4, StillOwed

(* The handling of a charge ends with a sync that has not begun.           *)
LEMMA ChargeOwes ==
  ASSUME TypeInv', NEW p \in Worker, job'[p].msg.kind \in Charges,
         job'[p].at \notin {"idle", "apply"}
  PROVE  Synced'
<1>1. MustSync(job[p].msg)'
  BY DEF MustSync
<1>2. ~Withheld(p)'
  BY DEF Withheld, Charges, Upgrades, Offers
<1> QED BY <1>1, <1>2, StillOwes

(* The outcome of a sync is a sequence of lines of known purchases.        *)
LEMMA OutcomeTyped ==
  ASSUME TypeInv, NEW p \in Worker, NEW i, NEW k
  PROVE  /\ Outcome(job[p], i, k) \in Seq(Line)
         /\ \A x \in DOMAIN Outcome(job[p], i, k) : Known(Outcome(job[p], i, k)[x].txn)
<1>1. PICK a : a = reconciled(job[p].seen, job[p].want, {i, k})
  OBVIOUS
<1>2. PICK b : b = created(job[p].seen, job[p].want)
  OBVIOUS
<1>3. a \in Seq(Line) /\ \A x \in DOMAIN a : Known(a[x].txn)
  <2>1. a \in Seq(Line) /\ DOMAIN a = DOMAIN access
        /\ \A x \in DOMAIN access : a[x].txn = access[x].txn
    BY <1>1, ReconciledTyped
  <2> QED BY <2>1 DEF TypeInv, AccessTyped
<1>4. b \in Seq(Line) /\ \A x \in DOMAIN b : Known(b[x].txn)
  BY <1>2, CreatedTyped
<1>5. /\ a \o b \in Seq(Line)
      /\ \A x \in DOMAIN (a \o b) :
           \/ x \in DOMAIN a /\ (a \o b)[x] = a[x]
           \/ x - Len(a) \in DOMAIN b /\ (a \o b)[x] = b[x - Len(a)]
  <2>1. a \in Seq(Line) /\ b \in Seq(Line)
    BY <1>3, <1>4
  <2> QED BY ONLY <2>1, Joined
<1>6. \A x \in DOMAIN (a \o b) : Known((a \o b)[x].txn)
  BY <1>3, <1>4, <1>5
<1>7. Outcome(job[p], i, k) = a \o b
  BY <1>1, <1>2 DEF Outcome
<1> QED BY <1>5, <1>6, <1>7

(* While nobody writes lines or rows, a sync will agree as it would have.  *)
LEMMA WillAgreeLater ==
  ASSUME TypeInv, StoreGrows, rows' = rows, access' = access, clock' \in Int,
         clock' >= clock, NEW p \in Worker, WillAgree(job[p]), NEW j, j = job[p]
  PROVE  WillAgree(j)'
<1>1. \A x \in DOMAIN j.seen : charges'[j.seen[x].txn] = charges[j.seen[x].txn]
  BY DEF TypeInv, AccessTyped, Known, RowsTyped, StoreGrows
<1>2. \A i, k : Outcome(j, i, k)' = Outcome(j, i, k)
  <2> SUFFICES ASSUME NEW i, NEW k PROVE Outcome(j, i, k)' = Outcome(j, i, k)
    OBVIOUS
  <2>1. reconciled(j.seen, j.want, {i, k})' = reconciled(j.seen, j.want, {i, k})
    <3> DEFINE was == reconciled(j.seen, j.want, {i, k})
               is == reconciled(j.seen, j.want, {i, k})'
    <3>1. PICK acc : acc = access /\ acc = access'
      OBVIOUS
    <3>2. was = [x \in DOMAIN acc |-> was[x]]
      BY <3>1 DEF reconciled
    <3>3. is = [x \in DOMAIN acc |-> is[x]]
      BY <3>1 DEF reconciled
    <3>4. ASSUME NEW x \in DOMAIN acc
          PROVE  was[x] = is[x]
      <4>1. CASE x \notin DOMAIN j.seen
        BY <3>1, <4>1 DEF reconciled
      <4>2. CASE x \in DOMAIN j.seen
        <5>1. PICK line, target :
                /\ line = j.seen[x] /\ target = j.want[charges[line.txn].tier]
                /\ target = j.want[charges'[line.txn].tier]
          BY <1>1, <4>2
        <5>2. was[x] = IF target.txn # line.txn
                       THEN [acc[x] EXCEPT !.active = acc[x].active /\ ~line.active]
                       ELSE IF x \in {i, k} /\ (~line.active \/ line.exp # target.exp)
                       THEN [acc[x] EXCEPT !.active = TRUE, !.exp = target.exp]
                       ELSE acc[x]
          BY <3>1, <4>2, <5>1 DEF reconciled
        <5>3. is[x] = IF target.txn # line.txn
                      THEN [acc[x] EXCEPT !.active = acc[x].active /\ ~line.active]
                      ELSE IF x \in {i, k} /\ (~line.active \/ line.exp # target.exp)
                      THEN [acc[x] EXCEPT !.active = TRUE, !.exp = target.exp]
                      ELSE acc[x]
          BY <3>1, <4>2, <5>1 DEF reconciled
        <5> QED BY <5>2, <5>3
      <4> QED BY <4>1, <4>2
    <3> HIDE DEF was, is
    <3>5. was = is
      BY <3>2, <3>3, <3>4
    <3> QED BY <3>5 DEF was, is
  <2>2. created(j.seen, j.want)' = created(j.seen, j.want)
    BY DEF created, RowsOf
  <2> QED BY <2>1, <2>2 DEF Outcome
<1>3. ASSUME NEW i \in FirstOf(j.seen, j.want[1].txn),
             NEW k \in FirstOf(j.seen, j.want[2].txn)
      PROVE  Agrees(Outcome(j, i, k))'
  <2>1. PICK acc : acc = Outcome(j, i, k)
    OBVIOUS
  <2>2. acc \in Seq(Line) /\ (\A x \in DOMAIN acc : Known(acc[x].txn))
    BY <2>1, OutcomeTyped
  <2>3. Agrees(acc)
    BY <1>3, <2>1 DEF WillAgree
  <2>4. Agrees(acc)'
    BY <2>2, <2>3, AgreesLater
  <2>5. acc = Outcome(j, i, k)'
    BY <1>2, <2>1
  <2> QED BY <2>4, <2>5
<1> QED BY <1>3 DEF WillAgree

(* A step that writes neither rows nor lines, lets no debtor go and begins *)
(* and breaks off no sync that mattered.                                   *)
LEMMA Undisturbed ==
  ASSUME TypeInv, Synced, StoreGrows, rows' = rows, latest' = latest,
         access' = access, clock' \in Int, clock' >= clock, ~unsynced' => ~unsynced,
         \A m \in Debtors : /\ m \in inbox'
                            /\ \A q \in Worker : job'[q].msg = m =>
                                 job'[q].at # "apply" /\ ~Withheld(q)',
         \A q \in Worker : job'[q].at = "apply" => job'[q] = job[q],
         \A q \in Worker : At(q, "apply") /\ MustSync(job[q].msg) => job'[q] = job[q]
  PROVE  Synced'
<1>1. AllTerminal' = AllTerminal /\ \A m : MustSync(m)' = MustSync(m)
  BY DEF AllTerminal, MustSync, Known
<1> SUFFICES ASSUME Debtors' = {}, ~unsynced' \/ AllTerminal'
             PROVE  /\ \A q \in Worker : At(q, "apply")' => WillAgree(job[q])'
                    /\ Agrees(access)'
                       \/ \E q \in Worker : At(q, "apply")' /\ MustSync(job[q].msg)'
  BY DEF Synced
<1>2. Debtors = {}
  <2> SUFFICES ASSUME NEW m \in Debtors PROVE m \in Debtors'
    OBVIOUS
  <2>1. MustSync(m)'
    BY <1>1 DEF Debtors
  <2> QED BY <2>1 DEF Debtors, At
<1>3. /\ \A q \in Worker : At(q, "apply") => WillAgree(job[q])
      /\ Agrees(access) \/ \E q \in Worker : At(q, "apply") /\ MustSync(job[q].msg)
  BY <1>1, <1>2 DEF Synced
<1>4. ASSUME NEW q \in Worker, job'[q].at = "apply"
      PROVE  WillAgree(job[q])'
  <2>1. PICK j : j = job[q]
    OBVIOUS
  <2>2. job'[q] = j /\ WillAgree(job[q])
    BY <1>3, <1>4, <2>1 DEF At
  <2>3. WillAgree(j)'
    BY <2>1, <2>2, WillAgreeLater
  <2> QED BY <2>2, <2>3
<1>5. CASE Agrees(access)
  <2>1. PICK acc : acc = access
    OBVIOUS
  <2>2. Agrees(acc)'
    BY <1>5, <2>1, AgreesLater DEF TypeInv, AccessTyped
  <2>3. Agrees(access)'
    BY <2>1, <2>2
  <2> QED BY <1>4, <2>3 DEF At
<1>6. CASE \E q \in Worker : At(q, "apply") /\ MustSync(job[q].msg)
  <2>1. PICK q \in Worker : At(q, "apply") /\ MustSync(job[q].msg)
    BY <1>6
  <2>2. job'[q] = job[q]
    BY <2>1
  <2>3. At(q, "apply")' /\ MustSync(job[q].msg)'
    BY <1>1, <2>1, <2>2 DEF At
  <2> QED BY <1>4, <2>3 DEF At
<1> QED BY <1>3, <1>5, <1>6

(* A process that goes on keeps the rest of what it has in hand.           *)
LEMMA Goes ==
  ASSUME TypeInv, NEW p \in Worker, NEW where, Go(p, where)
  PROVE  job'[p].at = where /\ job'[p].msg = job[p].msg /\ job'[p].label = job[p].label
<1>1. job[p] \in Work /\ job' = [job EXCEPT ![p].at = where] /\ p \in DOMAIN job
  BY DEF TypeInv, JobsTyped, Go
<1>2. job'[p] = [job[p] EXCEPT !.at = where]
  BY <1>1
<1> QED BY <1>1, <1>2 DEF Work

(* A process that takes a message has that message in hand.                *)
LEMMA Begins ==
  ASSUME TypeInv, NEW p \in Worker, NEW m, NEW where, Begin(p, m, where)
  PROVE  job'[p].at = where /\ job'[p].msg = m /\ inbox' = inbox
<1>1. job' = [job EXCEPT ![p] = [Idle EXCEPT !.at = where, !.msg = m,
                                             !.label = offerLabel(m)]]
      /\ inbox' = inbox /\ p \in DOMAIN job
  BY DEF TypeInv, JobsTyped, Begin
<1>2. job'[p] = [Idle EXCEPT !.at = where, !.msg = m, !.label = offerLabel(m)]
  BY <1>1
<1> QED BY <1>1, <1>2 DEF Idle

(* The steps on the way of a charge before its last sync.                  *)
ChargeStep(p) ==
    \/ \E m \in inbox : upsertPurchase(p, m) \/ GuardFirst(p, m)
    \/ insertPurchase(p) \/ FindSiblings(p) \/ expireSuperseded(p)
    \/ FindAccess(p) \/ createAccess(p)
    \/ At(p, "resync") /\ SyncRead(p)
    \/ At(p, "reapply") /\ SyncApply(p)

(* They stay on that way.                                                  *)
LEMMA ChargeGoesOn ==
  ASSUME TypeInv, KindInv, NEW p \in Worker, ChargeStep(p)
  PROVE  /\ job'[p].msg.kind \in Charges /\ job'[p].at \notin {"idle", "apply", "revoke"}
         /\ job'[p].at \in Replacing => job'[p].msg.kind \in Upgrades
<1> DEFINE Goal == /\ job'[p].msg.kind \in Charges
                   /\ job'[p].at \notin {"idle", "apply", "revoke"}
                   /\ job'[p].at \in Replacing => job'[p].msg.kind \in Upgrades
<1>0. KindOf(job[p]) /\ job[p] \in Work /\ p \in DOMAIN job
  BY DEF KindInv, TypeInv, JobsTyped
<1>10. \A m, applied : AfterUpsert(m, applied) \in Replacing => m.kind \in Upgrades
  BY DEF AfterUpsert, Replacing
<1>1. ASSUME NEW m \in inbox, upsertPurchase(p, m) PROVE Goal
  <2>1. m.kind \in Charges
    BY <1>1 DEF upsertPurchase
  <2>2. PICK applied : Begin(p, m, AfterUpsert(m, applied))
    BY <1>1 DEF upsertPurchase
  <2>3. job'[p].at = AfterUpsert(m, applied) /\ job'[p].msg = m
    BY <2>2, Begins
  <2> QED BY <1>10, <2>1, <2>3, AfterUpsertPlaces
<1>2. ASSUME NEW m \in inbox, GuardFirst(p, m) PROVE Goal
  <2>1. m.kind \in Charges /\ Begin(p, m, "insert")
    BY <1>2 DEF GuardFirst
  <2>2. job'[p].at = "insert" /\ job'[p].msg = m
    BY <2>1, Begins
  <2> QED BY <2>1, <2>2 DEF Replacing
<1>3. CASE insertPurchase(p)
  <2>1. At(p, "insert") /\ Go(p, AfterUpsert(job[p].msg, TRUE))
    BY <1>3 DEF insertPurchase
  <2>2. job'[p].at = AfterUpsert(job[p].msg, TRUE) /\ job'[p].msg = job[p].msg
    BY <2>1, Goes
  <2>3. job[p].msg.kind \in Charges
    BY <1>0, <2>1 DEF KindOf, At
  <2>4. job'[p].at \in Replacing => job'[p].msg.kind \in Upgrades
    BY <1>10, <2>2
  <2> QED BY <2>2, <2>3, <2>4, AfterUpsertPlaces
<1>4. CASE FindSiblings(p)
  <2>1. PICK found : /\ At(p, "siblings")
                     /\ job' = [job EXCEPT ![p].todo = found,
                          ![p].at = IF found = {} THEN "find" ELSE "supersede"]
    BY <1>4 DEF FindSiblings
  <2>2. PICK where \in {"find", "supersede"} :
          where = IF found = {} THEN "find" ELSE "supersede"
    OBVIOUS
  <2>3. job'[p] = [job[p] EXCEPT !.todo = found, !.at = where]
    BY <1>0, <2>1, <2>2
  <2>4. job'[p].at = where /\ job'[p].msg = job[p].msg
    BY <1>0, <2>3 DEF Work
  <2> QED BY <1>0, <2>1, <2>4 DEF KindOf, At, Replacing
<1>5. CASE expireSuperseded(p)
  <2>1. PICK left : /\ At(p, "supersede")
                    /\ job' = [job EXCEPT ![p].at = "resync", ![p].todo = left]
    BY <1>5 DEF expireSuperseded
  <2>3. job'[p] = [job[p] EXCEPT !.at = "resync", !.todo = left]
    BY <1>0, <2>1
  <2>4. job'[p].at = "resync" /\ job'[p].msg = job[p].msg
    BY <1>0, <2>3 DEF Work
  <2> QED BY <1>0, <2>1, <2>4 DEF KindOf, At, Replacing
<1>6. CASE FindAccess(p)
  <2>1. At(p, "find") /\ (Go(p, "create") \/ Go(p, "revenue"))
    BY <1>6 DEF FindAccess
  <2>2. job'[p].at \in {"create", "revenue"} /\ job'[p].msg = job[p].msg
    BY <2>1, Goes
  <2> QED BY <1>0, <2>1, <2>2 DEF KindOf, At, Replacing
<1>7. CASE createAccess(p)
  <2>1. At(p, "create") /\ Go(p, "revenue")
    BY <1>7 DEF createAccess
  <2>2. job'[p].at = "revenue" /\ job'[p].msg = job[p].msg
    BY <2>1, Goes
  <2> QED BY <1>0, <2>1, <2>2 DEF KindOf, At, Replacing
<1>8. CASE At(p, "resync") /\ SyncRead(p)
  <2>1. PICK w : job' = [job EXCEPT ![p].want = w, ![p].seen = access,
                                    ![p].at = IF At(p, "sync") THEN "apply" ELSE "reapply"]
    BY <1>8 DEF SyncRead, readAccess
  <2>2. job'[p] = [job[p] EXCEPT !.want = w, !.seen = access, !.at = "reapply"]
    BY <1>0, <1>8, <2>1 DEF At
  <2>3. job'[p].at = "reapply" /\ job'[p].msg = job[p].msg
    BY <1>0, <2>2 DEF Work
  <2> QED BY <1>0, <1>8, <2>3 DEF KindOf, At, Replacing
<1>9. CASE At(p, "reapply") /\ SyncApply(p)
  <2>1. job' = [job EXCEPT ![p].at = IF job[p].todo = {} THEN "find" ELSE "supersede",
                           ![p].want = Nothing, ![p].seen = <<>>]
    BY <1>9 DEF SyncApply, At
  <2>2. PICK where \in {"find", "supersede"} :
          where = IF job[p].todo = {} THEN "find" ELSE "supersede"
    OBVIOUS
  <2>3. job'[p] = [job[p] EXCEPT !.at = where, !.want = Nothing, !.seen = <<>>]
    BY <1>0, <2>1, <2>2
  <2>4. job'[p].at = where /\ job'[p].msg = job[p].msg
    BY <1>0, <2>3 DEF Work
  <2> QED BY <1>0, <1>9, <2>4 DEF KindOf, At, Replacing
<1> QED BY <1>1, <1>2, <1>3, <1>4, <1>5, <1>6, <1>7, <1>8, <1>9 DEF ChargeStep

(* What is in the others' hands stays as it is; rows only come.            *)
LEMMA KindStep ==
  ASSUME TypeInv, TypeInv', KindInv, NEW p \in Worker, Handle(p) \/ Crash(p),
         KindOf(job[p])'
  PROVE  KindInv'
<1>1. \A t : Known(t) => Known(t)'
  BY HandlerKnown
<1>2. latest # 0 => latest' # 0
  <2> SUFFICES ASSUME latest # 0 PROVE latest' # 0
    OBVIOUS
  <2>1. PICK t \in Txn : Known(t)
    BY DEF TypeInv, RowsTyped, Known
  <2>2. Known(t)'
    BY <1>1, <2>1
  <2> QED BY <2>2 DEF TypeInv, RowsTyped, Known
<1>3. ASSUME NEW q \in Worker \ {p}
      PROVE  KindOf(job[q])'
  <2>1. PICK j : j = job[q]
    OBVIOUS
  <2>2. KindOf(j) /\ job'[q] = j
    BY <2>1, OthersStay DEF KindInv
  <2>3. KindOf(j)'
    BY <1>1, <1>2, <2>2 DEF KindOf, Replacing
  <2> QED BY <2>2, <2>3
<1> QED BY <1>3 DEF KindInv

(* A charge on its way keeps both.                                         *)
LEMMA ChargeSync ==
  ASSUME TypeInv, TypeInv', KindInv, NEW p \in Worker, ChargeStep(p)
  PROVE  KindOf(job[p])' /\ Synced'
<1>1. /\ job'[p].msg.kind \in Charges /\ job'[p].at \notin {"idle", "apply", "revoke"}
      /\ job'[p].at \in Replacing => job'[p].msg.kind \in Upgrades
  BY ChargeGoesOn
<1>2. KindOf(job[p])'
  BY <1>1 DEF KindOf, Replacing, Charges, Upgrades, Offers, Failures
<1>3. Synced'
  BY <1>1, ChargeOwes
<1> QED BY <1>2, <1>3

(* A step of p that writes neither rows nor lines.                         *)
LEMMA QuietStep ==
  ASSUME TypeInv, Synced, NEW p \in Worker, Handle(p) \/ Crash(p),
         rows' = rows, latest' = latest, access' = access, ~unsynced' => ~unsynced,
         \A m \in Debtors : /\ m \in inbox'
                            /\ job'[p].msg = m => ~Withheld(p)',
         job'[p].at # "apply", At(p, "apply") => ~MustSync(job[p].msg)
  PROVE  Synced'
<1>1. StoreGrows /\ clock' \in Int /\ clock' >= clock
  <2>1. UNCHANGED storeVars
    BY HandlerKnown
  <2> QED BY <2>1 DEF storeVars, StoreGrows, TypeInv, StoreTyped
<1>2. \A q \in Worker \ {p} : job'[q] = job[q]
  BY OthersStay
<1>3. \A m \in Debtors : /\ m \in inbox'
                         /\ \A q \in Worker : job'[q].msg = m =>
                              job'[q].at # "apply" /\ ~Withheld(q)'
  <2> SUFFICES ASSUME NEW m \in Debtors, NEW q \in Worker, job'[q].msg = m
               PROVE  job'[q].at # "apply" /\ ~Withheld(q)'
    OBVIOUS
  <2>1. CASE q = p
    BY <2>1
  <2>2. CASE q # p
    <3>1. job'[q] = job[q]
      BY <1>2, <2>2
    <3>2. ~At(q, "apply") /\ ~Withheld(q)
      BY <3>1 DEF Debtors
    <3> QED BY <3>1, <3>2 DEF At, Withheld
  <2> QED BY <2>1, <2>2
<1>4. \A q \in Worker : job'[q].at = "apply" => job'[q] = job[q]
  BY <1>2
<1>5. \A q \in Worker : At(q, "apply") /\ MustSync(job[q].msg) => job'[q] = job[q]
  BY <1>2
<1> QED BY <1>1, <1>3, <1>4, <1>5, Undisturbed

(* What an idle process has in hand is nothing.                            *)
LEMMA TakerIdle ==
  ASSUME TypeInv, NEW p \in Worker, NEW m, Takes(p, m)
  PROVE  /\ job[p].at = "idle" /\ job[p].msg = NoMsg /\ NoMsg \notin inbox
         /\ m \in inbox
  BY AtWork DEF Takes, At

(* A message dropped unread that needed no sync.                           *)
LEMMA IgnoreSync ==
  ASSUME TypeInv, KindInv, Synced, NEW p \in Worker, Handle(p), NEW m, Takes(p, m),
         Ignore(m), ~MustSync(m), rows' = rows, latest' = latest, access' = access,
         ~unsynced' => ~unsynced
  PROVE  KindOf(job[p])' /\ Synced'
<1>1. job' = job /\ inbox' = inbox \ {m}
  BY DEF Ignore
<1>2. job'[p].at = "idle" /\ job'[p].msg = NoMsg
  BY <1>1, TakerIdle
<1>3. \A d \in Debtors : d \in inbox' /\ (job'[p].msg = d => ~Withheld(p)')
  BY <1>1, <1>2, TakerIdle DEF Debtors, Withheld, At
<1>4. Synced'
  BY <1>2, <1>3, QuietStep, TakerIdle DEF At
<1>5. KindOf(job[p])'
  BY <1>2 DEF KindOf, Replacing
<1> QED BY <1>4, <1>5

(* A refund of a recorded purchase, and its reversal, must be synced.      *)
LEMMA RefundSync ==
  ASSUME TypeInv, TypeInv', KindInv, Synced, NEW p \in Worker, NEW m \in inbox,
         applyRefund(p, m) \/ applyRefundReversed(p, m)
  PROVE  KindOf(job[p])' /\ Synced'
<1>0. Handle(p) /\ (\A t : Known(t) => Known(t)') /\ Takes(p, m)
  BY HandlerKnown DEF Handle, applyRefund, applyRefundReversed
<1>1. /\ m.kind \in {"REFUND", "REVERSED"} /\ m.txn \in Txn
      /\ \/ rows[m.txn] = NoRow /\ Ignore(m)
         \/ rows[m.txn] # NoRow
              /\ Begin(p, m, IF m.kind = "REFUND" THEN "revoke" ELSE "revenue")
      /\ rows[m.txn] = NoRow => rows' = rows
      /\ latest' = latest /\ access' = access /\ unsynced' = unsynced
  <2>1. m.txn \in Txn
    BY Carried DEF TypeInv
  <2>2. CASE applyRefund(p, m)
    BY <2>1, <2>2 DEF applyRefund, Given
  <2>3. CASE applyRefundReversed(p, m)
    BY <2>1, <2>3 DEF applyRefundReversed, Given
  <2> QED BY <2>2, <2>3
<1>2. CASE rows[m.txn] = NoRow
  <2>1. ~MustSync(m)
    BY <1>1, <1>2 DEF MustSync, Known, Charges, Upgrades, Offers
  <2>2. Ignore(m) /\ rows' = rows
    BY <1>1, <1>2
  <2> QED BY <1>0, <1>1, <2>1, <2>2, IgnoreSync
<1>3. CASE rows[m.txn] # NoRow
  <2>1. Known(m.txn) /\ Known(m.txn)'
    BY <1>0, <1>1, <1>3 DEF Known
  <2>2. Begin(p, m, IF m.kind = "REFUND" THEN "revoke" ELSE "revenue")
    BY <1>1, <1>3
  <2>3. job'[p].msg = m /\ job'[p].at = IF m.kind = "REFUND" THEN "revoke" ELSE "revenue"
    BY <2>2, Begins
  <2>4. KindOf(job[p])'
    BY <1>1, <2>1, <2>3 DEF KindOf, Replacing, Charges, Upgrades, Offers, Failures
  <2>5. MustSync(job[p].msg)'
    BY <1>1, <2>1, <2>3 DEF MustSync
  <2>6. ~Withheld(p)' /\ job'[p].at \notin {"idle", "apply"}
    BY <1>1, <2>3 DEF Withheld
  <2> QED BY <2>4, <2>5, <2>6, StillOwes
<1> QED BY <1>2, <1>3

(* A failed renewal that moves a row is not synced, and says so.           *)
LEMMA FailedSync ==
  ASSUME TypeInv, TypeInv', KindInv, Synced, NEW p \in Worker, NEW m \in inbox,
         applyFailedRenewal(p, m)
  PROVE  KindOf(job[p])' /\ Synced'
<1>0. Handle(p)
  BY DEF Handle
<1>1. /\ Takes(p, m) /\ m.kind \in Failures /\ Ignore(m)
      /\ unsynced' = (unsynced \/ rows' # rows)
      /\ latest' = latest /\ access' = access
  BY DEF applyFailedRenewal
<1>2. CASE rows' = rows
  <2>1. ~MustSync(m)
    BY <1>1 DEF MustSync, Failures, Charges, Upgrades, Offers
  <2> QED BY <1>0, <1>1, <1>2, <2>1, IgnoreSync
<1>3. CASE rows' # rows
  <2>1. unsynced'
    BY <1>1, <1>3
  <2>2. PICK t \in Txn : rows'[t] # rows[t]
    <3>1. rows \in Table /\ rows' \in Table
      BY DEF TypeInv, RowsTyped, Table
    <3> QED BY <1>3, <3>1 DEF Table
  <2>3. PICK status, grace :
          /\ status \in {"BILLING_ISSUE", "GRACE_PERIOD"}
          /\ rows' = updateChainStatusGuarded(status, grace)
    BY DEF applyFailedRenewal
  <2>4. rows[t] # NoRow
        /\ rows'[t] = [rows[t] EXCEPT !.status = status, !.grace = grace[t]]
    BY <2>2, <2>3 DEF updateChainStatusGuarded
  <2>5. rows[t] \in Kept
    BY <2>4 DEF TypeInv, RowsTyped
  <2>6. rows'[t].status = status
    BY <2>4, <2>5 DEF Kept
  <2>7. Known(t)'
    <3>1. \A u : Known(u) => Known(u)'
      BY <1>0, HandlerKnown
    <3> QED BY <2>4, <3>1 DEF Known
  <2>8. ~AllTerminal'
    BY <2>3, <2>6, <2>7 DEF AllTerminal, Terminal
  <2>9. Synced'
    BY <2>1, <2>8 DEF Synced
  <2>10. job'[p].at = "idle"
    BY <1>1, TakerIdle DEF Ignore
  <2>11. KindOf(job[p])'
    BY <2>10 DEF KindOf, Replacing
  <2> QED BY <2>9, <2>11
<1> QED BY <1>2, <1>3

(* The end of a chain: a revocation must be synced if any row is known, an *)
(* expiry if it moved one.                                                 *)
LEMMA ChainEndSync ==
  ASSUME TypeInv, TypeInv', KindInv, Synced, NEW p \in Worker, NEW m \in inbox,
         ChainEnd(p, m)
  PROVE  KindOf(job[p])' /\ Synced'
<1>0. Handle(p) /\ Takes(p, m)
  BY DEF Handle, ChainEnd
<1>1. PICK status, grace, label :
        /\ status = IF m.kind = "REVOKE" THEN "REVOKED" ELSE "EXPIRED"
        /\ label = IF \E t \in Txn : rows[t] # NoRow /\ rows[t].status \notin Terminal
                   THEN "NONE" ELSE "withheld"
        /\ rows' = updateChainStatusGuarded(status, grace)
        /\ job' = [job EXCEPT ![p] = [Idle EXCEPT !.at = "revoke", !.msg = m,
                                    !.label = label]]
        /\ m.kind \in {"EXPIRED", "REVOKE"}
        /\ inbox' = inbox /\ latest' = latest /\ access' = access /\ unsynced' = unsynced
  BY DEF ChainEnd
<1>2. job'[p].at = "revoke" /\ job'[p].msg = m /\ job'[p].label = label
  BY <1>1 DEF Idle, TypeInv, JobsTyped
<1>3. KindOf(job[p])'
  BY <1>1, <1>2 DEF KindOf, Replacing, Charges, Upgrades, Offers, Failures
<1>4. label = "withheld" <=> AllTerminal
  BY <1>1 DEF AllTerminal, Known
<1>5. CASE MustSync(m)' /\ ~Withheld(p)'
  BY <1>2, <1>3, <1>5, StillOwes
<1>6. CASE m.kind = "REVOKE" /\ latest # 0
  <2>1. MustSync(m)' /\ ~Withheld(p)'
    BY <1>1, <1>2, <1>6 DEF MustSync, Withheld
  <2> QED BY <1>5, <2>1
<1>7. CASE m.kind = "EXPIRED" /\ ~AllTerminal
  <2>1. PICK t : Known(t) /\ rows[t].status \notin Terminal
    BY <1>7 DEF AllTerminal
  <2>2. t \in Txn /\ rows[t] # NoRow /\ rows[t] \in Kept
    BY <2>1 DEF Known, TypeInv, RowsTyped
  <2>3. rows'[t] = [rows[t] EXCEPT !.status = "EXPIRED", !.grace = grace[t]]
    BY <1>1, <1>7, <2>1, <2>2 DEF updateChainStatusGuarded
  <2>4. rows'[t].status = "EXPIRED"
    BY <2>2, <2>3 DEF Kept
  <2>5. Known(t)'
    BY <1>0, <2>1, HandlerKnown
  <2>6. ~AllTerminal'
    BY <2>2, <2>4, <2>5 DEF AllTerminal, Terminal
  <2>7. MustSync(m)' /\ ~Withheld(p)'
    BY <1>1, <1>2, <1>4, <1>7, <2>6 DEF MustSync, Withheld
  <2> QED BY <1>5, <2>7
<1>8. CASE (m.kind = "REVOKE" /\ latest = 0) \/ (m.kind = "EXPIRED" /\ AllTerminal)
  <2>1. AllTerminal
    BY <1>8 DEF AllTerminal, Known, TypeInv, RowsTyped
  <2>2. ~MustSync(m)
    BY <1>1, <1>8 DEF MustSync, Charges, Upgrades, Offers
  <2>3. rows' = rows
    <3>1. \A t \in Txn : rows[t] = NoRow \/ rows[t].status \in Terminal
      BY <2>1 DEF AllTerminal, Known
    <3>2. rows' = [t \in Txn |-> rows[t]]
      BY <1>1, <3>1 DEF updateChainStatusGuarded
    <3> QED BY <3>2 DEF TypeInv, RowsTyped
  <2>4. \A d \in Debtors : d \in inbox' /\ (job'[p].msg = d => ~Withheld(p)')
    BY <1>1, <1>2, <2>2 DEF Debtors
  <2>5. ~At(p, "apply")
    BY <1>0, TakerIdle DEF At
  <2>6. Synced'
    BY <1>0, <1>1, <1>2, <2>3, <2>4, <2>5, QuietStep
  <2> QED BY <1>3, <2>6
<1> QED BY <1>1, <1>6, <1>7, <1>8

(* The revenue row comes before the sync and changes nothing of it.        *)
LEMMA EmitSync ==
  ASSUME TypeInv, TypeInv', KindInv, Synced, NEW p \in Worker, emitRevenueEvent(p)
  PROVE  KindOf(job[p])' /\ Synced'
<1>0. Handle(p) /\ (\A t : Known(t) => Known(t)') /\ KindOf(job[p]) /\ job[p] \in Work
  BY HandlerKnown, AtWork DEF Handle, KindInv
<1>1. /\ At(p, "revenue")
      /\ job' = [job EXCEPT ![p].at = "sync", ![p].label = "NONE"]
      /\ inbox' = inbox /\ rows' = rows /\ latest' = latest /\ access' = access
      /\ unsynced' = unsynced
  BY DEF emitRevenueEvent, history
<1>2. job'[p] = [job[p] EXCEPT !.at = "sync", !.label = "NONE"]
  BY <1>1 DEF TypeInv, JobsTyped
<1>3. job'[p].at = "sync" /\ job'[p].msg = job[p].msg
  BY <1>0, <1>2 DEF Work
<1>4. KindOf(job[p])'
  <2>1. PICK m : m = job[p].msg
    OBVIOUS
  <2>2. /\ m.kind # "REVOKE" /\ m.kind \notin Failures
        /\ m.kind \in {"REFUND", "REVERSED"} => Known(m.txn)
    BY <1>0, <1>1, <2>1 DEF KindOf, Replacing, At
  <2>3. m.kind \in {"REFUND", "REVERSED"} => Known(m.txn)'
    BY <1>0, <2>2
  <2> QED BY <1>3, <2>1, <2>2, <2>3 DEF KindOf, Replacing
<1>5. \A d \in Debtors : d \in inbox' /\ (job'[p].msg = d => ~Withheld(p)')
  BY <1>1, <1>3 DEF Debtors, Withheld, At
<1>6. Synced'
  BY <1>0, <1>1, <1>3, <1>5, QuietStep DEF At
<1> QED BY <1>4, <1>6

(* Lines that went out, and no other change.                               *)
Dims(new, old) ==
    /\ DOMAIN new = DOMAIN old
    /\ \A x \in DOMAIN old : /\ new[x].txn = old[x].txn /\ new[x].exp = old[x].exp
                             /\ new[x].active => old[x].active

(* Where no row entitles, putting lines out disturbs no agreement.         *)
LEMMA Dimmed ==
  ASSUME TypeInv, AllTerminal, NEW new, NEW old, Dims(new, old), Agrees(old)
  PROVE  Agrees(new)
<1>1. Serves(new)
  BY Entitling DEF Serves, AllTerminal
<1>2. Twinless(new) => Twinless(old)
  BY DEF Twinless, Dims
<1>3. ServesOnly(old) => ServesOnly(new)
  BY DEF ServesOnly, Dims
<1>4. LivesOn(old) => LivesOn(new)
  BY DEF LivesOn, Dims
<1> QED BY <1>1, <1>2, <1>3, <1>4 DEF Agrees

(* Lines put out before a sync writes are out, or on, after it.            *)
LEMMA DimmedOutcome ==
  ASSUME TypeInv, TypeInv', Dims(access', access), UNCHANGED charges,
         NEW p \in Worker, NEW j, j = job[p], j = job'[p], NEW i, NEW k
  PROVE  Dims(Outcome(j, i, k)', Outcome(j, i, k))
<1>1. PICK old : old = reconciled(j.seen, j.want, {i, k})
  OBVIOUS
<1>2. PICK new : new = reconciled(j.seen, j.want, {i, k})'
  OBVIOUS
<1>3. PICK b : b = created(j.seen, j.want) /\ b = created(j.seen, j.want)'
  BY DEF created, RowsOf
<1>4. old \in Seq(Line) /\ DOMAIN old = DOMAIN access
  BY <1>1, ReconciledTyped
<1>5. /\ access' \in Seq(Line) /\ DOMAIN new = DOMAIN access'
      /\ new = [x \in DOMAIN access' |-> new[x]]
  BY <1>2 DEF reconciled, TypeInv, AccessTyped
<1>6. b \in Seq(Line)
  BY <1>3, CreatedTyped
<1>7. Dims(new, old) /\ new \in Seq(Line)
  <2>1. DOMAIN new = DOMAIN old
    BY <1>4, <1>5 DEF Dims
  <2>2. ASSUME NEW x \in DOMAIN old
        PROVE  /\ new[x].txn = old[x].txn /\ new[x].exp = old[x].exp
               /\ new[x].active => old[x].active
               /\ new[x] \in Line
    <3>0. x \in DOMAIN access' /\ old[x] \in Line
      BY <1>4, <2>2 DEF Dims
    <3>1. PICK r \in Line : r = access[x]
      BY <1>4, <2>2 DEF TypeInv, AccessTyped
    <3>2. PICK r2 \in Line : r2 = access'[x]
      BY <1>5, <3>0
    <3>3. r2.txn = r.txn /\ r2.exp = r.exp /\ (r2.active => r.active)
      BY <1>4, <2>2, <3>1, <3>2 DEF Dims
    <3>4. CASE x \notin DOMAIN j.seen
      <4>1. old[x] = r /\ new[x] = r2
        BY <1>1, <1>2, <1>4, <1>5, <2>1, <2>2, <3>1, <3>2, <3>4 DEF reconciled
      <4> QED BY <3>3, <4>1
    <3>5. CASE x \in DOMAIN j.seen
      <4>1. PICK s : s = j.seen[x]
        OBVIOUS
      <4>2. PICK target : target = j.want[charges[s.txn].tier]
        OBVIOUS
      <4>3. old[x] = IF target.txn # s.txn
                     THEN [r EXCEPT !.active = r.active /\ ~s.active]
                     ELSE IF x \in {i, k} /\ (~s.active \/ s.exp # target.exp)
                     THEN [r EXCEPT !.active = TRUE, !.exp = target.exp]
                     ELSE r
        BY <1>1, <1>4, <2>2, <3>1, <3>5, <4>1, <4>2 DEF reconciled
      <4>4. new[x] = IF target.txn # s.txn
                     THEN [r2 EXCEPT !.active = r2.active /\ ~s.active]
                     ELSE IF x \in {i, k} /\ (~s.active \/ s.exp # target.exp)
                     THEN [r2 EXCEPT !.active = TRUE, !.exp = target.exp]
                     ELSE r2
        BY <1>2, <1>5, <2>1, <2>2, <3>2, <3>5, <4>1, <4>2 DEF reconciled
      <4>5. CASE target.txn # s.txn
        <5>1. old[x] = [r EXCEPT !.active = r.active /\ ~s.active]
              /\ new[x] = [r2 EXCEPT !.active = r2.active /\ ~s.active]
          BY <4>3, <4>4, <4>5
        <5> QED BY <3>0, <3>3, <5>1 DEF Line
      <4>6. CASE target.txn = s.txn /\ x \in {i, k} /\ (~s.active \/ s.exp # target.exp)
        <5>1. old[x] = [r EXCEPT !.active = TRUE, !.exp = target.exp]
              /\ new[x] = [r2 EXCEPT !.active = TRUE, !.exp = target.exp]
          BY <4>3, <4>4, <4>6
        <5> QED BY <3>0, <3>3, <5>1 DEF Line
      <4>7. CASE target.txn = s.txn /\ ~(x \in {i, k} /\ (~s.active \/ s.exp # target.exp))
        <5>1. old[x] = r /\ new[x] = r2
          BY <4>3, <4>4, <4>7
        <5> QED BY <3>3, <5>1
      <4> QED BY <4>5, <4>6, <4>7
    <3> QED BY <3>4, <3>5
  <2>3. Dims(new, old)
    BY <2>1, <2>2 DEF Dims
  <2>4. \A x \in DOMAIN access' : new[x] \in Line
    BY <1>5, <2>1, <2>2
  <2>5. new \in Seq(Line)
    BY <1>5, <2>4
  <2> QED BY <2>3, <2>5
<1>8. Dims(new \o b, old \o b)
  <2>1. /\ DOMAIN (old \o b) = 1 .. Len(old) + Len(b) /\ Len(old) \in Nat
        /\ DOMAIN (new \o b) = 1 .. Len(new) + Len(b) /\ Len(new) \in Nat
        /\ DOMAIN old = 1 .. Len(old) /\ DOMAIN new = 1 .. Len(new)
        /\ Len(b) \in Nat
    BY <1>4, <1>6, <1>7
  <2>2. Len(new) = Len(old)
    BY <1>7, <2>1 DEF Dims
  <2>3. \A x \in DOMAIN (old \o b) :
          \/ x \in DOMAIN old /\ (old \o b)[x] = old[x]
          \/ x - Len(old) \in DOMAIN b /\ (old \o b)[x] = b[x - Len(old)]
    <3>1. old \in Seq(Line) /\ b \in Seq(Line)
      BY <1>4, <1>6
    <3> QED BY ONLY <3>1, Joined
  <2>4. /\ \A x \in DOMAIN new : (new \o b)[x] = new[x]
        /\ \A x \in DOMAIN b : (new \o b)[x + Len(new)] = b[x]
    <3>1. new \in Seq(Line) /\ b \in Seq(Line)
      BY <1>6, <1>7
    <3> QED BY ONLY <3>1, Joined
  <2>5. ASSUME NEW x \in DOMAIN (old \o b)
        PROVE  /\ (new \o b)[x].txn = (old \o b)[x].txn
               /\ (new \o b)[x].exp = (old \o b)[x].exp
               /\ (new \o b)[x].active => (old \o b)[x].active
    <3>1. CASE x \in DOMAIN old /\ (old \o b)[x] = old[x]
      <4>1. (new \o b)[x] = new[x]
        BY <2>1, <2>2, <2>4, <3>1
      <4> QED BY <1>7, <3>1, <4>1 DEF Dims
    <3>2. CASE x - Len(old) \in DOMAIN b /\ (old \o b)[x] = b[x - Len(old)]
      <4>1. PICK y : y = x - Len(old)
        OBVIOUS
      <4>2. y \in DOMAIN b /\ y + Len(new) = x
        BY <2>1, <2>2, <2>5, <3>2, <4>1
      <4>3. (new \o b)[x] = b[y]
        BY <2>4, <4>2
      <4> QED BY <3>2, <4>1, <4>3
    <3> QED BY <2>3, <3>1, <3>2
  <2>6. DOMAIN (new \o b) = DOMAIN (old \o b)
    BY <2>1, <2>2
  <2> QED BY <2>5, <2>6 DEF Dims
<1>9. Outcome(j, i, k) = old \o b
  BY <1>1, <1>3 DEF Outcome
<1>10. Outcome(j, i, k)' = new \o b
  BY <1>2, <1>3 DEF Outcome
<1> QED BY <1>8, <1>9, <1>10

(* A step of p that puts lines out where no row entitles.                  *)
LEMMA DimStep ==
  ASSUME TypeInv, TypeInv', Synced, NEW p \in Worker, Handle(p),
         rows' = rows, latest' = latest, Dims(access', access), AllTerminal,
         \A m \in Debtors : m \in inbox' /\ (job'[p].msg = m => ~Withheld(p)'),
         job'[p].at # "apply", ~At(p, "apply")
  PROVE  Synced'
<1>1. charges' = charges /\ clock' = clock /\ StoreGrows /\ clock' \in Int
      /\ clock' >= clock
  <2>1. UNCHANGED storeVars
    BY HandlerKnown
  <2> QED BY <2>1 DEF storeVars, StoreGrows, TypeInv, StoreTyped
<1>2. \A q \in Worker \ {p} : job'[q] = job[q]
  BY OthersStay
<1>3. AllTerminal' = AllTerminal /\ \A m : MustSync(m)' = MustSync(m)
  BY DEF AllTerminal, MustSync, Known
<1> SUFFICES ASSUME Debtors' = {}
             PROVE  /\ \A q \in Worker : At(q, "apply")' => WillAgree(job[q])'
                    /\ Agrees(access)'
                       \/ \E q \in Worker : At(q, "apply")' /\ MustSync(job[q].msg)'
  BY DEF Synced
<1>4. Debtors = {}
  <2> SUFFICES ASSUME NEW m \in Debtors PROVE m \in Debtors'
    OBVIOUS
  <2>1. m \in inbox' /\ MustSync(m)'
    BY <1>3 DEF Debtors
  <2>2. ASSUME NEW q \in Worker, job'[q].msg = m
        PROVE  job'[q].at # "apply" /\ ~Withheld(q)'
    <3>1. CASE q = p
      BY <2>2, <3>1
    <3>2. CASE q # p
      <4>1. job'[q] = job[q]
        BY <1>2, <3>2
      <4>2. ~At(q, "apply") /\ ~Withheld(q)
        BY <2>2, <4>1 DEF Debtors
      <4> QED BY <4>1, <4>2 DEF At, Withheld
    <3> QED BY <3>1, <3>2
  <2> QED BY <2>1, <2>2 DEF Debtors, At
<1>5. /\ \A q \in Worker : At(q, "apply") => WillAgree(job[q])
      /\ Agrees(access) \/ \E q \in Worker : At(q, "apply") /\ MustSync(job[q].msg)
  BY <1>4 DEF Synced
<1>6. ASSUME NEW acc, Agrees(acc) PROVE Agrees(acc)'
  BY <1>1, <1>6 DEF Agrees, Serves, LivesOn, ServesOnly, Twinless, Entitles,
     entitlementExpiry
<1>7. ASSUME NEW q \in Worker, job'[q].at = "apply"
      PROVE  WillAgree(job[q])'
  <2>1. PICK j : j = job[q]
    OBVIOUS
  <2>2. j = job'[q] /\ WillAgree(j)
    BY <1>2, <1>5, <1>7, <2>1 DEF At
  <2>3. ASSUME NEW i \in FirstOf(j.seen, j.want[1].txn),
               NEW k \in FirstOf(j.seen, j.want[2].txn)
        PROVE  Agrees(Outcome(j, i, k))'
    <3>1. PICK old : old = Outcome(j, i, k)
      OBVIOUS
    <3>2. PICK new : new = Outcome(j, i, k)'
      OBVIOUS
    <3>3. Dims(new, old)
      BY <1>1, <2>1, <2>2, <3>1, <3>2, DimmedOutcome
    <3>4. Agrees(old)
      BY <2>2, <2>3, <3>1 DEF WillAgree
    <3>5. Agrees(new)
      BY <3>3, <3>4, Dimmed
    <3>6. Agrees(new)'
      BY <1>6, <3>5
    <3> QED BY <3>2, <3>6
  <2>4. WillAgree(j)'
    BY <2>3 DEF WillAgree
  <2> QED BY <2>2, <2>4
<1>8. CASE Agrees(access)
  <2>1. PICK new : new = access'
    OBVIOUS
  <2>2. Agrees(new)
    BY <1>8, <2>1, Dimmed
  <2>3. Agrees(new)'
    BY <1>6, <2>2
  <2> QED BY <1>7, <2>1, <2>3 DEF At
<1>9. CASE \E q \in Worker : At(q, "apply") /\ MustSync(job[q].msg)
  <2>1. PICK q \in Worker : At(q, "apply") /\ MustSync(job[q].msg)
    BY <1>9
  <2>2. job'[q] = job[q]
    BY <1>2, <2>1
  <2>3. At(q, "apply")' /\ MustSync(job[q].msg)'
    BY <1>3, <2>1, <2>2 DEF At
  <2> QED BY <1>7, <2>3 DEF At
<1> QED BY <1>5, <1>8, <1>9

(* revokeAccess: the sync comes next, or the row it follows was moved by   *)
(* others who will sync, or nobody will and the step says so.              *)
LEMMA RevokeSync ==
  ASSUME TypeInv, TypeInv', KindInv, Synced, NEW p \in Worker, revokeAccess(p)
  PROVE  KindOf(job[p])' /\ Synced'
<1>0. Handle(p) /\ (\A t : Known(t) => Known(t)') /\ KindOf(job[p]) /\ job[p] \in Work
  BY HandlerKnown, AtWork DEF Handle, KindInv
<1>1. PICK m : m = job[p].msg
  OBVIOUS
<1>2. /\ At(p, "revoke") /\ rows' = rows /\ latest' = latest
      /\ access' = [i \in DOMAIN access |->
                      IF m.kind = "REFUND" /\ access[i].txn # m.txn THEN access[i]
                      ELSE [access[i] EXCEPT !.active = FALSE]]
  BY <1>1 DEF revokeAccess
<1>3. /\ m.kind = "REVOKE" /\ latest # 0 => Go(p, "sync") /\ inbox' = inbox
      /\ m.kind = "REVOKE" /\ latest = 0 =>
           Done(p) /\ unsynced' = (unsynced \/ access' # access)
      /\ m.kind = "EXPIRED" /\ job[p].label = "withheld" =>
           Done(p) /\ unsynced' = (unsynced \/ access' # access)
      /\ \/ m.kind = "REFUND"
         \/ m.kind = "EXPIRED" /\ job[p].label # "withheld"
         => Go(p, "revenue") /\ inbox' = inbox /\ unsynced' = unsynced
  BY <1>1 DEF revokeAccess
<1>4. m.kind \in {"REFUND", "REVOKE", "EXPIRED"}
      /\ (m.kind = "REFUND" => Known(m.txn) /\ Known(m.txn)')
      /\ m.kind \notin Charges /\ m.kind \notin Failures
  BY <1>0, <1>1, <1>2 DEF KindOf, Replacing, At, Charges, Upgrades, Offers, Failures
<1>5. Dims(access', access)
  <2>1. ASSUME NEW x \in DOMAIN access
        PROVE  /\ access'[x].txn = access[x].txn /\ access'[x].exp = access[x].exp
               /\ access'[x].active => access[x].active
    <3>1. access[x] \in Line
      BY DEF TypeInv, AccessTyped
    <3>2. access'[x] = access[x] \/ access'[x] = [access[x] EXCEPT !.active = FALSE]
      BY <1>2
    <3> QED BY <3>1, <3>2 DEF Line
  <2> QED BY <1>2, <2>1 DEF Dims
<1>6. /\ MustSync(m)' = MustSync(m)
  BY <1>2 DEF AllTerminal, MustSync, Known
<1>7. m # NoMsg /\ m \in inbox /\ ~At(p, "apply")
  BY <1>1, <1>2, AtWork DEF At
<1>8. CASE Go(p, "sync") \/ Go(p, "revenue")
  <2>1. job'[p].at \in {"sync", "revenue"} /\ job'[p].msg = m
    BY <1>1, <1>8, Goes
  <2>2. m.kind = "REVOKE" => latest # 0 /\ job'[p].at = "sync"
    <3> SUFFICES ASSUME m.kind = "REVOKE" PROVE latest # 0 /\ job'[p].at = "sync"
      OBVIOUS
    <3>1. latest # 0
      <4> SUFFICES ASSUME latest = 0 PROVE FALSE
        OBVIOUS
      <4>1. job'[p] = Idle
        BY <1>3 DEF Done, TypeInv, JobsTyped
      <4> QED BY <2>1, <4>1, AtWork
    <3> QED BY <1>3, <3>1, Goes
  <2>3. KindOf(job[p])'
    BY <1>2, <1>4, <2>1, <2>2 DEF KindOf, Replacing, Charges, Upgrades, Offers
  <2>4. CASE MustSync(m)
    BY <1>6, <2>1, <2>3, <2>4, StillOwes DEF Withheld, At
  <2>5. CASE ~MustSync(m)
    <3>1. m.kind = "EXPIRED" /\ AllTerminal
      BY <1>4, <2>2, <2>5 DEF MustSync
    <3>2. inbox' = inbox
      <4>1. job'[p] # Idle
        BY <2>1, AtWork
      <4>2. ~Done(p)
        BY <4>1 DEF Done, TypeInv, JobsTyped
      <4> QED BY <1>3, <3>1, <4>2
    <3>3. \A d \in Debtors : d \in inbox' /\ (job'[p].msg = d => ~Withheld(p)')
      BY <2>1, <3>2 DEF Debtors, Withheld, At
    <3>4. Synced'
      BY <1>0, <1>2, <1>5, <1>7, <2>1, <3>1, <3>3, DimStep
    <3> QED BY <2>3, <3>4
  <2> QED BY <2>4, <2>5
<1>9. CASE Done(p) /\ unsynced' = (unsynced \/ access' # access)
  <2>1. job'[p] = Idle /\ inbox' = inbox \ {m}
    BY <1>1, <1>9 DEF Done, TypeInv, JobsTyped
  <2>2. job'[p].at = "idle" /\ job'[p].msg = NoMsg
    BY <2>1, AtWork
  <2>3. KindOf(job[p])'
    BY <2>2 DEF KindOf, Replacing
  <2>4. m \notin Debtors
    <3>1. CASE m.kind = "EXPIRED" /\ job[p].label = "withheld"
      BY <1>1, <1>2, <3>1 DEF Debtors, Withheld
    <3>2. CASE m.kind = "REVOKE" /\ latest = 0
      BY <1>4, <3>2 DEF Debtors, MustSync
    <3>3. CASE \/ m.kind = "REVOKE" /\ latest # 0
               \/ m.kind = "REFUND"
               \/ m.kind = "EXPIRED" /\ job[p].label # "withheld"
      <4>1. Go(p, "sync") \/ Go(p, "revenue")
        BY <1>3, <3>3
      <4> QED BY <2>2, <4>1, Goes
    <3> QED BY <1>4, <3>1, <3>2, <3>3
  <2>5. \A d \in Debtors : d \in inbox' /\ (job'[p].msg = d => ~Withheld(p)')
    BY <2>1, <2>2, <2>4 DEF Debtors, Withheld, At
  <2>6. CASE access' = access
    <3>1. Synced'
      BY <1>0, <1>2, <1>7, <1>9, <2>2, <2>5, <2>6, QuietStep
    <3> QED BY <2>3, <3>1
  <2>7. CASE access' # access
    <3>1. CASE AllTerminal
      BY <1>0, <1>2, <1>5, <1>7, <2>2, <2>3, <2>5, <3>1, DimStep
    <3>2. CASE ~AllTerminal
      <4>1. ~AllTerminal' /\ unsynced'
        BY <1>2, <1>9, <2>7, <3>2 DEF AllTerminal, Known
      <4> QED BY <2>3, <4>1 DEF Synced
    <3> QED BY <3>1, <3>2
  <2> QED BY <2>6, <2>7
<1> QED BY <1>3, <1>4, <1>8, <1>9

(* A crash returns the message; whoever had to sync owes it again.         *)
LEMMA CrashSync ==
  ASSUME TypeInv, TypeInv', KindInv, Synced, NEW p \in Worker, Crash(p)
  PROVE  KindOf(job[p])' /\ Synced'
<1>1. /\ ~At(p, "idle") /\ job' = [job EXCEPT ![p] = Idle]
      /\ inbox' = inbox /\ rows' = rows /\ latest' = latest /\ access' = access
      /\ unsynced' = unsynced
  BY DEF Crash, history
<1>2. job'[p] = Idle /\ job'[p].at = "idle" /\ job'[p].msg = NoMsg
  BY <1>1, AtWork DEF TypeInv, JobsTyped
<1>3. KindOf(job[p])'
  BY <1>2 DEF KindOf, Replacing
<1>4. PICK m : m = job[p].msg
  OBVIOUS
<1>5. m \in inbox /\ (\A q \in Worker \ {p} : job[q].msg # m) /\ m # NoMsg
  BY <1>1, <1>4, AtWork
<1>6. CASE MustSync(m)
  <2>1. MustSync(m)'
    BY <1>1, <1>6 DEF MustSync, AllTerminal, Known
  <2>2. \A q \in Worker : job'[q].msg # m
    BY <1>2, <1>5, OthersStay
  <2> QED BY <1>1, <1>3, <1>5, <2>1, <2>2, StillOwed
<1>7. CASE ~MustSync(m)
  <2>1. \A d \in Debtors : d \in inbox' /\ (job'[p].msg = d => ~Withheld(p)')
    BY <1>1, <1>2 DEF Debtors, Withheld, At
  <2> QED BY <1>1, <1>2, <1>3, <1>4, <1>7, <2>1, QuietStep
<1> QED BY <1>6, <1>7

(* The last sync of a message reads the rows and the lines as they are.    *)
LEMMA ReadSync ==
  ASSUME TypeInv, TypeInv', KindInv, Synced, NEW p \in Worker, At(p, "sync"), SyncRead(p)
  PROVE  KindOf(job[p])' /\ Synced'
<1>0. Handle(p) /\ (\A t : Known(t) => Known(t)') /\ KindOf(job[p]) /\ job[p] \in Work
  BY HandlerKnown, AtWork DEF Handle, KindInv
<1>1. PICK m : m = job[p].msg
  OBVIOUS
<1>2. /\ syncLock = Nobody /\ inbox' = inbox /\ rows' = rows /\ latest' = latest
      /\ access' = access /\ charges' = charges /\ clock' = clock
  BY DEF SyncRead, readAccess, storeVars
<1>3. PICK w : /\ job' = [job EXCEPT ![p].want = w, ![p].seen = access,
                                     ![p].at = "apply"]
               /\ w[1].txn \in desired(1) /\ w[2].txn \in desired(2)
               /\ w[1].txn # 0 => w[1].exp = entitlementExpiry(w[1].txn)
               /\ w[2].txn # 0 => w[2].exp = entitlementExpiry(w[2].txn)
  <2> DEFINE target(t) == [txn |-> t, exp |-> IF t = 0 THEN Null ELSE entitlementExpiry(t)]
  <2>1. PICK one \in desired(1), two \in desired(2) :
          job' = [job EXCEPT ![p].want = <<target(one), target(two)>>,
                             ![p].seen = access,
                             ![p].at = IF At(p, "sync") THEN "apply" ELSE "reapply"]
    BY DEF SyncRead, readAccess
  <2>2. PICK w : w = <<target(one), target(two)>>
    OBVIOUS
  <2>3. job' = [job EXCEPT ![p].want = w, ![p].seen = access, ![p].at = "apply"]
    BY <2>1, <2>2
  <2>4. w[1] = target(one) /\ w[2] = target(two)
    BY <2>2
  <2>5. /\ w[1].txn = one /\ (one # 0 => w[1].exp = entitlementExpiry(one))
        /\ w[2].txn = two /\ (two # 0 => w[2].exp = entitlementExpiry(two))
    BY <2>4
  <2> HIDE DEF target
  <2> QED BY <2>1, <2>3, <2>5
<1>4. PICK j \in Work : j = job'[p]
  BY <1>0, OthersStay
<1>5. j.at = "apply" /\ j.msg = m /\ j.want = w /\ j.seen = access
  <2>1. job'[p] = [job[p] EXCEPT !.want = w, !.seen = access, !.at = "apply"]
    BY <1>3 DEF TypeInv, JobsTyped
  <2> QED BY <1>0, <1>1, <1>4, <2>1 DEF Work
<1>6. WillAgree(j)
  <2>1. w \in [Tier -> Target]
    BY <1>4, <1>5 DEF Work
  <2>2. \A tier \in Tier : /\ w[tier].txn \in desired(tier)
                           /\ w[tier].txn # 0 =>
                                w[tier].exp = entitlementExpiry(w[tier].txn)
    BY <1>3 DEF Tier
  <2> SUFFICES ASSUME NEW i \in FirstOf(access, w[1].txn),
                      NEW k \in FirstOf(access, w[2].txn)
               PROVE  Agrees(reconciled(access, w, {i, k}) \o created(access, w))
    BY <1>5 DEF WillAgree, Outcome
  <2> QED BY <2>1, <2>2, ReadAgrees
<1>7. \A acc : Agrees(acc)' = Agrees(acc)
  BY <1>2 DEF Agrees, Serves, LivesOn, ServesOnly, Twinless, Entitles,
     entitlementExpiry
<1>8. WillAgree(j)'
  <2>1. ASSUME NEW i \in FirstOf(j.seen, j.want[1].txn),
               NEW k \in FirstOf(j.seen, j.want[2].txn)
        PROVE  Agrees(Outcome(j, i, k))'
    <3>1. PICK acc : acc = Outcome(j, i, k)
      OBVIOUS
    <3>2. Outcome(j, i, k)' = acc
      BY <1>2, <3>1 DEF Outcome, reconciled, created, RowsOf
    <3>3. Agrees(acc)
      BY <1>6, <2>1, <3>1 DEF WillAgree
    <3>4. Agrees(acc)'
      BY <1>7, <3>3
    <3> QED BY <3>2, <3>4
  <2> QED BY <2>1 DEF WillAgree
<1>9. KindOf(job[p])'
  <2>1. /\ m.kind \notin Failures /\ (m.kind = "REVOKE" => latest' # 0)
        /\ m.kind \in {"REFUND", "REVERSED"} => Known(m.txn)'
    BY <1>0, <1>1, <1>2 DEF KindOf, Replacing, At
  <2> QED BY <1>4, <1>5, <2>1 DEF KindOf, Replacing
<1>10. \A u : MustSync(u)' = MustSync(u)
  BY <1>2 DEF MustSync, AllTerminal, Known
<1>11. \A q \in Worker \ {p} : job'[q] = job[q] /\ ~At(q, "apply")
  <2>1. \A q \in Worker : syncLock # q
    BY <1>2, Numbers
  <2> QED BY <1>0, <2>1, OthersStay DEF TypeInv, JobsTyped
<1>12. Synced'
  <2> SUFFICES ASSUME Debtors' = {}
               PROVE  /\ \A q \in Worker : At(q, "apply")' => WillAgree(job[q])'
                      /\ Agrees(access)'
                         \/ \E q \in Worker : At(q, "apply")' /\ MustSync(job[q].msg)'
    BY DEF Synced
  <2>1. ASSUME NEW q \in Worker, At(q, "apply")' PROVE WillAgree(job[q])'
    <3>1. q = p
      BY <1>11, <2>1 DEF At
    <3> QED BY <1>4, <1>8, <3>1
  <2>2. CASE MustSync(m)
    <3>1. At(p, "apply")' /\ MustSync(job[p].msg)'
      BY <1>4, <1>5, <1>10, <2>2 DEF At
    <3> QED BY <2>1, <3>1
  <2>3. CASE ~MustSync(m)
    <3>1. m \in Message
      <4>1. m \in inbox
        BY <1>1, AtWork DEF At
      <4> QED BY <4>1 DEF TypeInv, StoreTyped
    <3>2. AllTerminal
      <4>1. m.kind \in Kind
        BY <3>1 DEF Message
      <4>2. /\ m.kind \notin Failures /\ (m.kind = "REVOKE" => latest # 0)
            /\ m.kind \in {"REFUND", "REVERSED"} => Known(m.txn)
        BY <1>0, <1>1 DEF KindOf, Replacing, At
      <4> QED BY <2>3, <4>1, <4>2 DEF MustSync, Kind
    <3>3. Debtors = {}
      <4> SUFFICES ASSUME NEW d \in Debtors PROVE d \in Debtors'
        OBVIOUS
      <4>1. d \in inbox' /\ MustSync(d)' /\ d # m
        BY <1>2, <1>10, <2>3 DEF Debtors
      <4>2. ASSUME NEW q \in Worker, job'[q].msg = d
            PROVE  ~At(q, "apply")' /\ ~Withheld(q)'
        <5>1. q # p
          BY <1>4, <1>5, <4>1, <4>2
        <5>2. job'[q] = job[q]
          BY <1>11, <5>1
        <5> QED BY <4>2, <5>2 DEF Debtors, At, Withheld
      <4> QED BY <4>1, <4>2 DEF Debtors
    <3>4. Agrees(access) \/ \E q \in Worker : At(q, "apply") /\ MustSync(job[q].msg)
      BY <3>2, <3>3 DEF Synced
    <3>5. \A q \in Worker : ~At(q, "apply")
      BY <1>11 DEF At
    <3>6. PICK acc : acc = access /\ Agrees(acc)
      BY <3>4, <3>5
    <3>7. Agrees(acc)'
      BY <1>7, <3>6
    <3>8. Agrees(access)'
      BY <1>2, <3>6, <3>7
    <3> QED BY <2>1, <3>8
  <2> QED BY <2>2, <2>3
<1> QED BY <1>9, <1>12

(* It writes what it decided: with nobody else in debt, that agrees.       *)
LEMMA ApplySync ==
  ASSUME TypeInv, TypeInv', KindInv, Synced, NEW p \in Worker, At(p, "apply"),
         SyncApply(p)
  PROVE  KindOf(job[p])' /\ Synced'
<1>0. Handle(p)
  BY DEF Handle
<1>1. PICK j, m : j = job[p] /\ m = job[p].msg
  OBVIOUS
<1>2. /\ job' = [job EXCEPT ![p] = Idle] /\ inbox' = inbox \ {m}
      /\ rows' = rows /\ latest' = latest /\ charges' = charges /\ clock' = clock
      /\ unsynced' = unsynced
  BY <1>1 DEF SyncApply, Done, storeVars, history
<1>3. PICK i \in FirstOf(j.seen, j.want[1].txn), k \in FirstOf(j.seen, j.want[2].txn) :
        access' = Outcome(j, i, k)
  BY <1>1 DEF SyncApply, Outcome
<1>4. job'[p] = Idle /\ job'[p].at = "idle" /\ job'[p].msg = NoMsg
  BY <1>2, AtWork DEF TypeInv, JobsTyped
<1>5. KindOf(job[p])'
  BY <1>4 DEF KindOf, Replacing
<1>6. \A q \in Worker \ {p} : job'[q] = job[q] /\ ~At(q, "apply")
  <2>1. syncLock = p
    BY DEF TypeInv, JobsTyped
  <2> QED BY <1>0, <2>1, OthersStay DEF TypeInv, JobsTyped
<1>7. \A q \in Worker : ~At(q, "apply")'
  BY <1>4, <1>6 DEF At
<1>8. AllTerminal' = AllTerminal /\ \A u : MustSync(u)' = MustSync(u)
  BY <1>2 DEF MustSync, AllTerminal, Known
<1>9. Synced'
  <2> SUFFICES ASSUME Debtors' = {}, ~unsynced' \/ AllTerminal'
               PROVE  Agrees(access)'
    BY <1>7 DEF Synced
  <2>1. Debtors = {}
    <3> SUFFICES ASSUME NEW d \in Debtors PROVE d \in Debtors'
      OBVIOUS
    <3>1. d # m /\ d \in inbox /\ d # NoMsg
      BY <1>1, AtWork DEF Debtors
    <3>2. d \in inbox' /\ MustSync(d)'
      BY <1>2, <1>8, <3>1 DEF Debtors
    <3>3. ASSUME NEW q \in Worker, job'[q].msg = d
          PROVE  ~At(q, "apply")' /\ ~Withheld(q)'
      <4>1. q # p
        BY <1>4, <3>1, <3>3
      <4>2. job'[q] = job[q]
        BY <1>6, <4>1
      <4> QED BY <3>3, <4>2 DEF Debtors, At, Withheld
    <3> QED BY <3>2, <3>3 DEF Debtors
  <2>2. WillAgree(j)
    BY <1>1, <1>2, <1>8, <2>1 DEF Synced
  <2>3. PICK acc : acc = Outcome(j, i, k)
    OBVIOUS
  <2>4. Agrees(acc)
    BY <2>2, <2>3 DEF WillAgree
  <2>5. Agrees(acc)'
    BY <1>2, <2>4 DEF Agrees, Serves, LivesOn, ServesOnly, Twinless, Entitles,
     entitlementExpiry
  <2> QED BY <1>3, <2>3, <2>5
<1> QED BY <1>5, <1>9

(* Apple's and the clients' steps only add to what must be handled.        *)
LEMMA OutsideSync ==
  ASSUME TypeInv, KindInv, Synced, AppStore
  PROVE  KindInv' /\ Synced'
<1>1. StoreTyped' /\ StoreGrows /\ Outside
  BY AppStoreTyped DEF TypeInv
<1>2. /\ inbox \subseteq inbox' /\ rows' = rows /\ latest' = latest /\ access' = access
      /\ job' = job /\ unsynced' = unsynced
  BY <1>1 DEF Outside
<1>3. clock' \in Int /\ clock' >= clock
  <2>1. clock' = clock \/ clock' = clock + 1
    BY DEF AppStore, Renew, Upgrade, Resubscribe, FailToRenew, Lapse, Revoke, Refund,
       Present, Tick, Charge, Move, Notify
  <2> QED BY <2>1 DEF TypeInv, StoreTyped
<1>4. KindInv'
  BY <1>2 DEF KindInv, KindOf, Known
<1>5. \A m \in Debtors : /\ m \in inbox'
                         /\ \A q \in Worker : job'[q].msg = m =>
                              job'[q].at # "apply" /\ ~Withheld(q)'
  BY <1>2 DEF Debtors, At, Withheld
<1>6. Synced'
  BY <1>1, <1>2, <1>3, <1>5, Undisturbed
<1> QED BY <1>4, <1>6

(* Every step keeps access in step with the rows, or owes a sync.          *)
LEMMA NextSyncInv == TypeInv /\ SyncInv /\ [Next]_vars => SyncInv'
<1> SUFFICES ASSUME TypeInv, SyncInv, [Next]_vars PROVE SyncInv'
  OBVIOUS
<1>1. TypeInv' /\ KindInv /\ Synced
  BY NextTypeInv DEF SyncInv
<1>2. CASE AppStore
  BY <1>1, <1>2, OutsideSync DEF SyncInv
<1>3. ASSUME NEW p \in Worker, Handle(p) \/ Crash(p)
      PROVE  SyncInv'
  <2>1. KindOf(job[p])' /\ Synced'
    <3>1. CASE ChargeStep(p)
      BY <1>1, <3>1, ChargeSync
    <3>2. ASSUME NEW m \in inbox, applyRefund(p, m) \/ applyRefundReversed(p, m)
          PROVE  KindOf(job[p])' /\ Synced'
      BY <1>1, <3>2, RefundSync
    <3>3. ASSUME NEW m \in inbox, applyFailedRenewal(p, m)
          PROVE  KindOf(job[p])' /\ Synced'
      BY <1>1, <3>3, FailedSync
    <3>4. ASSUME NEW m \in inbox, ChainEnd(p, m)
          PROVE  KindOf(job[p])' /\ Synced'
      BY <1>1, <3>4, ChainEndSync
    <3>5. CASE revokeAccess(p)
      BY <1>1, <3>5, RevokeSync
    <3>6. CASE emitRevenueEvent(p)
      BY <1>1, <3>6, EmitSync
    <3>7. CASE At(p, "sync") /\ SyncRead(p)
      BY <1>1, <3>7, ReadSync
    <3>8. CASE At(p, "apply") /\ SyncApply(p)
      BY <1>1, <3>8, ApplySync
    <3>9. CASE Crash(p)
      BY <1>1, <3>9, CrashSync
    <3>10. SyncRead(p) => At(p, "sync") \/ At(p, "resync")
      BY DEF SyncRead
    <3>11. SyncApply(p) => At(p, "apply") \/ At(p, "reapply")
      BY DEF SyncApply
    <3> QED BY <1>3, <3>1, <3>2, <3>3, <3>4, <3>5, <3>6, <3>7, <3>8, <3>9, <3>10, <3>11
            DEF Handle, ChargeStep
  <2> QED BY <1>1, <1>3, <2>1, KindStep DEF SyncInv
<1>4. CASE UNCHANGED vars
  <2>1. StoreGrows /\ clock' \in Int /\ clock' >= clock
    BY <1>4 DEF vars, storeVars, StoreGrows, TypeInv, StoreTyped
  <2>2. /\ rows' = rows /\ latest' = latest /\ access' = access /\ job' = job
        /\ inbox' = inbox /\ unsynced' = unsynced
    BY <1>4 DEF vars, storeVars, history
  <2>3. KindInv'
    BY <1>1, <2>2 DEF KindInv, KindOf, Known
  <2>4. \A m \in Debtors : /\ m \in inbox'
                           /\ \A q \in Worker : job'[q].msg = m =>
                                job'[q].at # "apply" /\ ~Withheld(q)'
    BY <2>2 DEF Debtors, At, Withheld
  <2>5. Synced'
    BY <1>1, <2>1, <2>2, <2>4, Undisturbed
  <2> QED BY <2>3, <2>5 DEF SyncInv
<1> QED BY <1>2, <1>3, <1>4 DEF Next

(* At the start there are no rows, no lines and one charge to handle.      *)
LEMMA InitSyncInv == Init => SyncInv
<1> SUFFICES ASSUME Init PROVE SyncInv
  OBVIOUS
<1>1. \A p \in Worker : job[p].at = "idle" /\ job[p].msg = NoMsg
  BY DEF Init, Idle
<1>2. KindInv
  BY <1>1 DEF KindInv, KindOf, Replacing
<1>3. [n |-> 1, kind |-> "SUBSCRIBED", txn |-> 1] \in Debtors
  BY <1>1 DEF Init, Debtors, MustSync, Charges, At, Withheld
<1> QED BY <1>2, <1>3 DEF SyncInv, Synced

(* With nothing waiting, nobody owes a sync and nobody is in one.          *)
LEMMA SettledAgrees ==
  ASSUME TypeInv, SyncInv, Settled, ~unsynced
  PROVE  Agrees(access)
<1>1. Debtors = {}
  BY DEF Debtors, Settled
<1>2. \A p \in Worker : ~At(p, "apply")
  BY AtWork DEF At, Settled
<1> QED BY <1>1, <1>2 DEF SyncInv, Synced

(* So what is served is what the rows entitle to.                          *)
LEMMA SyncedServes == TypeInv /\ SyncInv => ServedFollowsRows
  BY SettledAgrees, AgreementServes DEF ServedFollowsRows

(* syncAccess after every handler: with everything processed, what is      *)
(* served is what the rows entitle to, in whatever order notifications and *)
(* receipts ran and wherever a job died, unless the last write was a       *)
(* failed renewal's, which nobody syncs.                                   *)
THEOREM AppleServedFollowsRows == Spec => []ServedFollowsRows
<1>1. Spec => [](TypeInv /\ SyncInv)
  <2>1. Init => TypeInv /\ SyncInv
    BY InitTypeInv, InitSyncInv
  <2>2. TypeInv /\ SyncInv /\ [Next]_vars => (TypeInv /\ SyncInv)'
    BY NextTypeInv, NextSyncInv
  <2> QED BY <2>1, <2>2, PTL DEF Spec
<1> QED BY <1>1, SyncedServes, PTL

--------------------------------------------------------------------------------
(***************************************************************************)
(* The books follow the store.                                             *)
(***************************************************************************)
Reversals == {"REFUND", "REVERSED"}
ChargesOf(t) == {n \in DOMAIN log : log[n].txn = t /\ log[n].kind \in Charges}

(* A reversal follows a refund; what reports one charge is reported at     *)
(* once, before its refunds, and charges are reported in their order.      *)
LogOrder ==
    /\ \A n \in DOMAIN log : log[n].kind = "REVERSED" =>
         \E k \in DOMAIN log : k < n /\ log[k].kind = "REFUND" /\ log[k].txn = log[n].txn
    /\ \A c, n \in DOMAIN log : log[c].kind \in Charges =>
         /\ log[n].kind \in Reversals /\ log[n].txn = log[c].txn => c < n
         /\ log[n].kind \in Charges /\ log[c].txn < log[n].txn => c < n
    /\ \A c, d \in DOMAIN log : \A n \in c + 1 .. d - 1 :
         log[c].txn = log[d].txn /\ log[c].kind \in Charges /\ log[d].kind \in Charges
           => log[n].kind \in Charges
    /\ \A m \in inbox : m.kind = "RECEIPT" => log[m.n].kind \in Charges

(* The row of t was written since Apple reported the charge.               *)
Past(t) == \A c \in ChargesOf(t) : c < given[t]
Lost == Terminal \cup {"BILLING_ISSUE"}

(* With nothing overtaken, a row is as new as the newest event written to  *)
(* it, at least as new as its charge, and on hold or terminal only later.  *)
RowGiven(t) ==
    Known(t) => /\ rows[t].at <= given[t] \/ Past(t)
                /\ rows[t].status \in Lost => Past(t)
                /\ \E c \in ChargesOf(t) : c <= given[t]
RetiresGiven(p) ==
    job[p].at \in {"supersede", "resync", "reapply"} =>
      \A u \in job[p].todo : given[u] >= job[p].msg.n

(* What waits or is in hand before the books are written.                  *)
Pending(m) ==
    m \in inbox /\ \A p \in Worker : job[p].msg = m => job[p].at \notin {"sync", "apply"}
BookKey(kind) == IF kind \in Charges THEN "purchase"
                 ELSE IF kind = "REFUND" THEN "refund" ELSE "reactivation"
Dropped(n, t) == rows[t] = NoRow /\ given[t] >= n

ChargeDue(t) ==
    Booked(t, "purchase") \/ \E m \in inbox : m.kind \in Charges /\ m.txn = t /\ Pending(m)
ReversalDue(n) ==
    log[n].kind \in Reversals =>
      \/ Booked(log[n].txn, BookKey(log[n].kind))
      \/ Pending([n |-> n, kind |-> log[n].kind, txn |-> log[n].txn])
      \/ Dropped(n, log[n].txn)

(* What is booked has happened.                                            *)
BookedHappened ==
    \A r \in revenue : /\ r.key = "purchase" => Known(r.txn)
                       /\ r.key = "refund" => After(0, "REFUND", r.txn)
                       /\ r.key = "reactivation" => After(0, "REVERSED", r.txn)
ChargeKnown(j) == j.at \notin {"idle", "insert"} /\ j.msg.kind \in Charges => Known(j.msg.txn)

Unskewed ==
    /\ \A t \in Txn : RowGiven(t)
    /\ \A p \in Worker : RetiresGiven(p)
    /\ \A t \in DOMAIN charges : ChargeDue(t)
    /\ \A n \in DOMAIN log : ReversalDue(n)
AccountInv ==
    /\ LogOrder /\ given \in [Txn -> Nat]
    /\ BookedHappened /\ \A p \in Worker : ChargeKnown(job[p])
    /\ ~skewed => Unskewed

(* What Apple and the clients add in a step: events of one transaction,    *)
(* each with its notification; charges of a new one, or others of a known. *)
New == DOMAIN log' \ DOMAIN log
Reports(t) ==
    /\ \A n \in New : /\ log'[n].txn = t
                      /\ [n |-> n, kind |-> log'[n].kind, txn |-> t] \in inbox'
    /\ \A m \in inbox' \ inbox :
         m.kind = "RECEIPT" => m.n \in DOMAIN log /\ log[m.n].kind \in Charges
    /\ \/ /\ t = Len(charges) + 1 /\ DOMAIN charges' = DOMAIN charges \cup {t}
          /\ New # {} /\ \A n \in New : log'[n].kind \in Charges
       \/ /\ charges' = charges
          /\ \A n \in New : /\ log'[n].kind \notin Charges
                            /\ log'[n].kind = "REVERSED" => Refunded(t)

(* The events that are sent.                                               *)
LEMMA NotifyReports ==
  ASSUME StoreTyped, NEW kinds \in Seq(LogKind), Len(kinds) >= 1, NEW t,
         Notify(kinds, t)
  PROVE  /\ Len(log) + 1 \in New
         /\ \A n \in New : \E i \in DOMAIN kinds :
              /\ log'[n].txn = t /\ log'[n].kind = kinds[i] /\ log'[n].at = clock
              /\ [n |-> n, kind |-> log'[n].kind, txn |-> t] \in inbox'
         /\ \A m \in inbox' \ inbox : m.kind # "RECEIPT"
         /\ Len(log') = Len(log) + Len(kinds)
<1> DEFINE new == [i \in DOMAIN kinds |-> [kind |-> kinds[i], txn |-> t, at |-> clock]]
<1>1. /\ log' = log \o new
      /\ inbox' = inbox \cup {[n |-> Len(log) + i, kind |-> kinds[i], txn |-> t] :
                                i \in DOMAIN kinds}
  BY DEF Notify
<1>2. DOMAIN kinds = 1 .. Len(kinds) /\ Len(kinds) \in Nat
      /\ \A i \in DOMAIN kinds : kinds[i] \in LogKind
  OBVIOUS
<1>3. \A i \in DOMAIN kinds : new[i] = [kind |-> kinds[i], txn |-> t, at |-> clock]
  OBVIOUS
<1>4. new \in Seq({new[i] : i \in DOMAIN kinds}) /\ Len(new) = Len(kinds)
  <2>1. new \in [1 .. Len(kinds) -> {new[i] : i \in DOMAIN kinds}]
    BY <1>2
  <2> QED BY <1>2, <2>1
<1> HIDE DEF new
<1>5. log \in Seq(Entry) /\ Len(log) \in Nat /\ DOMAIN log = 1 .. Len(log)
  BY DEF StoreTyped
<1>6. /\ Len(log') = Len(log) + Len(kinds) /\ DOMAIN log' = 1 .. Len(log')
      /\ \A i \in DOMAIN kinds : log'[Len(log) + i] = new[i]
  <2> DEFINE All == Entry \cup {new[i] : i \in DOMAIN kinds}
  <2>1. log \in Seq(All) /\ new \in Seq(All)
    <3>1. \A i \in 1 .. Len(log) : log[i] \in All
      BY <1>5
    <3>2. \A i \in 1 .. Len(new) : new[i] \in All
      BY <1>2, <1>4
    <3> QED BY <1>4, <1>5, <3>1, <3>2
  <2> HIDE DEF All
  <2>2. log \o new \in Seq(All) /\ Len(log \o new) = Len(log) + Len(new)
        /\ \A i \in 1 .. Len(log) + Len(new) :
             (log \o new)[i] = IF i <= Len(log) THEN log[i] ELSE new[i - Len(log)]
    BY ONLY <2>1, ConcatProperties
  <2>3. DOMAIN log' = 1 .. Len(log') /\ Len(log') = Len(log) + Len(kinds)
    BY <1>1, <1>4, <2>2
  <2>4. ASSUME NEW i \in DOMAIN kinds
        PROVE  log'[Len(log) + i] = new[i]
    <3>1. PICK k \in Nat : k = Len(log) + i
      BY <1>2, <1>5
    <3>2. k \in 1 .. Len(log) + Len(new) /\ ~(k <= Len(log)) /\ k - Len(log) = i
      BY <1>2, <1>4, <1>5, <3>1
    <3> QED BY <1>1, <2>2, <3>1, <3>2
  <2> QED BY <2>3, <2>4
<1>7. ASSUME NEW n \in New
      PROVE  \E i \in DOMAIN kinds :
               /\ log'[n].txn = t /\ log'[n].kind = kinds[i] /\ log'[n].at = clock
               /\ [n |-> n, kind |-> log'[n].kind, txn |-> t] \in inbox'
  <2>1. PICK i \in DOMAIN kinds : n = Len(log) + i
    <3>1. n - Len(log) \in DOMAIN kinds /\ n = Len(log) + (n - Len(log))
      BY <1>2, <1>5, <1>6 DEF New
    <3> QED BY <3>1
  <2>2. log'[n] = [kind |-> kinds[i], txn |-> t, at |-> clock]
    BY <1>3, <1>6, <2>1
  <2> QED BY <1>1, <2>1, <2>2
<1>8. Len(log) + 1 \in New
  BY <1>2, <1>5, <1>6 DEF New
<1>9. \A m \in inbox' \ inbox : m.kind # "RECEIPT"
  BY <1>1, <1>2 DEF LogKind
<1> QED BY <1>6, <1>7, <1>8, <1>9

(* A charge is reported, and nothing else.                                 *)
LEMMA ChargeReports ==
  ASSUME StoreTyped, NEW kinds \in Seq(LogKind), Len(kinds) >= 1,
         \A i \in DOMAIN kinds : kinds[i] \in Charges, NEW from, NEW tier,
         Charge(kinds, from, tier)
  PROVE  \E t : Reports(t)
<1>1. charges \in Seq(Priced) /\ Len(charges) \in Nat
      /\ charges' = Append(charges, [exp |-> from + Period, tier |-> tier])
  BY DEF Charge, StoreTyped
<1>2. PICK t \in Nat : t = Len(charges) + 1
  BY <1>1
<1>3. DOMAIN charges' = DOMAIN charges \cup {t}
  <2>1. PICK one : one = [exp |-> from + Period, tier |-> tier]
    OBVIOUS
  <2>2. charges' = Append(charges, one)
    BY <1>1, <2>1
  <2>3. charges \in Seq(Priced \cup {one})
    BY <1>1
  <2>4. Len(charges') = Len(charges) + 1 /\ DOMAIN charges' = 1 .. Len(charges')
        /\ DOMAIN charges = 1 .. Len(charges)
    BY <2>2, <2>3
  <2> QED BY <1>1, <1>2, <2>4
<1>4. Notify(kinds, t)
  BY <1>2 DEF Charge
<1>5. /\ New # {} /\ \A m \in inbox' \ inbox : m.kind # "RECEIPT"
      /\ \A n \in New : /\ log'[n].txn = t /\ log'[n].kind \in Charges
                        /\ [n |-> n, kind |-> log'[n].kind, txn |-> t] \in inbox'
  BY <1>4, NotifyReports
<1> QED BY <1>2, <1>3, <1>5 DEF Reports

(* Something else is reported, of a charge that was.                       *)
LEMMA OtherReports ==
  ASSUME StoreTyped, NEW kind \in LogKind \ Charges, NEW t, Notify(<<kind>>, t),
         charges' = charges, kind = "REVERSED" => Refunded(t)
  PROVE  Reports(t)
<1>1. PICK kinds : kinds = <<kind>>
  OBVIOUS
<1>2. kinds \in Seq(LogKind) /\ Len(kinds) >= 1 /\ DOMAIN kinds = {1} /\ kinds[1] = kind
  BY <1>1
<1>3. Notify(kinds, t)
  BY <1>1
<1>4. /\ \A m \in inbox' \ inbox : m.kind # "RECEIPT"
      /\ \A n \in New : /\ log'[n].txn = t /\ log'[n].kind = kind
                        /\ [n |-> n, kind |-> log'[n].kind, txn |-> t] \in inbox'
  BY <1>2, <1>3, NotifyReports
<1> QED BY <1>4 DEF Reports

(* Every step of Apple's and of a client's.                                *)
LEMMA AppStoreReports ==
  ASSUME StoreTyped, AppStore
  PROVE  \E t : Reports(t)
<1>1. CASE Renew
  <2>1. PICK kind \in {"DID_RENEW", "OFFER_REDEEMED"} : \E from, tier :
          Charge(<<kind>>, from, tier)
    BY <1>1 DEF Renew
  <2>2. <<kind>> \in Seq(LogKind) /\ Len(<<kind>>) >= 1
        /\ \A i \in DOMAIN <<kind>> : <<kind>>[i] \in Charges
    BY DEF LogKind, Kind, Charges, Offers
  <2> QED BY <2>1, <2>2, ChargeReports
<1>2. CASE Upgrade
  <2>1. PICK kind \in Upgrades : Charge(<<kind>>, clock, 2)
    BY <1>2 DEF Upgrade
  <2>2. <<kind>> \in Seq(LogKind) /\ Len(<<kind>>) >= 1
        /\ \A i \in DOMAIN <<kind>> : <<kind>>[i] \in Charges
    BY DEF LogKind, Kind, Charges, Upgrades
  <2> QED BY <2>1, <2>2, ChargeReports
<1>3. CASE Resubscribe
  <2>1. PICK kinds \in {<<"RESUBSCRIBE">>, <<"OFFER_REDEEMED", "RESUBSCRIBE">>} :
          Charge(kinds, clock, Current.tier)
    BY <1>3 DEF Resubscribe
  <2>2. {"RESUBSCRIBE", "OFFER_REDEEMED"} \subseteq LogKind \cap Charges
    BY DEF LogKind, Kind, Charges, Offers
  <2>3. kinds \in Seq(LogKind) /\ Len(kinds) >= 1
        /\ \A i \in DOMAIN kinds : kinds[i] \in Charges
    <3>1. CASE kinds = <<"RESUBSCRIBE">>
      BY <3>1, <2>2
    <3>2. CASE kinds = <<"OFFER_REDEEMED", "RESUBSCRIBE">>
      BY <3>2, <2>2
    <3> QED BY <3>1, <3>2
  <2> QED BY <2>1, <2>3, ChargeReports
<1>4. ASSUME NEW kind \in Failures \cup {"EXPIRED", "REVOKE"}, NEW state, NEW grace,
             Move(kind, state, grace)
      PROVE  \E t : Reports(t)
  <2>1. kind \in LogKind \ Charges /\ kind # "REVERSED"
    BY DEF LogKind, Kind, Failures, Charges, Upgrades, Offers
  <2>2. Notify(<<kind>>, Len(charges)) /\ charges' = charges
    BY <1>4 DEF Move
  <2> QED BY <2>1, <2>2, OtherReports
<1>5. CASE FailToRenew
  BY <1>5, <1>4 DEF FailToRenew, Failures
<1>6. CASE Lapse
  BY <1>6, <1>4 DEF Lapse
<1>7. CASE Revoke
  BY <1>7, <1>4 DEF Revoke
<1>8. CASE Refund
  <2>1. PICK t : Notify(<<IF Refunded(t) THEN "REVERSED" ELSE "REFUND">>, t)
                 /\ charges' = charges
    BY <1>8 DEF Refund
  <2>2. PICK kind \in Reversals :
          /\ kind = IF Refunded(t) THEN "REVERSED" ELSE "REFUND"
          /\ kind = "REVERSED" => Refunded(t)
    BY DEF Reversals
  <2>3. kind \in LogKind \ Charges
    BY DEF LogKind, Kind, Reversals, Charges, Upgrades, Offers
  <2>4. Notify(<<kind>>, t)
    BY <2>1, <2>2
  <2> QED BY <2>1, <2>2, <2>3, <2>4, OtherReports
<1>9. CASE Present
  <2>1. PICK n \in DOMAIN log :
          /\ log[n].kind \in Charges /\ log' = log /\ charges' = charges
          /\ inbox' = inbox \cup {[n |-> n, kind |-> "RECEIPT", txn |-> log[n].txn]}
    BY <1>9 DEF Present
  <2> QED BY <2>1 DEF Reports, New
<1>10. CASE Tick
  BY <1>10 DEF Tick, Reports, New
<1> QED
  BY <1>1, <1>2, <1>3, <1>5, <1>6, <1>7, <1>8, <1>9, <1>10 DEF AppStore

(* A new charge is of a new transaction.                                   *)
LEMMA NewCharges ==
  ASSUME StoreTyped, NEW t, Reports(t), NEW n \in New, log'[n].kind \in Charges
  PROVE  log'[n].txn \notin DOMAIN charges
<1>1. log'[n].txn = t
  BY DEF Reports
<1>2. t = Len(charges) + 1
  BY DEF Reports
<1>3. DOMAIN charges = 1 .. Len(charges) /\ Len(charges) \in Nat
  BY DEF StoreTyped
<1> QED BY <1>1, <1>2, <1>3

(* The order of the log as the log grows.                                  *)
LEMMA LogOrderGrows ==
  ASSUME StoreTyped, StoreTyped', StoreGrows, LogOrder, NEW t, Reports(t)
  PROVE  LogOrder'
<1>1. /\ DOMAIN log = 1 .. Len(log) /\ DOMAIN log' = 1 .. Len(log')
      /\ Len(log) \in Nat /\ Len(log') \in Nat
      /\ DOMAIN charges = 1 .. Len(charges) /\ Len(charges) \in Nat
      /\ \A n \in DOMAIN log : log[n].txn \in DOMAIN charges
  BY DEF StoreTyped
<1>2. /\ DOMAIN log' = DOMAIN log \cup New /\ DOMAIN log \cap New = {}
      /\ \A n \in DOMAIN log : log'[n] = log[n]
      /\ \A n \in DOMAIN log, k \in New : n < k
  BY <1>1 DEF New, StoreGrows
<1>3. \A n \in New : log'[n].kind \in Charges => log'[n].txn \notin DOMAIN charges
  BY NewCharges
<1>4. \A n \in New : log'[n].txn = t
  BY DEF Reports
<1>5. ASSUME NEW n \in DOMAIN log', log'[n].kind = "REVERSED"
      PROVE  \E k \in DOMAIN log' : k < n /\ log'[k].kind = "REFUND"
                                    /\ log'[k].txn = log'[n].txn
  <2>1. CASE n \in DOMAIN log
    BY <1>2, <1>5, <2>1 DEF LogOrder
  <2>2. CASE n \in New
    <3>1. Refunded(t)
      BY <1>5, <2>2 DEF Reports, Charges, Upgrades, Offers
    <3>2. PICK k \in DOMAIN log : log[k].kind = "REFUND" /\ log[k].txn = t
      BY <3>1 DEF Refunded
    <3> QED BY <1>2, <1>4, <2>2, <3>2
  <2> QED BY <1>2, <2>1, <2>2
<1>6. ASSUME NEW c \in DOMAIN log', NEW n \in DOMAIN log', log'[c].kind \in Charges
      PROVE  /\ log'[n].kind \in Reversals /\ log'[n].txn = log'[c].txn => c < n
             /\ log'[n].kind \in Charges /\ log'[c].txn < log'[n].txn => c < n
  <2>1. CASE c \in DOMAIN log /\ n \in DOMAIN log
    BY <1>2, <1>6, <2>1 DEF LogOrder
  <2>2. CASE c \in DOMAIN log /\ n \in New
    BY <1>2, <2>2
  <2>3. CASE c \in New /\ n \in DOMAIN log
    <3>1. t = Len(charges) + 1 /\ log'[c].txn = t
      BY <1>3, <1>6, <2>3 DEF Reports
    <3>2. log'[n].txn \in 1 .. Len(charges)
      BY <1>1, <1>2, <2>3
    <3> QED BY <1>1, <3>1, <3>2
  <2>4. CASE c \in New /\ n \in New
    <3>1. log'[c].txn = t /\ log'[n].txn = t /\ log'[n].kind \in Charges
          /\ t = Len(charges) + 1
      BY <1>6, <2>4 DEF Reports
    <3>2. log'[n].kind \notin Reversals
      BY <3>1 DEF Reversals, Charges, Upgrades, Offers
    <3> QED BY <1>1, <3>1, <3>2
  <2> QED BY <1>2, <2>1, <2>2, <2>3, <2>4
<1>7. ASSUME NEW c \in DOMAIN log', NEW d \in DOMAIN log', NEW n \in c + 1 .. d - 1,
             log'[c].txn = log'[d].txn, log'[c].kind \in Charges, log'[d].kind \in Charges
      PROVE  log'[n].kind \in Charges
  <2>1. n \in DOMAIN log' /\ c < n /\ n < d
    BY <1>1
  <2>2. CASE d \in DOMAIN log
    <3>1. c \in DOMAIN log /\ n \in DOMAIN log
      BY <1>1, <2>1, <2>2
    <3> QED BY <1>2, <1>7, <2>2, <3>1 DEF LogOrder
  <2>3. CASE d \in New
    <3>1. c \in New
      BY <1>1, <1>2, <1>3, <1>7, <2>3
    <3>2. n \in New
      BY <1>1, <1>2, <2>1, <3>1
    <3> QED BY <1>7, <2>3, <3>2 DEF Reports
  <2> QED BY <1>2, <2>2, <2>3
<1>8. ASSUME NEW m \in inbox', m.kind = "RECEIPT"
      PROVE  log'[m.n].kind \in Charges
  <2>1. m.n \in DOMAIN log /\ log[m.n].kind \in Charges
    BY <1>8 DEF Reports, LogOrder, StoreTyped
  <2> QED BY <1>2, <2>1
<1> QED BY <1>5, <1>6, <1>7, <1>8 DEF LogOrder

(* Apple and the clients disturb no row, and what they add is pending.     *)
LEMMA OutsideUnskewed ==
  ASSUME TypeInv, TypeInv', StoreGrows, Outside, Unskewed, NEW t, Reports(t)
  PROVE  Unskewed'
<1>1. \A u \in Txn : Known(u)' => Known(u) /\ u \in DOMAIN charges
  BY DEF Outside, Known, TypeInv, RowsTyped
<1>2. \A u \in DOMAIN charges : ChargesOf(u)' = ChargesOf(u)
  <2> SUFFICES ASSUME NEW u \in DOMAIN charges PROVE ChargesOf(u)' = ChargesOf(u)
    OBVIOUS
  <2>1. DOMAIN log' = DOMAIN log \cup New /\ \A n \in DOMAIN log : log'[n] = log[n]
    BY DEF New, StoreGrows
  <2>3. \A n \in New : ~(log'[n].txn = u /\ log'[n].kind \in Charges)
    BY NewCharges DEF TypeInv
  <2> QED BY <2>1, <2>3 DEF ChargesOf
<1>3. \A u \in Txn : RowGiven(u)'
  <2> SUFFICES ASSUME NEW u \in Txn, Known(u)' PROVE RowGiven(u)'
    BY DEF RowGiven
  <2>1. RowGiven(u) /\ Known(u) /\ ChargesOf(u)' = ChargesOf(u)
    BY <1>1, <1>2 DEF Unskewed
  <2>2. rows' = rows /\ given' = given
    BY DEF Outside
  <2> QED BY <2>1, <2>2 DEF RowGiven, Past, Known
<1>4. \A p \in Worker : RetiresGiven(p)'
  BY DEF Unskewed, RetiresGiven, Outside
<1>5. \A m : Pending(m) => Pending(m)'
  BY DEF Pending, Outside
<1>6. ASSUME NEW m \in inbox', m.n \in New
      PROVE  Pending(m)'
  <2>1. m # NoMsg /\ m \notin inbox
    BY <1>6, Absent DEF New, TypeInv, StoreTyped
  <2>2. \A p \in Worker : job[p].msg # m
    BY <2>1 DEF TypeInv, JobsTyped
  <2> QED BY <2>2 DEF Pending, Outside
<1>7. \A u, key : Booked(u, key)' <=> Booked(u, key)
  BY DEF Booked, Outside
<1>8. ASSUME NEW u \in DOMAIN charges'
      PROVE  ChargeDue(u)'
  <2>1. CASE u \in DOMAIN charges
    <3>1. ChargeDue(u)
      BY <2>1 DEF Unskewed
    <3>2. CASE Booked(u, "purchase")
      BY <1>7, <3>2 DEF ChargeDue
    <3>3. CASE \E m \in inbox : m.kind \in Charges /\ m.txn = u /\ Pending(m)
      BY <1>5, <3>3 DEF ChargeDue, Outside
    <3> QED BY <3>1, <3>2, <3>3 DEF ChargeDue
  <2>2. CASE u \notin DOMAIN charges
    <3>1. u = t /\ New # {} /\ \A n \in New : log'[n].kind \in Charges
      BY <2>2 DEF Reports
    <3>2. PICK n \in New : [n |-> n, kind |-> log'[n].kind, txn |-> t] \in inbox'
                           /\ log'[n].kind \in Charges
      BY <3>1 DEF Reports
    <3>3. PICK m : m = [n |-> n, kind |-> log'[n].kind, txn |-> t]
      OBVIOUS
    <3>4. m \in inbox' /\ m.kind \in Charges /\ m.txn = u /\ m.n \in New
      BY <3>1, <3>2, <3>3
    <3>5. Pending(m)'
      BY <1>6, <3>4
    <3> QED BY <3>4, <3>5 DEF ChargeDue
  <2> QED BY <2>1, <2>2
<1>9. ASSUME NEW n \in DOMAIN log', NEW e, e = log'[n], e.kind \in Reversals
      PROVE  \/ Booked(e.txn, BookKey(e.kind))'
             \/ Pending([n |-> n, kind |-> e.kind, txn |-> e.txn])'
             \/ Dropped(n, e.txn)'
  <2>1. CASE n \in DOMAIN log
    <3>1. e = log[n]
      BY <1>9, <2>1 DEF StoreGrows
    <3>2. \/ Booked(e.txn, BookKey(e.kind))
          \/ Pending([n |-> n, kind |-> e.kind, txn |-> e.txn])
          \/ Dropped(n, e.txn)
      BY <1>9, <2>1, <3>1 DEF Unskewed, ReversalDue
    <3>3. Dropped(n, e.txn) => Dropped(n, e.txn)'
      BY DEF Dropped, Outside
    <3> QED BY <1>5, <1>7, <3>2, <3>3
  <2>2. CASE n \in New
    <3>1. PICK m : m = [n |-> n, kind |-> e.kind, txn |-> e.txn]
      OBVIOUS
    <3>2. m \in inbox' /\ m.n \in New
      BY <1>9, <2>2, <3>1 DEF Reports
    <3>3. Pending(m)'
      BY <1>6, <3>2
    <3> QED BY <3>1, <3>3
  <2> QED BY <2>1, <2>2 DEF New
<1>10. \A n \in DOMAIN log' : ReversalDue(n)'
  <2> SUFFICES ASSUME NEW n \in DOMAIN log' PROVE ReversalDue(n)'
    OBVIOUS
  <2>1. PICK e : e = log'[n]
    OBVIOUS
  <2> QED BY <1>9, <2>1 DEF ReversalDue
<1> QED BY <1>3, <1>4, <1>8, <1>10 DEF Unskewed

(* The same of the rest of the account.                                    *)
LEMMA OutsideAccount ==
  ASSUME TypeInv, TypeInv', AccountInv, AppStore
  PROVE  AccountInv'
<1>1. StoreTyped /\ StoreTyped' /\ StoreGrows /\ Outside
  BY AppStoreTyped DEF TypeInv
<1>2. PICK t : Reports(t)
  BY <1>1, AppStoreReports
<1>3. LogOrder'
  BY <1>1, <1>2, LogOrderGrows DEF AccountInv
<1>4. BookedHappened'
  <2> SUFFICES ASSUME NEW r, r \in revenue'
               PROVE  (/\ r.key = "purchase" => Known(r.txn)
                       /\ r.key = "refund" => After(0, "REFUND", r.txn)
                       /\ r.key = "reactivation" => After(0, "REVERSED", r.txn))'
    BY DEF BookedHappened
  <2>1. /\ r.key = "purchase" => Known(r.txn)
        /\ r.key = "refund" => After(0, "REFUND", r.txn)
        /\ r.key = "reactivation" => After(0, "REVERSED", r.txn)
    BY <1>1 DEF AccountInv, BookedHappened, Outside
  <2>2. Known(r.txn) => Known(r.txn)'
    BY <1>1 DEF Known, Outside
  <2> QED BY <1>1, <2>1, <2>2, AfterStays
<1>5. \A p \in Worker : ChargeKnown(job[p])'
  <2> SUFFICES ASSUME NEW p \in Worker PROVE ChargeKnown(job[p])'
    OBVIOUS
  <2>1. job' = job /\ rows' = rows /\ ChargeKnown(job[p])
    BY <1>1 DEF AccountInv, Outside
  <2> QED BY <2>1 DEF ChargeKnown, Known
<1>6. given' \in [Txn -> Nat]
  BY <1>1 DEF AccountInv, Outside
<1>7. ~skewed' => Unskewed'
  BY <1>1, <1>2, OutsideUnskewed DEF AccountInv, Outside
<1> QED BY <1>3, <1>4, <1>5, <1>6, <1>7 DEF AccountInv

(* What a step of a handler does to the newest events given to the rows.   *)
GivenStep ==
    /\ given' \in [Txn -> Nat] /\ (skewed => skewed')
    /\ ~skewed' => \A u \in Txn : given'[u] >= given[u]

(* A write that overtakes nothing.                                         *)
LEMMA WriteGiven ==
  ASSUME given \in [Txn -> Nat], NEW g \in [Txn -> Nat], NEW overtaken, Write(g, overtaken),
         \A u \in Txn : g[u] >= given[u]
  PROVE  GivenStep /\ (~skewed' => ~overtaken /\ given' = g)
<1>1. given' = IF skewed' THEN [t \in Txn |-> 0] ELSE g
  BY DEF Write
<1>2. given' \in [Txn -> Nat]
  BY <1>1
<1> QED BY <1>1, <1>2 DEF Write, GivenStep

(* The later of two events.                                                *)
LEMMA LaterOf ==
  ASSUME NEW a \in Nat, NEW b \in Nat
  PROVE  Later(a, b) \in Nat /\ Later(a, b) >= a /\ Later(a, b) >= b
  BY DEF Later

(* A write of one row gives it its event, and overtakes none.              *)
LEMMA OneGiven ==
  ASSUME given \in [Txn -> Nat], NEW m, m.txn \in Txn, m.n \in Nat,
         NEW applied, Given(m, applied)
  PROVE  /\ GivenStep
         /\ ~skewed' => /\ ~(m.n < given[m.txn] /\ (applied \/ m.kind # "RECEIPT"))
                        /\ given'[m.txn] >= m.n
<1>1. PICK g : g = [given EXCEPT ![m.txn] = Later(@, m.n)]
  OBVIOUS
<1>2. g \in [Txn -> Nat] /\ g[m.txn] = Later(given[m.txn], m.n)
      /\ \A u \in Txn \ {m.txn} : g[u] = given[u]
  BY <1>1, LaterOf
<1>3. Write(g, m.n < given[m.txn] /\ (applied \/ m.kind # "RECEIPT"))
  BY <1>1 DEF Given
<1>0. PICK old, at \in Nat : old = given[m.txn] /\ at = m.n
  OBVIOUS
<1>5. g[m.txn] >= m.n /\ g[m.txn] >= given[m.txn]
  BY <1>0, <1>2, LaterOf
<1>4. \A u \in Txn : g[u] >= given[u]
  <2>1. \A u \in Txn : given[u] \in Nat
    OBVIOUS
  <2> QED BY <1>2, <1>5, <2>1
<1>6. GivenStep /\ (~skewed' => /\ ~(m.n < given[m.txn] /\ (applied \/ m.kind # "RECEIPT"))
                                /\ given' = g)
  BY <1>2, <1>3, <1>4, WriteGiven
<1> QED BY <1>5, <1>6

(* A write of the chain gives its event to every row.                      *)
LEMMA AllGiven ==
  ASSUME given \in [Txn -> Nat], NEW n \in Nat, ChainGiven(n)
  PROVE  /\ GivenStep
         /\ ~skewed' => \A u \in Txn : /\ given'[u] >= n
                                       /\ rows[u] # NoRow => given[u] <= n
<1>1. PICK g : g = [t \in Txn |-> Later(given[t], n)]
  OBVIOUS
<1>2. g \in [Txn -> Nat] /\ \A u \in Txn : g[u] >= given[u] /\ g[u] >= n
  BY <1>1, LaterOf
<1>3. Write(g, \E t \in Txn : rows[t] # NoRow /\ n < given[t])
  BY <1>1 DEF ChainGiven
<1>4. GivenStep /\ (~skewed' => /\ ~(\E t \in Txn : rows[t] # NoRow /\ n < given[t])
                                /\ given' = g)
  BY <1>2, <1>3, WriteGiven
<1> QED BY <1>2, <1>4

(* What waits or is in hand, as an event.                                  *)
LEMMA Events ==
  ASSUME TypeInv, LogOrder, NEW m \in inbox
  PROVE  /\ m \in Message /\ m.n \in DOMAIN log /\ m.n \in 1 .. MaxEvents /\ m.n \in Nat
         /\ m.txn \in Txn /\ m.txn = log[m.n].txn
         /\ m.kind \in Charges <=> log[m.n].kind \in Charges
         /\ m.kind \notin Charges => m.kind = log[m.n].kind
<1>1. /\ m \in Message /\ m.n \in DOMAIN log /\ m.txn = log[m.n].txn
      /\ m.kind = log[m.n].kind \/ m.kind = "RECEIPT"
  BY DEF TypeInv, StoreTyped
<1>2. m.kind = "RECEIPT" => log[m.n].kind \in Charges
  BY DEF LogOrder
<1>3. m.n \in 1 .. MaxEvents /\ m.n \in Nat /\ m.txn \in Txn
  BY <1>1, Numbers DEF Message
<1> QED BY <1>1, <1>2, <1>3 DEF Charges

(* What a step may do to a row that has been given its events.             *)
RowWrite(u) ==
    Known(u)' =>
      \/ /\ Known(u)
         /\ rows'[u].status \in Lost => rows[u].status \in Lost \/ Past(u)'
         /\ rows'[u].at = rows[u].at \/ rows'[u].at <= given'[u] \/ Past(u)'
      \/ /\ rows'[u].at <= given'[u] /\ rows'[u].status \notin Lost
         /\ \E c \in ChargesOf(u) : given[u] <= c /\ c <= given'[u]

(* What was written since the charge still is.                             *)
LEMMA PastStays ==
  ASSUME TypeInv, given \in [Txn -> Nat], GivenStep, ~skewed', UNCHANGED log,
         NEW u \in Txn, Past(u)
  PROVE  Past(u)'
<1>1. ChargesOf(u)' = ChargesOf(u) /\ ChargesOf(u) \subseteq Nat
  BY DEF ChargesOf, TypeInv, StoreTyped
<1>2. given'[u] >= given[u] /\ given[u] \in Nat /\ given'[u] \in Nat
  BY DEF GivenStep
<1>3. \A c \in ChargesOf(u)' : c < given'[u]
  BY <1>1, <1>2 DEF Past
<1> QED BY <1>3 DEF Past

(* So a row stays as new as what it was given.                             *)
LEMMA RowGivenStays ==
  ASSUME TypeInv, TypeInv', given \in [Txn -> Nat], GivenStep, ~skewed', UNCHANGED log,
         NEW u \in Txn, RowGiven(u), RowWrite(u)
  PROVE  RowGiven(u)'
<1> SUFFICES ASSUME Known(u)' PROVE RowGiven(u)'
  BY DEF RowGiven
<1>1. ChargesOf(u)' = ChargesOf(u) /\ ChargesOf(u) \subseteq Nat
  BY DEF ChargesOf, TypeInv, StoreTyped
<1>2. given'[u] >= given[u] /\ given[u] \in Nat /\ given'[u] \in Nat
  BY DEF GivenStep
<1>3. Past(u) => Past(u)'
  BY PastStays
<1>4. CASE /\ Known(u)
           /\ rows'[u].status \in Lost => rows[u].status \in Lost \/ Past(u)'
           /\ rows'[u].at = rows[u].at \/ rows'[u].at <= given'[u] \/ Past(u)'
  <2>1. /\ rows[u].at <= given[u] \/ Past(u)
        /\ rows[u].status \in Lost => Past(u)
        /\ \E c \in ChargesOf(u) : c <= given[u]
    BY <1>4 DEF RowGiven
  <2>2. rows[u].at \in Nat
    BY <1>4, Numbers DEF Known, TypeInv, RowsTyped, Kept
  <2>3. rows'[u].at <= given'[u] \/ Past(u)'
    BY <1>2, <1>3, <1>4, <2>1, <2>2
  <2>4. rows'[u].status \in Lost => Past(u)'
    BY <1>3, <1>4, <2>1
  <2>5. \E c \in ChargesOf(u)' : c <= given'[u]
    BY <1>1, <1>2, <2>1
  <2> QED BY <2>3, <2>4, <2>5 DEF RowGiven
<1>5. CASE /\ rows'[u].at <= given'[u] /\ rows'[u].status \notin Lost
           /\ \E c \in ChargesOf(u) : given[u] <= c /\ c <= given'[u]
  BY <1>1, <1>5 DEF RowGiven
<1> QED BY <1>4, <1>5 DEF RowWrite

(* A row that is left alone.                                               *)
LEMMA SameRow ==
  ASSUME NEW u \in Txn, rows'[u] = rows[u]
  PROVE  RowWrite(u)
  BY DEF RowWrite, Known

(* A status that the guard and the CASE let through.                       *)
LEMMA WrittenFields ==
  ASSUME NEW r \in Kept, NEW to \in Status, NEW n \in 1 .. MaxEvents
  PROVE  /\ written(r, to, n).at = n
         /\ written(r, to, n).status = IF r.status \in Terminal THEN r.status ELSE to
<1>1. PICK s : s = caseGuarded(r.status, to)
  OBVIOUS
<1>2. written(r, to, n) = [r EXCEPT !.status = s, !.at = n]
  BY <1>1 DEF written
<1>3. written(r, to, n).at = n /\ written(r, to, n).status = s
  BY <1>2 DEF Kept
<1> QED BY <1>1, <1>3 DEF caseGuarded

(* The recovery of the rest of the chain.                                  *)
LEMMA RetiredRow ==
  ASSUME TypeInv, given \in [Txn -> Nat], GivenStep, ~skewed', UNCHANGED log,
         NEW t \in Txn, NEW n \in 1 .. MaxEvents, NEW u \in Txn, u # t, RowGiven(u),
         NEW own, own[u] = rows[u],
         rows' = own \/ rows' = retireChainBillingIssue(own, t, n)
  PROVE  RowWrite(u)
<1>1. rows'[u] = rows[u] \/ (rows[u].status = "BILLING_ISSUE"
                               /\ rows'[u] = written(rows[u], "EXPIRED", n))
  BY DEF retireChainBillingIssue
<1>2. CASE rows'[u] = rows[u]
  BY <1>2, SameRow
<1>3. CASE rows[u].status = "BILLING_ISSUE" /\ rows'[u] = written(rows[u], "EXPIRED", n)
  <2>1. Known(u) /\ rows[u] \in Kept /\ "EXPIRED" \in Status
    BY <1>3, NoRowStatus DEF Known, TypeInv, RowsTyped, Status
  <2>2. rows'[u].status = "EXPIRED"
    BY <1>3, <2>1, WrittenFields DEF Terminal
  <2>3. Past(u)
    BY <1>3, <2>1 DEF RowGiven, Lost
  <2>4. Past(u)'
    BY <2>3, PastStays
  <2> QED BY <2>1, <2>2, <2>4 DEF RowWrite, Lost, Terminal
<1> QED BY <1>1, <1>2, <1>3

(* A step of a handler on the rows and what they were given.               *)
AccountStep == GivenStep /\ (~skewed' => \A u \in Txn : RowWrite(u))

(* A step that writes no row and overtakes nothing.                        *)
LEMMA NoWrite ==
  ASSUME AccountInv, UNCHANGED <<rows, given, skewed>>
  PROVE  AccountStep
<1>1. GivenStep
  BY DEF GivenStep, AccountInv
<1> QED BY <1>1, SameRow DEF AccountStep

(* The upsert: the row has a newer event, the rest of the chain is retired.*)
LEMMA UpsertAccount ==
  ASSUME TypeInv, AccountInv, NEW p \in Worker, NEW m \in inbox, upsertPurchase(p, m)
  PROVE  /\ AccountStep
         /\ ~skewed' /\ m.kind # "RECEIPT" => guardStatusWrite(rows[m.txn], "ACTIVE", m.n, {})
<1> DEFINE r == rows[m.txn]
           apply == guardStatusWrite(r, "ACTIVE", m.n, {})
           w == IF apply THEN written(r, "ACTIVE", m.n) ELSE r
           own == [rows EXCEPT ![m.txn] = w]
<1>1. /\ r # NoRow /\ m.kind \in Charges /\ Given(m, apply) /\ UNCHANGED log
      /\ rows' = own \/ rows' = retireChainBillingIssue(own, m.txn, m.n)
  BY DEF upsertPurchase, storeVars
<1>2. /\ m \in Message /\ m.n \in DOMAIN log /\ m.n \in 1 .. MaxEvents /\ m.n \in Nat
      /\ m.txn \in Txn /\ m.txn = log[m.n].txn /\ log[m.n].kind \in Charges
  BY <1>1, Events DEF AccountInv
<1>3. r \in Kept /\ "ACTIVE" \in Status /\ rows \in [Txn -> Kept \cup {NoRow}]
      /\ Known(m.txn)
  BY <1>1, <1>2 DEF TypeInv, RowsTyped, Status, Known
<1>4. /\ GivenStep /\ given \in [Txn -> Nat]
      /\ ~skewed' => /\ ~(m.n < given[m.txn] /\ (apply \/ m.kind # "RECEIPT"))
                     /\ given'[m.txn] >= m.n
  BY <1>1, <1>2, OneGiven DEF AccountInv
<1>5. own[m.txn] = w /\ \A u \in Txn \ {m.txn} : own[u] = rows[u]
  BY <1>2, <1>3
<1> HIDE DEF own
<1>6. rows'[m.txn] = w
  <2>1. own[m.txn] = w => retireChainBillingIssue(own, m.txn, m.n)[m.txn] = w
    BY <1>2 DEF retireChainBillingIssue
  <2> QED BY <1>1, <1>5, <2>1
<1>7. ASSUME ~skewed' PROVE RowWrite(m.txn)
  <2>1. CASE apply
    <3>1. w = written(r, "ACTIVE", m.n)
      BY <2>1
    <3>2. rows'[m.txn].at = m.n
          /\ rows'[m.txn].status = IF r.status \in Terminal THEN r.status ELSE "ACTIVE"
      BY <1>2, <1>3, <1>6, <3>1, WrittenFields
    <3> HIDE DEF apply, w
    <3>3. rows'[m.txn].at <= given'[m.txn]
      BY <1>2, <1>4, <1>7, <3>2 DEF GivenStep
    <3>4. rows'[m.txn].status \in Lost => rows[m.txn].status \in Lost
      BY <3>2 DEF Lost, Terminal
    <3> QED BY <1>3, <3>3, <3>4 DEF RowWrite
  <2>2. CASE ~apply
    <3>1. rows'[m.txn] = rows[m.txn]
      BY <1>6, <2>2
    <3> QED BY <1>2, <3>1, SameRow
  <2> QED BY <2>1, <2>2
<1>8. ASSUME ~skewed', NEW u \in Txn, u # m.txn PROVE RowWrite(u)
  <2>1. RowGiven(u)
    BY <1>4, <1>8 DEF AccountInv, Unskewed, GivenStep
  <2>2. own[u] = rows[u]
    BY <1>5, <1>8
  <2> QED BY <1>1, <1>2, <1>4, <1>8, <2>1, <2>2, RetiredRow
<1>9. AccountStep
  BY <1>4, <1>7, <1>8 DEF AccountStep
<1>10. ASSUME ~skewed', m.kind # "RECEIPT" PROVE apply
  <2>1. m.n >= given[m.txn] /\ given[m.txn] \in Nat
    BY <1>2, <1>4, <1>10
  <2>2. RowGiven(m.txn)
    BY <1>2, <1>4, <1>10 DEF AccountInv, Unskewed, GivenStep
  <2>3. m.n \in ChargesOf(m.txn)
    BY <1>2 DEF ChargesOf
  <2>4. ~Past(m.txn)
    BY <1>2, <2>1, <2>3 DEF Past
  <2>5. r.at <= given[m.txn] /\ r.status \notin Terminal /\ r.at \in Nat
    BY <1>3, <2>2, <2>4, Numbers DEF RowGiven, Lost, Kept
  <2>6. ~(m.n < r.at)
    BY <1>2, <2>1, <2>5
  <2>7. "ACTIVE" \in Transitions(r.status)
    <3>1. r.status \in Status \ Terminal
      BY <1>3, <2>5 DEF Kept
    <3> QED BY <3>1 DEF Transitions, Status, Terminal
  <2> QED BY <2>6, <2>7 DEF guardStatusWrite
<1> QED BY <1>9, <1>10

(* The insert, or the upsert of a row that came first.                     *)
LEMMA InsertAccount ==
  ASSUME TypeInv, AccountInv, KindInv, NEW p \in Worker, insertPurchase(p)
  PROVE  /\ AccountStep
         /\ ~skewed' => given[job[p].msg.txn] <= job[p].msg.n
<1> DEFINE r == rows[job[p].msg.txn]
           w == IF r = NoRow THEN [NoRow EXCEPT !.status = "ACTIVE", !.at = job[p].msg.n]
                ELSE written(r, "ACTIVE", job[p].msg.n)
           own == [rows EXCEPT ![job[p].msg.txn] = w]
<1>0. PICK m : m = job[p].msg
  OBVIOUS
<1>1. /\ At(p, "insert") /\ Given(m, TRUE) /\ UNCHANGED log
      /\ rows' = own \/ rows' = retireChainBillingIssue(own, m.txn, m.n)
  BY <1>0 DEF insertPurchase, storeVars
<1>2. m \in inbox /\ m.kind \in Charges
  BY <1>0, <1>1, AtWork DEF At, KindInv, KindOf
<1>3. /\ m \in Message /\ m.n \in DOMAIN log /\ m.n \in 1 .. MaxEvents /\ m.n \in Nat
      /\ m.txn \in Txn /\ m.txn = log[m.n].txn /\ log[m.n].kind \in Charges
  BY <1>2, Events DEF AccountInv
<1>4. r \in Kept \cup {NoRow} /\ "ACTIVE" \in Status /\ rows \in [Txn -> Kept \cup {NoRow}]
  BY <1>0, <1>3 DEF TypeInv, RowsTyped, Status
<1>5. /\ GivenStep /\ given \in [Txn -> Nat]
      /\ ~skewed' => ~(m.n < given[m.txn]) /\ given'[m.txn] >= m.n
  BY <1>1, <1>3, OneGiven DEF AccountInv
<1>6. own[m.txn] = w /\ \A u \in Txn \ {m.txn} : own[u] = rows[u]
  BY <1>0, <1>3, <1>4
<1> HIDE DEF own
<1>7. rows'[m.txn] = w
  <2>1. own[m.txn] = w => retireChainBillingIssue(own, m.txn, m.n)[m.txn] = w
    BY <1>3 DEF retireChainBillingIssue
  <2> QED BY <1>1, <1>6, <2>1
<1>8. ASSUME ~skewed' PROVE RowWrite(m.txn)
  <2>1. CASE r = NoRow
    <3>1. w.at = m.n /\ w.status = "ACTIVE"
      BY <1>0, <2>1 DEF NoRow
    <3>2. m.n \in ChargesOf(m.txn)
      BY <1>3 DEF ChargesOf
    <3>3. /\ rows'[m.txn].at <= given'[m.txn] /\ m.n <= given'[m.txn]
          /\ given[m.txn] <= m.n
      <4>1. given[m.txn] \in Nat /\ given'[m.txn] \in Nat
        BY <1>3, <1>5 DEF GivenStep
      <4> QED BY <1>3, <1>5, <1>7, <1>8, <3>1, <4>1
    <3> HIDE DEF w
    <3> QED BY <1>7, <3>1, <3>2, <3>3 DEF RowWrite, Lost, Terminal
  <2>2. CASE r # NoRow
    <3>1. w = written(r, "ACTIVE", m.n) /\ r \in Kept
      BY <1>0, <1>4, <2>2
    <3> HIDE DEF w, r
    <3>2. rows'[m.txn].at = m.n
          /\ rows'[m.txn].status = IF r.status \in Terminal THEN r.status ELSE "ACTIVE"
      BY <1>3, <1>4, <1>7, <3>1, WrittenFields
    <3> USE DEF r
    <3>3. rows'[m.txn].at <= given'[m.txn]
      BY <1>3, <1>5, <1>8, <3>2 DEF GivenStep
    <3>4. rows'[m.txn].status \in Lost => rows[m.txn].status \in Lost
      BY <1>0, <3>2 DEF Lost, Terminal
    <3>5. Known(m.txn)
      BY <1>0, <1>3, <2>2 DEF Known
    <3> QED BY <3>3, <3>4, <3>5 DEF RowWrite
  <2> QED BY <2>1, <2>2
<1>9. ASSUME ~skewed', NEW u \in Txn, u # m.txn PROVE RowWrite(u)
  <2>1. RowGiven(u)
    BY <1>5, <1>9 DEF AccountInv, Unskewed, GivenStep
  <2>2. own[u] = rows[u]
    BY <1>6, <1>9
  <2> QED BY <1>1, <1>3, <1>5, <1>9, <2>1, <2>2, RetiredRow
<1>10. ~skewed' => given[m.txn] <= m.n
  <2>1. given[m.txn] \in Nat
    BY <1>3, <1>5
  <2> QED BY <1>3, <1>5, <2>1
<1> QED BY <1>0, <1>5, <1>8, <1>9, <1>10 DEF AccountStep

(* A write of the whole chain is after every charge it knows.              *)
LEMMA ChainPast ==
  ASSUME TypeInv, AccountInv, GivenStep, ~skewed', UNCHANGED log, NEW n \in DOMAIN log,
         log[n].kind \notin Charges, NEW u \in Txn, Known(u),
         given[u] <= n, given'[u] >= n
  PROVE  Past(u)'
<1>1. ChargesOf(u)' = ChargesOf(u) /\ DOMAIN log \subseteq Nat
  BY DEF ChargesOf, TypeInv, StoreTyped
<1>2. given[u] \in Nat /\ given'[u] \in Nat /\ n \in Nat
  BY <1>1 DEF AccountInv, GivenStep
<1>3. PICK c \in ChargesOf(u) : c <= given[u]
  BY DEF AccountInv, Unskewed, RowGiven, GivenStep
<1>4. c < n
  <2>1. c # n /\ c \in Nat
    BY <1>1 DEF ChargesOf
  <2> QED BY <1>2, <1>3, <2>1
<1>5. ASSUME NEW d \in ChargesOf(u)
      PROVE  d < n
  <2> SUFFICES ASSUME ~(d < n) PROVE FALSE
    OBVIOUS
  <2>1. d \in Nat /\ c \in Nat /\ d # n
    BY <1>1 DEF ChargesOf
  <2>2. n \in c + 1 .. d - 1
    BY <1>2, <1>4, <2>1
  <2>3. /\ c \in DOMAIN log /\ d \in DOMAIN log /\ log[c].txn = log[d].txn
        /\ log[c].kind \in Charges /\ log[d].kind \in Charges
    BY DEF ChargesOf
  <2> QED BY <2>2, <2>3 DEF AccountInv, LogOrder
<1>6. \A d \in ChargesOf(u)' : d < given'[u]
  <2>1. ChargesOf(u) \subseteq Nat
    BY <1>1 DEF ChargesOf
  <2> QED BY <1>1, <1>2, <1>5, <2>1
<1> QED BY <1>6 DEF Past

(* So is the write itself.                                                 *)
LEMMA ChainAccount ==
  ASSUME TypeInv, AccountInv, NEW m \in inbox, m.kind \notin Charges, NEW to \in Status,
         NEW grace, rows' = updateChainStatusGuarded(to, grace), ChainGiven(m.n),
         UNCHANGED log
  PROVE  AccountStep
<1>1. m.n \in DOMAIN log /\ m.n \in Nat /\ log[m.n].kind \notin Charges
  BY Events DEF AccountInv
<1>2. GivenStep /\ (~skewed' => \A u \in Txn : /\ given'[u] >= m.n
                                               /\ rows[u] # NoRow => given[u] <= m.n)
  BY <1>1, AllGiven DEF AccountInv
<1>3. ASSUME ~skewed', NEW u \in Txn PROVE RowWrite(u)
  <2>1. CASE rows[u] = NoRow \/ rows[u].status \in Terminal
    <3>1. rows'[u] = rows[u]
      BY <2>1 DEF updateChainStatusGuarded
    <3> QED BY <3>1, SameRow
  <2>2. CASE rows[u] # NoRow /\ rows[u].status \notin Terminal
    <3>1. Known(u) /\ rows[u] \in Kept
      BY <2>2 DEF Known, TypeInv, RowsTyped
    <3>2. Past(u)'
      BY <1>1, <1>2, <1>3, <2>2, <3>1, ChainPast
    <3> QED BY <3>1, <3>2 DEF RowWrite
  <2> QED BY <2>1, <2>2
<1> QED BY <1>2, <1>3 DEF AccountStep

(* A refund comes after every report of its charge.                        *)
LEMMA RefundAccount ==
  ASSUME TypeInv, AccountInv, NEW p \in Worker, NEW m \in inbox, applyRefund(p, m)
  PROVE  AccountStep /\ (~skewed' => given'[m.txn] >= m.n)
<1> DEFINE r == rows[m.txn]
           apply == r # NoRow /\ guardStatusWrite(r, "REFUNDED", m.n, {})
<1>1. /\ m.kind = "REFUND" /\ Given(m, apply) /\ UNCHANGED log
      /\ rows' = IF apply THEN [rows EXCEPT ![m.txn] = written(r, "REFUNDED", m.n)]
                 ELSE rows
  BY DEF applyRefund, storeVars
<1>2. m.kind \notin Charges
  BY <1>1 DEF Charges, Upgrades, Offers
<1>3. /\ m \in Message /\ m.n \in DOMAIN log /\ m.n \in 1 .. MaxEvents /\ m.n \in Nat
      /\ m.txn \in Txn /\ m.txn = log[m.n].txn /\ log[m.n].kind = "REFUND"
  BY <1>1, <1>2, Events DEF AccountInv
<1>4. /\ GivenStep /\ given \in [Txn -> Nat]
      /\ ~skewed' => given'[m.txn] >= m.n
  BY <1>1, <1>3, OneGiven DEF AccountInv
<1>5. ASSUME ~skewed', NEW u \in Txn PROVE RowWrite(u)
  <2>1. CASE u # m.txn \/ ~apply
    <3>1. rows'[u] = rows[u]
      BY <1>1, <2>1
    <3> QED BY <3>1, SameRow
  <2>2. CASE u = m.txn /\ apply
    <3>1. Known(u)
      BY <1>3, <2>2 DEF Known
    <3>2. \A c \in ChargesOf(u)' : c < m.n /\ c \in Nat
      <4>1. ChargesOf(u)' = ChargesOf(u) /\ ChargesOf(u) \subseteq Nat
        BY <1>1 DEF ChargesOf, TypeInv, StoreTyped
      <4>2. \A c \in ChargesOf(u) : c < m.n
        BY <1>3, <2>2 DEF ChargesOf, AccountInv, LogOrder, Reversals
      <4> QED BY <4>1, <4>2
    <3>3. Past(u)'
      <4>1. given'[u] >= m.n /\ given'[u] \in Nat
        BY <1>4, <1>5, <2>2 DEF GivenStep
      <4>2. \A c \in ChargesOf(u)' : c < given'[u]
        BY <1>3, <3>2, <4>1
      <4> QED BY <4>2 DEF Past
    <3> QED BY <3>1, <3>3 DEF RowWrite
  <2> QED BY <2>1, <2>2
<1> QED BY <1>4, <1>5 DEF AccountStep

(* Its reversal restores or ends the row.                                  *)
LEMMA ReversedAccount ==
  ASSUME TypeInv, AccountInv, NEW p \in Worker, NEW m \in inbox, applyRefundReversed(p, m)
  PROVE  AccountStep /\ (~skewed' => given'[m.txn] >= m.n)
<1>1. PICK to \in {"ACTIVE", "EXPIRED"} :
        to = IF charges[m.txn].exp > clock THEN "ACTIVE" ELSE "EXPIRED"
  OBVIOUS
<1> DEFINE r == rows[m.txn]
           apply == r # NoRow /\ guardStatusWrite(r, to, m.n, {"REFUNDED"})
<1>2. /\ m.kind = "REVERSED" /\ Given(m, apply) /\ UNCHANGED log
      /\ rows' = IF apply THEN [rows EXCEPT ![m.txn].status = to, ![m.txn].at = m.n]
                 ELSE rows
  BY <1>1 DEF applyRefundReversed, storeVars
<1>3. /\ m \in Message /\ m.n \in DOMAIN log /\ m.n \in 1 .. MaxEvents /\ m.n \in Nat
      /\ m.txn \in Txn
  BY Events DEF AccountInv
<1>4. /\ GivenStep /\ given \in [Txn -> Nat]
      /\ ~skewed' => given'[m.txn] >= m.n
  BY <1>2, <1>3, OneGiven DEF AccountInv
<1>5. ASSUME ~skewed', NEW u \in Txn PROVE RowWrite(u)
  <2>1. CASE ~apply
    <3>1. rows'[u] = rows[u]
      BY <1>2, <2>1
    <3> QED BY <3>1, SameRow
  <2>2. CASE apply
    <3>1. Known(m.txn) /\ r \in Kept /\ rows \in [Txn -> Kept \cup {NoRow}]
      BY <1>3, <2>2 DEF Known, TypeInv, RowsTyped
    <3>2. PICK w : w = [r EXCEPT !.status = to, !.at = m.n]
      OBVIOUS
    <3>3. rows' = [rows EXCEPT ![m.txn] = w]
      BY <1>2, <1>3, <2>2, <3>1, <3>2
    <3>4. CASE u # m.txn
      <4>1. rows'[u] = rows[u]
        BY <3>1, <3>3, <3>4
      <4> QED BY <4>1, SameRow
    <3>5. CASE u = m.txn
      <4>1. rows'[u] = w /\ w.status = to /\ w.at = m.n
        BY <3>1, <3>2, <3>3, <3>5 DEF Kept
      <4>2. rows'[u].at <= given'[u]
        BY <1>3, <1>4, <1>5, <3>5, <4>1 DEF GivenStep
      <4> QED BY <3>1, <3>5, <4>1, <4>2 DEF RowWrite, Lost, Terminal
    <3> QED BY <3>4, <3>5
  <2> QED BY <2>1, <2>2
<1> QED BY <1>4, <1>5 DEF AccountStep

(* A tier is retired by an upgrade that its row was given.                 *)
LEMMA SupersedeAccount ==
  ASSUME TypeInv, AccountInv, NEW p \in Worker, expireSuperseded(p)
  PROVE  AccountStep
<1>0. PICK n : n = job[p].msg.n
  OBVIOUS
<1>1. PICK u \in job[p].todo :
        /\ At(p, "supersede") /\ UNCHANGED log
        /\ Write(given, guardStatusWrite(rows[u], "EXPIRED", n, {}) /\ n < given[u])
        /\ rows' = IF guardStatusWrite(rows[u], "EXPIRED", n, {})
                   THEN [rows EXCEPT ![u] = written(@, "EXPIRED", n)] ELSE rows
  BY <1>0 DEF expireSuperseded, storeVars
<1>2. n \in 1 .. MaxEvents /\ n \in Nat /\ u \in Txn /\ "EXPIRED" \in Status
  <2>1. job[p].msg \in inbox /\ job[p] \in Work
    BY <1>1, AtWork DEF At
  <2> QED BY <1>0, <2>1, Events DEF AccountInv, Work, Status
<1>3. given \in [Txn -> Nat] /\ \A v \in Txn : given[v] >= given[v]
  BY DEF AccountInv
<1>4. GivenStep /\ (~skewed' => given' = given)
  BY <1>1, <1>3, WriteGiven
<1>5. ASSUME ~skewed', NEW v \in Txn PROVE RowWrite(v)
  <2>1. CASE v # u \/ ~guardStatusWrite(rows[u], "EXPIRED", n, {})
    <3>1. rows'[v] = rows[v]
      BY <1>1, <2>1
    <3> QED BY <3>1, SameRow
  <2>2. CASE v = u /\ guardStatusWrite(rows[u], "EXPIRED", n, {})
    <3>1. rows[u] # NoRow
      BY <2>2, NoRowStatus DEF guardStatusWrite, Transitions
    <3>2. Known(u) /\ rows[u] \in Kept /\ rows \in [Txn -> Kept \cup {NoRow}]
      BY <1>2, <3>1 DEF Known, TypeInv, RowsTyped
    <3>3. PICK w : w = written(rows[u], "EXPIRED", n)
      OBVIOUS
    <3>4. rows'[u] = w
      BY <1>1, <1>2, <2>2, <3>2, <3>3
    <3>5. w.at = n
          /\ w.status = IF rows[u].status \in Terminal THEN rows[u].status ELSE "EXPIRED"
      BY <1>2, <3>2, <3>3, WrittenFields
    <3>6. RetiresGiven(p)
      BY <1>4, <1>5 DEF AccountInv, Unskewed, GivenStep
    <3>7. n <= given'[u]
      <4>1. given[u] >= n
        BY <1>0, <1>1, <3>6 DEF RetiresGiven, At
      <4> QED BY <1>2, <1>3, <1>4, <1>5, <4>1
    <3> QED BY <2>2, <3>2, <3>4, <3>5, <3>7 DEF RowWrite, Lost, Terminal
  <2> QED BY <2>1, <2>2
<1> QED BY <1>4, <1>5 DEF AccountStep

(* An upgrade is given to the rows of the charges before it; those after   *)
(* it were given a newer event already.                                    *)
LEMMA SiblingsAccount ==
  ASSUME TypeInv, AccountInv, KindInv, NEW p \in Worker, FindSiblings(p)
  PROVE  /\ AccountStep
         /\ ~skewed' => \A u \in job'[p].todo : given'[u] >= job'[p].msg.n
<1>1. PICK m : m = job[p].msg
  OBVIOUS
<1>2. PICK found : found = findSupersedable(m.txn, m.n)
  OBVIOUS
<1>3. /\ At(p, "siblings") /\ UNCHANGED rows
      /\ job' = [job EXCEPT ![p].todo = found,
                            ![p].at = IF found = {} THEN "find" ELSE "supersede"]
      /\ Write([u \in Txn |-> IF u < m.txn THEN Later(given[u], m.n) ELSE given[u]], FALSE)
  BY <1>1, <1>2 DEF FindSiblings
<1>4. m \in inbox /\ m.kind \in Charges
  BY <1>1, <1>3, AtWork DEF At, KindInv, KindOf
<1>5. /\ m.n \in DOMAIN log /\ m.n \in Nat /\ m.txn \in Txn
      /\ m.txn = log[m.n].txn /\ log[m.n].kind \in Charges
  BY <1>4, Events DEF AccountInv
<1>6. PICK g : g = [u \in Txn |-> IF u < m.txn THEN Later(given[u], m.n) ELSE given[u]]
  OBVIOUS
<1>7. /\ g \in [Txn -> Nat] /\ \A u \in Txn : g[u] >= given[u]
      /\ \A u \in Txn : u < m.txn => g[u] >= m.n
  <2>1. given \in [Txn -> Nat]
    BY DEF AccountInv
  <2>2. \A u \in Txn : /\ Later(given[u], m.n) \in Nat /\ Later(given[u], m.n) >= given[u]
                       /\ Later(given[u], m.n) >= m.n
    BY <1>5, <2>1, LaterOf
  <2>3. \A u \in Txn : given[u] >= given[u]
    BY <2>1
  <2> QED BY <1>6, <2>1, <2>2, <2>3
<1>8. GivenStep /\ (~skewed' => given' = g)
  BY <1>3, <1>6, <1>7, WriteGiven DEF AccountInv
<1>9. AccountStep
  BY <1>3, <1>8, SameRow DEF AccountStep
<1>10. job'[p].todo = found /\ job'[p].msg = m
  <2>1. PICK where : where = IF found = {} THEN "find" ELSE "supersede"
    OBVIOUS
  <2>2. job'[p] = [job[p] EXCEPT !.todo = found, !.at = where]
    BY <1>3, <2>1 DEF TypeInv, JobsTyped
  <2> QED BY <1>1, <2>2 DEF TypeInv, JobsTyped, Work
<1>11. ASSUME ~skewed', NEW u \in found
       PROVE  given'[u] >= m.n
  <2>1. u \in Txn /\ u # m.txn /\ Known(u)
    BY <1>2 DEF findSupersedable, Known
  <2>2. CASE u < m.txn
    BY <1>7, <1>8, <1>11, <2>1, <2>2
  <2>3. CASE ~(u < m.txn)
    <3>1. m.txn < u
      BY <1>5, <2>1, <2>3 DEF Txn
    <3>2. RowGiven(u)
      BY <1>8, <1>11, <2>1 DEF AccountInv, Unskewed, GivenStep
    <3>3. PICK c \in ChargesOf(u) : c <= given[u]
      BY <2>1, <3>2 DEF RowGiven
    <3>4. c \in DOMAIN log /\ log[c].txn = u /\ log[c].kind \in Charges /\ c \in Nat
      BY DEF ChargesOf, TypeInv, StoreTyped
    <3>5. m.n < c
      BY <1>5, <3>1, <3>4 DEF AccountInv, LogOrder
    <3>6. given[u] \in Nat /\ g[u] \in Nat /\ g[u] >= given[u]
      BY <1>7, <2>1 DEF AccountInv
    <3> QED BY <1>5, <1>8, <1>11, <3>3, <3>4, <3>5, <3>6
  <2> QED BY <2>2, <2>3
<1> QED BY <1>9, <1>10, <1>11

(* Every step of a handler, and its death.                                 *)
LEMMA HandlerAccount ==
  ASSUME TypeInv, AccountInv, KindInv, NEW p \in Worker, Handle(p) \/ Crash(p)
  PROVE  AccountStep
<1>1. ASSUME NEW m \in inbox, upsertPurchase(p, m) PROVE AccountStep
  BY <1>1, UpsertAccount
<1>2. ASSUME NEW m \in inbox, GuardFirst(p, m) PROVE AccountStep
  BY <1>2, NoWrite DEF GuardFirst, history
<1>3. ASSUME NEW m \in inbox, applyRefund(p, m) PROVE AccountStep
  BY <1>3, RefundAccount
<1>4. ASSUME NEW m \in inbox, applyRefundReversed(p, m) PROVE AccountStep
  BY <1>4, ReversedAccount
<1>5. ASSUME NEW m \in inbox, applyFailedRenewal(p, m) PROVE AccountStep
  <2>1. m.kind \notin Charges
    BY <1>5 DEF applyFailedRenewal, Failures, Charges, Upgrades, Offers
  <2>2. PICK to \in Status : \E grace :
          rows' = updateChainStatusGuarded(to, grace) /\ ChainGiven(m.n) /\ UNCHANGED log
    BY <1>5 DEF applyFailedRenewal, Status, storeVars
  <2> QED BY <2>1, <2>2, ChainAccount
<1>6. ASSUME NEW m \in inbox, ChainEnd(p, m) PROVE AccountStep
  <2>1. m.kind \notin Charges
    BY <1>6 DEF ChainEnd, Charges, Upgrades, Offers
  <2>2. PICK to \in Status : \E grace :
          rows' = updateChainStatusGuarded(to, grace) /\ ChainGiven(m.n) /\ UNCHANGED log
    BY <1>6 DEF ChainEnd, Status, storeVars
  <2> QED BY <2>1, <2>2, ChainAccount
<1>7. CASE insertPurchase(p)
  BY <1>7, InsertAccount
<1>8. CASE FindSiblings(p)
  BY <1>8, SiblingsAccount
<1>9. CASE expireSuperseded(p)
  BY <1>9, SupersedeAccount
<1>10. CASE FindAccess(p)
  BY <1>10, NoWrite DEF FindAccess, history
<1>11. CASE createAccess(p)
  BY <1>11, NoWrite DEF createAccess, history
<1>12. CASE revokeAccess(p)
  BY <1>12, NoWrite DEF revokeAccess
<1>13. CASE emitRevenueEvent(p)
  BY <1>13, NoWrite DEF emitRevenueEvent, history
<1>14. CASE SyncRead(p)
  BY <1>14, NoWrite DEF SyncRead, readAccess
<1>15. CASE SyncApply(p)
  BY <1>15, NoWrite DEF SyncApply, history
<1>16. CASE Crash(p)
  BY <1>16, NoWrite DEF Crash, history
<1> QED
  BY <1>1, <1>2, <1>3, <1>4, <1>5, <1>6, <1>7, <1>8, <1>9, <1>10, <1>11, <1>12, <1>13,
     <1>14, <1>15, <1>16 DEF Handle

(* Where a process goes from where, and with what in hand.                 *)
Retiring == {"supersede", "resync", "reapply"}
Stops(p) == job'[p].at = "idle"
Retires(p) ==
    /\ job[p].at \in Retiring /\ job'[p].at \in Retiring \cup {"find"}
    /\ job'[p].msg = job[p].msg /\ job'[p].todo \subseteq job[p].todo
GoesOn(p) ==
    /\ job[p].at \notin {"idle", "insert"} /\ job'[p].msg = job[p].msg
    /\ job'[p].at \notin Retiring
TakesUp(p) ==
    /\ job'[p].at \notin Retiring
    /\ \/ job'[p].msg.kind \notin Charges \/ job'[p].at = "insert"
       \/ Known(job[p].msg.txn)'
JobMoves(p) == Stops(p) \/ Retires(p) \/ GoesOn(p) \/ TakesUp(p) \/ FindSiblings(p)

(* The read of a sync goes on with the same message.                       *)
LEMMA ReadMoves ==
  ASSUME TypeInv, NEW p \in Worker, SyncRead(p)
  PROVE  /\ inbox' = inbox /\ job'[p].msg = job[p].msg /\ job'[p].todo = job[p].todo
         /\ job'[p].at = IF At(p, "sync") THEN "apply" ELSE "reapply"
<1>0. job[p] \in Work /\ p \in DOMAIN job /\ inbox' = inbox
  BY DEF TypeInv, JobsTyped, SyncRead, readAccess
<1>1. PICK w : job' = [job EXCEPT ![p].want = w, ![p].seen = access,
                                  ![p].at = IF At(p, "sync") THEN "apply" ELSE "reapply"]
  <2> DEFINE target(t) == [txn |-> t, exp |-> IF t = 0 THEN Null ELSE entitlementExpiry(t)]
  <2>1. PICK one \in desired(1), two \in desired(2) :
          job' = [job EXCEPT ![p].want = <<target(one), target(two)>>,
                             ![p].seen = access,
                             ![p].at = IF At(p, "sync") THEN "apply" ELSE "reapply"]
    BY DEF SyncRead, readAccess
  <2> QED BY <2>1
<1>2. PICK where : where = IF At(p, "sync") THEN "apply" ELSE "reapply"
  OBVIOUS
<1>3. job'[p] = [job[p] EXCEPT !.want = w, !.seen = access, !.at = where]
  BY <1>0, <1>1, <1>2
<1>4. job'[p].at = where /\ job'[p].msg = job[p].msg /\ job'[p].todo = job[p].todo
  BY <1>0, <1>3 DEF Work
<1> QED BY <1>0, <1>2, <1>4

(* Every step of a handler is one of these.                                *)
LEMMA HandlerMoves ==
  ASSUME TypeInv, NEW p \in Worker, Handle(p) \/ Crash(p)
  PROVE  JobMoves(p)
<1>0. job[p] \in Work /\ p \in DOMAIN job /\ Idle.at = "idle"
  BY AtWork DEF TypeInv, JobsTyped
<1>1. ASSUME NEW m \in inbox, upsertPurchase(p, m) PROVE TakesUp(p)
  <2>1. PICK applied : Begin(p, m, AfterUpsert(m, applied))
    BY <1>1 DEF upsertPurchase
  <2>2. job'[p].msg = m /\ job'[p].at \notin Retiring
    BY <2>1, Begins, AfterUpsertPlaces DEF Retiring
  <2>3. Known(m.txn)
    BY <1>1 DEF upsertPurchase, Known, TypeInv, StoreTyped, Message
  <2>4. Known(m.txn)'
    BY <1>1, <2>3, HandlerKnown DEF Handle
  <2> QED BY <2>2, <2>4 DEF TakesUp, Known
<1>2. ASSUME NEW m \in inbox, GuardFirst(p, m) PROVE TakesUp(p)
  <2>1. job'[p].at = "insert"
    BY <1>2, Begins DEF GuardFirst
  <2> QED BY <2>1 DEF TakesUp, Retiring
<1>3. ASSUME NEW m \in inbox, NEW where \in {"revoke", "revenue"}, Begin(p, m, where),
             m.kind \in Reversals
      PROVE  TakesUp(p)
  <2>1. job'[p].at = where /\ job'[p].msg = m
    BY <1>3, Begins
  <2> QED BY <1>3, <2>1 DEF TakesUp, Retiring, Reversals, Charges, Upgrades, Offers
<1>4. ASSUME NEW m \in inbox, Takes(p, m), Ignore(m) PROVE Stops(p)
  BY <1>4 DEF Takes, Ignore, Stops, At
<1>5. ASSUME NEW m \in inbox, applyRefund(p, m) \/ applyRefundReversed(p, m)
      PROVE  TakesUp(p) \/ Stops(p)
  BY <1>3, <1>4, <1>5 DEF applyRefund, applyRefundReversed, Reversals
<1>6. ASSUME NEW m \in inbox, applyFailedRenewal(p, m) PROVE Stops(p)
  BY <1>4, <1>6 DEF applyFailedRenewal
<1>7. ASSUME NEW m \in inbox, ChainEnd(p, m) PROVE TakesUp(p)
  <2>1. PICK label : job' = [job EXCEPT ![p] = [Idle EXCEPT !.at = "revoke", !.msg = m,
                                                            !.label = label]]
    BY <1>7 DEF ChainEnd
  <2>2. job'[p] = [Idle EXCEPT !.at = "revoke", !.msg = m, !.label = label]
    BY <1>0, <2>1
  <2>3. job'[p].at = "revoke" /\ job'[p].msg = m
    BY <2>2 DEF Idle
  <2>4. m.kind \notin Charges
    BY <1>7 DEF ChainEnd, Charges, Upgrades, Offers
  <2> QED BY <2>3, <2>4 DEF TakesUp, Retiring
<1>8. CASE insertPurchase(p)
  <2>1. PICK where \in {"revenue", "sync", "siblings", "find"} : Go(p, where)
    BY <1>8, AfterUpsertPlaces DEF insertPurchase
  <2>2. job'[p].at = where /\ job'[p].msg = job[p].msg
    BY <2>1, Goes
  <2>3. PICK t : t = job[p].msg.txn
    OBVIOUS
  <2>4. rows'[t] # NoRow /\ t \in Txn
    <3>1. job[p].msg \in Message
      BY <1>8, AtWork DEF insertPurchase, At, TypeInv, StoreTyped
    <3> QED BY <1>8, <2>3, <3>1, InsertStep DEF Message
  <2> QED BY <2>2, <2>3, <2>4 DEF TakesUp, Retiring, Known, JobMoves
<1>9. CASE expireSuperseded(p)
  <2>1. PICK u : /\ At(p, "supersede")
                 /\ job' = [job EXCEPT ![p].at = "resync", ![p].todo = @ \ {u}]
    BY <1>9 DEF expireSuperseded
  <2>2. PICK left : left = job[p].todo \ {u}
    OBVIOUS
  <2>3. job'[p] = [job[p] EXCEPT !.at = "resync", !.todo = left]
    BY <1>0, <2>1, <2>2
  <2>4. job'[p].at = "resync" /\ job'[p].msg = job[p].msg /\ job'[p].todo = left
    BY <1>0, <2>3 DEF Work
  <2> QED BY <2>1, <2>2, <2>4 DEF Retires, Retiring, At, JobMoves
<1>10. ASSUME NEW where \in {"create", "revenue", "sync"}, Go(p, where),
              job[p].at \notin {"idle", "insert"}
       PROVE  GoesOn(p)
  BY <1>10, Goes DEF GoesOn, Retiring
<1>11. CASE FindAccess(p) \/ createAccess(p)
  BY <1>10, <1>11 DEF FindAccess, createAccess, At, JobMoves
<1>12. CASE revokeAccess(p)
  <2>1. At(p, "revoke") /\ (Go(p, "sync") \/ Go(p, "revenue") \/ Done(p))
    BY <1>12 DEF revokeAccess
  <2>2. Done(p) => Stops(p)
    BY <1>0 DEF Done, Stops
  <2> QED BY <1>10, <2>1, <2>2 DEF At, JobMoves
<1>13. CASE emitRevenueEvent(p)
  <2>1. job' = [job EXCEPT ![p].at = "sync", ![p].label = "NONE"] /\ At(p, "revenue")
    BY <1>13 DEF emitRevenueEvent
  <2>2. job'[p] = [job[p] EXCEPT !.at = "sync", !.label = "NONE"]
    BY <1>0, <2>1
  <2>3. job'[p].at = "sync" /\ job'[p].msg = job[p].msg
    BY <1>0, <2>2 DEF Work
  <2> QED BY <2>1, <2>3 DEF GoesOn, Retiring, At, JobMoves
<1>14. CASE SyncRead(p)
  <2>1. /\ job'[p].msg = job[p].msg /\ job'[p].todo = job[p].todo
        /\ job'[p].at = IF At(p, "sync") THEN "apply" ELSE "reapply"
    BY <1>14, ReadMoves
  <2>2. CASE At(p, "sync")
    <3>1. job'[p].at = "apply"
      BY <2>1, <2>2
    <3> QED BY <2>1, <2>2, <3>1 DEF GoesOn, Retiring, At, JobMoves
  <2>3. CASE At(p, "resync")
    <3>1. job'[p].at = "reapply"
      BY <2>1, <2>3 DEF At
    <3> QED BY <2>1, <2>3, <3>1 DEF Retires, Retiring, At, JobMoves
  <2> QED BY <1>14, <2>2, <2>3 DEF SyncRead
<1>15. CASE SyncApply(p)
  <2>1. CASE At(p, "apply")
    <3>1. Done(p)
      BY <1>15, <2>1 DEF SyncApply
    <3> QED BY <1>0, <3>1 DEF Done, Stops, JobMoves
  <2>2. CASE ~At(p, "apply")
    <3>1. PICK where \in {"find", "supersede"} :
            where = IF job[p].todo = {} THEN "find" ELSE "supersede"
      OBVIOUS
    <3>2. job' = [job EXCEPT ![p].at = where, ![p].want = Nothing, ![p].seen = <<>>]
          /\ At(p, "reapply")
      BY <1>15, <2>2, <3>1 DEF SyncApply
    <3>3. job'[p] = [job[p] EXCEPT !.at = where, !.want = Nothing, !.seen = <<>>]
      BY <1>0, <3>2
    <3>4. job'[p].at = where /\ job'[p].msg = job[p].msg /\ job'[p].todo = job[p].todo
      BY <1>0, <3>3 DEF Work
    <3> QED BY <3>2, <3>4 DEF Retires, Retiring, At, JobMoves
  <2> QED BY <2>1, <2>2
<1>16. CASE Crash(p)
  BY <1>0, <1>16 DEF Crash, Stops, JobMoves
<1> QED
  BY <1>1, <1>2, <1>5, <1>6, <1>7, <1>8, <1>9, <1>11, <1>12, <1>13, <1>14, <1>15, <1>16
     DEF Handle, JobMoves

(* What a process has in hand: a charge past its upsert has a row, and a   *)
(* tier to be retired was given the upgrade.                               *)
LEMMA HandStays ==
  ASSUME TypeInv, TypeInv', AccountInv, KindInv, NEW p \in Worker, Handle(p) \/ Crash(p)
  PROVE  /\ \A q \in Worker : ChargeKnown(job[q])'
         /\ ~skewed' => \A q \in Worker : RetiresGiven(q)'
<1>1. JobMoves(p) /\ GivenStep /\ \A t : Known(t) => Known(t)'
  BY HandlerMoves, HandlerAccount, HandlerKnown DEF AccountStep
<1>2. \A q \in Worker \ {p} : job'[q] = job[q]
  BY OthersStay
<1>3. \A q \in Worker : job[q] \in Work
  BY DEF TypeInv, JobsTyped
<1>4. ASSUME NEW q \in Worker PROVE ChargeKnown(job[q])'
  <2>1. CASE q # p
    <3>1. PICK j : j = job[q] /\ j = job'[q]
      BY <1>2, <2>1
    <3>2. ChargeKnown(j)
      BY <3>1 DEF AccountInv
    <3>3. ChargeKnown(j)'
      BY <1>1, <3>2 DEF ChargeKnown
    <3> QED BY <3>1, <3>3 DEF ChargeKnown, Known
  <2>2. CASE q = p
    <3>1. CASE Stops(p) \/ TakesUp(p)
      BY <2>2, <3>1 DEF Stops, TakesUp, ChargeKnown
    <3>2. CASE Retires(p) \/ GoesOn(p) \/ FindSiblings(p)
      <4>1. PICK j : j = job[p]
        OBVIOUS
      <4>2. j.at \notin {"idle", "insert"} /\ job'[p].msg = j.msg
        <5>1. CASE Retires(p) \/ GoesOn(p)
          BY <4>1, <5>1 DEF Retires, GoesOn, Retiring
        <5>2. CASE FindSiblings(p)
          <6>1. PICK todo, where : At(p, "siblings")
                  /\ job'[p] = [job[p] EXCEPT !.todo = todo, !.at = where]
            BY <5>2 DEF FindSiblings, TypeInv, JobsTyped
          <6> QED BY <1>3, <4>1, <6>1 DEF Work, At
        <5> QED BY <3>2, <5>1, <5>2
      <4>3. j.msg.kind \in Charges => Known(j.msg.txn)
        BY <4>1, <4>2 DEF AccountInv, ChargeKnown
      <4>4. j.msg.kind \in Charges => Known(j.msg.txn)'
        BY <1>1, <4>3
      <4> QED BY <2>2, <4>2, <4>4 DEF ChargeKnown, Known
    <3> QED BY <1>1, <3>1, <3>2 DEF JobMoves
  <2> QED BY <2>1, <2>2
<1>5. ASSUME ~skewed', NEW q \in Worker PROVE RetiresGiven(q)'
  <2>0. Unskewed
    BY <1>1, <1>5 DEF AccountInv, GivenStep
  <2>1. ASSUME NEW u, NEW n, u \in Txn, n \in Nat, given[u] >= n
        PROVE  given'[u] >= n
    <3>1. given[u] \in Nat /\ given'[u] \in Nat /\ given'[u] >= given[u]
      BY <1>1, <1>5, <2>1 DEF AccountInv, GivenStep
    <3> QED BY <2>1, <3>1
  <2>2. ASSUME job[q].at \in Retiring
        PROVE  \A u \in job[q].todo : given'[u] >= job[q].msg.n
    <3>1. job[q].todo \subseteq Txn /\ job[q].msg.n \in Nat
      <4>1. job[q].msg \in inbox
        BY <2>2, AtWork DEF At, Retiring
      <4> QED BY <1>3, <4>1, Events DEF AccountInv, Work
    <3>2. \A u \in job[q].todo : given[u] >= job[q].msg.n
      BY <2>0, <2>2 DEF Unskewed, RetiresGiven, Retiring
    <3> QED BY <2>1, <3>1, <3>2
  <2>3. CASE q # p
    BY <1>2, <2>2, <2>3 DEF RetiresGiven, Retiring
  <2>4. CASE q = p /\ FindSiblings(p)
    BY <1>5, <2>4, SiblingsAccount DEF RetiresGiven
  <2>5. CASE q = p /\ Retires(p)
    <3>1. /\ job[q].at \in Retiring /\ job'[q].msg = job[q].msg
          /\ job'[q].todo \subseteq job[q].todo
      BY <2>5 DEF Retires
    <3> QED BY <2>2, <3>1 DEF RetiresGiven
  <2>6. CASE q = p /\ (Stops(p) \/ GoesOn(p) \/ TakesUp(p))
    BY <2>6 DEF RetiresGiven, Stops, GoesOn, TakesUp, Retiring
  <2> QED BY <1>1, <2>3, <2>4, <2>5, <2>6 DEF JobMoves
<1> QED BY <1>4, <1>5

(* Revenue of a charge, of a refund and of its reversal has a key of its   *)
(* own, and no other revenue has.                                          *)
LEMMA KeyOfEvent ==
  ASSUME NEW m, NEW label, m.kind \in Kind
  PROVE  LET key == dedupeKey(m, revenueType(m, label))
         IN  /\ m.kind \in Charges \cup Reversals => key = BookKey(m.kind)
             /\ key = "purchase" => m.kind \in Charges
             /\ key = "refund" => m.kind = "REFUND"
             /\ key = "reactivation" => m.kind = "REVERSED"
<1>1. CASE m.kind \in Charges
  BY <1>1 DEF dedupeKey, revenueDedupeKind, BookKey
<1>2. CASE m.kind \notin Charges
  <2>1. m.kind \in Reversals \cup Failures \cup {"EXPIRED", "REVOKE"}
    BY <1>2 DEF Kind, Reversals
  <2>2. revenueType(m, label) = IF m.kind = "REVERSED" THEN "REACTIVATION"
                                ELSE IF m.kind = "REFUND" THEN "REFUND" ELSE "CANCELLATION"
    BY <2>1 DEF revenueType, Reversals, Failures, Offers
  <2>3. dedupeKey(m, revenueType(m, label)) =
          IF m.kind = "REVERSED" THEN "reactivation"
          ELSE IF m.kind = "REFUND" THEN "refund" ELSE "cancel"
    BY <1>2, <2>2 DEF dedupeKey, revenueDedupeKind
  <2> QED BY <1>2, <2>1, <2>3 DEF BookKey, Reversals
<1> QED BY <1>1, <1>2

(* The row of revenue, inserted now or there before.                       *)
LEMMA EmitAccount ==
  ASSUME TypeInv, AccountInv, NEW p \in Worker, emitRevenueEvent(p)
  PROVE  /\ revenue \subseteq revenue' /\ BookedHappened'
         /\ \A m : m = job[p].msg /\ m.kind \in Charges \cup Reversals =>
              Booked(m.txn, BookKey(m.kind))'
<1>1. PICK m, key, event :
        /\ m = job[p].msg /\ key = dedupeKey(m, revenueType(m, job[p].label))
        /\ event.txn = m.txn /\ event.key = key
        /\ At(p, "revenue")
        /\ revenue' = IF \E r \in revenue : r.txn = event.txn /\ r.key = event.key
                      THEN revenue ELSE revenue \cup {event}
  <2>1. PICK m, type : m = job[p].msg /\ type = revenueType(m, job[p].label)
    OBVIOUS
  <2>2. PICK event : event = [txn |-> m.txn, key |-> dedupeKey(m, type), type |-> type]
    OBVIOUS
  <2>3. event.txn = m.txn /\ event.key = dedupeKey(m, type)
    BY <2>2
  <2>4. /\ At(p, "revenue")
        /\ revenue' = IF \E r \in revenue : r.txn = event.txn /\ r.key = event.key
                      THEN revenue ELSE revenue \cup {event}
    BY <2>1, <2>2 DEF emitRevenueEvent
  <2> QED BY <2>1, <2>3, <2>4
<1>2. /\ m \in inbox /\ m.kind \in Kind
      /\ m.n \in DOMAIN log /\ m.txn = log[m.n].txn
      /\ m.kind \notin Charges => m.kind = log[m.n].kind
  <2>1. m \in inbox
    BY <1>1, AtWork DEF At
  <2> QED BY <2>1, Events DEF AccountInv, Message
<1>3. /\ m.kind \in Charges \cup Reversals => key = BookKey(m.kind)
      /\ key = "purchase" => m.kind \in Charges
      /\ key = "refund" => m.kind = "REFUND"
      /\ key = "reactivation" => m.kind = "REVERSED"
  BY <1>1, <1>2, KeyOfEvent
<1>4. UNCHANGED <<log, rows>>
  BY DEF emitRevenueEvent, storeVars
<1>5. revenue \subseteq revenue' /\ Booked(m.txn, key)'
  BY <1>1 DEF Booked
<1>6. /\ key = "purchase" => Known(m.txn)
      /\ key = "refund" => After(0, "REFUND", m.txn)
      /\ key = "reactivation" => After(0, "REVERSED", m.txn)
  <2>1. m.kind \in Charges => Known(m.txn)
    BY <1>1 DEF AccountInv, ChargeKnown, At
  <2>2. m.n \in 0 + 1 .. Len(log)
    BY <1>2 DEF TypeInv, StoreTyped
  <2>3. m.kind \in Reversals => m.kind = log[m.n].kind
    BY <1>2 DEF Reversals, Charges, Upgrades, Offers
  <2> QED BY <1>2, <1>3, <2>1, <2>2, <2>3 DEF After, Reversals
<1>7. ASSUME NEW r, r \in revenue'
      PROVE  /\ r.key = "purchase" => Known(r.txn)
             /\ r.key = "refund" => After(0, "REFUND", r.txn)
             /\ r.key = "reactivation" => After(0, "REVERSED", r.txn)
  <2>1. r \in revenue \/ r = event
    BY <1>1, <1>7
  <2> QED BY <1>1, <1>6, <2>1 DEF AccountInv, BookedHappened
<1>8. BookedHappened'
  BY <1>4, <1>7 DEF BookedHappened, Known, After
<1> QED BY <1>1, <1>3, <1>5, <1>8

(* A message nobody takes to its sync is pending still.                    *)
LEMMA KeepsPending ==
  ASSUME TypeInv, NEW p \in Worker, Handle(p) \/ Crash(p), NEW m, Pending(m),
         m \in inbox', job'[p].msg = m => job'[p].at \notin {"sync", "apply"}
  PROVE  Pending(m)'
<1>1. \A q \in Worker \ {p} : job'[q] = job[q]
  BY OthersStay
<1>2. \A q \in Worker : job'[q].msg = m => job'[q].at \notin {"sync", "apply"}
  <2> SUFFICES ASSUME NEW q \in Worker, job'[q].msg = m, q # p
               PROVE  job'[q].at \notin {"sync", "apply"}
    OBVIOUS
  <2>1. job'[q] = job[q]
    BY <1>1
  <2> QED BY <2>1 DEF Pending
<1> QED BY <1>2 DEF Pending

(* A report of a charge, a refund or a reversal is pending until the books *)
(* have it: only a refund without a purchase is dropped, and with nothing  *)
(* overtaken no report is withheld.                                        *)
LEMMA StillPending ==
  ASSUME TypeInv, AccountInv, KindInv, NEW p \in Worker, Handle(p) \/ Crash(p), ~skewed',
         NEW m, Pending(m), m.kind \in Charges \cup Reversals
  PROVE  \/ Pending(m)' \/ Booked(m.txn, BookKey(m.kind))'
         \/ m.kind \in Reversals /\ Dropped(m.n, m.txn)'
<1> DEFINE Goal == \/ Pending(m)' \/ Booked(m.txn, BookKey(m.kind))'
                   \/ m.kind \in Reversals /\ Dropped(m.n, m.txn)'
<1>0. m \in inbox /\ job[p] \in Work /\ p \in DOMAIN job /\ Idle.at = "idle"
      /\ m.kind \notin Failures \cup {"EXPIRED", "REVOKE"}
  BY AtWork DEF Pending, TypeInv, JobsTyped, Charges, Upgrades, Offers, Reversals, Failures
<1>1. ASSUME NEW k \in inbox, upsertPurchase(p, k) PROVE Goal
  <2>1. PICK applied : /\ applied = guardStatusWrite(rows[k.txn], "ACTIVE", k.n, {})
                       /\ Begin(p, k, AfterUpsert(k, applied))
    BY <1>1 DEF upsertPurchase
  <2>2. job'[p].at = AfterUpsert(k, applied) /\ inbox' = inbox
    BY <2>1, Begins
  <2>3. k.kind # "RECEIPT" => applied
    BY <1>1, <2>1, UpsertAccount
  <2>4. AfterUpsert(k, applied) \in {"revenue", "siblings", "find"}
    <3>1. CASE k.kind = "RECEIPT"
      BY <3>1 DEF AfterUpsert
    <3>2. CASE k.kind # "RECEIPT"
      <4>1. applied
        BY <2>3, <3>2
      <4> QED BY <3>2, <4>1 DEF AfterUpsert
    <3> QED BY <3>1, <3>2
  <2>5. job'[p].at \notin {"sync", "apply"}
    BY <2>2, <2>4
  <2> QED BY <1>0, <2>2, <2>5, KeepsPending
<1>2. ASSUME NEW k \in inbox, GuardFirst(p, k) PROVE Goal
  <2>1. job'[p].at = "insert" /\ inbox' = inbox
    BY <1>2, Begins DEF GuardFirst
  <2> QED BY <1>0, <2>1, KeepsPending
<1>3. ASSUME NEW k \in inbox, Takes(p, k), Ignore(k), k = m => Dropped(m.n, m.txn)',
             k.kind \in Reversals \cup Failures
      PROVE  Goal
  <2>1. job'[p].at = "idle" /\ inbox' = inbox \ {k}
    BY <1>3 DEF Takes, Ignore, At
  <2>2. CASE k = m
    BY <1>0, <1>3, <2>2
  <2>3. CASE k # m
    BY <1>0, <2>1, <2>3, KeepsPending
  <2> QED BY <2>2, <2>3
<1>4. ASSUME NEW k \in inbox, NEW where \in {"revoke", "revenue"}, Begin(p, k, where)
      PROVE  Goal
  <2>1. job'[p].at = where /\ inbox' = inbox
    BY <1>4, Begins
  <2> QED BY <1>0, <2>1, KeepsPending
<1>5. ASSUME NEW k \in inbox, applyRefund(p, k) PROVE Goal
  <2>1. CASE rows[k.txn] = NoRow
    <3>1. Takes(p, k) /\ Ignore(k) /\ k.kind = "REFUND" /\ rows' = rows
      BY <1>5, <2>1 DEF applyRefund
    <3>2. Dropped(k.n, k.txn)'
      BY <1>5, <2>1, <3>1, RefundAccount DEF Dropped
    <3> QED BY <1>3, <3>1, <3>2 DEF Reversals
  <2>2. CASE rows[k.txn] # NoRow
    BY <1>4, <1>5, <2>2 DEF applyRefund
  <2> QED BY <2>1, <2>2
<1>6. ASSUME NEW k \in inbox, applyRefundReversed(p, k) PROVE Goal
  <2>1. CASE rows[k.txn] = NoRow
    <3>1. Takes(p, k) /\ Ignore(k) /\ k.kind = "REVERSED" /\ rows' = rows
      BY <1>6, <2>1 DEF applyRefundReversed
    <3>2. Dropped(k.n, k.txn)'
      BY <1>6, <2>1, <3>1, ReversedAccount DEF Dropped
    <3> QED BY <1>3, <3>1, <3>2 DEF Reversals
  <2>2. CASE rows[k.txn] # NoRow
    BY <1>4, <1>6, <2>2 DEF applyRefundReversed
  <2> QED BY <2>1, <2>2
<1>7. ASSUME NEW k \in inbox, applyFailedRenewal(p, k) PROVE Goal
  BY <1>0, <1>3, <1>7 DEF applyFailedRenewal
<1>8. ASSUME NEW k \in inbox, ChainEnd(p, k) PROVE Goal
  <2>1. PICK j : /\ job' = [job EXCEPT ![p] = j] /\ j.at = "revoke"
                 /\ inbox' = inbox
    <3>1. PICK label : job' = [job EXCEPT ![p] = [Idle EXCEPT !.at = "revoke", !.msg = k,
                                                              !.label = label]]
                       /\ inbox' = inbox
      BY <1>8 DEF ChainEnd
    <3>2. [Idle EXCEPT !.at = "revoke", !.msg = k, !.label = label].at = "revoke"
      BY DEF Idle
    <3> QED BY <3>1, <3>2
  <2>2. job'[p].at = "revoke"
    BY <1>0, <2>1
  <2> QED BY <1>0, <2>1, <2>2, KeepsPending
<1>9. ASSUME NEW where \in Place \ {"sync", "apply"}, Go(p, where), inbox' = inbox
      PROVE  Goal
  <2>1. job'[p].at = where
    BY <1>9, Goes
  <2> QED BY <1>0, <1>9, <2>1, KeepsPending
<1>10. CASE insertPurchase(p)
  <2>1. PICK where : /\ where = AfterUpsert(job[p].msg, TRUE) /\ Go(p, where)
                     /\ inbox' = inbox
    BY <1>10 DEF insertPurchase
  <2>2. where \in Place \ {"sync", "apply"}
    BY <2>1 DEF AfterUpsert, Place
  <2> QED BY <1>9, <2>1, <2>2
<1>12. CASE FindSiblings(p)
  <2>1. PICK todo, where : /\ job' = [job EXCEPT ![p].todo = todo, ![p].at = where]
                           /\ where \in {"find", "supersede"} /\ inbox' = inbox
    BY <1>12 DEF FindSiblings
  <2>2. job'[p] = [job[p] EXCEPT !.todo = todo, !.at = where]
    BY <1>0, <2>1
  <2>3. job'[p].at = where
    BY <1>0, <2>2 DEF Work
  <2> QED BY <1>0, <2>1, <2>3, KeepsPending
<1>13. CASE expireSuperseded(p)
  <2>1. PICK left : /\ job' = [job EXCEPT ![p].at = "resync", ![p].todo = left]
                    /\ inbox' = inbox
    BY <1>13 DEF expireSuperseded
  <2>2. job'[p] = [job[p] EXCEPT !.at = "resync", !.todo = left]
    BY <1>0, <2>1
  <2>3. job'[p].at = "resync"
    BY <1>0, <2>2 DEF Work
  <2> QED BY <1>0, <2>1, <2>3, KeepsPending
<1>14. CASE FindAccess(p) \/ createAccess(p)
  BY <1>9, <1>14 DEF FindAccess, createAccess, Place
<1>15. CASE revokeAccess(p)
  <2>1. PICK k : k = job[p].msg
    OBVIOUS
  <2>2. k.kind \in {"REFUND", "REVOKE", "EXPIRED"}
    BY <1>15, <2>1 DEF revokeAccess, KindInv, KindOf, At
  <2>3. CASE k.kind = "REFUND"
    <3>1. Go(p, "revenue") /\ inbox' = inbox
      BY <1>15, <2>1, <2>3 DEF revokeAccess
    <3> QED BY <1>9, <3>1 DEF Place
  <2>4. CASE k.kind # "REFUND"
    <3>1. k # m
      BY <1>0, <2>2, <2>4
    <3>2. \/ (Go(p, "sync") \/ Go(p, "revenue")) /\ inbox' = inbox
          \/ job' = [job EXCEPT ![p] = Idle] /\ inbox' = inbox \ {k}
      BY <1>15, <2>1 DEF revokeAccess, Done
    <3>3. m \in inbox' /\ (job'[p].msg = k \/ job'[p].at = "idle")
      BY <1>0, <2>1, <3>1, <3>2, Goes
    <3> QED BY <1>0, <3>1, <3>3, KeepsPending
  <2> QED BY <2>3, <2>4
<1>16. CASE emitRevenueEvent(p)
  <2>1. CASE job[p].msg = m
    BY <1>16, <2>1, EmitAccount
  <2>2. CASE job[p].msg # m
    <3>1. job' = [job EXCEPT ![p].at = "sync", ![p].label = "NONE"] /\ inbox' = inbox
      BY <1>16 DEF emitRevenueEvent
    <3>2. job'[p] = [job[p] EXCEPT !.at = "sync", !.label = "NONE"]
      BY <1>0, <3>1
    <3>3. job'[p].msg = job[p].msg
      BY <1>0, <3>2 DEF Work
    <3> QED BY <1>0, <2>2, <3>1, <3>3, KeepsPending
  <2> QED BY <2>1, <2>2
<1>17. CASE SyncRead(p)
  <2>1. /\ inbox' = inbox /\ job'[p].msg = job[p].msg
        /\ job'[p].at = IF At(p, "sync") THEN "apply" ELSE "reapply"
    BY <1>17, ReadMoves
  <2>2. CASE At(p, "sync")
    <3>1. job[p].msg # m
      BY <2>2 DEF Pending, At
    <3> QED BY <1>0, <2>1, <3>1, KeepsPending
  <2>3. CASE ~At(p, "sync")
    <3>1. job'[p].at \notin {"sync", "apply"}
      BY <2>1, <2>3
    <3> QED BY <1>0, <2>1, <3>1, KeepsPending
  <2> QED BY <2>2, <2>3
<1>18. CASE SyncApply(p)
  <2>1. CASE At(p, "apply")
    <3>1. job' = [job EXCEPT ![p] = Idle] /\ inbox' = inbox \ {job[p].msg}
      BY <1>18, <2>1 DEF SyncApply, Done
    <3>2. job[p].msg # m
      BY <2>1 DEF Pending, At
    <3>3. job'[p].at = "idle" /\ m \in inbox'
      BY <1>0, <3>1, <3>2
    <3> QED BY <1>0, <3>3, KeepsPending
  <2>2. CASE ~At(p, "apply")
    <3>1. PICK where \in {"find", "supersede"} :
            where = IF job[p].todo = {} THEN "find" ELSE "supersede"
      OBVIOUS
    <3>2. job' = [job EXCEPT ![p].at = where, ![p].want = Nothing, ![p].seen = <<>>]
          /\ inbox' = inbox
      BY <1>18, <2>2, <3>1 DEF SyncApply
    <3>3. job'[p] = [job[p] EXCEPT !.at = where, !.want = Nothing, !.seen = <<>>]
      BY <1>0, <3>2
    <3>4. job'[p].at = where
      BY <1>0, <3>3 DEF Work
    <3> QED BY <1>0, <3>2, <3>4, KeepsPending
  <2> QED BY <2>1, <2>2
<1>19. CASE Crash(p)
  <2>1. job'[p].at = "idle" /\ inbox' = inbox
    BY <1>0, <1>19 DEF Crash
  <2> QED BY <1>0, <2>1, KeepsPending
<1> QED
  BY <1>1, <1>2, <1>5, <1>6, <1>7, <1>8, <1>10, <1>12, <1>13, <1>14, <1>15, <1>16, <1>17,
     <1>18, <1>19 DEF Handle

(* What is booked stays booked, and has happened.                          *)
LEMMA HandlerBooked ==
  ASSUME TypeInv, AccountInv, NEW p \in Worker, Handle(p) \/ Crash(p)
  PROVE  /\ BookedHappened'
         /\ \A t, key : Booked(t, key) => Booked(t, key)'
<1>1. CASE emitRevenueEvent(p)
  <2>1. BookedHappened' /\ revenue \subseteq revenue'
    BY <1>1, EmitAccount
  <2> QED BY <2>1 DEF Booked
<1>2. CASE ~emitRevenueEvent(p)
  <2>1. UNCHANGED revenue
    BY <1>2 DEF Handle, Crash, upsertPurchase, GuardFirst, applyRefund,
       applyRefundReversed, applyFailedRenewal, ChainEnd, insertPurchase, FindSiblings,
       expireSuperseded, FindAccess, createAccess, revokeAccess, SyncRead, readAccess,
       SyncApply
  <2>2. UNCHANGED log /\ \A t : Known(t) => Known(t)'
    BY HandlerKnown DEF storeVars
  <2>3. ASSUME NEW r, r \in revenue'
        PROVE  (/\ r.key = "purchase" => Known(r.txn)
                /\ r.key = "refund" => After(0, "REFUND", r.txn)
                /\ r.key = "reactivation" => After(0, "REVERSED", r.txn))'
    <3>1. /\ r.key = "purchase" => Known(r.txn)
          /\ r.key = "refund" => After(0, "REFUND", r.txn)
          /\ r.key = "reactivation" => After(0, "REVERSED", r.txn)
      BY <2>1, <2>3 DEF AccountInv, BookedHappened
    <3> QED BY <2>2, <3>1 DEF After
  <2> QED BY <2>1, <2>3 DEF BookedHappened, Booked
<1> QED BY <1>1, <1>2

(* What was dropped for lack of a row has none later: the only event that  *)
(* makes one is the charge, and with nothing overtaken it is not written.  *)
LEMMA StaysDropped ==
  ASSUME TypeInv, AccountInv, AccountStep, UNCHANGED log, ~skewed',
         NEW n \in DOMAIN log, log[n].kind \in Reversals, Dropped(n, log[n].txn)
  PROVE  Dropped(n, log[n].txn)'
<1>1. PICK t \in Txn : t = log[n].txn
  <2>1. log[n] \in Entry
    BY DEF TypeInv, StoreTyped
  <2> QED BY <2>1 DEF Entry
<1>2. n \in Nat /\ given[t] \in Nat /\ given'[t] \in Nat /\ given'[t] >= given[t]
  BY DEF TypeInv, StoreTyped, AccountInv, AccountStep, GivenStep
<1>3. rows[t] = NoRow /\ given[t] >= n
  BY <1>1 DEF Dropped
<1>4. ASSUME Known(t)' PROVE FALSE
  <2>1. ~Known(t)
    BY <1>3 DEF Known
  <2>2. PICK c \in ChargesOf(t) : given[t] <= c
    BY <1>4, <2>1 DEF AccountStep, RowWrite
  <2>3. c \in DOMAIN log /\ log[c].kind \in Charges /\ log[c].txn = t /\ c \in Nat
    BY DEF ChargesOf, TypeInv, StoreTyped
  <2>4. c < n
    BY <1>1, <2>3 DEF AccountInv, LogOrder
  <2> QED BY <1>2, <1>3, <2>2, <2>3, <2>4
<1>5. rows'[t] = NoRow
  BY <1>4 DEF Known
<1>6. given'[t] >= n
  BY <1>2, <1>3
<1>7. log'[n].txn = t
  BY <1>1
<1> QED BY <1>5, <1>6, <1>7 DEF Dropped

(* A handler, and its death, while nothing is overtaken.                   *)
LEMMA HandlerUnskewed ==
  ASSUME TypeInv, TypeInv', AccountInv, KindInv, NEW p \in Worker, Handle(p) \/ Crash(p),
         ~skewed'
  PROVE  Unskewed'
<1>1. AccountStep /\ GivenStep /\ Unskewed /\ LogOrder /\ given \in [Txn -> Nat]
  BY HandlerAccount DEF AccountStep, GivenStep, AccountInv
<1>2. UNCHANGED <<log, charges>>
  BY HandlerKnown DEF storeVars
<1>3. \A t, key : Booked(t, key) => Booked(t, key)'
  BY HandlerBooked
<1>4. \A t \in Txn : RowGiven(t)'
  <2> SUFFICES ASSUME NEW t \in Txn PROVE RowGiven(t)'
    OBVIOUS
  <2>1. RowGiven(t) /\ RowWrite(t)
    BY <1>1 DEF Unskewed, AccountStep
  <2> QED BY <1>1, <1>2, <2>1, RowGivenStays
<1>5. \A q \in Worker : RetiresGiven(q)'
  BY HandStays
<1>6. ASSUME NEW t \in DOMAIN charges
      PROVE  ChargeDue(t)'
  <2>1. CASE Booked(t, "purchase")
    BY <1>3, <2>1 DEF ChargeDue
  <2>2. CASE ~Booked(t, "purchase")
    <3>1. PICK m \in inbox : m.kind \in Charges /\ m.txn = t /\ Pending(m)
      BY <1>1, <2>2 DEF Unskewed, ChargeDue
    <3>2. BookKey(m.kind) = "purchase" /\ m.kind \notin Reversals
      BY <3>1 DEF BookKey, Reversals, Charges, Upgrades, Offers
    <3>3. Pending(m)' \/ Booked(m.txn, BookKey(m.kind))'
      BY <3>1, <3>2, StillPending
    <3> QED BY <3>1, <3>2, <3>3 DEF ChargeDue, Pending
  <2> QED BY <2>1, <2>2
<1>7. ASSUME NEW n \in DOMAIN log, NEW e, e = log[n], e.kind \in Reversals
      PROVE  \/ Booked(e.txn, BookKey(e.kind))'
             \/ Pending([n |-> n, kind |-> e.kind, txn |-> e.txn])'
             \/ Dropped(n, e.txn)'
  <2>1. PICK m : m = [n |-> n, kind |-> e.kind, txn |-> e.txn]
    OBVIOUS
  <2>2. m.n = n /\ m.kind = e.kind /\ m.txn = e.txn
    BY <2>1
  <2>3. Booked(e.txn, BookKey(e.kind)) \/ Pending(m) \/ Dropped(n, e.txn)
    BY <1>1, <1>7, <2>1 DEF Unskewed, ReversalDue
  <2>4. CASE Booked(e.txn, BookKey(e.kind))
    BY <1>3, <2>4
  <2>5. CASE Pending(m)
    <3>1. \/ Pending(m)' \/ Booked(m.txn, BookKey(m.kind))' \/ Dropped(m.n, m.txn)'
      BY <1>7, <2>2, <2>5, StillPending
    <3> QED BY <2>1, <2>2, <3>1
  <2>6. CASE Dropped(n, e.txn)
    <3>1. Dropped(n, log[n].txn)'
      BY <1>1, <1>2, <1>7, <2>6, StaysDropped
    <3>2. log'[n].txn = e.txn
      BY <1>2, <1>7
    <3> QED BY <3>1, <3>2
  <2> QED BY <2>3, <2>4, <2>5, <2>6
<1>8. \A n \in DOMAIN log' : ReversalDue(n)'
  <2> SUFFICES ASSUME NEW n \in DOMAIN log' PROVE ReversalDue(n)'
    OBVIOUS
  <2>1. PICK e : e = log'[n]
    OBVIOUS
  <2>2. n \in DOMAIN log /\ e = log[n]
    BY <1>2, <2>1
  <2> QED BY <1>7, <2>1, <2>2 DEF ReversalDue
<1>9. \A t \in DOMAIN charges' : ChargeDue(t)'
  BY <1>2, <1>6
<1> QED BY <1>4, <1>5, <1>8, <1>9 DEF Unskewed

(* A handler, and its death.                                               *)
LEMMA HandlerAccountInv ==
  ASSUME TypeInv, TypeInv', AccountInv, KindInv, NEW p \in Worker, Handle(p) \/ Crash(p)
  PROVE  AccountInv'
<1>1. UNCHANGED log /\ inbox' \subseteq inbox
  BY HandlerKnown, OthersStay DEF storeVars
<1>2. LogOrder'
  BY <1>1 DEF AccountInv, LogOrder
<1>3. given' \in [Txn -> Nat]
  BY HandlerAccount DEF AccountStep, GivenStep
<1>4. BookedHappened'
  BY HandlerBooked
<1>5. \A q \in Worker : ChargeKnown(job[q])'
  BY HandStays
<1>6. ~skewed' => Unskewed'
  BY HandlerUnskewed
<1> QED BY <1>2, <1>3, <1>4, <1>5, <1>6 DEF AccountInv

(* A step that changes nothing.                                            *)
LEMMA AccountStutters ==
  ASSUME AccountInv, UNCHANGED vars
  PROVE  AccountInv'
<1>1. /\ log' = log /\ charges' = charges /\ inbox' = inbox /\ rows' = rows
      /\ given' = given /\ skewed' = skewed /\ revenue' = revenue /\ job' = job
  BY DEF vars, storeVars, history
<1>2. LogOrder' /\ BookedHappened' /\ \A p \in Worker : ChargeKnown(job[p])'
  BY <1>1 DEF AccountInv, LogOrder, BookedHappened, ChargeKnown, Known, After
<1>3. \A t : /\ RowGiven(t)' <=> RowGiven(t)
             /\ ChargeDue(t)' <=> ChargeDue(t)
  BY <1>1 DEF RowGiven, Past, ChargesOf, Known, ChargeDue, Booked, Pending
<1>4. \A p \in Worker : RetiresGiven(p)' <=> RetiresGiven(p)
  BY <1>1 DEF RetiresGiven
<1>5. \A n : ReversalDue(n)' <=> ReversalDue(n)
  BY <1>1 DEF ReversalDue, Booked, Pending, Dropped
<1>6. ~skewed' => Unskewed'
  BY <1>1, <1>3, <1>4, <1>5 DEF AccountInv, Unskewed
<1> QED BY <1>1, <1>2, <1>6 DEF AccountInv

(* Every step.                                                             *)
LEMMA NextAccountInv == TypeInv /\ KindInv /\ AccountInv /\ [Next]_vars => AccountInv'
<1> SUFFICES ASSUME TypeInv, KindInv, AccountInv, [Next]_vars PROVE AccountInv'
  OBVIOUS
<1>1. TypeInv'
  BY NextTypeInv
<1>2. CASE AppStore
  BY <1>1, <1>2, OutsideAccount
<1>3. ASSUME NEW p \in Worker, Handle(p) \/ Crash(p)
      PROVE  AccountInv'
  BY <1>1, <1>3, HandlerAccountInv
<1>4. CASE UNCHANGED vars
  BY <1>4, AccountStutters
<1> QED BY <1>2, <1>3, <1>4 DEF Next

(* At the start the one charge waits to be booked.                         *)
LEMMA InitAccountInv == Init => AccountInv
<1> SUFFICES ASSUME Init PROVE AccountInv
  OBVIOUS
<1>1. PICK m : m = [n |-> 1, kind |-> "SUBSCRIBED", txn |-> 1]
  OBVIOUS
<1>2. m.kind = "SUBSCRIBED" /\ m.txn = 1 /\ m.n = 1 /\ inbox = {m}
  BY <1>1 DEF Init
<1>3. /\ DOMAIN log = {1} /\ Len(log) = 1 /\ log[1].kind = "SUBSCRIBED" /\ log[1].txn = 1
      /\ DOMAIN charges = {1}
  BY DEF Init
<1>4. "SUBSCRIBED" \in Charges /\ "SUBSCRIBED" \notin Reversals
  BY DEF Charges, Reversals
<1>5. \A p \in Worker : job[p].at = "idle"
  BY DEF Init, Idle
<1>6. \A t : ~Known(t)
  BY DEF Init, Known
<1>7. LogOrder
  <2>1. \A n \in DOMAIN log : log[n].kind # "REVERSED" /\ log[n].kind \notin Reversals
    BY <1>3, <1>4
  <2>2. \A c, n \in DOMAIN log : ~(log[c].txn < log[n].txn)
    BY <1>3
  <2>3. \A c, d \in DOMAIN log : c + 1 .. d - 1 = {}
    BY <1>3
  <2> QED BY <1>2, <2>1, <2>2, <2>3 DEF LogOrder
<1>8. given \in [Txn -> Nat]
  BY DEF Init
<1>9. BookedHappened /\ \A p \in Worker : ChargeKnown(job[p])
  BY <1>5 DEF Init, BookedHappened, ChargeKnown
<1>10. Unskewed
  <2>1. Pending(m)
    BY <1>2, <1>5 DEF Pending
  <2>2. ChargeDue(1)
    BY <1>2, <1>4, <2>1 DEF ChargeDue
  <2>3. \A t : RowGiven(t)
    BY <1>6 DEF RowGiven
  <2>4. \A p \in Worker : RetiresGiven(p)
    BY <1>5 DEF RetiresGiven
  <2>5. \A n \in DOMAIN log : ReversalDue(n)
    BY <1>3, <1>4 DEF ReversalDue
  <2> QED BY <1>3, <2>2, <2>3, <2>4, <2>5 DEF Unskewed
<1> QED BY <1>7, <1>8, <1>9, <1>10 DEF AccountInv

(* With everything processed nothing is pending, and what is booked has a  *)
(* row, so none of its reversals was dropped.                              *)
LEMMA AccountBooks == TypeInv /\ AccountInv => RevenueFollowsStore
<1> SUFFICES ASSUME TypeInv, AccountInv, inbox = {}, ~skewed, NEW t \in DOMAIN charges
             PROVE  /\ Booked(t, "purchase")
                    /\ (\A n, m \in Refunds(t) : n = m) =>
                         (Refunded(t) <=>
                            (Booked(t, "refund") /\ ~Booked(t, "reactivation")))
  BY DEF RevenueFollowsStore, Settled
<1>1. \A m : ~Pending(m)
  BY DEF Pending
<1>2. Booked(t, "purchase")
  BY <1>1 DEF AccountInv, Unskewed, ChargeDue
<1>3. rows[t] # NoRow
  BY <1>2 DEF Booked, AccountInv, BookedHappened, Known
<1>4. DOMAIN log = 1 .. Len(log) /\ Len(log) \in Nat
  BY DEF TypeInv, StoreTyped
<1>5. ASSUME NEW n \in DOMAIN log, log[n].txn = t, log[n].kind \in Reversals
      PROVE  Booked(t, BookKey(log[n].kind))
  BY <1>1, <1>3, <1>5 DEF AccountInv, Unskewed, ReversalDue, Dropped
<1>6. BookKey("REFUND") = "refund" /\ BookKey("REVERSED") = "reactivation"
  BY DEF BookKey, Charges, Upgrades, Offers
<1>7. ASSUME \A n, m \in Refunds(t) : n = m, Refunded(t)
      PROVE  Booked(t, "refund") /\ ~Booked(t, "reactivation")
  <2>1. PICK n \in DOMAIN log :
          /\ log[n].kind = "REFUND" /\ log[n].txn = t
          /\ \A m \in n + 1 .. Len(log) : ~(log[m].kind = "REVERSED" /\ log[m].txn = t)
    BY <1>7 DEF Refunded
  <2>2. Booked(t, "refund")
    BY <1>5, <1>6, <2>1 DEF Reversals
  <2>3. ASSUME Booked(t, "reactivation") PROVE FALSE
    <3>1. After(0, "REVERSED", t)
      BY <2>3 DEF Booked, AccountInv, BookedHappened
    <3>2. PICK m \in 1 .. Len(log) : log[m].kind = "REVERSED" /\ log[m].txn = t
      BY <3>1 DEF After
    <3>3. PICK k \in DOMAIN log : k < m /\ log[k].kind = "REFUND" /\ log[k].txn = t
      BY <1>4, <3>2 DEF AccountInv, LogOrder
    <3>4. k = n
      BY <1>7, <2>1, <3>3 DEF Refunds
    <3>5. m \in n + 1 .. Len(log)
      BY <1>4, <3>2, <3>3, <3>4
    <3> QED BY <2>1, <3>2, <3>5
  <2> QED BY <2>2, <2>3
<1>8. ASSUME Booked(t, "refund"), ~Booked(t, "reactivation")
      PROVE  Refunded(t)
  <2>1. After(0, "REFUND", t)
    BY <1>8 DEF Booked, AccountInv, BookedHappened
  <2>2. PICK n \in 1 .. Len(log) : log[n].kind = "REFUND" /\ log[n].txn = t
    BY <2>1 DEF After
  <2>3. ASSUME NEW m \in n + 1 .. Len(log), log[m].kind = "REVERSED", log[m].txn = t
        PROVE  FALSE
    <3>1. m \in DOMAIN log
      BY <1>4, <2>2
    <3> QED BY <1>5, <1>6, <1>8, <2>3, <3>1 DEF Reversals
  <2> QED BY <1>4, <2>2, <2>3 DEF Refunded
<1> QED BY <1>2, <1>7, <1>8

(* RevenueFollowsStore: when no event was overtaken, the books say what    *)
(* Apple says, whatever failed, died or ran twice on the way: every charge *)
(* is booked, and as refunded exactly while Apple holds it refunded.       *)
THEOREM AppleRevenueFollowsStore == Spec => []RevenueFollowsStore
<1>1. Spec => [](TypeInv /\ SyncInv /\ AccountInv)
  <2>1. Init => TypeInv /\ SyncInv /\ AccountInv
    BY InitTypeInv, InitSyncInv, InitAccountInv
  <2>2. TypeInv /\ SyncInv /\ AccountInv /\ [Next]_vars => (TypeInv /\ SyncInv /\ AccountInv)'
    <3> SUFFICES ASSUME TypeInv, SyncInv, AccountInv, [Next]_vars
                 PROVE  (TypeInv /\ SyncInv /\ AccountInv)'
      OBVIOUS
    <3>1. KindInv
      BY DEF SyncInv
    <3> QED BY <3>1, NextTypeInv, NextSyncInv, NextAccountInv
  <2> QED BY <2>1, <2>2, PTL DEF Spec
<1> QED BY <1>1, AccountBooks, PTL


--------------------------------------------------------------------------------
(***************************************************************************)
(* Served follows the store.                                               *)
(***************************************************************************)
(* The notification of event n, while no write of a row was tried for it,  *)
(* and while nothing was searched that an upgrade replaces.                *)
MsgOf(n) == [n |-> n, kind |-> log[n].kind, txn |-> log[n].txn]
Awaits(n, places) ==
    /\ MsgOf(n) \in inbox
    /\ \A p \in Worker : job[p].msg = MsgOf(n) => job[p].at \in places
Unwritten(n) == Awaits(n, {"insert"})
Unsought(n) == Awaits(n, {"insert", "siblings"})

(* What an event says of transaction t.                                    *)
Whole == {"FAIL", "EXPIRED", "REVOKE"}
About(n, t) == log[n].kind \in Whole \cup {"FAIL_GRACE"} \/ log[n].txn = t
Cuts(n, t) == log[n].kind \in Upgrades /\ t < log[n].txn
Starts(n, t) == log[n].txn = t /\ log[n].kind \in Charges \cup {"REVERSED"}

(* An event has been given to every row it is about, or its notification   *)
(* waits to be.                                                            *)
Written ==
    /\ \A t \in Txn : given[t] <= Len(log)
    /\ \A n \in DOMAIN log, t \in Txn :
         /\ About(n, t) => n <= given[t] \/ Unwritten(n)
         /\ Cuts(n, t) => n <= given[t] \/ Unsought(n)

(* Upgrade n is still to retire t.                                         *)
Replaces(n, t) ==
    \/ Unsought(n)
    \/ \E p \in Worker : /\ job[p].msg = MsgOf(n) /\ job[p].at \in Retiring
                         /\ t \in job[p].todo

(* A row that entitles is what some event made it, and what was given to   *)
(* it since has not ended it: an event that would is not written yet.      *)
LiveFrom(t, s) ==
    /\ s \in DOMAIN log /\ s <= given[t]
    /\ \A k \in s + 1 .. given[t] : log[k].kind \in Whole => Unwritten(k)
    /\ \/ rows[t].status = "GRACE_PERIOD" /\ log[s].kind = "FAIL_GRACE"
       \/ /\ rows[t].status = "ACTIVE" /\ rows[t].at = s /\ Starts(s, t)
          /\ \A k \in s + 1 .. given[t] :
               /\ log[k].kind = "REFUND" /\ log[k].txn = t => Unwritten(k)
               /\ Cuts(k, t) /\ charges[t].exp > clock => Replaces(k, t)
LiveRow(t) == Entitles(t) => \E s : LiveFrom(t, s)

(* A row on hold, and one that a recovery dated, was given a failure, and  *)
(* a revoked row a revocation.                                             *)
Marked(t) ==
    Known(t) =>
      /\ rows[t].status = "BILLING_ISSUE" \/ rows[t].at > given[t] =>
           \E k \in DOMAIN log : k <= given[t] /\ log[k].kind = "FAIL"
      /\ rows[t].status = "REVOKED" =>
           \E k \in DOMAIN log : k <= given[t] /\ log[k].kind = "REVOKE"

(* A row that entitles to nothing was given an end of all that began.      *)
DeadRow(t) ==
    Known(t) /\ ~Entitles(t) /\ Plain /\ charges[t].exp > clock =>
      \A s \in DOMAIN log : s <= given[t] /\ Starts(s, t) =>
        \E m \in s + 1 .. given[t] : Ends(m, t)

RowsFollow == Written /\ \A t \in Txn : LiveRow(t) /\ Marked(t) /\ DeadRow(t)

(* No event is of later than now, and the store has been ended by one that *)
(* only refunds and their reversals followed.                              *)
StoreLog ==
    /\ \A n \in DOMAIN log : log[n].at <= clock
    /\ store.state \in {"EXPIRED", "REVOKED"} =>
         \E e \in DOMAIN log : /\ log[e].kind \in {"EXPIRED", "REVOKE"}
                               /\ \A m \in e + 1 .. Len(log) : log[m].kind \in Reversals

(* An upgrade does not retire what it charged for.                         *)
SparesOwn == \A p \in Worker : job[p].at \in Retiring => job[p].msg.txn \notin job[p].todo

FollowInv == StoreLog /\ SparesOwn /\ (~skewed => RowsFollow)

(* A notification that a step of p neither takes, goes on with nor ends.   *)
Aside(p, k) == k \in inbox' /\ job[p].msg # k /\ job'[p].msg # k

(* Such a notification awaits what it awaited.                             *)
LEMMA AwaitsStays ==
  ASSUME TypeInv, NEW p \in Worker, Handle(p) \/ Crash(p), NEW n \in DOMAIN log,
         NEW places, Awaits(n, places), Aside(p, MsgOf(n))
  PROVE  Awaits(n, places)'
<1>1. UNCHANGED log
  BY HandlerKnown DEF storeVars
<1>2. PICK m : m = MsgOf(n) /\ m = MsgOf(n)'
  BY <1>1 DEF MsgOf
<1>3. \A q \in Worker \ {p} : job'[q] = job[q]
  BY OthersStay
<1>4. \A q \in Worker : job'[q].msg = m => job'[q].at \in places
  BY <1>2, <1>3 DEF Aside, Awaits
<1> QED BY <1>2, <1>4 DEF Aside, Awaits

(* A step that takes a notification leaves the others aside.               *)
LEMMA TakenAside ==
  ASSUME TypeInv, NEW p \in Worker, NEW m \in inbox,
         \/ upsertPurchase(p, m) \/ GuardFirst(p, m) \/ applyRefund(p, m)
         \/ applyRefundReversed(p, m) \/ applyFailedRenewal(p, m) \/ ChainEnd(p, m)
  PROVE  /\ Takes(p, m) /\ job[p].msg = NoMsg
         /\ \A k \in inbox \ {m} : Aside(p, k)
<1>0. Takes(p, m)
  BY DEF upsertPurchase, GuardFirst, applyRefund, applyRefundReversed,
     applyFailedRenewal, ChainEnd
<1>1. job[p].msg = NoMsg /\ NoMsg \notin inbox
  BY <1>0, TakerIdle
<1>2. \/ \E where : Begin(p, m, where)
      \/ Ignore(m)
      \/ inbox' = inbox /\ \E label : job' = [job EXCEPT ![p] =
                             [Idle EXCEPT !.at = "revoke", !.msg = m, !.label = label]]
  BY DEF upsertPurchase, GuardFirst, applyRefund, applyRefundReversed,
     applyFailedRenewal, ChainEnd
<1>3. CASE \E where : Begin(p, m, where)
  <2>1. job'[p].msg = m /\ inbox' = inbox
    BY <1>3, Begins
  <2> QED BY <1>0, <1>1, <2>1 DEF Aside
<1>4. CASE Ignore(m)
  BY <1>0, <1>1, <1>4 DEF Ignore, Aside
<1>5. CASE inbox' = inbox /\ \E label : job' = [job EXCEPT ![p] =
                               [Idle EXCEPT !.at = "revoke", !.msg = m, !.label = label]]
  <2>1. PICK label : job' = [job EXCEPT ![p] =
                               [Idle EXCEPT !.at = "revoke", !.msg = m, !.label = label]]
    BY <1>5
  <2>2. job'[p] = [Idle EXCEPT !.at = "revoke", !.msg = m, !.label = label]
    BY <2>1 DEF TypeInv, JobsTyped
  <2>3. job'[p].msg = m
    BY <2>2 DEF Idle
  <2> QED BY <1>0, <1>1, <1>5, <2>3 DEF Aside
<1> QED BY <1>0, <1>1, <1>2, <1>3, <1>4, <1>5

(* So does a step of a process that has one in hand.                       *)
LEMMA WorkAside ==
  ASSUME TypeInv, NEW p \in Worker, Handle(p) \/ Crash(p), ~At(p, "idle")
  PROVE  /\ \A k \in inbox \ {job[p].msg} : Aside(p, k)
         /\ job'[p].msg = job[p].msg \/ job'[p] = Idle
         /\ ~Done(p) => inbox' = inbox
<1> DEFINE Goal == /\ \A k \in inbox \ {job[p].msg} : Aside(p, k)
                   /\ job'[p].msg = job[p].msg \/ job'[p] = Idle
                   /\ ~Done(p) => inbox' = inbox
<1>0. job[p] \in Work /\ p \in DOMAIN job /\ Idle.msg = NoMsg /\ NoMsg \notin inbox
  BY AtWork DEF TypeInv, JobsTyped
<1>1. ASSUME job'[p].msg = job[p].msg, inbox' = inbox PROVE Goal
  BY <1>1 DEF Aside
<1>2. ASSUME Done(p) PROVE Goal
  BY <1>0, <1>2 DEF Done, Aside
<1>3. ASSUME NEW where, Go(p, where), inbox' = inbox PROVE Goal
  BY <1>1, <1>3, Goes
<1>4. CASE insertPurchase(p)
  BY <1>3, <1>4 DEF insertPurchase
<1>5. CASE FindSiblings(p)
  <2>1. PICK todo, where : job' = [job EXCEPT ![p].todo = todo, ![p].at = where]
                           /\ inbox' = inbox
    BY <1>5 DEF FindSiblings
  <2>2. job'[p] = [job[p] EXCEPT !.todo = todo, !.at = where]
    BY <1>0, <2>1
  <2>3. job'[p].msg = job[p].msg
    BY <1>0, <2>2 DEF Work
  <2> QED BY <1>1, <2>1, <2>3
<1>6. CASE expireSuperseded(p)
  <2>1. PICK left : job' = [job EXCEPT ![p].at = "resync", ![p].todo = left]
                    /\ inbox' = inbox
    BY <1>6 DEF expireSuperseded
  <2>2. job'[p] = [job[p] EXCEPT !.at = "resync", !.todo = left]
    BY <1>0, <2>1
  <2>3. job'[p].msg = job[p].msg
    BY <1>0, <2>2 DEF Work
  <2> QED BY <1>1, <2>1, <2>3
<1>7. CASE FindAccess(p) \/ createAccess(p)
  BY <1>3, <1>7 DEF FindAccess, createAccess
<1>8. CASE revokeAccess(p)
  <2>1. Done(p) \/ (inbox' = inbox /\ (Go(p, "sync") \/ Go(p, "revenue")))
    BY <1>8 DEF revokeAccess
  <2> QED BY <1>2, <1>3, <2>1
<1>9. CASE emitRevenueEvent(p)
  <2>1. job' = [job EXCEPT ![p].at = "sync", ![p].label = "NONE"] /\ inbox' = inbox
    BY <1>9 DEF emitRevenueEvent
  <2>2. job'[p] = [job[p] EXCEPT !.at = "sync", !.label = "NONE"]
    BY <1>0, <2>1
  <2>3. job'[p].msg = job[p].msg
    BY <1>0, <2>2 DEF Work
  <2> QED BY <1>1, <2>1, <2>3
<1>10. CASE SyncRead(p)
  BY <1>1, <1>10, ReadMoves
<1>11. CASE SyncApply(p)
  <2>1. PICK where : Done(p) \/ /\ job' = [job EXCEPT ![p].at = where,
                                             ![p].want = Nothing, ![p].seen = <<>>]
                                /\ inbox' = inbox
    BY <1>11 DEF SyncApply
  <2>2. CASE Done(p)
    BY <1>2, <2>2
  <2>3. CASE job' = [job EXCEPT ![p].at = where, ![p].want = Nothing, ![p].seen = <<>>]
             /\ inbox' = inbox
    <3>1. job'[p] = [job[p] EXCEPT !.at = where, !.want = Nothing, !.seen = <<>>]
      BY <1>0, <2>3
    <3>2. job'[p].msg = job[p].msg
      BY <1>0, <3>1 DEF Work
    <3> QED BY <1>1, <2>3, <3>2
  <2> QED BY <2>1, <2>2, <2>3
<1>12. CASE Crash(p)
  <2>1. job'[p] = Idle /\ inbox' = inbox
    BY <1>0, <1>12 DEF Crash
  <2> QED BY <1>0, <2>1 DEF Aside
<1>13. ASSUME NEW m \in inbox,
              \/ upsertPurchase(p, m) \/ GuardFirst(p, m) \/ applyRefund(p, m)
              \/ applyRefundReversed(p, m) \/ applyFailedRenewal(p, m) \/ ChainEnd(p, m)
       PROVE  FALSE
  BY <1>13, TakenAside DEF Takes
<1> QED BY <1>4, <1>5, <1>6, <1>7, <1>8, <1>9, <1>10, <1>11, <1>12, <1>13 DEF Handle

(* What a write of one row gives it.                                       *)
LEMMA GivenOne ==
  ASSUME given \in [Txn -> Nat], NEW m, m.txn \in Txn, m.n \in Nat,
         NEW applied, Given(m, applied), ~skewed'
  PROVE  /\ \A u \in Txn \ {m.txn} : given'[u] = given[u]
         /\ applied \/ m.kind # "RECEIPT" =>
              given[m.txn] <= m.n /\ given'[m.txn] = m.n
         /\ \/ given'[m.txn] = given[m.txn]
            \/ given[m.txn] <= m.n /\ given'[m.txn] = m.n
<1>1. PICK g : g = [given EXCEPT ![m.txn] = Later(@, m.n)]
  OBVIOUS
<1>2. g \in [Txn -> Nat] /\ g[m.txn] = Later(given[m.txn], m.n)
      /\ \A u \in Txn \ {m.txn} : g[u] = given[u]
  BY <1>1, LaterOf
<1>3. given' = g /\ ~(m.n < given[m.txn] /\ (applied \/ m.kind # "RECEIPT"))
  BY <1>1 DEF Given, Write
<1>4. PICK old, n \in Nat : old = given[m.txn] /\ n = m.n
  OBVIOUS
<1>5. g[m.txn] = (IF old > n THEN old ELSE n)
  BY <1>2, <1>4 DEF Later
<1>6. applied \/ m.kind # "RECEIPT" => old <= n
  BY <1>3, <1>4
<1> QED BY <1>2, <1>3, <1>4, <1>5, <1>6

(* What a write of the chain gives its rows.                               *)
LEMMA GivenAll ==
  ASSUME given \in [Txn -> Nat], NEW n \in Nat, ChainGiven(n), ~skewed'
  PROVE  \A u \in Txn : given'[u] >= n
                        /\ (Known(u) => given[u] <= n /\ given'[u] = n)
<1>1. given' = [u \in Txn |-> Later(given[u], n)]
      /\ ~(\E t \in Txn : rows[t] # NoRow /\ n < given[t])
  BY DEF ChainGiven, Write
<1>2. ASSUME NEW u \in Txn
      PROVE  given'[u] >= n /\ (Known(u) => given[u] <= n /\ given'[u] = n)
  <2>1. PICK old \in Nat : old = given[u]
    OBVIOUS
  <2>2. given'[u] = (IF old > n THEN old ELSE n)
    BY <1>1, <2>1 DEF Later
  <2>3. Known(u) => old <= n
    BY <1>1, <2>1 DEF Known
  <2> QED BY <2>1, <2>2, <2>3
<1> QED BY <1>2

(* The guard lets a charge through that is not older than its row.         *)
LEMMA ChargeApplies ==
  ASSUME TypeInv, AccountInv, ~skewed, NEW m \in inbox, m.kind \in Charges,
         Known(m.txn), given[m.txn] <= m.n
  PROVE  /\ guardStatusWrite(rows[m.txn], "ACTIVE", m.n, {})
         /\ rows[m.txn].status \notin Lost
<1>1. /\ m.n \in DOMAIN log /\ m.n \in Nat /\ m.txn \in Txn
      /\ m.txn = log[m.n].txn /\ log[m.n].kind \in Charges
  BY Events DEF AccountInv
<1>2. given[m.txn] \in Nat /\ RowGiven(m.txn) /\ rows[m.txn] \in Kept
  BY <1>1 DEF AccountInv, Unskewed, TypeInv, RowsTyped, Known
<1>3. m.n \in ChargesOf(m.txn)
  BY <1>1 DEF ChargesOf
<1>4. ~Past(m.txn)
  BY <1>1, <1>2, <1>3 DEF Past
<1>5. rows[m.txn].at <= given[m.txn] /\ rows[m.txn].status \notin Lost
      /\ rows[m.txn].at \in Nat
  BY <1>2, <1>4, Numbers DEF RowGiven, Kept
<1>6. ~(m.n < rows[m.txn].at)
  BY <1>1, <1>2, <1>5
<1>7. "ACTIVE" \in Transitions(rows[m.txn].status)
  <2>1. rows[m.txn].status \in Status \ Terminal
    BY <1>2, <1>5 DEF Kept, Lost
  <2> QED BY <2>1 DEF Transitions, Status, Terminal
<1> QED BY <1>5, <1>6, <1>7 DEF guardStatusWrite

(* A status that entitles is not terminal, and no row has none.            *)
LEMMA EntitlingStatus ==
  /\ {"EXPIRED", "BILLING_ISSUE", "REFUNDED", "REVOKED", "NONE"} \cap AccessGranting = {}
  /\ {"ACTIVE", "GRACE_PERIOD"} \subseteq AccessGranting
  /\ Terminal \cap AccessGranting = {}
  BY DEF AccessGranting, Terminal

(* The event reaches the rows it is about.                                 *)
Lands(n) ==
    \A t \in Txn : About(n, t) =>
      /\ given'[t] >= n
      /\ log[n].kind \in Whole => ~Entitles(t)'
      /\ log[n].kind = "REFUND" => n < rows'[t].at \/ rows'[t].status # "ACTIVE"

(* A charge reaches the one row it is about.                               *)
LEMMA ChargeLands ==
  ASSUME TypeInv, NEW n \in DOMAIN log, log[n].kind \in Charges \cup {"REVERSED"},
         \A t \in Txn : t = log[n].txn => given'[t] >= n
  PROVE  Lands(n)
<1>1. log[n].kind \notin Whole \cup {"FAIL_GRACE", "REFUND"}
  BY DEF Charges, Upgrades, Offers, Whole
<1> QED BY <1>1 DEF Lands, About

(* So does a refund, whose row it finds newer, or does not leave active.   *)
LEMMA RefundLands ==
  ASSUME TypeInv, AccountInv, ~skewed', NEW p \in Worker, NEW m \in inbox,
         applyRefund(p, m), NEW n \in DOMAIN log, m = MsgOf(n)
  PROVE  Lands(n)
<1> DEFINE r == rows[m.txn]
           apply == r # NoRow /\ guardStatusWrite(r, "REFUNDED", m.n, {})
<1>1. /\ m.kind = "REFUND" /\ UNCHANGED log
      /\ rows' = IF apply THEN [rows EXCEPT ![m.txn] = written(r, "REFUNDED", m.n)]
                 ELSE rows
  BY DEF applyRefund, storeVars
<1>2. /\ m.n = n /\ m.kind = log[n].kind /\ m.txn = log[n].txn
  BY DEF MsgOf
<1>3. m.n \in 1 .. MaxEvents /\ m.txn \in Txn /\ n \in Nat
  BY <1>2, Events DEF AccountInv
<1>4. given'[m.txn] >= n
  BY <1>2, RefundAccount
<1>5. n < rows'[m.txn].at \/ rows'[m.txn].status # "ACTIVE"
  <2>1. CASE r = NoRow
    <3>1. rows'[m.txn] = NoRow
      BY <1>1, <2>1
    <3> QED BY <3>1, NoRowStatus
  <2>2. CASE r # NoRow /\ ~apply
    <3>1. r \in Kept /\ rows' = rows
      BY <1>1, <1>3, <2>2 DEF TypeInv, RowsTyped
    <3>2. m.n < r.at \/ "REFUNDED" \notin Transitions(r.status)
      BY <2>2 DEF guardStatusWrite
    <3>3. r.status = "ACTIVE" => "REFUNDED" \in Transitions(r.status)
      BY DEF Transitions, Status
    <3> QED BY <1>2, <3>1, <3>2, <3>3
  <2>3. CASE apply
    <3>1. r \in Kept /\ "REFUNDED" \in Status /\ rows \in [Txn -> Kept \cup {NoRow}]
      BY <1>3, <2>3 DEF TypeInv, RowsTyped, Status, Terminal
    <3>2. rows'[m.txn] = written(r, "REFUNDED", m.n)
      BY <1>1, <1>3, <2>3, <3>1
    <3>3. rows'[m.txn].status = IF r.status \in Terminal THEN r.status ELSE "REFUNDED"
      BY <1>3, <3>1, <3>2, WrittenFields
    <3>4. "ACTIVE" \notin Terminal
      BY DEF Terminal
    <3> QED BY <3>3, <3>4
  <2> QED BY <2>1, <2>2, <2>3
<1>6. \A t : About(n, t) => t = m.txn
  BY <1>1, <1>2 DEF About, Whole
<1> QED BY <1>1, <1>2, <1>4, <1>5, <1>6 DEF Lands, Whole

(* A write of the chain reaches every row, and one that ends leaves none   *)
(* that entitles.                                                          *)
LEMMA ChainLands ==
  ASSUME TypeInv, AccountInv, ~skewed', NEW m \in inbox, NEW n \in DOMAIN log,
         m = MsgOf(n), NEW to, NEW grace, rows' = updateChainStatusGuarded(to, grace),
         ChainGiven(m.n), m.kind \in Whole => to \notin AccessGranting,
         m.kind \in Whole \cup {"FAIL_GRACE"}
  PROVE  Lands(n)
<1>1. m.n = n /\ m.kind = log[n].kind /\ n \in Nat
  BY Events DEF MsgOf, AccountInv
<1>2. \A u \in Txn : given'[u] >= n
  BY <1>1, GivenAll DEF AccountInv
<1>3. ASSUME NEW t \in Txn, m.kind \in Whole PROVE ~Entitles(t)'
  <2>1. CASE rows[t] = NoRow \/ rows[t].status \in Terminal
    <3>1. rows'[t] = rows[t]
      BY <2>1 DEF updateChainStatusGuarded
    <3> QED BY <2>1, <3>1, EntitlingStatus, NoRowStatus DEF Entitles
  <2>2. CASE rows[t] # NoRow /\ rows[t].status \notin Terminal
    <3>1. rows'[t] = [rows[t] EXCEPT !.status = to, !.grace = grace[t]] /\ rows[t] \in Kept
      BY <2>2 DEF updateChainStatusGuarded, TypeInv, RowsTyped
    <3>2. rows'[t].status = to
      BY <3>1 DEF Kept
    <3> QED BY <1>3, <3>2 DEF Entitles
  <2> QED BY <2>1, <2>2
<1>4. log[n].kind # "REFUND"
  BY <1>1 DEF Whole
<1> QED BY <1>1, <1>2, <1>3, <1>4 DEF Lands

(* A process that takes a notification up has it in hand.                  *)
LEMMA AwaitsHand ==
  ASSUME TypeInv, NEW p \in Worker, Handle(p) \/ Crash(p), NEW n \in DOMAIN log,
         NEW places, MsgOf(n) \in inbox',
         \A q \in Worker \ {p} : job[q].msg # MsgOf(n),
         job'[p].msg = MsgOf(n) => job'[p].at \in places
  PROVE  Awaits(n, places)'
<1>1. UNCHANGED log
  BY HandlerKnown DEF storeVars
<1>2. PICK m : m = MsgOf(n) /\ m = MsgOf(n)'
  BY <1>1 DEF MsgOf
<1>3. \A q \in Worker \ {p} : job'[q] = job[q]
  BY OthersStay
<1>4. \A q \in Worker : job'[q].msg = m => job'[q].at \in places
  BY <1>2, <1>3
<1> QED BY <1>2, <1>4 DEF Awaits

(* The one who takes a notification is the only one who has it.            *)
LEMMA OneHand ==
  ASSUME TypeInv, NEW p \in Worker, NEW m,
         Takes(p, m) \/ (~At(p, "idle") /\ job[p].msg = m)
  PROVE  m \in inbox /\ \A q \in Worker \ {p} : job[q].msg # m
  BY AtWork DEF Takes

(* A notification is no receipt.                                           *)
LEMMA MsgFields ==
  ASSUME TypeInv, NEW n \in DOMAIN log
  PROVE  /\ MsgOf(n).n = n /\ MsgOf(n).kind = log[n].kind /\ MsgOf(n).txn = log[n].txn
         /\ log[n].kind \in Kind \ {"RECEIPT"} /\ log[n].txn \in Txn /\ n \in Nat
         /\ log[n].at \in Nat
<1>1. log[n] \in Entry /\ n \in Nat
  BY DEF TypeInv, StoreTyped
<1> QED BY <1>1 DEF MsgOf, Entry, LogKind

(* The insert reaches the row of its charge.                               *)
LEMMA InsertGiven ==
  ASSUME TypeInv, AccountInv, KindInv, ~skewed', NEW p \in Worker, insertPurchase(p)
  PROVE  LET m == job[p].msg
         IN  /\ m \in inbox /\ m.kind \in Charges /\ m.txn \in Txn
             /\ m.n \in DOMAIN log /\ log[m.n].txn = m.txn /\ log[m.n].kind \in Charges
             /\ given[m.txn] <= m.n /\ given'[m.txn] = m.n
             /\ \A u \in Txn \ {m.txn} : given'[u] = given[u]
<1>1. PICK m : m = job[p].msg
  OBVIOUS
<1>2. At(p, "insert") /\ Given(m, TRUE)
  BY <1>1 DEF insertPurchase
<1>3. m \in inbox /\ m.kind \in Charges
  BY <1>1, <1>2, AtWork DEF At, KindInv, KindOf
<1>4. /\ m.n \in DOMAIN log /\ m.n \in Nat /\ m.txn \in Txn /\ m.txn = log[m.n].txn
      /\ log[m.n].kind \in Charges
  BY <1>3, Events DEF AccountInv
<1>5. /\ \A u \in Txn \ {m.txn} : given'[u] = given[u]
      /\ given[m.txn] <= m.n /\ given'[m.txn] = m.n
  BY <1>2, <1>4, GivenOne DEF AccountInv
<1> QED BY <1>1, <1>3, <1>4, <1>5

(* The event that no row was given yet, still is not or is now given to    *)
(* every row it is about.                                                  *)
LEMMA WrittenNow ==
  ASSUME TypeInv, AccountInv, KindInv, ~skewed', NEW p \in Worker, Handle(p) \/ Crash(p),
         NEW n \in DOMAIN log, Unwritten(n)
  PROVE  Unwritten(n)' \/ Lands(n)
<1> DEFINE Goal == Unwritten(n)' \/ Lands(n)
<1>0. PICK k : k = MsgOf(n) /\ k \in inbox /\ k.n = n /\ k.kind = log[n].kind
               /\ k.txn = log[n].txn /\ k.kind \in Kind \ {"RECEIPT"}
  BY MsgFields DEF Unwritten, Awaits
<1>1. Aside(p, k) => Goal
  BY <1>0, AwaitsStays DEF Unwritten
<1>2. /\ \A q \in Worker : job[q].msg = k => job[q].at = "insert"
      /\ k.n \in Nat /\ k.txn \in Txn
  BY <1>0, Events DEF Unwritten, Awaits, AccountInv
<1>3. CASE ~At(p, "idle") /\ (job[p].msg # k \/ ~At(p, "insert"))
  BY <1>0, <1>1, <1>2, <1>3, WorkAside DEF At
<1>4. CASE At(p, "insert") /\ job[p].msg = k
  <2>1. insertPurchase(p)
    <3>1. ASSUME NEW m, Takes(p, m) PROVE FALSE
      BY <1>4, <3>1 DEF Takes, At
    <3> QED BY <1>4, <3>1 DEF Handle, At, upsertPurchase, GuardFirst, applyRefund,
         applyRefundReversed, applyFailedRenewal, ChainEnd, FindSiblings,
         expireSuperseded, FindAccess, createAccess, revokeAccess, emitRevenueEvent,
         SyncRead, SyncApply, Crash
  <2>2. k.kind \in Charges /\ given'[k.txn] >= n
    BY <1>0, <1>2, <1>4, <2>1, InsertGiven
  <2> QED BY <1>0, <2>2, ChargeLands
<1>5. ASSUME NEW m \in inbox,
             \/ upsertPurchase(p, m) \/ GuardFirst(p, m) \/ applyRefund(p, m)
             \/ applyRefundReversed(p, m) \/ applyFailedRenewal(p, m) \/ ChainEnd(p, m)
      PROVE  Goal
  <2>1. CASE m # k
    BY <1>0, <1>1, <1>5, <2>1, TakenAside
  <2>2. CASE m = k
    <3>1. CASE upsertPurchase(p, m)
      <4>1. k.kind \in Charges /\ \E applied : Given(k, applied)
        BY <2>2, <3>1 DEF upsertPurchase
      <4>2. given'[k.txn] >= n
        BY <1>0, <1>2, <4>1, OneGiven DEF AccountInv
      <4> QED BY <1>0, <4>1, <4>2, ChargeLands
    <3>2. CASE GuardFirst(p, m)
      <4>1. job'[p].at = "insert" /\ inbox' = inbox
        BY <3>2, Begins DEF GuardFirst
      <4>2. \A q \in Worker \ {p} : job[q].msg # k
        BY <2>2, <3>2, OneHand DEF GuardFirst
      <4> QED BY <1>0, <4>1, <4>2, AwaitsHand DEF Unwritten
    <3>3. CASE applyRefund(p, m)
      BY <1>0, <2>2, <3>3, RefundLands
    <3>4. CASE applyRefundReversed(p, m)
      <4>1. k.kind = "REVERSED" /\ given'[k.txn] >= n
        BY <1>0, <2>2, <3>4, ReversedAccount DEF applyRefundReversed
      <4> QED BY <1>0, <4>1, ChargeLands
    <3>5. CASE applyFailedRenewal(p, m)
      <4>1. PICK to, grace : /\ rows' = updateChainStatusGuarded(to, grace)
                             /\ ChainGiven(m.n) /\ m.kind \in Failures
                             /\ m.kind = "FAIL" => to = "BILLING_ISSUE"
        BY <3>5 DEF applyFailedRenewal
      <4>2. /\ m.kind \in Whole => to \notin AccessGranting
            /\ m.kind \in Whole \cup {"FAIL_GRACE"}
        BY <4>1, EntitlingStatus DEF Failures, Whole
      <4> QED BY <1>0, <2>2, <4>1, <4>2, ChainLands
    <3>6. CASE ChainEnd(p, m)
      <4>1. PICK to, grace :
              /\ to \in {"REVOKED", "EXPIRED"}
              /\ rows' = updateChainStatusGuarded(to, grace)
              /\ ChainGiven(m.n) /\ m.kind \in {"EXPIRED", "REVOKE"}
        BY <3>6 DEF ChainEnd
      <4>2. to \notin AccessGranting /\ m.kind \in Whole
        BY <4>1, EntitlingStatus DEF Whole
      <4> QED BY <1>0, <2>2, <4>1, <4>2, ChainLands
    <3> QED BY <1>5, <3>1, <3>2, <3>3, <3>4, <3>5, <3>6
  <2> QED BY <2>1, <2>2
<1>6. CASE At(p, "idle")
  <2>1. ~Crash(p)
    BY <1>6 DEF Crash
  <2> QED BY <1>5, <1>6, <2>1 DEF Handle, At, insertPurchase, FindSiblings,
       expireSuperseded, FindAccess, createAccess, revokeAccess, emitRevenueEvent,
       SyncRead, SyncApply
<1> QED BY <1>3, <1>4, <1>6

(* An upgrade, as the process that retires what it replaces has it.        *)
LEMMA UpgradeInHand ==
  ASSUME TypeInv, AccountInv, KindInv, NEW p \in Worker, job[p].at \in Replacing
  PROVE  LET m == job[p].msg
         IN  /\ m \in inbox /\ m.kind \in Upgrades /\ m.n \in DOMAIN log /\ m.n \in Nat
             /\ m.n \in 1 .. MaxEvents
             /\ m.txn \in Txn /\ log[m.n].txn = m.txn /\ log[m.n].kind = m.kind
             /\ m = MsgOf(m.n)
<1>1. PICK m : m = job[p].msg
  OBVIOUS
<1>2. m \in inbox /\ m.kind \in Upgrades
  BY <1>1, AtWork DEF At, KindInv, KindOf, Replacing
<1>3. /\ m \in Message /\ m.n \in DOMAIN log /\ m.n \in Nat /\ m.n \in 1 .. MaxEvents
      /\ m.txn \in Txn /\ m.txn = log[m.n].txn
  BY <1>2, Events DEF AccountInv
<1>4. m.kind = log[m.n].kind
  BY <1>2 DEF TypeInv, StoreTyped, Upgrades
<1>5. m = MsgOf(m.n)
  BY <1>3, <1>4 DEF MsgOf, Message
<1> QED BY <1>1, <1>2, <1>3, <1>4, <1>5

(* The search gives the upgrade to the earlier rows, and finds those it is *)
(* to retire.                                                              *)
LEMMA SiblingsFound ==
  ASSUME TypeInv, AccountInv, KindInv, ~skewed', NEW p \in Worker, FindSiblings(p)
  PROVE  LET m == job[p].msg
         IN  /\ job'[p].msg = m /\ UNCHANGED <<rows, inbox>>
             /\ \A u \in Txn : /\ u < m.txn => given'[u] >= m.n
                               /\ \/ given'[u] = given[u]
                                  \/ u < m.txn /\ given'[u] = m.n
             /\ \A u \in findSupersedable(m.txn, m.n) :
                  job'[p].at = "supersede" /\ u \in job'[p].todo
<1>1. PICK m : m = job[p].msg
  OBVIOUS
<1>2. PICK found : found = findSupersedable(m.txn, m.n)
  OBVIOUS
<1>3. /\ At(p, "siblings") /\ UNCHANGED <<rows, inbox>>
      /\ job' = [job EXCEPT ![p].todo = found,
                            ![p].at = IF found = {} THEN "find" ELSE "supersede"]
      /\ Write([u \in Txn |-> IF u < m.txn THEN Later(given[u], m.n) ELSE given[u]], FALSE)
  BY <1>1, <1>2 DEF FindSiblings
<1>4. m.n \in Nat /\ m.txn \in Txn
  BY <1>1, <1>3, UpgradeInHand DEF At, Replacing
<1>5. given' = [u \in Txn |-> IF u < m.txn THEN Later(given[u], m.n) ELSE given[u]]
  BY <1>3 DEF Write
<1>6. ASSUME NEW u \in Txn
      PROVE  /\ u < m.txn => given'[u] >= m.n
             /\ given'[u] = given[u] \/ (u < m.txn /\ given'[u] = m.n)
  <2>1. PICK old, n \in Nat : old = given[u] /\ n = m.n
    BY <1>4 DEF AccountInv
  <2>2. given'[u] = IF u < m.txn THEN (IF old > n THEN old ELSE n) ELSE old
    BY <1>5, <2>1 DEF Later
  <2> QED BY <2>1, <2>2
<1>7. PICK where : where = IF found = {} THEN "find" ELSE "supersede"
  OBVIOUS
<1>8. job'[p] = [job[p] EXCEPT !.todo = found, !.at = where]
  BY <1>3, <1>7 DEF TypeInv, JobsTyped
<1>9. job'[p].todo = found /\ job'[p].msg = m /\ job'[p].at = where
  BY <1>1, <1>8 DEF TypeInv, JobsTyped, Work
<1> QED BY <1>1, <1>2, <1>3, <1>6, <1>7, <1>9

(* The upgrade that nothing was searched for still waits, or its search is *)
(* made.                                                                   *)
LEMMA SoughtNow ==
  ASSUME TypeInv, AccountInv, KindInv, ~skewed', NEW p \in Worker, Handle(p) \/ Crash(p),
         NEW n \in DOMAIN log, log[n].kind \in Upgrades, Unsought(n)
  PROVE  Unsought(n)' \/ (FindSiblings(p) /\ job[p].msg = MsgOf(n))
<1> DEFINE Goal == Unsought(n)' \/ (FindSiblings(p) /\ job[p].msg = MsgOf(n))
<1>0. PICK k : k = MsgOf(n) /\ k \in inbox /\ k.n = n /\ k.kind = log[n].kind
               /\ k.txn = log[n].txn /\ k.kind \in Upgrades /\ k.kind \in Charges
               /\ k.kind # "RECEIPT"
  BY MsgFields DEF Unsought, Awaits, Charges, Upgrades
<1>1. Aside(p, k) => Goal
  BY <1>0, AwaitsStays DEF Unsought
<1>2. \A q \in Worker : job[q].msg = k => job[q].at \in {"insert", "siblings"}
  BY <1>0 DEF Unsought, Awaits
<1>3. ASSUME \A q \in Worker \ {p} : job[q].msg # k, inbox' = inbox,
             job'[p].msg = k => job'[p].at \in {"insert", "siblings"}
      PROVE  Goal
  BY <1>0, <1>3, AwaitsHand DEF Unsought
<1>4. CASE ~At(p, "idle") /\ job[p].msg # k
  BY <1>0, <1>1, <1>4, WorkAside
<1>5. CASE job[p].msg = k
  <2>1. \A q \in Worker \ {p} : job[q].msg # k
    BY <1>0, <1>5 DEF TypeInv, JobsTyped, StoreTyped, Message, NoMsg, Upgrades
  <2>2. CASE Crash(p)
    <3>1. job'[p].msg = NoMsg /\ inbox' = inbox /\ NoMsg # k
      BY <1>0, <2>2, AtWork DEF Crash, TypeInv, JobsTyped
    <3> QED BY <1>3, <2>1, <3>1
  <2>3. CASE FindSiblings(p)
    BY <1>0, <1>5, <2>3
  <2>4. CASE insertPurchase(p)
    <3>1. Go(p, AfterUpsert(k, TRUE)) /\ inbox' = inbox
      BY <1>5, <2>4 DEF insertPurchase
    <3>2. job'[p].at = "siblings"
      BY <1>0, <3>1, Goes DEF AfterUpsert
    <3> QED BY <1>3, <2>1, <3>1, <3>2
  <2>5. ~At(p, "idle") /\ (At(p, "insert") \/ At(p, "siblings"))
    BY <1>2, <1>5 DEF At
  <2>6. ASSUME NEW m, Takes(p, m) PROVE FALSE
    BY <2>5, <2>6 DEF Takes
  <2> QED BY <2>2, <2>3, <2>4, <2>5, <2>6 DEF Handle, At, upsertPurchase, GuardFirst,
       applyRefund, applyRefundReversed, applyFailedRenewal, ChainEnd,
       expireSuperseded, FindAccess, createAccess, revokeAccess, emitRevenueEvent,
       SyncRead, SyncApply
<1>6. ASSUME NEW m \in inbox,
             \/ upsertPurchase(p, m) \/ GuardFirst(p, m) \/ applyRefund(p, m)
             \/ applyRefundReversed(p, m) \/ applyFailedRenewal(p, m) \/ ChainEnd(p, m)
      PROVE  Goal
  <2>1. CASE m # k
    BY <1>0, <1>1, <1>6, <2>1, TakenAside
  <2>2. CASE m = k
    <3>1. Takes(p, m)
      BY <1>6 DEF upsertPurchase, GuardFirst, applyRefund, applyRefundReversed,
         applyFailedRenewal, ChainEnd
    <3>2. \A q \in Worker \ {p} : job[q].msg # k
      BY <2>2, <3>1, OneHand
    <3>3. CASE upsertPurchase(p, m)
      <4>1. PICK applied : /\ applied = guardStatusWrite(rows[k.txn], "ACTIVE", k.n, {})
                           /\ Begin(p, k, AfterUpsert(k, applied))
        BY <2>2, <3>3 DEF upsertPurchase
      <4>2. applied
        BY <1>0, <2>2, <3>3, <4>1, UpsertAccount
      <4>3. job'[p].at = "siblings" /\ inbox' = inbox
        <5>1. AfterUpsert(k, applied) = "siblings"
          BY <1>0, <4>2 DEF AfterUpsert
        <5> QED BY <4>1, <5>1, Begins
      <4> QED BY <1>3, <3>2, <4>3
    <3>4. CASE GuardFirst(p, m)
      <4>1. job'[p].at = "insert" /\ inbox' = inbox
        BY <3>4, Begins DEF GuardFirst
      <4> QED BY <1>3, <3>2, <4>1
    <3>5. CASE \/ applyRefund(p, m) \/ applyRefundReversed(p, m)
               \/ applyFailedRenewal(p, m) \/ ChainEnd(p, m)
      BY <1>0, <2>2, <3>5 DEF applyRefund, applyRefundReversed, applyFailedRenewal,
         ChainEnd, Upgrades, Failures
    <3> QED BY <1>6, <3>3, <3>4, <3>5
  <2> QED BY <2>1, <2>2
<1>7. CASE At(p, "idle")
  <2>1. ~Crash(p)
    BY <1>7 DEF Crash
  <2> QED BY <1>6, <1>7, <2>1 DEF Handle, At, insertPurchase, FindSiblings,
       expireSuperseded, FindAccess, createAccess, revokeAccess, emitRevenueEvent,
       SyncRead, SyncApply
<1> QED BY <1>4, <1>5, <1>7

(* A tier that an upgrade is still to retire is retired, or its row is     *)
(* newer, or it is still to be.                                            *)
LEMMA StillReplaces ==
  ASSUME TypeInv, AccountInv, KindInv, StoreLog, ~skewed', NEW p \in Worker,
         Handle(p) \/ Crash(p), NEW n \in DOMAIN log, NEW t \in Txn, Cuts(n, t),
         Replaces(n, t), charges[t].exp > clock, Entitles(t)'
  PROVE  Replaces(n, t)' \/ n < rows'[t].at
<1> DEFINE Goal == Replaces(n, t)' \/ n < rows'[t].at
<1>0. PICK k : /\ k = MsgOf(n) /\ k = MsgOf(n)' /\ k.n = n /\ k.kind = log[n].kind
               /\ k.txn = log[n].txn /\ k.kind \in Upgrades /\ t < k.txn /\ k # NoMsg
  <2>1. UNCHANGED log
    BY HandlerKnown DEF storeVars
  <2>2. PICK k : k = MsgOf(n) /\ k = MsgOf(n)'
    BY <2>1 DEF MsgOf
  <2>3. k.n = n /\ k.kind = log[n].kind /\ k.txn = log[n].txn
    BY <2>2, MsgFields
  <2>4. k # NoMsg
    BY <2>3 DEF Cuts, NoMsg, Upgrades
  <2> QED BY <2>2, <2>3, <2>4 DEF Cuts
<1>1. ASSUME Unsought(n) PROVE Goal
  <2>1. CASE Unsought(n)'
    BY <2>1 DEF Replaces
  <2>2. CASE FindSiblings(p) /\ job[p].msg = k
    <3>1. rows' = rows /\ job'[p].msg = k
          /\ \A u \in findSupersedable(k.txn, n) :
               job'[p].at = "supersede" /\ u \in job'[p].todo
      BY <1>0, <2>2, SiblingsFound
    <3>2. Entitles(t)
      BY <3>1 DEF Entitles
    <3>3. rows[t] # NoRow /\ rows[t].status \notin Terminal
      BY <3>2, Entitling DEF Known
    <3>4. charges[t].exp > log[n].at
      <4>1. charges[t] \in Priced
        BY <3>2, Entitling DEF TypeInv, StoreTyped
      <4>2. charges[t].exp \in Nat /\ clock \in Nat /\ log[n].at \in Nat
        BY <4>1, MsgFields DEF Priced, TypeInv, StoreTyped
      <4> QED BY <4>2 DEF StoreLog
    <3>5. t # k.txn
      BY <1>0 DEF Txn
    <3>6. t \in findSupersedable(k.txn, n)
      BY <3>3, <3>4, <3>5 DEF findSupersedable
    <3> QED BY <1>0, <3>1, <3>6 DEF Replaces, Retiring
  <2> QED BY <1>0, <1>1, <2>1, <2>2, SoughtNow DEF Cuts
<1>2. ASSUME NEW q \in Worker, job[q].msg = k, job[q].at \in Retiring, t \in job[q].todo
      PROVE  Goal
  <2>1. ASSUME job'[q].msg = k, job'[q].at \in Retiring, t \in job'[q].todo PROVE Goal
    BY <1>0, <2>1 DEF Replaces
  <2>2. CASE q # p
    <3>1. job'[q] = job[q]
      BY <2>2, OthersStay
    <3> QED BY <1>2, <2>1, <3>1
  <2>3. CASE q = p /\ Crash(p)
    <3>1. job'[p].msg = NoMsg /\ inbox' = inbox
      BY <2>3, AtWork DEF Crash, TypeInv, JobsTyped
    <3>2. k \in inbox /\ \A r \in Worker \ {p} : job[r].msg # k
      BY <1>0, <1>2, <2>3 DEF TypeInv, JobsTyped
    <3>3. MsgOf(n) \in inbox' /\ job'[p].msg # MsgOf(n)
          /\ \A r \in Worker \ {p} : job[r].msg # MsgOf(n)
      BY <1>0, <3>1, <3>2
    <3>4. Awaits(n, {"insert", "siblings"})'
      BY <3>3, AwaitsHand
    <3>5. Unsought(n)'
      BY <3>4 DEF Unsought
    <3> QED BY <3>5 DEF Replaces
  <2>4. CASE q = p /\ expireSuperseded(p)
    <3>0. PICK u \in job[p].todo :
            /\ rows' = IF guardStatusWrite(rows[u], "EXPIRED", job[p].msg.n, {})
                       THEN [rows EXCEPT ![u] = written(@, "EXPIRED", job[p].msg.n)]
                       ELSE rows
            /\ job' = [job EXCEPT ![p].at = "resync", ![p].todo = @ \ {u}]
      BY <2>4 DEF expireSuperseded
    <3> DEFINE left == job[p].todo \ {u}
    <3>1. /\ rows' = IF guardStatusWrite(rows[u], "EXPIRED", n, {})
                     THEN [rows EXCEPT ![u] = written(@, "EXPIRED", n)] ELSE rows
          /\ job' = [job EXCEPT ![p].at = "resync", ![p].todo = left]
      <4>1. job[p].msg.n = n
        BY <1>0, <1>2, <2>4
      <4> QED BY <3>0, <4>1
    <3>2. job[p] \in Work /\ job'[p] = [job[p] EXCEPT !.at = "resync", !.todo = left]
      <4>1. job[p] \in Work /\ p \in DOMAIN job
        BY DEF TypeInv, JobsTyped
      <4> QED BY <3>1, <4>1
    <3>3. job'[p].at = "resync" /\ job'[p].todo = left /\ job'[p].msg = k
      BY <1>2, <2>4, <3>2 DEF Work
    <3>4. CASE u # t
      BY <1>2, <2>1, <2>4, <3>1, <3>3, <3>4 DEF Retiring
    <3>5. CASE u = t
      <4>1. n \in 1 .. MaxEvents /\ "EXPIRED" \in Status
        BY <1>0, <1>2, <2>4, UpgradeInHand DEF Retiring, Replacing, Status
      <4>2. CASE guardStatusWrite(rows[t], "EXPIRED", n, {})
        <5>1. rows[t] # NoRow
          BY <4>2, NoRowStatus DEF guardStatusWrite, Transitions
        <5>2. rows[t] \in Kept /\ rows \in [Txn -> Kept \cup {NoRow}]
          BY <5>1 DEF TypeInv, RowsTyped
        <5>3. rows'[t] = written(rows[t], "EXPIRED", n)
          BY <3>1, <3>5, <4>2, <5>2
        <5>4. rows'[t].status =
                IF rows[t].status \in Terminal THEN rows[t].status ELSE "EXPIRED"
          BY <4>1, <5>2, <5>3, WrittenFields
        <5> QED BY <5>4, EntitlingStatus DEF Entitles
      <4>3. CASE ~guardStatusWrite(rows[t], "EXPIRED", n, {})
        <5>1. rows' = rows
          BY <3>1, <3>5, <4>3
        <5>2. Entitles(t) /\ rows[t] \in Kept
          BY <5>1, Entitling DEF Entitles, TypeInv, RowsTyped, Known
        <5>3. "EXPIRED" \in Transitions(rows[t].status)
          BY <5>2 DEF Entitles, Kept, Transitions, Status, AccessGranting, Terminal
        <5> QED BY <4>3, <5>1, <5>3 DEF guardStatusWrite
      <4> QED BY <4>2, <4>3
    <3> QED BY <3>4, <3>5
  <2>5. CASE q = p /\ SyncRead(p)
    BY <1>2, <2>1, <2>5, ReadMoves DEF Retiring, SyncRead, At
  <2>6. CASE q = p /\ SyncApply(p)
    <3>1. PICK where : /\ where = (IF job[p].todo = {} THEN "find" ELSE "supersede")
                       /\ job' = [job EXCEPT ![p].at = where, ![p].want = Nothing,
                                             ![p].seen = <<>>]
      BY <1>2, <2>6 DEF SyncApply, At, Retiring
    <3>2. job'[p] = [job[p] EXCEPT !.at = where, !.want = Nothing, !.seen = <<>>]
      BY <3>1 DEF TypeInv, JobsTyped
    <3>3. job'[p].at = where /\ job'[p].todo = job[p].todo /\ job'[p].msg = job[p].msg
      BY <3>2 DEF TypeInv, JobsTyped, Work
    <3> QED BY <1>2, <2>1, <2>6, <3>1, <3>3 DEF Retiring
  <2>7. ASSUME q = p, NEW m, Takes(p, m) PROVE FALSE
    BY <1>2, <2>7 DEF Takes, At, Retiring
  <2>8. q = p => ~(insertPurchase(p) \/ FindSiblings(p) \/ FindAccess(p)
                    \/ createAccess(p) \/ revokeAccess(p) \/ emitRevenueEvent(p))
    BY <1>2 DEF insertPurchase, FindSiblings, FindAccess, createAccess, revokeAccess,
       emitRevenueEvent, At, Retiring
  <2> QED BY <2>2, <2>3, <2>4, <2>5, <2>6, <2>7, <2>8 DEF Handle, upsertPurchase,
       GuardFirst, applyRefund, applyRefundReversed, applyFailedRenewal, ChainEnd
<1> QED BY <1>0, <1>1, <1>2 DEF Replaces

(* What a row was given is an event, or was given to it before.            *)
LEMMA GivenNow ==
  ASSUME TypeInv, AccountInv, KindInv, ~skewed', NEW p \in Worker, Handle(p) \/ Crash(p),
         NEW t \in Txn
  PROVE  given'[t] = given[t] \/ given'[t] \in DOMAIN log
<1> DEFINE Goal == given'[t] = given[t] \/ given'[t] \in DOMAIN log
<1>0. given \in [Txn -> Nat]
  BY DEF AccountInv
<1>1. ASSUME NEW m \in inbox, NEW applied, Given(m, applied) PROVE Goal
  BY <1>0, <1>1, Events, GivenOne DEF AccountInv
<1>2. ASSUME NEW m \in inbox, ChainGiven(m.n) PROVE Goal
  <2>1. given' = [u \in Txn |-> Later(given[u], m.n)]
    BY <1>2 DEF ChainGiven, Write
  <2>2. given'[t] = given[t] \/ given'[t] = m.n
    BY <2>1 DEF Later
  <2> QED BY <2>2, Events DEF AccountInv
<1>3. ASSUME NEW m \in inbox,
             \/ upsertPurchase(p, m) \/ GuardFirst(p, m) \/ applyRefund(p, m)
             \/ applyRefundReversed(p, m) \/ applyFailedRenewal(p, m) \/ ChainEnd(p, m)
      PROVE  Goal
  <2>1. \/ \E applied : Given(m, applied)
        \/ ChainGiven(m.n) \/ given' = given
    BY <1>3 DEF upsertPurchase, GuardFirst, applyRefund, applyRefundReversed,
       applyFailedRenewal, ChainEnd, history
  <2> QED BY <1>1, <1>2, <2>1
<1>4. CASE insertPurchase(p)
  BY <1>4, InsertGiven
<1>5. CASE FindSiblings(p)
  BY <1>5, SiblingsFound, UpgradeInHand DEF FindSiblings, At, Replacing
<1>6. CASE expireSuperseded(p)
  BY <1>6 DEF expireSuperseded, Write
<1>7. CASE \/ FindAccess(p) \/ createAccess(p) \/ revokeAccess(p) \/ emitRevenueEvent(p)
           \/ SyncRead(p) \/ SyncApply(p) \/ Crash(p)
  BY <1>7 DEF FindAccess, createAccess, revokeAccess, emitRevenueEvent, SyncRead,
     readAccess, SyncApply, Crash, history
<1> QED BY <1>3, <1>4, <1>5, <1>6, <1>7 DEF Handle

(* Every event has been given to the rows it is about, or waits to be.     *)
LEMMA StillWritten ==
  ASSUME TypeInv, AccountInv, KindInv, ~skewed', NEW p \in Worker, Handle(p) \/ Crash(p),
         Written
  PROVE  Written'
<1>1. UNCHANGED log /\ GivenStep
  BY HandlerKnown, HandlerAccount DEF storeVars, AccountStep
<1>2. \A n, t : (About(n, t)' <=> About(n, t)) /\ (Cuts(n, t)' <=> Cuts(n, t))
  BY <1>1 DEF About, Cuts
<1>3. given \in [Txn -> Nat] /\ \A t \in Txn : given'[t] >= given[t] /\ given'[t] \in Nat
  BY <1>1 DEF AccountInv, GivenStep
<1>4. ASSUME NEW n \in DOMAIN log, NEW t \in Txn, About(n, t)
      PROVE  n <= given'[t] \/ Unwritten(n)'
  <2>1. CASE n <= given[t]
    <3>1. n \in Nat
      BY MsgFields
    <3> QED BY <1>3, <2>1, <3>1
  <2>2. CASE Unwritten(n)
    <3>1. Unwritten(n)' \/ Lands(n)
      BY <2>2, WrittenNow
    <3>2. n \in Nat
      BY MsgFields
    <3> QED BY <1>3, <1>4, <3>1, <3>2 DEF Lands
  <2> QED BY <1>4, <2>1, <2>2 DEF Written
<1>5. ASSUME NEW n \in DOMAIN log, NEW t \in Txn, Cuts(n, t)
      PROVE  n <= given'[t] \/ Unsought(n)'
  <2>0. n \in Nat
    BY MsgFields
  <2>1. CASE n <= given[t]
    BY <1>3, <2>0, <2>1
  <2>2. CASE FindSiblings(p) /\ job[p].msg = MsgOf(n)
    BY <1>3, <1>5, <2>0, <2>2, SiblingsFound, MsgFields DEF Cuts
  <2>3. CASE Unsought(n)
    BY <1>5, <2>2, <2>3, SoughtNow DEF Cuts
  <2> QED BY <1>5, <2>1, <2>3 DEF Written
<1>6. \A t \in Txn : given'[t] <= Len(log')
  <2> SUFFICES ASSUME NEW t \in Txn PROVE given'[t] <= Len(log)
    BY <1>1
  <2>0. given[t] <= Len(log) /\ Len(log) \in Nat /\ DOMAIN log = 1 .. Len(log)
    BY DEF Written, TypeInv, StoreTyped
  <2>1. given'[t] = given[t] \/ given'[t] \in DOMAIN log
    BY GivenNow
  <2> QED BY <2>0, <2>1
<1> QED BY <1>1, <1>2, <1>4, <1>5, <1>6 DEF Written

(* What a step of a handler does to a row: it makes of it what the event   *)
(* says that it now is given, or leaves it alone.  Of a row that entitles  *)
(* to nothing when it is given a charge nothing is said where DeadRow says *)
(* nothing.                                                                *)
NowGiven(t, kind) == given'[t] \in DOMAIN log /\ log[given'[t]].kind = kind
Begun(t) ==
    /\ given'[t] \in DOMAIN log
    /\ \/ rows'[t].status = "GRACE_PERIOD" /\ NowGiven(t, "FAIL_GRACE")
       \/ rows'[t].status = "ACTIVE" /\ rows'[t].at = given'[t] /\ Starts(given'[t], t)
Ended(t) == given'[t] \in DOMAIN log /\ Ends(given'[t], t)
StaysDead(t) == Known(t) /\ ~Entitles(t) /\ given'[t] = given[t]
Beside(t) == ~Plain \/ ~(charges[t].exp > clock)
Story(t) ==
    Known(t)' =>
      /\ Entitles(t)' => rows'[t] = rows[t] \/ Begun(t)
      /\ ~Entitles(t)' => Ended(t) \/ StaysDead(t) \/ Beside(t)
      /\ rows'[t].status = "BILLING_ISSUE" =>
           rows[t].status = "BILLING_ISSUE" \/ NowGiven(t, "FAIL")
      /\ rows'[t].status = "REVOKED" => rows[t].status = "REVOKED" \/ NowGiven(t, "REVOKE")
      /\ rows'[t].at > given'[t] =>
           Known(t) /\ (rows'[t].at = rows[t].at \/ rows[t].status = "BILLING_ISSUE")

(* A row that is left alone, whatever it is given.                         *)
LEMMA LeftAlone ==
  ASSUME NEW t \in Txn, rows'[t] = rows[t],
         given'[t] = given[t] \/ Ended(t) \/ (Known(t) /\ ~Entitles(t) => Beside(t))
  PROVE  Story(t)
  BY DEF Story, StaysDead, Entitles, Known

(* A row that a charge or a reversal makes active.                         *)
LEMMA MadeActive ==
  ASSUME NEW t \in Txn, NEW n \in DOMAIN log, n \in Nat, given'[t] = n, Starts(n, t),
         rows'[t].status = "ACTIVE", rows'[t].at = n
  PROVE  Story(t)
<1>1. Begun(t) /\ ~(rows'[t].at > given'[t])
  BY DEF Begun
<1>2. Entitles(t)'
  BY EntitlingStatus DEF Entitles
<1> QED BY <1>1, <1>2 DEF Story

(* The rest of the chain at a recovery.                                    *)
LEMMA RetiredStory ==
  ASSUME TypeInv, NEW t \in Txn, NEW n \in 1 .. MaxEvents, NEW u \in Txn, u # t,
         NEW own, own[u] = rows[u], given'[u] = given[u],
         rows' = own \/ rows' = retireChainBillingIssue(own, t, n)
  PROVE  Story(u)
<1>1. rows'[u] = rows[u] \/ (rows[u].status = "BILLING_ISSUE"
                               /\ rows'[u] = written(rows[u], "EXPIRED", n))
  BY DEF retireChainBillingIssue
<1>2. CASE rows'[u] = rows[u]
  BY <1>2, LeftAlone
<1>3. CASE rows[u].status = "BILLING_ISSUE" /\ rows'[u] = written(rows[u], "EXPIRED", n)
  <2>1. Known(u) /\ rows[u] \in Kept /\ "EXPIRED" \in Status
    BY <1>3, NoRowStatus DEF Known, TypeInv, RowsTyped, Status
  <2>2. rows'[u].status = "EXPIRED"
    BY <1>3, <2>1, WrittenFields DEF Terminal
  <2>3. ~Entitles(u) /\ ~Entitles(u)'
    BY <1>3, <2>2, EntitlingStatus DEF Entitles
  <2> QED BY <1>3, <2>1, <2>2, <2>3 DEF Story, StaysDead
<1> QED BY <1>1, <1>2, <1>3

(* The upsert.                                                             *)
LEMMA UpsertStory ==
  ASSUME TypeInv, AccountInv, ~skewed, ~skewed', NEW p \in Worker, NEW m \in inbox,
         upsertPurchase(p, m), NEW u \in Txn
  PROVE  Story(u)
<1> DEFINE r == rows[m.txn]
           apply == guardStatusWrite(r, "ACTIVE", m.n, {})
           w == IF apply THEN written(r, "ACTIVE", m.n) ELSE r
           own == [rows EXCEPT ![m.txn] = w]
<1>1. /\ r # NoRow /\ m.kind \in Charges /\ Given(m, apply)
      /\ rows' = own \/ rows' = retireChainBillingIssue(own, m.txn, m.n)
  BY DEF upsertPurchase
<1>2. /\ m \in Message /\ m.n \in DOMAIN log /\ m.n \in 1 .. MaxEvents /\ m.n \in Nat
      /\ m.txn \in Txn /\ m.txn = log[m.n].txn /\ log[m.n].kind \in Charges
  BY <1>1, Events DEF AccountInv
<1>3. r \in Kept /\ "ACTIVE" \in Status /\ rows \in [Txn -> Kept \cup {NoRow}]
      /\ Known(m.txn)
  BY <1>1, <1>2 DEF TypeInv, RowsTyped, Status, Known
<1>4. /\ \A v \in Txn \ {m.txn} : given'[v] = given[v]
      /\ apply => given[m.txn] <= m.n /\ given'[m.txn] = m.n
      /\ given'[m.txn] = given[m.txn] \/ given[m.txn] <= m.n
  <2>1. given \in [Txn -> Nat]
    BY DEF AccountInv
  <2> HIDE DEF apply
  <2> QED BY <1>1, <1>2, <2>1, GivenOne
<1>5. own[m.txn] = w /\ \A v \in Txn \ {m.txn} : own[v] = rows[v]
  BY <1>2, <1>3
<1> HIDE DEF own
<1>6. rows'[m.txn] = w
  <2>1. own[m.txn] = w => retireChainBillingIssue(own, m.txn, m.n)[m.txn] = w
    BY <1>2 DEF retireChainBillingIssue
  <2> QED BY <1>1, <1>5, <2>1
<1>7. CASE u # m.txn
  <2>1. own[u] = rows[u] /\ given'[u] = given[u]
    BY <1>4, <1>5, <1>7
  <2> QED BY <1>1, <1>2, <1>7, <2>1, RetiredStory
<1>8. CASE u = m.txn /\ ~apply
  <2>1. ~(given[m.txn] <= m.n)
    BY <1>1, <1>3, <1>8, ChargeApplies
  <2>2. rows'[u] = rows[u] /\ given'[u] = given[u]
    BY <1>4, <1>6, <1>8, <2>1
  <2> QED BY <2>2, LeftAlone
<1>9. CASE u = m.txn /\ apply
  <2>1. w = written(r, "ACTIVE", m.n)
    BY <1>9
  <2>2. r.status \notin Terminal
    BY <1>1, <1>3, <1>4, <1>9, ChargeApplies DEF Lost
  <2>3. rows'[u].at = m.n /\ rows'[u].status = "ACTIVE"
    BY <1>2, <1>3, <1>6, <1>9, <2>1, <2>2, WrittenFields
  <2>4. given'[u] = m.n /\ Starts(m.n, u)
    BY <1>2, <1>4, <1>9 DEF Starts
  <2> QED BY <1>2, <2>3, <2>4, MadeActive
<1> QED BY <1>7, <1>8, <1>9

(* The insert.                                                             *)
LEMMA InsertStory ==
  ASSUME TypeInv, AccountInv, KindInv, ~skewed, ~skewed', NEW p \in Worker,
         insertPurchase(p), NEW u \in Txn
  PROVE  Story(u)
<1> DEFINE r == rows[job[p].msg.txn]
           w == IF r = NoRow THEN [NoRow EXCEPT !.status = "ACTIVE", !.at = job[p].msg.n]
                ELSE written(r, "ACTIVE", job[p].msg.n)
           own == [rows EXCEPT ![job[p].msg.txn] = w]
<1>0. PICK m : m = job[p].msg
  OBVIOUS
<1>1. rows' = own \/ rows' = retireChainBillingIssue(own, m.txn, m.n)
  BY <1>0 DEF insertPurchase
<1>2. /\ m \in inbox /\ m.kind \in Charges /\ m.txn \in Txn
      /\ m.n \in DOMAIN log /\ log[m.n].txn = m.txn /\ log[m.n].kind \in Charges
      /\ given[m.txn] <= m.n /\ given'[m.txn] = m.n
      /\ \A v \in Txn \ {m.txn} : given'[v] = given[v]
  BY <1>0, InsertGiven
<1>3. m.n \in 1 .. MaxEvents /\ m.n \in Nat
  BY <1>2, Events DEF AccountInv
<1>4. r \in Kept \cup {NoRow} /\ "ACTIVE" \in Status /\ rows \in [Txn -> Kept \cup {NoRow}]
  BY <1>0, <1>2 DEF TypeInv, RowsTyped, Status
<1>5. own[m.txn] = w /\ \A v \in Txn \ {m.txn} : own[v] = rows[v]
  BY <1>0, <1>2, <1>4
<1> HIDE DEF own
<1>6. rows'[m.txn] = w
  <2>1. own[m.txn] = w => retireChainBillingIssue(own, m.txn, m.n)[m.txn] = w
    BY <1>2 DEF retireChainBillingIssue
  <2> QED BY <1>1, <1>5, <2>1
<1>7. CASE u # m.txn
  <2>1. own[u] = rows[u] /\ given'[u] = given[u]
    BY <1>2, <1>5, <1>7
  <2> QED BY <1>1, <1>2, <1>3, <1>7, <2>1, RetiredStory
<1>8. CASE u = m.txn
  <2>1. w.at = m.n /\ w.status = "ACTIVE"
    <3>1. CASE r = NoRow
      BY <1>0, <3>1 DEF NoRow
    <3>2. CASE r # NoRow
      <4>1. Known(m.txn)
        BY <1>0, <1>2, <3>2 DEF Known
      <4>2. r.status \notin Terminal
        BY <1>0, <1>2, <4>1, ChargeApplies DEF Lost
      <4>3. w = written(r, "ACTIVE", m.n) /\ r \in Kept
        BY <1>0, <1>4, <3>2
      <4> HIDE DEF w, r
      <4>4. w.at = m.n /\ w.status = IF r.status \in Terminal THEN r.status ELSE "ACTIVE"
        BY <1>3, <1>4, <4>3, WrittenFields
      <4> QED BY <4>2, <4>4
    <3> QED BY <3>1, <3>2
  <2> HIDE DEF w
  <2>2. rows'[u].at = m.n /\ rows'[u].status = "ACTIVE" /\ given'[u] = m.n
    BY <1>2, <1>6, <1>8, <2>1
  <2>3. Starts(m.n, u)
    BY <1>2, <1>8 DEF Starts
  <2> QED BY <1>2, <1>3, <2>2, <2>3, MadeActive
<1> QED BY <1>7, <1>8

(* A refund.                                                               *)
LEMMA RefundStory ==
  ASSUME TypeInv, AccountInv, ~skewed', NEW p \in Worker, NEW m \in inbox,
         applyRefund(p, m), NEW u \in Txn
  PROVE  Story(u)
<1> DEFINE r == rows[m.txn]
           apply == r # NoRow /\ guardStatusWrite(r, "REFUNDED", m.n, {})
<1>1. /\ m.kind = "REFUND" /\ Given(m, apply)
      /\ rows' = IF apply THEN [rows EXCEPT ![m.txn] = written(r, "REFUNDED", m.n)]
                 ELSE rows
  BY DEF applyRefund
<1>2. m.kind \notin Charges /\ m.kind # "RECEIPT"
  BY <1>1 DEF Charges, Upgrades, Offers
<1>3. /\ m.n \in DOMAIN log /\ m.n \in 1 .. MaxEvents /\ m.n \in Nat
      /\ m.txn \in Txn /\ m.txn = log[m.n].txn /\ log[m.n].kind = "REFUND"
  BY <1>1, <1>2, Events DEF AccountInv
<1>4. /\ \A v \in Txn \ {m.txn} : given'[v] = given[v]
      /\ given'[m.txn] = m.n
  <2>1. given \in [Txn -> Nat]
    BY DEF AccountInv
  <2> HIDE DEF apply
  <2> QED BY <1>1, <1>2, <1>3, <2>1, GivenOne
<1>5. CASE u # m.txn
  <2>1. rows'[u] = rows[u] /\ given'[u] = given[u]
    BY <1>1, <1>4, <1>5
  <2> QED BY <2>1, LeftAlone
<1>6. CASE u = m.txn
  <2>1. Ended(u)
    BY <1>3, <1>4, <1>6 DEF Ended, Ends
  <2>2. CASE ~apply
    BY <1>1, <2>1, <2>2, LeftAlone
  <2>3. CASE apply
    <3>1. r \in Kept /\ "REFUNDED" \in Status /\ rows \in [Txn -> Kept \cup {NoRow}]
      BY <1>3, <2>3 DEF TypeInv, RowsTyped, Status, Terminal
    <3>2. rows'[u] = written(r, "REFUNDED", m.n)
      BY <1>1, <1>3, <1>6, <2>3, <3>1
    <3>3. rows'[u].status = (IF r.status \in Terminal THEN r.status ELSE "REFUNDED")
          /\ rows'[u].at = m.n
      BY <1>3, <3>1, <3>2, WrittenFields
    <3>4. /\ ~Entitles(u)' /\ rows'[u].status # "BILLING_ISSUE"
          /\ rows'[u].status = "REVOKED" => r.status = "REVOKED"
      BY <3>3, EntitlingStatus DEF Entitles, Terminal
    <3>5. ~(rows'[u].at > given'[u])
      BY <1>3, <1>4, <1>6, <3>3
    <3> QED BY <1>6, <2>1, <3>4, <3>5 DEF Story
  <2> QED BY <2>2, <2>3
<1> QED BY <1>5, <1>6

(* Its reversal: withheld from a row that does not entitle only after a    *)
(* revocation, or where a recovery has dated the row.                      *)
LEMMA ReversedStory ==
  ASSUME TypeInv, AccountInv, ~skewed, ~skewed', NEW p \in Worker, NEW m \in inbox,
         applyRefundReversed(p, m), NEW u \in Txn, Marked(u)
  PROVE  Story(u)
<1>1. PICK to \in {"ACTIVE", "EXPIRED"} :
        to = IF charges[m.txn].exp > clock THEN "ACTIVE" ELSE "EXPIRED"
  OBVIOUS
<1> DEFINE r == rows[m.txn]
           apply == r # NoRow /\ guardStatusWrite(r, to, m.n, {"REFUNDED"})
<1>2. /\ m.kind = "REVERSED" /\ Given(m, apply)
      /\ rows' = IF apply THEN [rows EXCEPT ![m.txn].status = to, ![m.txn].at = m.n]
                 ELSE rows
  BY <1>1 DEF applyRefundReversed
<1>3. m.kind \notin Charges /\ m.kind # "RECEIPT"
  BY <1>2 DEF Charges, Upgrades, Offers
<1>4. /\ m.n \in DOMAIN log /\ m.n \in Nat
      /\ m.txn \in Txn /\ m.txn = log[m.n].txn /\ log[m.n].kind = "REVERSED"
  BY <1>2, <1>3, Events DEF AccountInv
<1>5. given \in [Txn -> Nat]
  BY DEF AccountInv
<1>6. /\ \A v \in Txn \ {m.txn} : given'[v] = given[v]
      /\ given[m.txn] <= m.n /\ given'[m.txn] = m.n
  <2> HIDE DEF apply
  <2> QED BY <1>2, <1>3, <1>4, <1>5, GivenOne
<1>7. CASE u # m.txn
  <2>1. rows'[u] = rows[u]
    <3>1. CASE apply
      <4>1. rows \in [Txn -> Kept \cup {NoRow}]
        BY DEF TypeInv, RowsTyped
      <4> QED BY <1>2, <1>4, <1>7, <3>1, <4>1
    <3> QED BY <1>2, <3>1
  <2> QED BY <1>6, <1>7, <2>1, LeftAlone
<1>8. CASE u = m.txn /\ ~apply
  <2>1. rows'[u] = rows[u]
    BY <1>2, <1>8
  <2>2. ASSUME Known(u), ~Entitles(u) PROVE Beside(u)
    <3>1. r # NoRow /\ r \in Kept
      BY <1>8, <2>2 DEF Known, TypeInv, RowsTyped
    <3>2. CASE to = "EXPIRED"
      BY <1>1, <1>8, <3>2 DEF Beside
    <3>3. CASE to = "ACTIVE"
      <4>1. m.n < r.at \/ ("ACTIVE" \notin Transitions(r.status) /\ r.status # "REFUNDED")
        BY <1>8, <3>1, <3>3 DEF guardStatusWrite
      <4>2. m.n < r.at \/ r.status = "REVOKED"
        <5>1. r.status \in Status
          BY <3>1 DEF Kept
        <5>2. r.status \notin {"REFUNDED", "REVOKED"} => "ACTIVE" \in Transitions(r.status)
          BY <5>1 DEF Transitions, Status, Terminal
        <5> QED BY <4>1, <5>2
      <4>3. r.at \in Nat /\ given[u] \in Nat
        BY <1>5, <3>1, Numbers DEF Kept
      <4>4. \E k \in DOMAIN log : k <= given[u] /\ log[k].kind \in {"FAIL", "REVOKE"}
        BY <1>4, <1>6, <1>8, <2>2, <4>2, <4>3 DEF Marked
      <4>5. PICK k \in DOMAIN log : k <= given[u] /\ log[k].kind \in {"FAIL", "REVOKE"}
        BY <4>4
      <4>6. k # m.n /\ k \in Nat /\ DOMAIN log = 1 .. Len(log) /\ Len(log) \in Nat
        BY <1>4, <4>5 DEF TypeInv, StoreTyped
      <4>7. m.n \in k + 1 .. Len(log)
        BY <1>4, <1>6, <1>8, <4>3, <4>5, <4>6
      <4>8. ~Plain
        BY <1>4, <4>5, <4>7 DEF Plain
      <4> QED BY <4>8 DEF Beside
    <3> QED BY <3>2, <3>3
  <2> QED BY <2>1, <2>2, LeftAlone
<1>9. CASE u = m.txn /\ apply
  <2>1. r \in Kept /\ rows \in [Txn -> Kept \cup {NoRow}] /\ Known(u)
    BY <1>4, <1>9 DEF TypeInv, RowsTyped, Known
  <2>2. PICK w : w = [r EXCEPT !.status = to, !.at = m.n]
    OBVIOUS
  <2>3. rows' = [rows EXCEPT ![m.txn] = w]
    BY <1>2, <1>4, <1>9, <2>1, <2>2
  <2>4. rows'[u] = w /\ w.status = to /\ w.at = m.n
    BY <1>4, <1>9, <2>1, <2>2, <2>3 DEF Kept
  <2>5. CASE to = "ACTIVE"
    <3>1. Starts(m.n, u) /\ given'[u] = m.n
      BY <1>4, <1>6, <1>9 DEF Starts
    <3> QED BY <1>4, <2>4, <2>5, <3>1, MadeActive
  <2>6. CASE to = "EXPIRED"
    <3>1. ~Entitles(u)' /\ ~(rows'[u].at > given'[u])
      BY <1>4, <1>6, <1>9, <2>4, <2>6, EntitlingStatus DEF Entitles
    <3>2. Beside(u)
      BY <1>1, <1>9, <2>6 DEF Beside
    <3> QED BY <2>4, <2>6, <3>1, <3>2 DEF Story
  <2> QED BY <2>5, <2>6
<1> QED BY <1>7, <1>8, <1>9

(* A failed renewal, an expiry and a revocation, on each row of the chain. *)
LEMMA ChainStory ==
  ASSUME TypeInv, AccountInv, ~skewed', NEW m \in inbox, NEW to, NEW grace,
         rows' = updateChainStatusGuarded(to, grace), ChainGiven(m.n),
         \/ m.kind = "FAIL" /\ to = "BILLING_ISSUE"
         \/ m.kind = "FAIL_GRACE" /\ to = "GRACE_PERIOD"
         \/ m.kind = "EXPIRED" /\ to = "EXPIRED"
         \/ m.kind = "REVOKE" /\ to = "REVOKED",
         NEW u \in Txn
  PROVE  Story(u)
<1>1. m.kind \notin Charges
  BY DEF Charges, Upgrades, Offers
<1>2. m.n \in DOMAIN log /\ m.n \in Nat /\ log[m.n].kind = m.kind
  BY <1>1, Events DEF AccountInv
<1>3. Known(u) => given[u] <= m.n /\ given'[u] = m.n
  BY <1>2, GivenAll DEF AccountInv
<1>4. CASE rows[u] = NoRow
  <2>1. rows'[u] = NoRow
    BY <1>4 DEF updateChainStatusGuarded
  <2> QED BY <2>1 DEF Story, Known
<1>5. CASE rows[u] # NoRow
  <2>0. Known(u) /\ rows[u] \in Kept /\ given'[u] = m.n
    BY <1>3, <1>5 DEF Known, TypeInv, RowsTyped
  <2>1. Ended(u) \/ (m.kind = "FAIL_GRACE" /\ Beside(u))
    BY <1>2, <2>0 DEF Ended, Ends, Beside, Plain
  <2>2. CASE rows[u].status \in Terminal
    <3>1. rows'[u] = rows[u]
      BY <2>2 DEF updateChainStatusGuarded
    <3> QED BY <2>1, <3>1, LeftAlone
  <2>3. CASE rows[u].status \notin Terminal
    <3>1. rows'[u] = [rows[u] EXCEPT !.status = to, !.grace = grace[u]]
      BY <1>5, <2>3 DEF updateChainStatusGuarded
    <3>2. rows'[u].status = to /\ rows'[u].at = rows[u].at
      BY <2>0, <3>1 DEF Kept
    <3>3. CASE m.kind = "FAIL_GRACE"
      <4>1. Begun(u) /\ Entitles(u)'
        BY <1>2, <2>0, <3>2, <3>3, EntitlingStatus DEF Begun, NowGiven, Entitles
      <4> QED BY <2>0, <3>2, <3>3, <4>1 DEF Story
    <3>4. CASE m.kind # "FAIL_GRACE"
      <4>1. ~Entitles(u)' /\ Ended(u)
        BY <2>1, <3>2, <3>4, EntitlingStatus DEF Entitles
      <4>2. /\ to = "BILLING_ISSUE" => NowGiven(u, "FAIL")
            /\ to = "REVOKED" => NowGiven(u, "REVOKE")
        BY <1>2, <2>0 DEF NowGiven
      <4> QED BY <2>0, <3>2, <4>1, <4>2 DEF Story
    <3> QED BY <3>3, <3>4
  <2> QED BY <2>2, <2>3
<1> QED BY <1>4, <1>5

(* The search for what an upgrade replaces.                                *)
LEMMA SiblingsStory ==
  ASSUME TypeInv, AccountInv, KindInv, ~skewed', NEW p \in Worker, FindSiblings(p),
         NEW u \in Txn
  PROVE  Story(u)
<1>1. PICK m : m = job[p].msg
  OBVIOUS
<1>2. job[p].at \in Replacing
  BY DEF FindSiblings, At, Replacing
<1>3. /\ m.kind \in Upgrades /\ m.n \in DOMAIN log /\ log[m.n].txn = m.txn
      /\ log[m.n].kind = m.kind
  BY <1>1, <1>2, UpgradeInHand
<1>4. rows' = rows /\ (given'[u] = given[u] \/ (u < m.txn /\ given'[u] = m.n))
  BY <1>1, SiblingsFound
<1>5. given'[u] = given[u] \/ Ended(u)
  <2>1. ASSUME u < m.txn, given'[u] = m.n PROVE Ended(u)
    <3>1. log[m.n].txn > u
      BY <1>3, <2>1, MsgFields DEF Txn
    <3> QED BY <1>3, <2>1, <3>1 DEF Ended, Ends
  <2> QED BY <1>4, <2>1
<1> QED BY <1>4, <1>5, LeftAlone

(* What it retires it has replaced, and that was all its row was given.    *)
LEMMA SupersedeStory ==
  ASSUME TypeInv, AccountInv, KindInv, SparesOwn, ~skewed, ~skewed', NEW p \in Worker,
         expireSuperseded(p), NEW v \in Txn
  PROVE  Story(v)
<1>0. PICK m, n : m = job[p].msg /\ n = m.n
  OBVIOUS
<1>1. PICK u \in job[p].todo :
        /\ At(p, "supersede")
        /\ Write(given, guardStatusWrite(rows[u], "EXPIRED", n, {}) /\ n < given[u])
        /\ rows' = IF guardStatusWrite(rows[u], "EXPIRED", n, {})
                   THEN [rows EXCEPT ![u] = written(@, "EXPIRED", n)] ELSE rows
  BY <1>0 DEF expireSuperseded
<1>2. /\ m.kind \in Upgrades /\ n \in DOMAIN log /\ n \in Nat /\ n \in 1 .. MaxEvents
      /\ m.txn \in Txn /\ log[n].txn = m.txn /\ log[n].kind = m.kind
  BY <1>0, <1>1, UpgradeInHand DEF At, Replacing
<1>3. u \in Txn /\ u # m.txn
  BY <1>0, <1>1 DEF SparesOwn, Retiring, At, TypeInv, JobsTyped, Work
<1>4. given' = given
  BY <1>1 DEF Write
<1>5. CASE v # u \/ ~guardStatusWrite(rows[u], "EXPIRED", n, {})
  <2>1. rows'[v] = rows[v]
    BY <1>1, <1>5
  <2> QED BY <1>4, <2>1, LeftAlone
<1>6. CASE v = u /\ guardStatusWrite(rows[u], "EXPIRED", n, {})
  <2>1. rows[u] # NoRow
    BY <1>6, NoRowStatus DEF guardStatusWrite, Transitions
  <2>2. Known(u) /\ rows[u] \in Kept /\ rows \in [Txn -> Kept \cup {NoRow}]
        /\ "EXPIRED" \in Status
    BY <1>3, <2>1 DEF Known, TypeInv, RowsTyped, Status
  <2>3. rows'[u] = written(rows[u], "EXPIRED", n)
    BY <1>1, <1>3, <1>6, <2>2
  <2>4. rows'[u].at = n
        /\ rows'[u].status =
             IF rows[u].status \in Terminal THEN rows[u].status ELSE "EXPIRED"
    BY <1>2, <2>2, <2>3, WrittenFields
  <2>5. given[u] = n
    <3>1. given[u] \in Nat /\ RetiresGiven(p)
      BY <1>3 DEF AccountInv, Unskewed
    <3>2. given[u] >= n
      BY <1>0, <1>1, <3>1 DEF RetiresGiven, At
    <3>3. ~(n < given[u])
      BY <1>1, <1>6 DEF Write
    <3> QED BY <1>2, <3>1, <3>2, <3>3
  <2>6. u < m.txn
    <3>1. PICK c \in ChargesOf(u) : c <= n
      BY <1>3, <2>2, <2>5 DEF AccountInv, Unskewed, RowGiven
    <3>2. c \in DOMAIN log /\ log[c].txn = u /\ log[c].kind \in Charges /\ c \in Nat
      BY DEF ChargesOf, TypeInv, StoreTyped
    <3>3. log[n].kind \in Charges
      BY <1>2 DEF Charges
    <3>4. ~(m.txn < u)
      BY <1>2, <3>1, <3>2, <3>3 DEF AccountInv, LogOrder
    <3> QED BY <1>2, <1>3, <3>4 DEF Txn
  <2>7. Ended(u)
    <3>1. log[n].txn > u
      BY <1>2, <1>3, <2>6 DEF Txn
    <3> QED BY <1>2, <1>4, <2>5, <3>1 DEF Ended, Ends
  <2>8. ~Entitles(u)' /\ rows'[u].status # "BILLING_ISSUE"
        /\ (rows'[u].status = "REVOKED" => rows[u].status = "REVOKED")
    BY <2>4, EntitlingStatus DEF Entitles, Terminal
  <2>9. ~(rows'[u].at > given'[u])
    BY <1>2, <1>4, <2>4, <2>5
  <2> QED BY <1>6, <2>7, <2>8, <2>9 DEF Story
<1> QED BY <1>5, <1>6

(* Every step of a handler, and its death.                                 *)
LEMMA HandlerStory ==
  ASSUME TypeInv, AccountInv, KindInv, SparesOwn, ~skewed, ~skewed',
         \A t \in Txn : Marked(t), NEW p \in Worker, Handle(p) \/ Crash(p), NEW u \in Txn
  PROVE  Story(u)
<1>1. ASSUME UNCHANGED <<rows, given>> PROVE Story(u)
  BY <1>1, LeftAlone
<1>2. ASSUME NEW m \in inbox,
             \/ upsertPurchase(p, m) \/ GuardFirst(p, m) \/ applyRefund(p, m)
             \/ applyRefundReversed(p, m) \/ applyFailedRenewal(p, m) \/ ChainEnd(p, m)
      PROVE  Story(u)
  <2>1. CASE upsertPurchase(p, m)
    BY <2>1, UpsertStory
  <2>2. CASE GuardFirst(p, m)
    BY <1>1, <2>2 DEF GuardFirst, history
  <2>3. CASE applyRefund(p, m)
    BY <2>3, RefundStory
  <2>4. CASE applyRefundReversed(p, m)
    BY <2>4, ReversedStory
  <2>5. CASE applyFailedRenewal(p, m)
    <3>1. PICK to, grace : /\ rows' = updateChainStatusGuarded(to, grace)
                           /\ ChainGiven(m.n) /\ m.kind \in Failures
                           /\ to = IF m.kind = "FAIL" THEN "BILLING_ISSUE" ELSE "GRACE_PERIOD"
      BY <2>5 DEF applyFailedRenewal
    <3>2. \/ m.kind = "FAIL" /\ to = "BILLING_ISSUE"
          \/ m.kind = "FAIL_GRACE" /\ to = "GRACE_PERIOD"
      BY <3>1 DEF Failures
    <3> QED BY <3>1, <3>2, ChainStory
  <2>6. CASE ChainEnd(p, m)
    <3>1. PICK to, grace : /\ rows' = updateChainStatusGuarded(to, grace)
                           /\ ChainGiven(m.n) /\ m.kind \in {"EXPIRED", "REVOKE"}
                           /\ to = IF m.kind = "REVOKE" THEN "REVOKED" ELSE "EXPIRED"
      BY <2>6 DEF ChainEnd
    <3>2. \/ m.kind = "EXPIRED" /\ to = "EXPIRED"
          \/ m.kind = "REVOKE" /\ to = "REVOKED"
      BY <3>1
    <3> QED BY <3>1, <3>2, ChainStory
  <2> QED BY <1>2, <2>1, <2>2, <2>3, <2>4, <2>5, <2>6
<1>3. CASE insertPurchase(p)
  BY <1>3, InsertStory
<1>4. CASE FindSiblings(p)
  BY <1>4, SiblingsStory
<1>5. CASE expireSuperseded(p)
  BY <1>5, SupersedeStory
<1>6. CASE \/ FindAccess(p) \/ createAccess(p) \/ revokeAccess(p) \/ emitRevenueEvent(p)
           \/ SyncRead(p) \/ SyncApply(p) \/ Crash(p)
  BY <1>1, <1>6 DEF FindAccess, createAccess, revokeAccess, emitRevenueEvent, SyncRead,
     readAccess, SyncApply, Crash, history
<1> QED BY <1>2, <1>3, <1>4, <1>5, <1>6 DEF Handle

(* A row that entitles goes on to be what an event made it.                *)
LEMMA LiveStays ==
  ASSUME TypeInv, AccountInv, KindInv, StoreLog, ~skewed', Written,
         NEW p \in Worker, Handle(p) \/ Crash(p), NEW t \in Txn, LiveRow(t), Story(t)
  PROVE  LiveRow(t)'
<1> SUFFICES ASSUME Entitles(t)' PROVE \E s : LiveFrom(t, s)'
  BY DEF LiveRow
<1>1. UNCHANGED <<log, charges, clock>> /\ Written' /\ DOMAIN log = 1 .. Len(log)
      /\ Len(log) \in Nat
  BY HandlerKnown, StillWritten DEF storeVars, TypeInv, StoreTyped
<1>2. given[t] \in Nat /\ given'[t] \in Nat /\ given'[t] >= given[t]
      /\ given'[t] <= Len(log)
  BY <1>1, HandlerAccount DEF AccountInv, AccountStep, GivenStep, Written
<1>3. Known(t)'
  BY EntitlingStatus, NoRowStatus DEF Entitles, Known
<1>4. CASE Begun(t)
  <2>1. PICK s : s = given'[t] /\ s \in DOMAIN log /\ s \in Nat
    BY <1>1, <1>2, <1>4 DEF Begun
  <2>2. \A k \in s + 1 .. given'[t] : FALSE
    BY <2>1
  <2>3. \/ rows'[t].status = "GRACE_PERIOD" /\ log[s].kind = "FAIL_GRACE"
        \/ rows'[t].status = "ACTIVE" /\ rows'[t].at = s /\ Starts(s, t)
    BY <1>4, <2>1 DEF Begun, NowGiven
  <2>4. Starts(s, t) => Starts(s, t)'
    BY <1>1 DEF Starts
  <2>5. LiveFrom(t, s)'
    BY <1>1, <1>2, <2>1, <2>2, <2>3, <2>4 DEF LiveFrom
  <2> QED BY <2>5
<1>5. CASE rows'[t] = rows[t]
  <2>1. Entitles(t)
    BY <1>5 DEF Entitles
  <2>2. PICK s : LiveFrom(t, s)
    BY <2>1 DEF LiveRow
  <2>3. s \in DOMAIN log /\ s \in Nat /\ s <= given'[t]
    BY <1>1, <1>2, <2>2 DEF LiveFrom
  <2>4. ASSUME NEW k \in s + 1 .. given'[t]
        PROVE  k \in DOMAIN log /\ k \in Nat /\ k > s
               /\ (k \in s + 1 .. given[t] \/ ~(k <= given[t]))
    BY <1>1, <1>2, <2>3
  <2>5. ASSUME NEW k \in s + 1 .. given'[t], log[k].kind \in Whole PROVE Unwritten(k)'
    <3>1. Unwritten(k)
      BY <2>2, <2>4, <2>5 DEF LiveFrom, Written, About
    <3>2. ~Lands(k)
      BY <2>5 DEF Lands, About
    <3> QED BY <2>4, <3>1, <3>2, WrittenNow
  <2>6. CASE rows[t].status = "GRACE_PERIOD" /\ log[s].kind = "FAIL_GRACE"
    <3>1. LiveFrom(t, s)'
      BY <1>1, <1>5, <2>3, <2>5, <2>6 DEF LiveFrom
    <3> QED BY <3>1
  <2>7. CASE rows[t].status = "ACTIVE" /\ rows[t].at = s /\ Starts(s, t)
    <3>0. "ACTIVE" # "GRACE_PERIOD"
      OBVIOUS
    <3>1. ASSUME NEW k \in s + 1 .. given'[t], log[k].kind = "REFUND", log[k].txn = t
          PROVE  Unwritten(k)'
      <4>1. Unwritten(k)
        BY <2>2, <2>4, <2>7, <3>1 DEF LiveFrom, Written, About
      <4>2. ~(k < rows'[t].at) /\ rows'[t].status = "ACTIVE"
        BY <1>5, <2>3, <2>4, <2>7
      <4>3. ~Lands(k)
        BY <3>1, <4>2 DEF Lands, About
      <4> QED BY <2>4, <4>1, <4>3, WrittenNow
    <3>2. ASSUME NEW k \in s + 1 .. given'[t], Cuts(k, t), charges[t].exp > clock
          PROVE  Replaces(k, t)'
      <4>1. Replaces(k, t)
        <5>1. CASE k \in s + 1 .. given[t]
          BY <2>2, <2>7, <3>2, <5>1 DEF LiveFrom
        <5>2. CASE ~(k <= given[t])
          BY <2>4, <3>2, <5>2 DEF Written, Replaces
        <5> QED BY <2>4, <5>1, <5>2
      <4>2. ~(k < rows'[t].at)
        BY <1>5, <2>3, <2>4, <2>7
      <4> QED BY <2>4, <3>2, <4>1, <4>2, StillReplaces
    <3>3. Starts(s, t)' /\ \A k : Cuts(k, t)' => Cuts(k, t)
      BY <1>1, <2>7 DEF Starts, Cuts
    <3>4. LiveFrom(t, s)'
      BY <1>1, <1>5, <2>3, <2>5, <2>7, <3>1, <3>2, <3>3 DEF LiveFrom
    <3> QED BY <3>4
  <2> QED BY <2>2, <2>6, <2>7 DEF LiveFrom
<1> QED BY <1>3, <1>4, <1>5 DEF Story

(* A row on hold, dated by a recovery or revoked goes on to have been given*)
(* what made it so.                                                        *)
LEMMA MarkedStays ==
  ASSUME TypeInv, TypeInv', AccountInv, KindInv, ~skewed', NEW p \in Worker,
         Handle(p) \/ Crash(p), NEW t \in Txn, Marked(t), Story(t)
  PROVE  Marked(t)'
<1> SUFFICES ASSUME Known(t)' PROVE Marked(t)'
  BY DEF Marked
<1>1. UNCHANGED log /\ DOMAIN log \subseteq Nat
  BY HandlerKnown DEF storeVars, TypeInv, StoreTyped
<1>2. given[t] \in Nat /\ given'[t] \in Nat /\ given'[t] >= given[t]
  BY HandlerAccount DEF AccountInv, AccountStep, GivenStep
<1>3. ASSUME NEW kind, \/ NowGiven(t, kind)
                       \/ \E k \in DOMAIN log : k <= given[t] /\ log[k].kind = kind
      PROVE  \E k \in DOMAIN log : k <= given'[t] /\ log[k].kind = kind
  <2>1. CASE NowGiven(t, kind)
    BY <1>2, <2>1 DEF NowGiven
  <2>2. CASE \E k \in DOMAIN log : k <= given[t] /\ log[k].kind = kind
    BY <1>1, <1>2, <2>2
  <2> QED BY <1>3, <2>1, <2>2
<1>4. rows[t].status \in {"BILLING_ISSUE", "REVOKED"} => Known(t)
  BY NoRowStatus DEF Known
<1>5. ASSUME rows'[t].status = "BILLING_ISSUE" \/ rows'[t].at > given'[t]
      PROVE  \E k \in DOMAIN log : k <= given'[t] /\ log[k].kind = "FAIL"
  <2>1. \/ rows[t].status = "BILLING_ISSUE" \/ NowGiven(t, "FAIL")
        \/ Known(t) /\ rows'[t].at = rows[t].at /\ rows'[t].at > given'[t]
    BY <1>5 DEF Story
  <2>2. CASE rows[t].status = "BILLING_ISSUE" \/ NowGiven(t, "FAIL")
    BY <1>3, <1>4, <2>2 DEF Marked
  <2>3. CASE Known(t) /\ rows'[t].at = rows[t].at /\ rows'[t].at > given'[t]
    <3>1. rows[t].at \in Nat
      BY <2>3, Numbers DEF Known, TypeInv, RowsTyped, Kept
    <3>2. rows[t].at > given[t]
      BY <1>2, <2>3, <3>1
    <3> QED BY <1>3, <2>3, <3>2 DEF Marked
  <2> QED BY <2>1, <2>2, <2>3
<1>6. ASSUME rows'[t].status = "REVOKED"
      PROVE  \E k \in DOMAIN log : k <= given'[t] /\ log[k].kind = "REVOKE"
  <2>1. rows[t].status = "REVOKED" \/ NowGiven(t, "REVOKE")
    BY <1>6 DEF Story
  <2> QED BY <1>3, <1>4, <2>1 DEF Marked
<1> QED BY <1>1, <1>5, <1>6 DEF Marked

(* A row that entitles to nothing goes on to have been given an end of     *)
(* what began.                                                             *)
LEMMA DeadStays ==
  ASSUME TypeInv, AccountInv, KindInv, ~skewed', NEW p \in Worker,
         Handle(p) \/ Crash(p), NEW t \in Txn, DeadRow(t), Story(t)
  PROVE  DeadRow(t)'
<1>1. UNCHANGED <<log, charges, clock>> /\ DOMAIN log \subseteq Nat
  BY HandlerKnown DEF storeVars, TypeInv, StoreTyped
<1>2. given[t] \in Nat /\ given'[t] \in Nat /\ given'[t] >= given[t]
  BY HandlerAccount DEF AccountInv, AccountStep, GivenStep
<1>3. /\ Plain' <=> Plain
      /\ \A n : (Starts(n, t)' <=> Starts(n, t)) /\ (Ends(n, t)' <=> Ends(n, t))
  BY <1>1 DEF Plain, Starts, Ends
<1> SUFFICES ASSUME Known(t)', ~Entitles(t)', Plain, charges[t].exp > clock,
                    NEW s \in DOMAIN log, s <= given'[t], Starts(s, t)
             PROVE  \E m \in s + 1 .. given'[t] : Ends(m, t)
  BY <1>1, <1>3 DEF DeadRow
<1>4. CASE Ended(t)
  <2>1. given'[t] # s
    <3>1. ~(t > t)
      BY DEF Txn
    <3> QED BY <1>4, <3>1 DEF Ended, Ends, Starts, Charges, Upgrades, Offers
  <2>2. given'[t] \in s + 1 .. given'[t]
    BY <1>1, <1>2, <2>1
  <2> QED BY <1>4, <2>2 DEF Ended
<1>5. CASE StaysDead(t)
  <2>1. \E m \in s + 1 .. given[t] : Ends(m, t)
    BY <1>5 DEF StaysDead, DeadRow
  <2> QED BY <1>5, <2>1 DEF StaysDead
<1>6. CASE Beside(t)
  BY <1>6 DEF Beside
<1> QED BY <1>4, <1>5, <1>6 DEF Story

(* Where a process goes from where, it spares what its upgrade charged for.*)
LEMMA SparesStep ==
  ASSUME TypeInv, SparesOwn, NEW p \in Worker, Handle(p) \/ Crash(p)
  PROVE  SparesOwn'
<1>1. JobMoves(p) /\ \A q \in Worker \ {p} : job'[q] = job[q]
  BY HandlerMoves, OthersStay
<1>2. ASSUME job'[p].at \in Retiring PROVE job'[p].msg.txn \notin job'[p].todo
  <2>1. CASE Retires(p)
    BY <2>1 DEF Retires, SparesOwn
  <2>2. CASE FindSiblings(p)
    <3>1. PICK found, where :
            /\ found = findSupersedable(job[p].msg.txn, job[p].msg.n)
            /\ job' = [job EXCEPT ![p].todo = found, ![p].at = where]
      BY <2>2 DEF FindSiblings
    <3>2. job'[p] = [job[p] EXCEPT !.todo = found, !.at = where]
      BY <3>1 DEF TypeInv, JobsTyped
    <3>3. job'[p].todo = found /\ job'[p].msg = job[p].msg
      BY <3>2 DEF TypeInv, JobsTyped, Work
    <3> QED BY <3>1, <3>3 DEF findSupersedable
  <2>3. CASE Stops(p) \/ GoesOn(p) \/ TakesUp(p)
    BY <1>2, <2>3 DEF Stops, GoesOn, TakesUp, Retiring
  <2> QED BY <1>1, <2>1, <2>2, <2>3 DEF JobMoves
<1>3. ASSUME NEW q \in Worker, job'[q].at \in Retiring
      PROVE  job'[q].msg.txn \notin job'[q].todo
  <2>1. CASE q = p
    BY <1>2, <1>3, <2>1
  <2>2. CASE q # p
    <3>1. job'[q] = job[q]
      BY <1>1, <2>2
    <3> QED BY <1>3, <3>1 DEF SparesOwn
  <2> QED BY <2>1, <2>2
<1> QED BY <1>3 DEF SparesOwn

(* Every step of a handler, and its death.                                 *)
LEMMA HandlerFollow ==
  ASSUME TypeInv, TypeInv', AccountInv, KindInv, FollowInv, NEW p \in Worker,
         Handle(p) \/ Crash(p)
  PROVE  FollowInv'
<1>1. UNCHANGED storeVars /\ GivenStep
  BY HandlerKnown, HandlerAccount DEF AccountStep
<1>2. StoreLog'
  BY <1>1 DEF FollowInv, StoreLog, storeVars
<1>3. SparesOwn'
  BY SparesStep DEF FollowInv
<1>4. ASSUME ~skewed' PROVE RowsFollow'
  <2>1. ~skewed /\ RowsFollow /\ StoreLog /\ SparesOwn
    BY <1>1, <1>4 DEF FollowInv, GivenStep
  <2>2. Written'
    BY <1>4, <2>1, StillWritten DEF RowsFollow
  <2>3. ASSUME NEW t \in Txn PROVE (LiveRow(t) /\ Marked(t) /\ DeadRow(t))'
    <3>1. Story(t) /\ Written /\ LiveRow(t) /\ Marked(t) /\ DeadRow(t)
      BY <1>4, <2>1, HandlerStory DEF RowsFollow
    <3> QED BY <1>4, <2>1, <3>1, LiveStays, MarkedStays, DeadStays
  <2> QED BY <2>2, <2>3 DEF RowsFollow
<1> QED BY <1>2, <1>3, <1>4 DEF FollowInv

(* No event that is sent is of later than now.                             *)
LEMMA NotifyDated ==
  ASSUME StoreTyped, StoreTyped', StoreGrows, StoreLog, NEW kinds \in Seq(LogKind),
         Len(kinds) >= 1, NEW t, Notify(kinds, t)
  PROVE  /\ clock' = clock /\ \A n \in DOMAIN log' : log'[n].at <= clock'
         /\ \A n \in DOMAIN log' :
              n \in DOMAIN log \/ \E i \in DOMAIN kinds : log'[n].kind = kinds[i]
<1>1. clock' = clock /\ clock \in Nat
  BY DEF Notify, StoreTyped
<1>2. \A n \in New : log'[n].at = clock /\ \E i \in DOMAIN kinds : log'[n].kind = kinds[i]
  <2>1. \A n \in New : \E i \in DOMAIN kinds :
          /\ log'[n].txn = t /\ log'[n].kind = kinds[i] /\ log'[n].at = clock
          /\ [n |-> n, kind |-> log'[n].kind, txn |-> t] \in inbox'
    BY NotifyReports
  <2> QED BY <2>1
<1>3. \A n \in DOMAIN log : log'[n].at <= clock
  BY DEF StoreGrows, StoreLog
<1> QED BY <1>1, <1>2, <1>3 DEF New

(* A move to EXPIRED or REVOKED is the event that ended the subscription.  *)
LEMMA MoveLog ==
  ASSUME StoreTyped, StoreTyped', StoreGrows, StoreLog, NEW kind \in LogKind, NEW state,
         NEW grace, Move(kind, state, grace),
         state \in {"EXPIRED", "REVOKED"} => kind \in {"EXPIRED", "REVOKE"}
  PROVE  StoreLog'
<1>0. PICK kinds : kinds = <<kind>>
  OBVIOUS
<1>1. Notify(kinds, Len(charges)) /\ store'.state = state
  BY <1>0 DEF Move
<1>2. kinds \in Seq(LogKind) /\ Len(kinds) = 1 /\ Len(kinds) >= 1
      /\ DOMAIN kinds = {1} /\ kinds[1] = kind
  BY <1>0
<1>3. \A n \in DOMAIN log' : log'[n].at <= clock'
  BY <1>1, <1>2, NotifyDated
<1>4. PICK e : e = Len(log) + 1
  OBVIOUS
<1>5. e \in New /\ log'[e].kind = kind /\ Len(log') = e
  <2>1. Len(log) + 1 \in New /\ Len(log') = Len(log) + Len(kinds)
    BY <1>1, <1>2, NotifyReports
  <2>2. e \in DOMAIN log' /\ e \notin DOMAIN log
    BY <1>4, <2>1 DEF New
  <2>3. e \in DOMAIN log \/ \E i \in DOMAIN kinds : log'[e].kind = kinds[i]
    BY <1>1, <1>2, <2>2, NotifyDated
  <2> QED BY <1>2, <1>4, <2>1, <2>2, <2>3
<1>6. \A m \in e + 1 .. Len(log') : FALSE
  BY <1>5 DEF StoreTyped
<1> QED BY <1>1, <1>3, <1>5, <1>6 DEF StoreLog, New

(* No step of Apple's or of a client's makes the log differ from what the  *)
(* store records.                                                          *)
LEMMA StoreLogStep ==
  ASSUME StoreTyped, StoreTyped', StoreGrows, StoreLog, AppStore
  PROVE  StoreLog'
<1>1. ASSUME NEW kinds \in Seq(LogKind), Len(kinds) >= 1, NEW from, NEW tier,
             Charge(kinds, from, tier)
      PROVE  StoreLog'
  <2>1. Notify(kinds, Len(charges) + 1) /\ store'.state = "ACTIVE"
    BY <1>1 DEF Charge
  <2> QED BY <1>1, <2>1, NotifyDated DEF StoreLog
<1>2. {"DID_RENEW", "OFFER_REDEEMED", "RESUBSCRIBE", "FAIL", "FAIL_GRACE", "EXPIRED",
       "REVOKE", "REFUND", "REVERSED"} \cup Upgrades \subseteq LogKind
  BY DEF LogKind, Kind, Charges, Upgrades, Offers, Failures
<1>3. CASE Renew
  <2>1. PICK kind \in {"DID_RENEW", "OFFER_REDEEMED"} :
          Charge(<<kind>>, Later(clock, Current.exp), Current.tier)
    BY <1>3 DEF Renew
  <2>2. <<kind>> \in Seq(LogKind) /\ Len(<<kind>>) >= 1
    BY <1>2
  <2> QED BY <1>1, <2>1, <2>2
<1>4. CASE Upgrade
  <2>1. PICK kind \in Upgrades : Charge(<<kind>>, clock, 2)
    BY <1>4 DEF Upgrade
  <2>2. <<kind>> \in Seq(LogKind) /\ Len(<<kind>>) >= 1
    BY <1>2
  <2> QED BY <1>1, <2>1, <2>2
<1>5. CASE Resubscribe
  <2>1. PICK kinds \in {<<"RESUBSCRIBE">>, <<"OFFER_REDEEMED", "RESUBSCRIBE">>} :
          Charge(kinds, clock, Current.tier)
    BY <1>5 DEF Resubscribe
  <2>2. kinds \in Seq(LogKind) /\ Len(kinds) >= 1
    <3>1. CASE kinds = <<"RESUBSCRIBE">>
      BY <1>2, <3>1
    <3>2. CASE kinds = <<"OFFER_REDEEMED", "RESUBSCRIBE">>
      BY <1>2, <3>2
    <3> QED BY <3>1, <3>2
  <2> QED BY <1>1, <2>1, <2>2
<1>6. CASE FailToRenew
  BY <1>2, <1>6, MoveLog DEF FailToRenew
<1>7. CASE Lapse
  BY <1>2, <1>7, MoveLog DEF Lapse
<1>8. CASE Revoke
  BY <1>2, <1>8, MoveLog DEF Revoke
<1>9. CASE Refund
  <2>1. PICK t : Notify(<<IF Refunded(t) THEN "REVERSED" ELSE "REFUND">>, t)
                 /\ store' = store
    BY <1>9 DEF Refund
  <2>2. PICK kind \in Reversals : kind = IF Refunded(t) THEN "REVERSED" ELSE "REFUND"
    BY DEF Reversals
  <2>3. <<kind>> \in Seq(LogKind) /\ Len(<<kind>>) >= 1
        /\ DOMAIN <<kind>> = {1} /\ <<kind>>[1] = kind
    BY <1>2 DEF Reversals
  <2>4. /\ \A n \in DOMAIN log' : log'[n].at <= clock'
        /\ \A n \in DOMAIN log' : n \in DOMAIN log \/ log'[n].kind \in Reversals
    <3>1. Notify(<<kind>>, t)
      BY <2>1, <2>2
    <3> QED BY <2>3, <3>1, NotifyDated
  <2>5. ASSUME store'.state \in {"EXPIRED", "REVOKED"}
        PROVE  \E e \in DOMAIN log' : /\ log'[e].kind \in {"EXPIRED", "REVOKE"}
                                      /\ \A m \in e + 1 .. Len(log') : log'[m].kind \in Reversals
    <3>1. PICK e \in DOMAIN log : /\ log[e].kind \in {"EXPIRED", "REVOKE"}
                                  /\ \A m \in e + 1 .. Len(log) : log[m].kind \in Reversals
      BY <2>1, <2>5 DEF StoreLog
    <3>2. e \in DOMAIN log' /\ log'[e] = log[e] /\ e \in Nat
      BY DEF StoreGrows, StoreTyped
    <3>3. ASSUME NEW m \in e + 1 .. Len(log') PROVE log'[m].kind \in Reversals
      <4>0. /\ DOMAIN log = 1 .. Len(log) /\ Len(log) \in Nat
            /\ DOMAIN log' = 1 .. Len(log') /\ Len(log') \in Nat /\ e \in DOMAIN log
        BY <3>1 DEF StoreTyped
      <4>1. m \in DOMAIN log' /\ (m \in DOMAIN log => m \in e + 1 .. Len(log))
        BY <4>0
      <4> QED BY <2>4, <3>1, <4>1 DEF StoreGrows
    <3> QED BY <3>1, <3>2, <3>3
  <2> QED BY <2>4, <2>5 DEF StoreLog
<1>10. CASE Present
  BY <1>10 DEF Present, StoreLog
<1>11. CASE Tick
  <2>1. clock' = clock + 1 /\ log' = log /\ store' = store /\ clock \in Nat
    BY <1>11 DEF Tick, StoreTyped
  <2>2. \A n \in DOMAIN log : log[n].at \in Nat
    <3>1. \A n \in DOMAIN log : log[n] \in Entry
      BY DEF StoreTyped
    <3> QED BY <3>1 DEF Entry
  <2>3. \A n \in DOMAIN log : log[n].at <= clock'
    BY <2>1, <2>2 DEF StoreLog
  <2> QED BY <2>1, <2>3 DEF StoreLog
<1> QED BY <1>3, <1>4, <1>5, <1>6, <1>7, <1>8, <1>9, <1>10, <1>11 DEF AppStore

(* What an event that was sent awaits, and says, as Apple and the clients  *)
(* go on.                                                                  *)
LEMMA OutsideAwaits ==
  ASSUME TypeInv, StoreGrows, Outside, NEW n \in DOMAIN log
  PROVE  /\ (Unwritten(n) => Unwritten(n)') /\ (Unsought(n) => Unsought(n)')
         /\ \A t : /\ (About(n, t)' <=> About(n, t)) /\ (Cuts(n, t)' <=> Cuts(n, t))
                   /\ (Starts(n, t)' <=> Starts(n, t)) /\ (Ends(n, t)' <=> Ends(n, t))
                   /\ Replaces(n, t) => Replaces(n, t)'
<1>1. log'[n] = log[n] /\ inbox \subseteq inbox' /\ job' = job
  BY DEF StoreGrows, Outside
<1>2. MsgOf(n)' = MsgOf(n)
  BY <1>1 DEF MsgOf
<1>3. PICK m : m = MsgOf(n) /\ m = MsgOf(n)'
  BY <1>2
<1>4. (Unwritten(n) => Unwritten(n)') /\ (Unsought(n) => Unsought(n)')
  BY <1>1, <1>3 DEF Unwritten, Unsought, Awaits
<1>5. \A t : Replaces(n, t) => Replaces(n, t)'
  BY <1>1, <1>3, <1>4 DEF Replaces
<1>6. \A t : /\ (About(n, t)' <=> About(n, t)) /\ (Cuts(n, t)' <=> Cuts(n, t))
             /\ (Starts(n, t)' <=> Starts(n, t)) /\ (Ends(n, t)' <=> Ends(n, t))
  BY <1>1 DEF About, Cuts, Starts, Ends
<1> QED BY <1>4, <1>5, <1>6

(* An event that is sent waits, and no process has it.                     *)
LEMMA OutsideNews ==
  ASSUME TypeInv, TypeInv', Outside, NEW t, Reports(t), NEW n \in New
  PROVE  Unwritten(n)' /\ Unsought(n)'
<1>1. PICK m : m = MsgOf(n)'
  OBVIOUS
<1>2. m \in inbox' /\ m.n = n
  <2>1. log'[n].txn = t /\ [n |-> n, kind |-> log'[n].kind, txn |-> t] \in inbox'
    BY DEF Reports
  <2>2. m = [n |-> n, kind |-> log'[n].kind, txn |-> t]
    BY <1>1, <2>1 DEF MsgOf
  <2> QED BY <2>1, <2>2
<1>3. n \notin DOMAIN log /\ n # 0
  BY DEF New, TypeInv, StoreTyped
<1>4. \A q \in Worker : job'[q].msg # m
  <2> SUFFICES ASSUME NEW q \in Worker, job[q].msg = m PROVE FALSE
    BY DEF Outside
  <2>1. job[q].msg \in inbox \cup {NoMsg}
    BY DEF TypeInv, JobsTyped
  <2> QED BY <1>2, <1>3, <2>1 DEF TypeInv, StoreTyped, NoMsg
<1> QED BY <1>1, <1>2, <1>4 DEF Unwritten, Unsought, Awaits

(* No step of Apple's or of a client's, nor of a process that rests, parts *)
(* the rows and the log.                                                   *)
LEMMA OutsideRows ==
  ASSUME TypeInv, TypeInv', StoreGrows, Outside, clock' >= clock, RowsFollow,
         given \in [Txn -> Nat],
         \A n \in New : Unwritten(n)' /\ Unsought(n)'
  PROVE  RowsFollow'
<1>1. /\ DOMAIN log = 1 .. Len(log) /\ DOMAIN log' = 1 .. Len(log')
      /\ Len(log) \in Nat /\ Len(log') \in Nat /\ clock \in Nat /\ clock' \in Nat
  BY DEF TypeInv, StoreTyped
<1>2. /\ DOMAIN log' = DOMAIN log \cup New /\ DOMAIN log \subseteq DOMAIN log'
      /\ \A n \in DOMAIN log : log'[n] = log[n]
      /\ Len(log) <= Len(log')
  <2>1. DOMAIN log \subseteq DOMAIN log' /\ \A n \in DOMAIN log : log'[n] = log[n]
    BY DEF StoreGrows
  <2>2. Len(log) >= 1
    BY DEF TypeInv, StoreTyped
  <2>3. Len(log) \in DOMAIN log'
    BY <1>1, <2>1, <2>2
  <2> QED BY <1>1, <2>1, <2>3 DEF New
<1>3. rows' = rows /\ given' = given
  BY DEF Outside
<1>4. \A t : Known(t) => t \in DOMAIN charges /\ charges'[t] = charges[t]
             /\ (charges'[t].exp > clock' => charges[t].exp > clock)
  <2> SUFFICES ASSUME NEW t, Known(t)
               PROVE  t \in DOMAIN charges /\ charges'[t] = charges[t]
                      /\ (charges'[t].exp > clock' => charges[t].exp > clock)
    OBVIOUS
  <2>1. t \in DOMAIN charges /\ charges'[t] = charges[t]
    BY DEF Known, TypeInv, RowsTyped, StoreGrows
  <2>2. charges[t] \in Priced
    BY <2>1 DEF TypeInv, StoreTyped
  <2> QED BY <1>1, <2>1, <2>2 DEF Priced
<1>5. Written /\ \A t \in Txn : LiveRow(t) /\ Marked(t) /\ DeadRow(t)
  BY DEF RowsFollow
<1>6. Written'
  <2>1. \A t \in Txn : given'[t] <= Len(log')
    <3>1. \A t \in Txn : given[t] \in Nat /\ given[t] <= Len(log)
      BY <1>5 DEF Written
    <3> QED BY <1>1, <1>2, <1>3, <3>1
  <2>2. ASSUME NEW n \in DOMAIN log', NEW t \in Txn
        PROVE  /\ About(n, t)' => n <= given'[t] \/ Unwritten(n)'
               /\ Cuts(n, t)' => n <= given'[t] \/ Unsought(n)'
    <3>1. CASE n \in DOMAIN log
      BY <1>3, <1>5, <3>1, OutsideAwaits DEF Written
    <3>2. CASE n \in New
      BY <3>2
    <3> QED BY <1>2, <3>1, <3>2
  <2> QED BY <2>1, <2>2 DEF Written
<1>7. ASSUME NEW t \in Txn, Entitles(t)' PROVE \E s : LiveFrom(t, s)'
  <2>1. Entitles(t) /\ Known(t)
    BY <1>3, <1>7, Entitling DEF Entitles
  <2>2. PICK s : LiveFrom(t, s)
    BY <1>5, <2>1 DEF LiveRow
  <2>3. /\ s \in DOMAIN log /\ s \in Nat /\ s <= given[t]
        /\ given[t] \in Nat /\ given[t] <= Len(log)
    BY <1>1, <1>5, <2>2 DEF LiveFrom, Written
  <2>4. s + 1 .. given[t] \subseteq DOMAIN log
    BY <1>1, <2>3
  <2>5. \A k \in s + 1 .. given[t] : log'[k].kind \in Whole => Unwritten(k)'
    BY <1>2, <2>2, <2>4, OutsideAwaits DEF LiveFrom
  <2>6. CASE rows[t].status = "GRACE_PERIOD" /\ log[s].kind = "FAIL_GRACE"
    <3>1. LiveFrom(t, s)'
      BY <1>2, <1>3, <2>3, <2>5, <2>6 DEF LiveFrom
    <3> QED BY <3>1
  <2>7. CASE /\ rows[t].status = "ACTIVE" /\ rows[t].at = s /\ Starts(s, t)
             /\ \A k \in s + 1 .. given[t] :
                  /\ log[k].kind = "REFUND" /\ log[k].txn = t => Unwritten(k)
                  /\ Cuts(k, t) /\ charges[t].exp > clock => Replaces(k, t)
    <3>1. Starts(s, t)'
      BY <2>3, <2>7, OutsideAwaits
    <3>2. ASSUME NEW k \in s + 1 .. given[t]
          PROVE  /\ log'[k].kind = "REFUND" /\ log'[k].txn = t => Unwritten(k)'
                 /\ Cuts(k, t)' /\ charges'[t].exp > clock' => Replaces(k, t)'
      BY <1>2, <1>4, <2>1, <2>4, <2>7, OutsideAwaits
    <3>3. LiveFrom(t, s)'
      BY <1>2, <1>3, <2>3, <2>5, <2>7, <3>1, <3>2 DEF LiveFrom
    <3> QED BY <3>3
  <2> QED BY <2>2, <2>6, <2>7 DEF LiveFrom
<1>8. ASSUME NEW t \in Txn PROVE Marked(t)'
  BY <1>2, <1>3, <1>5 DEF Marked, Known
<1>9. Plain' => Plain
  BY <1>1, <1>2 DEF Plain
<1>10. ASSUME NEW t \in Txn PROVE DeadRow(t)'
  <2> SUFFICES ASSUME Known(t), ~Entitles(t), Plain, charges'[t].exp > clock',
                      NEW s \in DOMAIN log', s <= given[t], Starts(s, t)'
               PROVE  \E m \in s + 1 .. given[t] : Ends(m, t)'
    BY <1>3, <1>9 DEF DeadRow, Known, Entitles
  <2>1. given[t] <= Len(log)
    BY <1>5 DEF Written
  <2>2. given[t] \in Nat
    OBVIOUS
  <2>3. CASE s \in DOMAIN log
    <3>1. Starts(s, t) /\ charges[t].exp > clock
      BY <1>4, <2>3, OutsideAwaits
    <3>2. PICK m \in s + 1 .. given[t] : Ends(m, t)
      BY <1>5, <2>3, <3>1 DEF DeadRow
    <3>3. m \in DOMAIN log
      BY <1>1, <2>1, <2>2, <2>3
    <3> QED BY <3>2, <3>3, OutsideAwaits
  <2>4. CASE s \in New
    BY <1>1, <2>1, <2>2, <2>4 DEF New
  <2> QED BY <1>2, <2>3, <2>4
<1> QED BY <1>6, <1>7, <1>8, <1>10 DEF RowsFollow, LiveRow

(* Apple's and the clients' steps.                                         *)
LEMMA OutsideFollow ==
  ASSUME TypeInv, TypeInv', AccountInv, FollowInv, AppStore
  PROVE  FollowInv'
<1>1. StoreTyped' /\ StoreGrows /\ Outside
  BY AppStoreTyped DEF TypeInv
<1>2. PICK t : Reports(t)
  BY AppStoreReports DEF TypeInv
<1>3. clock' >= clock
  <2>1. clock' = clock \/ clock' = clock + 1
    BY DEF AppStore, Renew, Upgrade, Resubscribe, FailToRenew, Lapse, Revoke, Refund,
       Present, Tick, Charge, Move, Notify
  <2> QED BY <2>1 DEF TypeInv, StoreTyped
<1>4. StoreLog'
  BY <1>1, StoreLogStep DEF FollowInv, TypeInv
<1>5. SparesOwn'
  BY <1>1 DEF FollowInv, SparesOwn, Outside
<1>6. \A n \in New : Unwritten(n)' /\ Unsought(n)'
  BY <1>1, <1>2, OutsideNews
<1>7. ~skewed' => RowsFollow'
  BY <1>1, <1>3, <1>6, OutsideRows DEF FollowInv, Outside, AccountInv
<1> QED BY <1>4, <1>5, <1>7 DEF FollowInv

(* Every step.                                                             *)
LEMMA NextFollowInv ==
  TypeInv /\ KindInv /\ AccountInv /\ FollowInv /\ [Next]_vars => FollowInv'
<1> SUFFICES ASSUME TypeInv, KindInv, AccountInv, FollowInv, [Next]_vars
             PROVE  FollowInv'
  OBVIOUS
<1>1. TypeInv'
  BY NextTypeInv
<1>2. CASE AppStore
  BY <1>1, <1>2, OutsideFollow
<1>3. ASSUME NEW p \in Worker, Handle(p) \/ Crash(p) PROVE FollowInv'
  BY <1>1, <1>3, HandlerFollow
<1>4. CASE UNCHANGED vars
  <2>1. StoreGrows /\ Outside /\ clock' >= clock /\ New = {} /\ store' = store /\ log' = log
    BY <1>4 DEF vars, storeVars, history, StoreGrows, Outside, New, TypeInv, StoreTyped
  <2>2. StoreLog' /\ SparesOwn'
    BY <1>4, <2>1 DEF FollowInv, StoreLog, SparesOwn, Outside, vars, storeVars
  <2>3. ~skewed' => RowsFollow'
    BY <1>1, <2>1, OutsideRows DEF FollowInv, Outside, AccountInv
  <2> QED BY <2>2, <2>3 DEF FollowInv
<1> QED BY <1>2, <1>3, <1>4 DEF Next

(* At the start the first charge waits, and there are no rows.             *)
LEMMA InitFollowInv == Init => FollowInv
<1> SUFFICES ASSUME Init PROVE FollowInv
  OBVIOUS
<1>1. /\ log = <<[kind |-> "SUBSCRIBED", txn |-> 1, at |-> 0]>> /\ DOMAIN log = {1}
      /\ Len(log) = 1 /\ log[1].kind = "SUBSCRIBED" /\ log[1].txn = 1 /\ log[1].at = 0
      /\ clock = 0 /\ store.state = "ACTIVE"
      /\ \A t \in Txn : given[t] = 0 /\ rows[t] = NoRow
      /\ \A p \in Worker : job[p].at = "idle" /\ job[p].msg = NoMsg
  BY DEF Init, Idle
<1>2. StoreLog
  BY <1>1 DEF StoreLog
<1>3. SparesOwn
  BY <1>1 DEF SparesOwn, Retiring
<1>4. Unwritten(1) /\ Unsought(1)
  <2>1. MsgOf(1) = [n |-> 1, kind |-> "SUBSCRIBED", txn |-> 1]
    BY <1>1 DEF MsgOf
  <2>2. MsgOf(1) \in inbox /\ MsgOf(1) # NoMsg
    BY <2>1 DEF Init, NoMsg
  <2> QED BY <1>1, <2>2 DEF Unwritten, Unsought, Awaits
<1>5. Written
  BY <1>1, <1>4 DEF Written
<1>6. \A t \in Txn : ~Known(t) /\ ~Entitles(t)
  BY <1>1, EntitlingStatus DEF Known, Entitles, NoRow
<1>7. RowsFollow
  BY <1>5, <1>6 DEF RowsFollow, LiveRow, Marked, DeadRow
<1> QED BY <1>2, <1>3, <1>7 DEF FollowInv

--------------------------------------------------------------------------------
(***************************************************************************)
(* Without a grace period a line lasts as long as its charge.              *)
(***************************************************************************)
(* A line, or one that a sync is about to write, has the end of its charge;*)
(* and what a sync has read are the lines that are there still.            *)
Charged(line) == line.exp = charges[line.txn].exp
JobDated(j) == \A tier \in Tier : j.want[tier].txn # 0 => Charged(j.want[tier])
LinesDated == \A i \in DOMAIN access : Charged(access[i])
Still(j) == \A i \in DOMAIN j.seen : i \in DOMAIN access /\ access[i].txn = j.seen[i].txn

NoGrace == \A n \in DOMAIN log : log[n].kind # "FAIL_GRACE"
DatesInv ==
    /\ \A p \in Worker : Still(job[p])
    /\ ~skewed /\ NoGrace => LinesDated /\ \A p \in Worker : JobDated(job[p])

(* No line is removed, nor given to another purchase.                      *)
LinesStay == \A i \in DOMAIN access : i \in DOMAIN access' /\ access'[i].txn = access[i].txn

(* But for the read of a sync, a step leaves what a sync has in hand, or   *)
(* drops it.                                                               *)
LEMMA JobKeeps ==
  ASSUME TypeInv, NEW p \in Worker, Handle(p) \/ Crash(p), ~SyncRead(p)
  PROVE  /\ job'[p].want = job[p].want \/ job'[p].want = Nothing
         /\ job'[p].seen = job[p].seen \/ job'[p].seen = <<>>
<1> DEFINE Keeps == job'[p].want = job[p].want /\ job'[p].seen = job[p].seen
           Drops == job'[p].want = Nothing /\ job'[p].seen = <<>>
<1>0. job[p] \in Work /\ p \in DOMAIN job /\ Idle.want = Nothing /\ Idle.seen = <<>>
  BY AtWork DEF TypeInv, JobsTyped
<1>1. ASSUME NEW where, Go(p, where) PROVE Keeps
  <2>1. job'[p] = [job[p] EXCEPT !.at = where]
    BY <1>0, <1>1 DEF Go
  <2> QED BY <1>0, <2>1 DEF Work
<1>2. ASSUME NEW m, NEW where, Begin(p, m, where) PROVE Drops
  <2>1. job'[p] = [Idle EXCEPT !.at = where, !.msg = m, !.label = offerLabel(m)]
    BY <1>0, <1>2 DEF Begin
  <2> QED BY <2>1 DEF Idle
<1>3. ASSUME Done(p) \/ Crash(p) PROVE Drops
  BY <1>0, <1>3 DEF Done, Crash
<1>4. ASSUME NEW m \in inbox,
             \/ upsertPurchase(p, m) \/ GuardFirst(p, m) \/ applyRefund(p, m)
             \/ applyRefundReversed(p, m) \/ applyFailedRenewal(p, m) \/ ChainEnd(p, m)
      PROVE  Keeps \/ Drops
  <2>1. \/ \E where : Begin(p, m, where)
        \/ Ignore(m)
        \/ \E label : job' = [job EXCEPT ![p] =
                               [Idle EXCEPT !.at = "revoke", !.msg = m, !.label = label]]
    BY <1>4 DEF upsertPurchase, GuardFirst, applyRefund, applyRefundReversed,
       applyFailedRenewal, ChainEnd
  <2>2. CASE \E label : job' = [job EXCEPT ![p] =
                               [Idle EXCEPT !.at = "revoke", !.msg = m, !.label = label]]
    <3>1. PICK label : job' = [job EXCEPT ![p] =
                               [Idle EXCEPT !.at = "revoke", !.msg = m, !.label = label]]
      BY <2>2
    <3>2. job'[p] = [Idle EXCEPT !.at = "revoke", !.msg = m, !.label = label]
      BY <1>0, <3>1
    <3> QED BY <3>2 DEF Idle
  <2>3. Ignore(m) => Keeps
    BY DEF Ignore
  <2> QED BY <1>2, <2>1, <2>2, <2>3
<1>5. CASE insertPurchase(p) \/ FindAccess(p) \/ createAccess(p)
  BY <1>1, <1>5 DEF insertPurchase, FindAccess, createAccess
<1>6. CASE FindSiblings(p) \/ expireSuperseded(p)
  <2>1. PICK todo, where : job' = [job EXCEPT ![p].todo = todo, ![p].at = where]
    <3>1. CASE FindSiblings(p)
      BY <3>1 DEF FindSiblings
    <3>2. CASE expireSuperseded(p)
      <4>1. PICK u : job' = [job EXCEPT ![p].at = "resync", ![p].todo = @ \ {u}]
        BY <3>2 DEF expireSuperseded
      <4>2. PICK left : left = job[p].todo \ {u}
        OBVIOUS
      <4>3. job' = [job EXCEPT ![p].at = "resync", ![p].todo = left]
        BY <1>0, <4>1, <4>2
      <4>4. [job EXCEPT ![p].at = "resync", ![p].todo = left]
              = [job EXCEPT ![p].todo = left, ![p].at = "resync"]
        BY <1>0 DEF TypeInv, JobsTyped, Work
      <4> QED BY <4>3, <4>4
    <3> QED BY <1>6, <3>1, <3>2
  <2>2. job'[p] = [job[p] EXCEPT !.todo = todo, !.at = where]
    BY <1>0, <2>1
  <2> QED BY <1>0, <2>2 DEF Work
<1>7. CASE revokeAccess(p)
  <2>1. Done(p) \/ Go(p, "sync") \/ Go(p, "revenue")
    BY <1>7 DEF revokeAccess
  <2> QED BY <1>1, <1>3, <2>1
<1>8. CASE emitRevenueEvent(p)
  <2>1. job' = [job EXCEPT ![p].at = "sync", ![p].label = "NONE"]
    BY <1>8 DEF emitRevenueEvent
  <2>2. job'[p] = [job[p] EXCEPT !.at = "sync", !.label = "NONE"]
    BY <1>0, <2>1
  <2> QED BY <1>0, <2>2 DEF Work
<1>9. CASE SyncApply(p)
  <2>1. PICK where : \/ Done(p)
                     \/ job' = [job EXCEPT ![p].at = where, ![p].want = Nothing,
                                           ![p].seen = <<>>]
    BY <1>9 DEF SyncApply
  <2>2. CASE job' = [job EXCEPT ![p].at = where, ![p].want = Nothing, ![p].seen = <<>>]
    <3>1. job'[p] = [job[p] EXCEPT !.at = where, !.want = Nothing, !.seen = <<>>]
      BY <1>0, <2>2
    <3> QED BY <1>0, <3>1 DEF Work
  <2> QED BY <1>3, <2>1, <2>2
<1> QED BY <1>3, <1>4, <1>5, <1>6, <1>7, <1>8, <1>9 DEF Handle

(* What the read of a sync takes in hand.                                  *)
LEMMA ReadKeeps ==
  ASSUME TypeInv, NEW p \in Worker, SyncRead(p)
  PROVE  /\ job'[p].seen = access /\ access' = access
         /\ (\A t \in Txn : rows[t].status # "GRACE_PERIOD") => JobDated(job'[p])
<1> DEFINE target(t) == [txn |-> t, exp |-> IF t = 0 THEN Null ELSE entitlementExpiry(t)]
<1>0. job[p] \in Work /\ p \in DOMAIN job /\ access' = access
  BY DEF TypeInv, JobsTyped, SyncRead, readAccess
<1>1. PICK one \in desired(1), two \in desired(2) :
        job' = [job EXCEPT ![p].want = <<target(one), target(two)>>,
                           ![p].seen = access,
                           ![p].at = IF At(p, "sync") THEN "apply" ELSE "reapply"]
  BY DEF SyncRead, readAccess
<1>2. PICK a, b : a = target(one) /\ b = target(two)
  OBVIOUS
<1>3. a.txn = one /\ b.txn = two /\ (one # 0 => a.exp = entitlementExpiry(one))
      /\ (two # 0 => b.exp = entitlementExpiry(two))
  BY <1>2
<1>4. PICK w, where : w = <<a, b>> /\ where = IF At(p, "sync") THEN "apply" ELSE "reapply"
  OBVIOUS
<1>5. job' = [job EXCEPT ![p].want = w, ![p].seen = access, ![p].at = where]
  BY <1>1, <1>2, <1>4
<1> HIDE DEF target
<1>6. job'[p] = [job[p] EXCEPT !.want = w, !.seen = access, !.at = where]
  BY <1>0, <1>5
<1>7. job'[p].want = w /\ job'[p].seen = access
  BY <1>0, <1>6 DEF Work
<1>8. ASSUME \A t \in Txn : rows[t].status # "GRACE_PERIOD" PROVE JobDated(job'[p])
  <2>1. \A t \in desired(1) \cup desired(2) : t # 0 => entitlementExpiry(t) = charges[t].exp
    BY <1>8, DesiredKnown DEF Known, entitlementExpiry
  <2>2. (a.txn # 0 => Charged(a)) /\ (b.txn # 0 => Charged(b))
    BY <1>3, <2>1 DEF Charged
  <2>3. \A tier \in Tier : w[tier] = a \/ w[tier] = b
    BY <1>4 DEF Tier
  <2> QED BY <1>7, <2>2, <2>3 DEF JobDated
<1> QED BY <1>0, <1>7, <1>8

(* A sync sets a line to the end of its charge.                            *)
LEMMA ReconciledDates ==
  ASSUME TypeInv, NEW p \in Worker, NEW first, Still(job[p]), JobDated(job[p]), LinesDated
  PROVE  \A i \in DOMAIN access : Charged(reconciled(job[p].seen, job[p].want, first)[i])
<1> SUFFICES ASSUME NEW i \in DOMAIN access
             PROVE  Charged(reconciled(job[p].seen, job[p].want, first)[i])
  OBVIOUS
<1>1. PICK line : line = reconciled(job[p].seen, job[p].want, first)[i]
  OBVIOUS
<1> SUFFICES Charged(line)
  BY <1>1
<1>2. access[i] \in Line /\ Charged(access[i])
  BY DEF TypeInv, AccessTyped, LinesDated
<1>3. ASSUME NEW b \in BOOLEAN, line = [access[i] EXCEPT !.active = b]
      PROVE  Charged(line)
  BY <1>2, <1>3 DEF Line, Charged
<1>4. CASE i \notin DOMAIN job[p].seen
  BY <1>1, <1>2, <1>4 DEF reconciled
<1>5. CASE i \in DOMAIN job[p].seen
  <2>1. PICK s : s = job[p].seen[i]
    OBVIOUS
  <2>2. PICK target : target = job[p].want[charges[s.txn].tier]
    OBVIOUS
  <2>3. s.txn # 0 /\ charges[s.txn].tier \in Tier /\ access[i].txn = s.txn
    <3>1. Known(s.txn) /\ access[i].txn = s.txn
      BY <1>5, <2>1 DEF TypeInv, AccessTyped, Still
    <3>2. charges[s.txn] \in Priced
      BY <3>1 DEF Known, TypeInv, RowsTyped, StoreTyped
    <3> QED BY <3>1, <3>2, Numbers DEF Priced, Known
  <2>4. target.txn # 0 => Charged(target)
    BY <2>2, <2>3 DEF JobDated
  <2>5. \/ line = [access[i] EXCEPT !.active = access[i].active /\ ~s.active]
        \/ /\ target.txn = s.txn
           /\ line = [access[i] EXCEPT !.active = TRUE, !.exp = target.exp]
        \/ line = access[i]
    BY <1>1, <1>5, <2>1, <2>2 DEF reconciled
  <2>6. CASE line = [access[i] EXCEPT !.active = access[i].active /\ ~s.active]
    <3>1. PICK b \in BOOLEAN : b = (access[i].active /\ ~s.active)
      OBVIOUS
    <3> QED BY <1>3, <2>6, <3>1
  <2>7. CASE /\ target.txn = s.txn
             /\ line = [access[i] EXCEPT !.active = TRUE, !.exp = target.exp]
    <3>1. line.txn = access[i].txn /\ line.exp = target.exp
      BY <1>2, <2>7 DEF Line
    <3> QED BY <2>3, <2>4, <2>7, <3>1 DEF Charged
  <2> QED BY <1>2, <2>5, <2>6, <2>7
<1> QED BY <1>1, <1>4, <1>5

(* So does it create one.                                                  *)
LEMMA CreatedDates ==
  ASSUME TypeInv, NEW p \in Worker, JobDated(job[p])
  PROVE  LET new == created(job[p].seen, job[p].want)
         IN  \A i \in DOMAIN new : Charged(new[i])
<1> DEFINE row(to) == IF to.txn = 0 \/ RowsOf(job[p].seen, to.txn) # {} THEN <<>>
                      ELSE <<[txn |-> to.txn, active |-> TRUE, exp |-> to.exp]>>
<1>1. ASSUME NEW tier \in Tier
      PROVE  \E a : /\ a = row(job[p].want[tier])
                    /\ a = <<>> \/ \E line : a = <<line>> /\ Charged(line)
  <2>1. PICK to : to = job[p].want[tier]
    OBVIOUS
  <2>2. to.txn # 0 => Charged(to)
    BY <2>1 DEF JobDated
  <2>3. PICK line : line = [txn |-> to.txn, active |-> TRUE, exp |-> to.exp]
    OBVIOUS
  <2>4. to.txn # 0 => Charged(line)
    BY <2>2, <2>3 DEF Charged
  <2>5. row(to) = <<>> \/ (to.txn # 0 /\ row(to) = <<line>>)
    BY <2>3
  <2> QED BY <2>1, <2>4, <2>5
<1>2. created(job[p].seen, job[p].want) = row(job[p].want[1]) \o row(job[p].want[2])
  BY DEF created
<1> HIDE DEF row
<1>3. PICK a, b : /\ created(job[p].seen, job[p].want) = a \o b
                  /\ a = <<>> \/ \E line : a = <<line>> /\ Charged(line)
                  /\ b = <<>> \/ \E line : b = <<line>> /\ Charged(line)
  <2>1. 1 \in Tier /\ 2 \in Tier
    BY DEF Tier
  <2>2. PICK a : /\ a = row(job[p].want[1])
                 /\ a = <<>> \/ \E line : a = <<line>> /\ Charged(line)
    BY <1>1, <2>1
  <2>3. PICK b : /\ b = row(job[p].want[2])
                 /\ b = <<>> \/ \E line : b = <<line>> /\ Charged(line)
    BY <1>1, <2>1
  <2> QED BY <1>2, <2>2, <2>3
<1>4. \A i \in DOMAIN (a \o b) : Charged((a \o b)[i])
  <2>1. CASE a = <<>> /\ b = <<>>
    BY <2>1
  <2>2. ASSUME NEW line, Charged(line), a \o b = <<line>>
        PROVE  \A i \in DOMAIN (a \o b) : Charged((a \o b)[i])
    BY <2>2
  <2>3. ASSUME NEW x, NEW y, Charged(x), Charged(y), a = <<x>>, b = <<y>>
        PROVE  \A i \in DOMAIN (a \o b) : Charged((a \o b)[i])
    BY <2>3
  <2>4. ASSUME NEW line, a = <<>>, b = <<line>> PROVE a \o b = <<line>>
    BY <2>4
  <2>5. ASSUME NEW line, a = <<line>>, b = <<>> PROVE a \o b = <<line>>
    BY <2>5
  <2> QED BY <1>3, <2>1, <2>2, <2>3, <2>4, <2>5
<1> QED BY <1>3, <1>4

(* What a step does to the lines.                                          *)
LEMMA LinesStep ==
  ASSUME TypeInv, NEW p \in Worker, Handle(p) \/ Crash(p), Still(job[p])
  PROVE  /\ LinesStay
         /\ LinesDated /\ JobDated(job[p]) => \A i \in DOMAIN access' : Charged(access'[i])
<1> DEFINE Goal == /\ LinesStay
                   /\ LinesDated /\ JobDated(job[p]) =>
                        \A i \in DOMAIN access' : Charged(access'[i])
<1>0. access \in Seq(Line) /\ \A i \in DOMAIN access : access[i] \in Line
  BY DEF TypeInv, AccessTyped
<1>1. ASSUME access' = access PROVE Goal
  BY <1>1 DEF LinesStay, LinesDated
<1>2. \A t : Charged(Granted(t)) /\ Granted(t).txn = t
  BY DEF Charged, Granted
<1>3. CASE FindAccess(p)
  <2>1. PICK t : t = job[p].msg.txn
    OBVIOUS
  <2>2. access' = access \/ \E i \in DOMAIN access :
          access[i].txn = t /\ access' = [access EXCEPT ![i] = Granted(t)]
    BY <1>3, <2>1 DEF FindAccess
  <2>3. CASE \E i \in DOMAIN access :
          access[i].txn = t /\ access' = [access EXCEPT ![i] = Granted(t)]
    <3>1. PICK i \in DOMAIN access :
            access[i].txn = t /\ access' = [access EXCEPT ![i] = Granted(t)]
      BY <2>3
    <3>2. DOMAIN access' = DOMAIN access /\ access'[i] = Granted(t)
          /\ \A k \in DOMAIN access : k # i => access'[k] = access[k]
      BY <1>0, <3>1
    <3> QED BY <1>2, <3>1, <3>2 DEF LinesStay, LinesDated
  <2> QED BY <1>1, <2>2, <2>3
<1>4. CASE createAccess(p)
  <2>1. PICK t, line : /\ access' = Append(access, Granted(t))
                       /\ line = Granted(t)
    BY <1>4 DEF createAccess
  <2>2. access \in Seq(Line \cup {line}) /\ access' = Append(access, line)
    BY <1>0, <2>1
  <2>3. /\ \A k \in DOMAIN access' : (k \in DOMAIN access /\ access'[k] = access[k])
                                       \/ access'[k] = line
        /\ \A k \in DOMAIN access : k \in DOMAIN access' /\ access'[k] = access[k]
    BY <2>2
  <2> QED BY <1>2, <2>1, <2>3 DEF LinesStay, LinesDated
<1>5. CASE revokeAccess(p)
  <2>1. /\ DOMAIN access' = DOMAIN access
        /\ \A i \in DOMAIN access :
             access'[i] = access[i] \/ access'[i] = [access[i] EXCEPT !.active = FALSE]
    BY <1>5 DEF revokeAccess
  <2>2. \A i \in DOMAIN access : access'[i].txn = access[i].txn /\ access'[i].exp = access[i].exp
    BY <1>0, <2>1 DEF Line
  <2> QED BY <2>1, <2>2 DEF LinesStay, LinesDated, Charged
<1>6. CASE SyncApply(p)
  <2>1. PICK i, k : access' = reconciled(job[p].seen, job[p].want, {i, k})
                                \o created(job[p].seen, job[p].want)
    BY <1>6 DEF SyncApply
  <2>2. PICK a, b : /\ a = reconciled(job[p].seen, job[p].want, {i, k})
                    /\ b = created(job[p].seen, job[p].want)
    OBVIOUS
  <2>3. /\ a \in Seq(Line) /\ DOMAIN a = DOMAIN access
        /\ \A n \in DOMAIN access : a[n].txn = access[n].txn
    BY <2>2, ReconciledTyped
  <2>4. b \in Seq(Line)
    BY <2>2, CreatedTyped
  <2>5. /\ a \o b \in Seq(Line) /\ Len(a \o b) = Len(a) + Len(b)
        /\ \A n \in 1 .. Len(a) + Len(b) :
             (a \o b)[n] = IF n <= Len(a) THEN a[n] ELSE b[n - Len(a)]
    BY <2>3, <2>4, ConcatProperties
  <2>6. access' = a \o b /\ DOMAIN access' = 1 .. Len(a) + Len(b)
        /\ DOMAIN a = 1 .. Len(a) /\ DOMAIN b = 1 .. Len(b)
        /\ Len(a) \in Nat /\ Len(b) \in Nat
    BY <2>1, <2>2, <2>3, <2>4, <2>5
  <2>7. \A n \in DOMAIN a : n \in DOMAIN access' /\ access'[n] = a[n]
    BY <2>5, <2>6
  <2>8. LinesStay
    BY <2>3, <2>7 DEF LinesStay
  <2>9. ASSUME LinesDated, JobDated(job[p]), NEW n \in DOMAIN access'
        PROVE  Charged(access'[n])
    <3>1. CASE n <= Len(a)
      <4>1. n \in DOMAIN a /\ access'[n] = a[n]
        BY <2>5, <2>6, <3>1
      <4> QED BY <2>2, <2>3, <2>9, <4>1, ReconciledDates
    <3>2. CASE ~(n <= Len(a))
      <4>1. n - Len(a) \in DOMAIN b /\ access'[n] = b[n - Len(a)]
        BY <2>5, <2>6, <3>2
      <4> QED BY <2>2, <2>9, <4>1, CreatedDates
    <3> QED BY <3>1, <3>2
  <2> QED BY <2>8, <2>9
<1>7. \/ FindAccess(p) \/ createAccess(p) \/ revokeAccess(p) \/ SyncApply(p)
      \/ access' = access
  BY DEF Handle, Crash, upsertPurchase, GuardFirst, applyRefund, applyRefundReversed,
     applyFailedRenewal, ChainEnd, insertPurchase, FindSiblings, expireSuperseded,
     emitRevenueEvent, SyncRead, readAccess
<1> QED BY <1>1, <1>3, <1>4, <1>5, <1>6, <1>7

(* Without a grace period no row is in one.                                *)
LEMMA NoGraceRows ==
  ASSUME RowsFollow, NoGrace, NEW t \in Txn
  PROVE  rows[t].status # "GRACE_PERIOD"
<1> SUFFICES ASSUME rows[t].status = "GRACE_PERIOD" PROVE FALSE
  OBVIOUS
<1>1. Entitles(t)
  BY EntitlingStatus DEF Entitles
<1>2. PICK s : LiveFrom(t, s)
  BY <1>1 DEF RowsFollow, LiveRow
<1> QED BY <1>2 DEF LiveFrom, NoGrace

(* Every step of a handler, and its death.                                 *)
LEMMA HandlerDates ==
  ASSUME TypeInv, AccountInv, KindInv, FollowInv, DatesInv, NEW p \in Worker,
         Handle(p) \/ Crash(p)
  PROVE  DatesInv'
<1>1. charges' = charges /\ log' = log /\ (~skewed' => ~skewed)
  BY HandlerKnown, HandlerAccount DEF AccountStep, GivenStep, storeVars
<1>2. \A q \in Worker \ {p} : job'[q] = job[q]
  BY OthersStay
<1>3. Still(job[p]) /\ \A q \in Worker : Still(job[q])
  BY DEF DatesInv
<1>4. LinesStay
  BY <1>3, LinesStep
<1>5. ASSUME NEW q \in Worker PROVE Still(job[q])'
  <2>1. CASE job'[q].seen = job[q].seen
    BY <1>3, <1>4, <2>1 DEF Still, LinesStay
  <2>2. CASE job'[q].seen = <<>>
    BY <2>2 DEF Still
  <2>3. CASE q = p /\ SyncRead(p)
    BY <2>3, ReadKeeps DEF Still
  <2> QED BY <1>2, <2>1, <2>2, <2>3, JobKeeps
<1>6. ASSUME ~skewed', NoGrace' PROVE LinesDated' /\ \A q \in Worker : JobDated(job[q])'
  <2>1. ~skewed /\ NoGrace /\ LinesDated /\ \A q \in Worker : JobDated(job[q])
    BY <1>1, <1>6 DEF NoGrace, DatesInv
  <2>2. LinesDated'
    BY <1>1, <1>3, <2>1, LinesStep DEF LinesDated, Charged
  <2>3. \A q \in Worker : JobDated(job'[q])
    <3> SUFFICES ASSUME NEW q \in Worker PROVE JobDated(job'[q])
      OBVIOUS
    <3>1. CASE job'[q].want = job[q].want
      BY <2>1, <3>1 DEF JobDated
    <3>2. CASE job'[q].want = Nothing
      BY <3>2 DEF JobDated, Nothing
    <3>3. CASE q = p /\ SyncRead(p)
      <4>1. \A t \in Txn : rows[t].status # "GRACE_PERIOD"
        BY <2>1, NoGraceRows DEF FollowInv
      <4> QED BY <3>3, <4>1, ReadKeeps
    <3> QED BY <1>2, <3>1, <3>2, <3>3, JobKeeps
  <2>4. \A q \in Worker : JobDated(job[q])'
    BY <1>1, <2>3 DEF JobDated, Charged
  <2> QED BY <2>2, <2>4
<1> QED BY <1>5, <1>6 DEF DatesInv

(* Apple's and the clients' steps, and none.                               *)
LEMMA OutsideDates ==
  ASSUME TypeInv, StoreGrows, access' = access, job' = job, skewed' = skewed, DatesInv
  PROVE  DatesInv'
<1>1. \A q \in Worker : Still(job[q])'
  BY DEF DatesInv, Still
<1>2. NoGrace' => NoGrace
  BY DEF NoGrace, StoreGrows
<1>3. \A t : Known(t) => charges'[t] = charges[t]
  BY DEF Known, TypeInv, RowsTyped, StoreGrows
<1>4. LinesDated => LinesDated'
  BY <1>3 DEF LinesDated, Charged, TypeInv, AccessTyped
<1>5. ASSUME NEW q \in Worker, JobDated(job[q]) PROVE JobDated(job[q])'
  <2>1. \A tier \in Tier : job[q].want[tier].txn = 0 \/ Known(job[q].want[tier].txn)
    BY DEF TypeInv, AccessTyped
  <2> QED BY <1>3, <1>5, <2>1 DEF JobDated, Charged
<1> QED BY <1>1, <1>2, <1>4, <1>5 DEF DatesInv

(* Every step.                                                             *)
LEMMA NextDatesInv ==
  TypeInv /\ KindInv /\ AccountInv /\ FollowInv /\ DatesInv /\ [Next]_vars => DatesInv'
<1> SUFFICES ASSUME TypeInv, KindInv, AccountInv, FollowInv, DatesInv, [Next]_vars
             PROVE  DatesInv'
  OBVIOUS
<1>1. CASE AppStore
  <2>1. StoreGrows /\ Outside
    BY <1>1, AppStoreTyped DEF TypeInv
  <2> QED BY <2>1, OutsideDates DEF Outside
<1>2. ASSUME NEW p \in Worker, Handle(p) \/ Crash(p) PROVE DatesInv'
  BY <1>2, HandlerDates
<1>3. CASE UNCHANGED vars
  <2>1. StoreGrows
    BY <1>3 DEF vars, storeVars, StoreGrows
  <2> QED BY <1>3, <2>1, OutsideDates DEF vars, history
<1> QED BY <1>1, <1>2, <1>3 DEF Next

(* At the start there are no lines.                                        *)
LEMMA InitDatesInv == Init => DatesInv
<1> SUFFICES ASSUME Init PROVE DatesInv
  OBVIOUS
<1>1. access = <<>> /\ \A q \in Worker : job[q].seen = <<>> /\ job[q].want = Nothing
  BY DEF Init, Idle
<1> QED BY <1>1 DEF DatesInv, LinesDated, JobDated, Still, Nothing

--------------------------------------------------------------------------------
(***************************************************************************)
(* With everything processed.                                              *)
(***************************************************************************)
(* Every event was given to the rows it ends, and a row that entitles      *)
(* began with an event that none has ended since.                          *)
LEMMA SettledRows ==
  ASSUME TypeInv, AccountInv, RowsFollow, Settled, NEW t \in Txn
  PROVE  /\ given[t] \in Nat /\ given[t] <= Len(log)
         /\ \A n \in DOMAIN log : About(n, t) \/ Ends(n, t) => n <= given[t]
         /\ Entitles(t) => \E s \in DOMAIN log :
              \/ log[s].kind = "FAIL_GRACE" /\ \A m \in s + 1 .. Len(log) : log[m].kind \notin Whole
              \/ /\ Starts(s, t)
                 /\ \A m \in s + 1 .. Len(log) :
                      Ends(m, t) => Cuts(m, t) /\ ~(charges[t].exp > clock)
<1>1. \A n \in DOMAIN log : ~Unwritten(n) /\ ~Unsought(n) /\ ~Replaces(n, t)
  <2>1. \A n : ~Unwritten(n) /\ ~Unsought(n)
    BY DEF Settled, Unwritten, Unsought, Awaits
  <2>2. \A p \in Worker : job[p].at \notin Retiring
    BY AtWork DEF Settled, At, Retiring
  <2> QED BY <2>1, <2>2 DEF Replaces
<1>2. \A n \in DOMAIN log : About(n, t) \/ Cuts(n, t) => n <= given[t]
  BY <1>1 DEF RowsFollow, Written
<1>3. \A n \in DOMAIN log : Ends(n, t) =>
        \/ log[n].kind \in Whole \/ (log[n].kind = "REFUND" /\ log[n].txn = t) \/ Cuts(n, t)
  <2> SUFFICES ASSUME NEW n \in DOMAIN log, log[n].kind \in Upgrades, log[n].txn > t
               PROVE  t < log[n].txn
    BY DEF Ends, Cuts, Whole
  <2>1. log[n] \in Entry
    BY DEF TypeInv, StoreTyped
  <2> QED BY <2>1 DEF Entry, Txn
<1>4. \A n \in DOMAIN log : About(n, t) \/ Ends(n, t) => n <= given[t]
  BY <1>2, <1>3 DEF About
<1>5. /\ given[t] \in Nat /\ given[t] <= Len(log)
      /\ DOMAIN log = 1 .. Len(log) /\ Len(log) \in Nat
  BY DEF AccountInv, RowsFollow, Written, TypeInv, StoreTyped
<1>6. ASSUME Entitles(t)
      PROVE  \E s \in DOMAIN log :
              \/ log[s].kind = "FAIL_GRACE" /\ \A m \in s + 1 .. Len(log) : log[m].kind \notin Whole
              \/ /\ Starts(s, t)
                 /\ \A m \in s + 1 .. Len(log) :
                      Ends(m, t) => Cuts(m, t) /\ ~(charges[t].exp > clock)
  <2>1. PICK s : LiveFrom(t, s)
    BY <1>6 DEF RowsFollow, LiveRow
  <2>2. s \in DOMAIN log /\ \A m \in s + 1 .. Len(log) : m \in DOMAIN log
    BY <1>5, <2>1 DEF LiveFrom
  <2>3. \A m \in s + 1 .. Len(log) : About(m, t) \/ Ends(m, t) => m \in s + 1 .. given[t]
    BY <1>4, <1>5, <2>2
  <2>4. \A m \in s + 1 .. Len(log) : log[m].kind \notin Whole
    BY <1>1, <2>1, <2>2, <2>3 DEF About, LiveFrom
  <2>5. CASE log[s].kind = "FAIL_GRACE"
    BY <2>2, <2>4, <2>5
  <2>6. CASE /\ Starts(s, t)
             /\ \A k \in s + 1 .. given[t] :
                  /\ log[k].kind = "REFUND" /\ log[k].txn = t => Unwritten(k)
                  /\ Cuts(k, t) /\ charges[t].exp > clock => Replaces(k, t)
    <3>1. ASSUME NEW m \in s + 1 .. Len(log), Ends(m, t)
          PROVE  Cuts(m, t) /\ ~(charges[t].exp > clock)
      <4>1. m \in DOMAIN log /\ m \in s + 1 .. given[t] /\ log[m].kind \notin Whole
        BY <2>2, <2>3, <2>4, <3>1
      <4>2. ~(log[m].kind = "REFUND" /\ log[m].txn = t)
        BY <1>1, <2>6, <4>1
      <4>3. Cuts(m, t)
        BY <1>3, <3>1, <4>1, <4>2
      <4> QED BY <1>1, <2>6, <4>1, <4>3
    <3> QED BY <2>2, <2>6, <3>1
  <2> QED BY <2>1, <2>5, <2>6 DEF LiveFrom
<1> QED BY <1>4, <1>5, <1>6

(* An ended subscription is served what a reversal gave back.              *)
LEMMA EndedServes ==
  ASSUME TypeInv, AccountInv, RowsFollow, StoreLog, Settled, Agrees(access),
         store.state \in {"EXPIRED", "REVOKED"}
  PROVE  Served \subseteq GivenBack
<1> SUFFICES ASSUME NEW tier \in Served PROVE tier \in GivenBack
  OBVIOUS
<1>1. PICK i \in DOMAIN access : access[i].active /\ tier = charges[access[i].txn].tier
  BY DEF Served
<1>2. PICK t : t = access[i].txn
  OBVIOUS
<1>3. t \in Txn /\ Entitles(t) /\ t \in DOMAIN charges
  BY <1>1, <1>2, Entitling DEF Agrees, LivesOn, TypeInv, AccessTyped, Known
<1>4. /\ DOMAIN log = 1 .. Len(log) /\ Len(log) \in Nat
      /\ given[t] \in Nat /\ given[t] <= Len(log)
  BY <1>3, SettledRows DEF TypeInv, StoreTyped
<1>5. PICK e \in DOMAIN log : /\ log[e].kind \in {"EXPIRED", "REVOKE"}
                              /\ \A m \in e + 1 .. Len(log) : log[m].kind \in Reversals
  BY DEF StoreLog
<1>6. PICK s \in DOMAIN log :
        \/ log[s].kind = "FAIL_GRACE" /\ \A m \in s + 1 .. Len(log) : log[m].kind \notin Whole
        \/ /\ Starts(s, t)
           /\ \A m \in s + 1 .. Len(log) :
                Ends(m, t) => Cuts(m, t) /\ ~(charges[t].exp > clock)
  BY <1>3, SettledRows
<1>7. s > e
  <2>1. ~(e \in s + 1 .. Len(log))
    BY <1>5, <1>6 DEF Ends, Cuts, Whole, Upgrades
  <2>2. s # e
    BY <1>5, <1>6 DEF Starts, Charges, Upgrades, Offers
  <2> QED BY <1>4, <2>1, <2>2
<1>8. \A m \in DOMAIN log : m >= s => log[m].kind \in Reversals
  BY <1>4, <1>5, <1>7
<1>9. log[s].kind = "REVERSED" /\ log[s].txn = t
  BY <1>6, <1>8 DEF Starts, Reversals, Charges, Upgrades, Offers
<1>10. ASSUME NEW m \in s + 1 .. Len(log) PROVE ~Ends(m, t)
  <2>1. log[m].kind \in Reversals
    BY <1>4, <1>8
  <2> QED BY <1>6, <1>9, <2>1 DEF Cuts, Reversals, Upgrades
<1>11. PaidFor(t) /\ After(0, "REVERSED", t)
  BY <1>4, <1>9, <1>10 DEF PaidFor, After
<1> QED BY <1>1, <1>2, <1>3, <1>11 DEF GivenBack, Tiers

(* A chain without a grace period, and without a late reversal, is served  *)
(* nothing that was not paid for.                                          *)
LEMMA ServedIsPaid ==
  ASSUME TypeInv, AccountInv, RowsFollow, Settled, Agrees(access), NoGrace, LinesDated
  PROVE  Served \subseteq Paid
<1> SUFFICES ASSUME NEW tier \in Served PROVE tier \in Paid
  OBVIOUS
<1>1. PICK i \in DOMAIN access : /\ access[i].active /\ access[i].exp > clock
                                 /\ tier = charges[access[i].txn].tier
  BY DEF Served
<1>2. PICK t : t = access[i].txn
  OBVIOUS
<1>3. t \in Txn /\ Entitles(t) /\ t \in DOMAIN charges
  BY <1>1, <1>2, Entitling DEF Agrees, LivesOn, TypeInv, AccessTyped, Known
<1>4. charges[t].exp > clock
  BY <1>1, <1>2 DEF LinesDated, Charged
<1>5. PICK s \in DOMAIN log :
        \/ log[s].kind = "FAIL_GRACE"
        \/ /\ Starts(s, t)
           /\ \A m \in s + 1 .. Len(log) :
                Ends(m, t) => Cuts(m, t) /\ ~(charges[t].exp > clock)
  BY <1>3, SettledRows
<1>6. PaidFor(t)
  BY <1>4, <1>5 DEF NoGrace, Starts, PaidFor
<1> QED BY <1>1, <1>2, <1>3, <1>4, <1>6 DEF Paid, Tiers

(* And all that was.                                                       *)
LEMMA PaidIsServed ==
  ASSUME TypeInv, AccountInv, ~skewed, RowsFollow, Settled, Agrees(access), Plain
  PROVE  Paid \subseteq Served
<1> SUFFICES ASSUME NEW tier \in Paid PROVE tier \in Served
  OBVIOUS
<1>1. PICK t \in DOMAIN charges : /\ charges[t].exp > clock /\ PaidFor(t)
                                  /\ tier = charges[t].tier
  BY DEF Paid, Tiers
<1>2. t \in Txn
  BY Numbers DEF TypeInv, StoreTyped, Txn
<1>3. Known(t)
  <2>1. Booked(t, "purchase")
    BY DEF AccountInv, Unskewed, ChargeDue, Settled
  <2> QED BY <2>1 DEF Booked, AccountInv, BookedHappened
<1>4. PICK s \in DOMAIN log : Starts(s, t) /\ \A m \in s + 1 .. Len(log) : ~Ends(m, t)
  BY <1>1 DEF PaidFor, Starts
<1>5. /\ s <= given[t] /\ given[t] \in Nat /\ given[t] <= Len(log)
      /\ Len(log) \in Nat
  BY <1>2, <1>4, SettledRows DEF About, Starts, TypeInv, StoreTyped
<1>6. Entitles(t)
  <2> SUFFICES ASSUME ~Entitles(t) PROVE FALSE
    OBVIOUS
  <2>1. PICK m \in s + 1 .. given[t] : Ends(m, t)
    BY <1>1, <1>2, <1>3, <1>4, <1>5 DEF RowsFollow, DeadRow
  <2>2. m \in s + 1 .. Len(log)
    BY <1>5, <2>1
  <2> QED BY <1>4, <2>1, <2>2
<1>7. entitlementExpiry(t) = charges[t].exp
  <2>1. rows[t].status # "GRACE_PERIOD"
    BY <1>2, NoGraceRows DEF Plain, NoGrace
  <2> QED BY <2>1 DEF entitlementExpiry
<1>8. PICK i \in DOMAIN access : /\ access[i].active
                                 /\ charges[access[i].txn].tier = charges[t].tier
                                 /\ access[i].exp >= charges[t].exp
  BY <1>1, <1>2, <1>6, <1>7 DEF Agrees, Serves
<1>9. access[i].exp > clock
  <2>1. access[i] \in Line /\ charges[t] \in Priced /\ clock \in Nat
    BY DEF TypeInv, StoreTyped, AccessTyped
  <2> QED BY <1>1, <1>8, <2>1 DEF Line, Priced
<1> QED BY <1>1, <1>8, <1>9 DEF Served

(* With everything processed, the rows say what Apple says.                *)
LEMMA FollowServes ==
  TypeInv /\ SyncInv /\ AccountInv /\ FollowInv /\ DatesInv => ServedFollowsStore
<1> SUFFICES ASSUME TypeInv, SyncInv, AccountInv, FollowInv, DatesInv,
                    Settled, ~unsynced, ~skewed
             PROVE  /\ store.state \in {"EXPIRED", "REVOKED"} => Served \subseteq GivenBack
                    /\ Plain => Served = Paid
  BY DEF ServedFollowsStore
<1>1. Agrees(access)
  BY SettledAgrees
<1>2. StoreLog /\ RowsFollow
  BY DEF FollowInv
<1>3. store.state \in {"EXPIRED", "REVOKED"} => Served \subseteq GivenBack
  BY <1>1, <1>2, EndedServes
<1>4. ASSUME Plain PROVE Served = Paid
  <2>1. NoGrace /\ LinesDated
    BY <1>4 DEF Plain, NoGrace, DatesInv
  <2> QED BY <1>1, <1>2, <1>4, <2>1, ServedIsPaid, PaidIsServed
<1> QED BY <1>3, <1>4

(* syncAccess, upgrades and chain-wide writes: when no event is overtaken, *)
(* an ended subscription is served nothing but what the reversal of a      *)
(* refund gave back, and a chain without a grace period, and without a     *)
(* reversal after a failed renewal or a revocation, exactly what Apple was *)
(* paid for, whatever order the handlers ran in and wherever a job died.   *)
THEOREM AppleServedFollowsStore == Spec => []ServedFollowsStore
<1> DEFINE Inv == TypeInv /\ SyncInv /\ AccountInv /\ FollowInv /\ DatesInv
<1>1. Init => Inv
  BY InitTypeInv, InitSyncInv, InitAccountInv, InitFollowInv, InitDatesInv
<1>2. Inv /\ [Next]_vars => Inv'
  <2> SUFFICES ASSUME Inv, [Next]_vars PROVE Inv'
    OBVIOUS
  <2>1. KindInv
    BY DEF SyncInv
  <2>2. TypeInv' /\ SyncInv' /\ AccountInv'
    BY <2>1, NextTypeInv, NextSyncInv, NextAccountInv
  <2>3. FollowInv' /\ DatesInv'
    BY <2>1, NextFollowInv, NextDatesInv
  <2> QED BY <2>2, <2>3
<1>3. Inv => ServedFollowsStore
  BY FollowServes
<1> QED BY <1>1, <1>2, <1>3, PTL DEF Spec

================================================================================
