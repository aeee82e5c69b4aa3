---------------------------- MODULE CreditLedger ----------------------------
(***************************************************************************)
(* The virtual-currency ledger of apps/api: addCredits, spendCredits,      *)
(* grantProductCurrencies (services/credit-engine.ts, purchase-credits.ts) *)
(* and transferSubscriber (services/subscriber-transfer.ts), run by        *)
(* concurrent database sessions.                                           *)
(*                                                                         *)
(* A wallet is a (subscriber, currency) pair. Its balance is the `balance` *)
(* column of the row with the latest createdAt.  createdAt is the column   *)
(* default now(), which in Postgres is the time the TRANSACTION began,     *)
(* while the advisory lock of the wallet is taken later, inside it.        *)
(*                                                                         *)
(* One action is one statement (or one lock wait) of a transaction, so     *)
(* that the statements of two transactions interleave.  A row becomes      *)
(* visible when its transaction commits; the insert is the last statement  *)
(* of every transaction here and is modelled together with the commit.     *)
(***************************************************************************)
EXTENDS Integers, FiniteSets

CONSTANTS
  Subscriber,   \* subscriber ids; transfer sorts its lock keys, so they are ordered
  Currency,     \* virtual currencies of the project
  Purchase,     \* purchases whose product grants currency
  GrantAmount,  \* product_currency_grants: Currency -> amount (0: no grant row)
  AdminRef,     \* idempotency keys of dashboard grants and refund references
  AdminAmount,  \* amounts of those
  SpendRef,     \* referenceIds of spend requests
  SpendAmount,  \* amounts of spend requests
  Transfer,     \* <<from, to>> pairs a transfer may be requested for
  Worker,       \* concurrent database sessions
  MaxInt,       \* largest value of the int4 column `balance`
  MaxTx         \* bound: transactions begun in a behaviour

ASSUME LedgerAssumption ==
  /\ Subscriber \subseteq Nat
  /\ Transfer \subseteq {p \in Subscriber \X Subscriber : p[1] # p[2]}
  /\ GrantAmount \in [Currency -> Nat]
  /\ AdminAmount \subseteq Nat \ {0}
  /\ SpendAmount \subseteq Nat \ {0}
  /\ MaxInt \in Nat
  /\ MaxTx \in Nat

VARIABLES
  ledger,    \* committed credit_ledger rows
  owner,     \* purchases.subscriberId
  merged,    \* soft-deleted subscribers
  clock,     \* now(): one tick per transaction begun
  session,   \* what each worker is doing
  total,     \* history: the sum of the amounts committed to each wallet
  inverted   \* history: wallets a transaction committed to after one that began later

vars == <<ledger, owner, merged, clock, session, total, inverted>>

Wallet == Subscriber \X Currency

\* The subscribers some transfer may touch.
TransferParty == {p[1] : p \in Transfer} \cup {p[2] : p \in Transfer}

Ref == Purchase \cup AdminRef \cup SpendRef \cup Subscriber

Row == [sub: Subscriber, cur: Currency,
        type: {"PURCHASE", "REFUND", "BONUS", "SPEND", "TRANSFER_OUT", "TRANSFER_IN"},
        amount: Int, balance: 0..MaxInt,
        rt: {"purchase", "refund", "grant_idempotency", "spend", "transfer"}, rid: Ref,
        at: 1..MaxTx]

\* A worker between two requests.
Idle == [pc |-> "idle"]

Working == [pc: {"loop", "begun", "locked", "checked", "read"},
            type: {"PURCHASE", "REFUND", "BONUS", "SPEND"},
            sub: Subscriber, amount: [Currency -> Nat],
            rt: {"purchase", "refund", "grant_idempotency", "spend"}, rid: Ref,
            todo: SUBSET Currency, cur: Currency, at: 0..MaxTx, prev: 0..MaxInt]

Moving == [pc: {"lock1", "lock2", "check", "move"},
           sub: Subscriber, to: Subscriber, at: 1..MaxTx,
           todo: SUBSET Currency, amount: [Currency -> 0..MaxInt],
           prev: [Currency -> 0..MaxInt]]

TypeOK ==
  /\ ledger \subseteq Row
  /\ owner \in [Purchase -> Subscriber]
  /\ merged \subseteq Subscriber
  /\ clock \in 0..MaxTx
  /\ session \in [Worker -> {Idle} \cup Working \cup Moving]
  /\ total \in [Wallet -> Int]
  /\ inverted \subseteq Wallet

Init ==
  /\ ledger = {}
  /\ owner \in [Purchase -> Subscriber]
  /\ merged = {}
  /\ clock = 0
  /\ session = [w \in Worker |-> Idle]
  /\ total = [x \in Wallet |-> 0]
  /\ inverted = {}

-----------------------------------------------------------------------------
(* Reads of the ledger *)

Rows(s, c) == {r \in ledger : r.sub = s /\ r.cur = c}

\* Mutant: ORDER BY createdAt without DESC.
OldestBalance(s, c) ==
  IF Rows(s, c) = {} THEN 0
  ELSE (CHOOSE r \in Rows(s, c) : \A o \in Rows(s, c) : o.at >= r.at).balance

\* ORDER BY createdAt DESC LIMIT 1.  createdAt never ties within a wallet: a
\* tie broken by the random id is one of the two orders the model already has.
findLatestBalance(s, c) ==
  IF Rows(s, c) = {} THEN 0
  ELSE (CHOOSE r \in Rows(s, c) : \A o \in Rows(s, c) : o.at <= r.at).balance

\* Mutant: spends are not deduplicated.
ExistingGrant(q) ==
  \E r \in Rows(q.sub, q.cur) : r.rid = q.rid /\ q.type # "SPEND" /\ r.rt = q.rt

\* The dedupe read of addCredits (by referenceType and referenceId, whatever
\* the row's type) and that of spendCredits (SPEND rows by referenceId).
Existing(q) ==
  \E r \in Rows(q.sub, q.cur) :
    /\ r.rid = q.rid
    /\ IF q.type = "SPEND" THEN r.type = "SPEND" ELSE r.rt = q.rt

\* pg_advisory_xact_lock on the wallet, held to the end of the transaction.
HoldsWallet(w, s, c) ==
  /\ session[w].pc \in {"locked", "checked", "read"}
  /\ session[w].sub = s /\ session[w].cur = c

\* ... and on a subscriber's appUserId, taken by transfers.
\* (Mutant first: the keys in the order of the request.)
UnsortedLabels(q) == <<q.sub, q.to>>

SortedLabels(q) == IF q.sub < q.to THEN <<q.sub, q.to>> ELSE <<q.to, q.sub>>

HoldsLabel(w, s) ==
  \/ session[w].pc \in {"lock2", "check", "move"} /\ s = SortedLabels(session[w])[1]
  \/ session[w].pc \in {"check", "move"} /\ s = SortedLabels(session[w])[2]

Goto(w, pc) == session' = [session EXCEPT ![w].pc = pc]

\* A commit adds rows and keeps the two history variables.
CommitRows(rows) ==
  /\ ledger' = ledger \cup rows
  /\ total' = [x \in Wallet |->
       IF \E r \in rows : <<r.sub, r.cur>> = x
       THEN total[x] + (CHOOSE r \in rows : <<r.sub, r.cur>> = x).amount
       ELSE total[x]]
  /\ inverted' = inverted \cup
       {x \in Wallet : \E r \in rows : /\ <<r.sub, r.cur>> = x
                                       /\ \E o \in Rows(x[1], x[2]) : o.at > r.at}

-----------------------------------------------------------------------------
(* Requests *)

Request(w, type, s, amount, rt, rid, todo) ==
  /\ session[w] = Idle
  /\ todo # {}
  /\ session' = [session EXCEPT ![w] =
       [pc |-> "loop", type |-> type, sub |-> s, amount |-> amount, rt |-> rt,
        rid |-> rid, todo |-> todo, cur |-> CHOOSE c \in todo : TRUE,
        at |-> 0, prev |-> 0]]
  /\ UNCHANGED <<ledger, owner, merged, clock, total, inverted>>

\* A processed webhook, receipt or funnel purchase: the grants of the
\* purchase's product, to the subscriber the purchase row names now.
\* (A receipt for a purchase of somebody else merges that subscriber into its
\* own first, which is a transfer here.)
\* Deliveries are at-least-once, so the request may come any number of times.
grantProductCurrencies(w, p) ==
  Request(w, "PURCHASE", owner[p], GrantAmount, "purchase", p,
          {c \in Currency : GrantAmount[c] > 0})

\* The two other callers of addCredits, both with the dedupe armed.  Neither
\* looks at the subscriber's deletedAt.
refundCredits(w, s, c, n, k) ==
  Request(w, "REFUND", s, [d \in Currency |-> n], "refund", k, {c})

dashboardGrant(w, s, c, n, k) ==
  Request(w, "BONUS", s, [d \in Currency |-> n], "grant_idempotency", k, {c})

\* POST /v1/virtual-currencies/.../transactions: the subscriber is resolved
\* through mergedInto to a live row before the transaction begins.
spendRequest(w, s, c, n, k) ==
  /\ s \notin merged
  /\ Request(w, "SPEND", s, [d \in Currency |-> n], "spend", k, {c})

-----------------------------------------------------------------------------
(* addCredits and spendCredits: one transaction per currency *)

\* BEGIN: now() is fixed here.
Begin(w, c) ==
  /\ session[w].pc = "loop"
  /\ c \in session[w].todo
  /\ clock < MaxTx
  /\ clock' = clock + 1
  /\ session' = [session EXCEPT ![w].pc = "begun", ![w].cur = c, ![w].at = clock + 1]
  /\ UNCHANGED <<ledger, owner, merged, total, inverted>>

\* Mutant: the transaction does not take the wallet's lock.
NoLock(w) ==
  /\ session[w].pc = "begun"
  /\ Goto(w, "locked")
  /\ UNCHANGED <<ledger, owner, merged, clock, total, inverted>>

Lock(w) ==
  /\ session[w].pc = "begun"
  /\ \A o \in Worker \ {w} : ~HoldsWallet(o, session[w].sub, session[w].cur)
  /\ Goto(w, "locked")
  /\ UNCHANGED <<ledger, owner, merged, clock, total, inverted>>

\* The transaction ends; the loop of grantProductCurrencies goes on.
NextCurrency(w) ==
  LET rest == session[w].todo \ {session[w].cur} IN
  session' = [session EXCEPT ![w] =
    IF rest = {} THEN Idle ELSE [@ EXCEPT !.pc = "loop", !.todo = rest]]

Dedupe(w) ==
  /\ session[w].pc = "locked"
  /\ IF Existing(session[w]) THEN NextCurrency(w) ELSE Goto(w, "checked")
  /\ UNCHANGED <<ledger, owner, merged, clock, total, inverted>>

\* An error (InsufficientCreditsError, int4 overflow) rolls the transaction
\* back and fails the whole request.
Throw(w) == session' = [session EXCEPT ![w] = Idle]

ReadBalance(w) ==
  LET q == session[w]
      balance == findLatestBalance(q.sub, q.cur) IN
  /\ q.pc = "checked"
  /\ IF q.type = "SPEND" /\ balance < q.amount[q.cur]
     THEN Throw(w)
     ELSE session' = [session EXCEPT ![w].pc = "read", ![w].prev = balance]
  /\ UNCHANGED <<ledger, owner, merged, clock, total, inverted>>

Delta(q) == IF q.type = "SPEND" THEN -q.amount[q.cur] ELSE q.amount[q.cur]

\* Mutant: no CHECK (balance >= 0) and no int4 range.
insertUnchecked(w) ==
  LET q == session[w] IN
  /\ q.pc = "read"
  /\ NextCurrency(w)
  /\ CommitRows({[sub |-> q.sub, cur |-> q.cur, type |-> q.type, amount |-> Delta(q),
                  balance |-> q.prev + Delta(q), rt |-> q.rt, rid |-> q.rid, at |-> q.at]})
  /\ UNCHANGED <<owner, merged, clock>>

insertCreditLedger(w) ==
  LET q == session[w]
      row == [sub |-> q.sub, cur |-> q.cur, type |-> q.type, amount |-> Delta(q),
              balance |-> q.prev + Delta(q), rt |-> q.rt, rid |-> q.rid, at |-> q.at] IN
  /\ q.pc = "read"
  /\ IF row.balance \in 0..MaxInt
     THEN NextCurrency(w) /\ CommitRows({row})
     ELSE Throw(w) /\ UNCHANGED <<ledger, total, inverted>>
  /\ UNCHANGED <<owner, merged, clock>>

-----------------------------------------------------------------------------
(* transferSubscriber *)

BeginTransfer(w, f, t) ==
  /\ session[w] = Idle
  /\ clock < MaxTx
  /\ clock' = clock + 1
  /\ session' = [session EXCEPT ![w] =
       [pc |-> "lock1", sub |-> f, to |-> t, at |-> clock + 1, todo |-> {},
        amount |-> [c \in Currency |-> 0], prev |-> [c \in Currency |-> 0]]]
  /\ UNCHANGED <<ledger, owner, merged, total, inverted>>

\* advisoryXactLock2 on the two labels in sorted order.
LockLabel(w) ==
  /\ \/ /\ session[w].pc = "lock1"
        /\ \A o \in Worker \ {w} : ~HoldsLabel(o, SortedLabels(session[w])[1])
        /\ Goto(w, "lock2")
     \/ /\ session[w].pc = "lock2"
        /\ \A o \in Worker \ {w} : ~HoldsLabel(o, SortedLabels(session[w])[2])
        /\ Goto(w, "check")
  /\ UNCHANGED <<ledger, owner, merged, clock, total, inverted>>

\* Mutant: only the source is checked for deletedAt.
ReadSourceOnly(w) ==
  LET q == session[w]
      balances == [c \in Currency |-> findLatestBalance(q.sub, c)] IN
  /\ q.pc = "check"
  /\ IF q.sub \in merged
     THEN Throw(w)
     ELSE session' = [session EXCEPT ![w].pc = "move", ![w].amount = balances,
                                     ![w].todo = {c \in Currency : balances[c] > 0}]
  /\ UNCHANGED <<ledger, owner, merged, clock, total, inverted>>

\* Refuse a retired source or target; else findAllBalances of the source.
ReadSource(w) ==
  LET q == session[w]
      balances == [c \in Currency |-> findLatestBalance(q.sub, c)] IN
  /\ q.pc = "check"
  /\ IF q.sub \in merged \/ q.to \in merged
     THEN Throw(w)
     ELSE session' = [session EXCEPT ![w].pc = "move", ![w].amount = balances,
                                     ![w].todo = {c \in Currency : balances[c] > 0}]
  /\ UNCHANGED <<ledger, owner, merged, clock, total, inverted>>

ReadTarget(w, c) ==
  /\ session[w].pc = "move"
  /\ c \in session[w].todo
  /\ session' = [session EXCEPT ![w].todo = @ \ {c},
                                ![w].prev[c] = findLatestBalance(session[w].to, c)]
  /\ UNCHANGED <<ledger, owner, merged, clock, total, inverted>>

TransferRow(q, s, c, type, amount, balance) ==
  [sub |-> s, cur |-> c, type |-> type, amount |-> amount, balance |-> balance,
   rt |-> "transfer", rid |-> IF s = q.sub THEN q.to ELSE q.sub, at |-> q.at]

\* (Mutant first: the source stays live.)
KeepSource(s) == merged

softDeleteSubscriberAsMerged(s) == merged \cup {s}

\* The ledger rows, reassignPurchases and the soft delete commit together.
reassignAllAssets(w) ==
  LET q == session[w]
      moved == {c \in Currency : q.amount[c] > 0}
      rows == {TransferRow(q, q.sub, c, "TRANSFER_OUT", -q.amount[c], 0) : c \in moved}
              \cup
              {TransferRow(q, q.to, c, "TRANSFER_IN", q.amount[c], q.prev[c] + q.amount[c])
                 : c \in moved} IN
  /\ q.pc = "move"
  /\ q.todo = {}
  /\ Throw(w)
  /\ IF \A r \in rows : r.balance <= MaxInt
     THEN /\ CommitRows(rows)
          /\ owner' = [p \in Purchase |-> IF owner[p] = q.sub THEN q.to ELSE owner[p]]
          /\ merged' = softDeleteSubscriberAsMerged(q.sub)
     ELSE UNCHANGED <<ledger, total, inverted, owner, merged>>
  /\ UNCHANGED clock

-----------------------------------------------------------------------------

\* The process dies or loses its connection: Postgres rolls back.
Crash(w) ==
  /\ session[w] # Idle
  /\ Throw(w)
  /\ UNCHANGED <<ledger, owner, merged, clock, total, inverted>>

Step(w) ==
  \/ \E c \in Currency : Begin(w, c) \/ ReadTarget(w, c)
  \/ Lock(w) \/ Dedupe(w) \/ ReadBalance(w) \/ insertCreditLedger(w)
  \/ LockLabel(w) \/ ReadSource(w) \/ reassignAllAssets(w)

Start(w) ==
  \/ \E p \in Purchase : grantProductCurrencies(w, p)
  \/ \E s \in Subscriber, c \in Currency :
       \/ \E n \in AdminAmount, k \in AdminRef :
            refundCredits(w, s, c, n, k) \/ dashboardGrant(w, s, c, n, k)
       \/ \E n \in SpendAmount, k \in SpendRef : spendRequest(w, s, c, n, k)
  \/ \E p \in Transfer : BeginTransfer(w, p[1], p[2])

Next == \E w \in Worker : Start(w) \/ Step(w) \/ Crash(w)

Spec == Init /\ [][Next]_vars

-----------------------------------------------------------------------------
(* Properties *)

\* A redelivered or concurrent grant or refund with the same reference adds
\* credits to a wallet at most once: addCredits' check-then-insert under the
\* wallet lock stands in for the unique index a partitioned table cannot have.
GrantOnce ==
  \A r, o \in ledger :
    /\ r.sub = o.sub /\ r.cur = o.cur /\ r.rt = o.rt /\ r.rid = o.rid
    /\ r.rt # "transfer" /\ r.type # "SPEND" /\ o.type # "SPEND"
    => r = o

\* A retried spend with the same referenceId debits a wallet at most once.
SpendOnce ==
  \A r, o \in ledger :
    /\ r.sub = o.sub /\ r.cur = o.cur /\ r.rid = o.rid
    /\ r.type = "SPEND" /\ o.type = "SPEND"
    => r = o

\* The latest row's balance is the sum of everything committed to the wallet,
\* for a wallet that no transfer touches and whose transactions committed in
\* the order in which they began.  Both provisos are needed: see NoOverdraft
\* and TransferKeepsCredits.
LatestBalanceIsTotal ==
  \A s \in Subscriber \ TransferParty, c \in Currency :
    <<s, c>> \notin inverted => findLatestBalance(s, c) = total[<<s, c>>]

\* What the doc comment of spendCredits promises of the advisory lock: however
\* spends and grants interleave, no wallet pays out more than was added to it.
NoOverdraft == \A x \in Wallet : total[x] >= 0

\* What the comment on transferSubscriber's locks promises: the balance read
\* and write of a transfer is race-free, so a transfer moves credits and
\* neither makes nor loses any.  Wallets whose transactions committed out of
\* order are left aside.
TransferKeepsCredits ==
  \A s \in Subscriber, c \in Currency :
    <<s, c>> \notin inverted => findLatestBalance(s, c) = total[<<s, c>>]

\* What the header of purchase-credits.ts promises of the dedupe key: a
\* purchase that is delivered again, by another webhook or by a receipt, grants
\* nothing further, whoever the purchase belongs to by then.
GrantedOncePerPurchase ==
  \A r, o \in ledger :
    r.rt = "purchase" /\ o.rt = "purchase" /\ r.rid = o.rid /\ r.cur = o.cur => r = o

\* Whatever merges overtake it, a grant never reaches a stranger: the credits
\* of a purchase are in the ledger of the subscriber that owns it now, or of one
\* that has been merged since it was the owner.  How often they are granted is
\* the subject of GrantOnce and GrantedOncePerPurchase.
NoStrangerIsGranted ==
  \A r \in ledger :
    r.rt = "purchase" => r.sub = owner[r.rid] \/ r.sub \in merged

\* However transfers chain and cross, no purchase ends on a retired subscriber,
\* where nothing would read it: the label locks order the transfers and the
\* deletedAt checks refuse a source or a target that was merged meanwhile.
PurchasesStayLive == \A p \in Purchase : owner[p] \notin merged

\* The session is between BEGIN and COMMIT.
InTransaction(w) == session[w].pc \notin {"idle", "loop"}

\* w cannot go on before v ends its transaction.
WaitsFor(w, v) ==
  \/ session[w].pc = "begun" /\ HoldsWallet(v, session[w].sub, session[w].cur)
  \/ session[w].pc = "lock1" /\ HoldsLabel(v, SortedLabels(session[w])[1])
  \/ session[w].pc = "lock2" /\ HoldsLabel(v, SortedLabels(session[w])[2])

\* No deadlock: however crossing transfers, grants and spends queue for the
\* advisory locks, every group of sessions has one that waits for none of the
\* group, because a wallet's lock is the last one its transaction takes and a
\* transfer takes its two labels in sorted order.
NoWaitCycle ==
  \A S \in SUBSET Worker : S # {} => \E w \in S : \A v \in S \ {w} : ~WaitsFor(w, v)

-----------------------------------------------------------------------------
(* The inductive invariant behind GrantOnce, SpendOnce and                 *)
(* LatestBalanceIsTotal                                                    *)

\* A transaction's time is its own, and no later than now.
TimesDiffer ==
  /\ \A w \in Worker : InTransaction(w) => session[w].at \in 1..clock
  /\ \A w \in Worker, r \in ledger : InTransaction(w) => r.at # session[w].at
  /\ \A w, v \in Worker :
       InTransaction(w) /\ InTransaction(v) /\ w # v => session[w].at # session[v].at
  /\ \A r \in ledger : r.at <= clock

\* A wallet has one row per time, and a latest row if it has any.
RowsOrdered ==
  /\ \A r, o \in ledger : r.sub = o.sub /\ r.cur = o.cur /\ r.at = o.at => r = o
  /\ \A s \in Subscriber, c \in Currency : Rows(s, c) # {} =>
       \E r \in Rows(s, c) : \A o \in Rows(s, c) : o.at <= r.at

\* One session at a time is past the lock of a wallet.
WalletExclusive ==
  \A w, v \in Worker, s \in Subscriber, c \in Currency :
    HoldsWallet(w, s, c) /\ HoldsWallet(v, s, c) => w = v

\* What was read under the lock still holds: the reference is new, and the
\* balance is the latest one unless transfers write to the wallet too.
ReadsFresh ==
  \A w \in Worker :
    /\ session[w].pc \in {"checked", "read"} => ~Existing(session[w])
    /\ session[w].pc = "read" /\ session[w].sub \notin TransferParty =>
         session[w].prev = findLatestBalance(session[w].sub, session[w].cur)

\* Transfers move credits between their parties only.
TransfersAreListed ==
  /\ \A w \in Worker : session[w].pc \in {"lock1", "lock2", "check", "move"} =>
       /\ session[w].sub \in TransferParty /\ session[w].to \in TransferParty
       /\ session[w].sub # session[w].to
  /\ \A r \in ledger : r.rt # "transfer" => r.type \notin {"TRANSFER_OUT", "TRANSFER_IN"}

\* The inductive invariant: the properties above and what makes them inductive.
IInv ==
  /\ TypeOK /\ TimesDiffer /\ RowsOrdered /\ WalletExclusive /\ ReadsFresh
  /\ TransfersAreListed
  /\ GrantOnce /\ SpendOnce /\ LatestBalanceIsTotal
============================================================================
