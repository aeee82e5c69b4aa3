------------------------- MODULE CreditLedgerProofs -------------------------
(***************************************************************************)
(* Proofs about CreditLedger, for every set of subscribers, currencies,    *)
(* workers and requests.  The inductive invariant is IInv.  Every action   *)
(* either changes one session only (LocalStep) or ends a session's         *)
(* transaction with a commit (CommitStep); the two lemmas say what such a  *)
(* step must satisfy to preserve IInv, and the theorem checks it action by *)
(* action.                                                                 *)
(***************************************************************************)
EXTENDS CreditLedger, FiniteSetTheorems, TLAPS

Session == {Idle} \cup Working \cup Moving
Held == {"locked", "checked", "read"}
TransferPc == {"lock1", "lock2", "check", "move"}

\* The balance of a wallet is a value of the balance column.
LEMMA BalanceType ==
  ASSUME TypeOK, RowsOrdered, NEW s \in Subscriber, NEW c \in Currency
  PROVE  findLatestBalance(s, c) \in 0..MaxInt
<1>1. CASE Rows(s, c) = {}
  BY <1>1, LedgerAssumption DEF findLatestBalance
<1>2. CASE Rows(s, c) # {}
  <2>1. PICK r \in Rows(s, c) : \A o \in Rows(s, c) : o.at <= r.at
    BY <1>2 DEF RowsOrdered
  <2>2. (CHOOSE q \in Rows(s, c) : \A o \in Rows(s, c) : o.at <= q.at) \in Rows(s, c)
    BY <2>1
  <2>3. \A q \in Rows(s, c) : q.balance \in 0..MaxInt
    BY DEF Rows, TypeOK, Row
  <2>. QED BY <1>2, <2>2, <2>3 DEF findLatestBalance
<1>. QED BY <1>1, <1>2

\* A step that changes one session and commits nothing preserves IInv when
\* the session's time, locks and reads are in order after it.
LEMMA LocalStep ==
  ASSUME IInv, NEW w \in Worker, NEW x \in Session,
         session' = [session EXCEPT ![w] = x],
         UNCHANGED <<ledger, owner, merged, total, inverted>>,
         clock' \in 0..MaxTx, clock <= clock',
         x.pc \notin {"idle", "loop"} =>
            \/ InTransaction(w) /\ x.at = session[w].at
            \/ x.at = clock + 1 /\ clock' = clock + 1,
         x.pc \in Held =>
            \/ session[w].pc \in Held /\ x.sub = session[w].sub /\ x.cur = session[w].cur
            \/ \A o \in Worker \ {w} : ~HoldsWallet(o, x.sub, x.cur),
         x.pc \in {"checked", "read"} => ~Existing(x),
         x.pc = "read" /\ x.sub \notin TransferParty =>
            x.prev = findLatestBalance(x.sub, x.cur),
         x.pc \in TransferPc => /\ x.sub \in TransferParty /\ x.to \in TransferParty
                                /\ x.sub # x.to
  PROVE  IInv'
<1>0. session'[w] = x /\ \A v \in Worker \ {w} : session'[v] = session[v]
  BY DEF IInv, TypeOK
<1>1. TypeOK'
  BY DEF IInv, TypeOK, Session
<1>2. \A s, c : Rows(s, c)' = Rows(s, c) /\ findLatestBalance(s, c)' = findLatestBalance(s, c)
  BY DEF Rows, findLatestBalance
<1>3. TimesDiffer'
  <2>1. \A v \in Worker : InTransaction(v)' =>
          /\ session'[v].at \in 1..clock'
          /\ \/ InTransaction(v) /\ session'[v].at = session[v].at
             \/ v = w /\ session'[v].at = clock + 1
    BY <1>0 DEF IInv, TimesDiffer, InTransaction, TypeOK
  <2>2. \A v \in Worker, r \in ledger' : InTransaction(v)' => r.at # session'[v].at
    BY <2>1 DEF IInv, TimesDiffer, TypeOK, Row
  <2>3. \A u, v \in Worker : InTransaction(u)' /\ InTransaction(v)' /\ u # v =>
          session'[u].at # session'[v].at
    BY <2>1 DEF IInv, TimesDiffer, TypeOK
  <2>4. \A r \in ledger' : r.at <= clock'
    BY DEF IInv, TimesDiffer, TypeOK, Row
  <2>. QED BY <2>1, <2>2, <2>3, <2>4 DEF TimesDiffer
<1>4. RowsOrdered' /\ GrantOnce' /\ SpendOnce'
  BY <1>2 DEF IInv, RowsOrdered, GrantOnce, SpendOnce
<1>5. WalletExclusive'
  BY <1>0 DEF IInv, WalletExclusive, HoldsWallet, Held
<1>6. ReadsFresh'
  BY <1>0, <1>2 DEF IInv, ReadsFresh, Existing
<1>7. TransfersAreListed'
  BY <1>0 DEF IInv, TransfersAreListed, TransferPc
<1>8. LatestBalanceIsTotal'
  BY <1>2 DEF IInv, LatestBalanceIsTotal
<1>. QED BY <1>1, <1>3, <1>4, <1>5, <1>6, <1>7, <1>8 DEF IInv

\* A step that ends a session's transaction by committing rows of its own
\* time, one per wallet, preserves IInv when every row either belongs to a
\* transfer or continues a wallet whose lock the session holds.
LEMMA CommitStep ==
  ASSUME IInv, NEW w \in Worker, NEW x \in Session, InTransaction(w),
         x.pc \in {"idle", "loop"}, session' = [session EXCEPT ![w] = x],
         clock' = clock, owner' \in [Purchase -> Subscriber], merged' \subseteq Subscriber,
         NEW rows \in SUBSET Row, CommitRows(rows),
         \A r \in rows : r.at = session[w].at,
         \A r, o \in rows : r.sub = o.sub /\ r.cur = o.cur => r = o,
         \A r \in rows :
           \/ /\ r.rt = "transfer" /\ r.sub \in TransferParty
              /\ r.type \in {"TRANSFER_OUT", "TRANSFER_IN"}
           \/ /\ r.rt # "transfer" /\ HoldsWallet(w, r.sub, r.cur)
              /\ r.type \notin {"TRANSFER_OUT", "TRANSFER_IN"}
              /\ ~Existing(r)
              /\ r.sub \notin TransferParty =>
                   r.balance = findLatestBalance(r.sub, r.cur) + r.amount
  PROVE  IInv'
<1>0. session'[w] = x /\ \A v \in Worker \ {w} : session'[v] = session[v]
  BY DEF IInv, TypeOK
<1>1. /\ ledger' = ledger \cup rows
      /\ \A s, c : Rows(s, c)' = Rows(s, c) \cup {r \in rows : r.sub = s /\ r.cur = c}
  BY DEF CommitRows, Rows
<1>2. TypeOK'
  <2>1. session' \in [Worker -> Session]
    BY DEF IInv, TypeOK, Session
  <2>2. total' \in [Wallet -> Int]
    <3>1. ASSUME NEW y \in Wallet, \E r \in rows : <<r.sub, r.cur>> = y
          PROVE  (CHOOSE r \in rows : <<r.sub, r.cur>> = y).amount \in Int
      <4>1. (CHOOSE r \in rows : <<r.sub, r.cur>> = y) \in rows
        BY <3>1
      <4>. QED BY <4>1 DEF Row
    <3>. QED BY <3>1 DEF IInv, TypeOK, CommitRows
  <2>3. inverted' \subseteq Wallet
    BY DEF IInv, TypeOK, CommitRows
  <2>. QED BY <1>1, <2>1, <2>2, <2>3 DEF IInv, TypeOK, Session
<1>3. TimesDiffer'
  <2>1. \A v \in Worker : InTransaction(v)' =>
          v # w /\ InTransaction(v) /\ session'[v] = session[v]
    BY <1>0 DEF InTransaction
  <2>. QED BY <1>1, <2>1 DEF IInv, TimesDiffer, TypeOK
<1>4. RowsOrdered'
  <2>1. \A r, o \in ledger' : r.sub = o.sub /\ r.cur = o.cur /\ r.at = o.at => r = o
    BY <1>1 DEF IInv, RowsOrdered, TimesDiffer
  <2>2. ASSUME NEW s \in Subscriber, NEW c \in Currency, Rows(s, c)' # {}
        PROVE  \E r \in Rows(s, c)' : \A o \in Rows(s, c)' : o.at <= r.at
    <3>1. CASE \A r \in rows : ~(r.sub = s /\ r.cur = c)
      BY <1>1, <2>2, <3>1 DEF IInv, RowsOrdered
    <3>2. CASE \E r \in rows : r.sub = s /\ r.cur = c
      <4>1. PICK n \in rows : n.sub = s /\ n.cur = c
        BY <3>2
      <4>2. Rows(s, c)' = Rows(s, c) \cup {n}
        BY <1>1, <4>1
      <4>3. CASE Rows(s, c) = {}
        BY <4>2, <4>3 DEF Row
      <4>4. CASE Rows(s, c) # {}
        <5>1. PICK m \in Rows(s, c) : \A o \in Rows(s, c) : o.at <= m.at
          BY <4>4 DEF IInv, RowsOrdered
        <5>2. n.at \in Int /\ \A o \in Rows(s, c) : o.at \in Int
          BY DEF IInv, TypeOK, Row, Rows
        <5>3. CASE n.at <= m.at
          BY <4>2, <5>1, <5>3
        <5>4. CASE m.at < n.at
          <6>1. \A o \in Rows(s, c) : o.at <= n.at
            BY <5>1, <5>2, <5>4
          <6>. QED BY <4>2, <5>2, <6>1
        <5>. QED BY <5>1, <5>2, <5>3, <5>4
      <4>. QED BY <4>3, <4>4
    <3>. QED BY <3>1, <3>2
  <2>. QED BY <2>1, <2>2 DEF RowsOrdered
<1>5. WalletExclusive'
  BY <1>0 DEF IInv, WalletExclusive, HoldsWallet
<1>6. \A v \in Worker : session'[v].pc \in {"checked", "read"} =>
        /\ v # w /\ session'[v] = session[v] /\ session[v] \in Working
        /\ \A r \in rows : r.sub = session[v].sub /\ r.cur = session[v].cur => r.rt = "transfer"
  <2>1. \A v \in Worker : session'[v].pc \in {"checked", "read"} =>
          /\ v # w /\ session'[v] = session[v]
          /\ HoldsWallet(v, session[v].sub, session[v].cur)
    BY <1>0 DEF HoldsWallet
  <2>2. \A v \in Worker : session[v].pc \in {"checked", "read"} => session[v] \in Working
    BY DEF IInv, TypeOK, Idle, Moving, Working
  <2>3. ASSUME NEW v \in Worker, v # w, session[v] \in Working,
               HoldsWallet(v, session[v].sub, session[v].cur),
               NEW r \in rows, r.sub = session[v].sub, r.cur = session[v].cur,
               r.rt # "transfer"
        PROVE  FALSE
    <3>1. HoldsWallet(w, r.sub, r.cur) /\ HoldsWallet(v, r.sub, r.cur)
      BY <2>3
    <3>2. r.sub \in Subscriber /\ r.cur \in Currency
      BY DEF Row
    <3>. QED BY <2>3, <3>1, <3>2 DEF IInv, WalletExclusive
  <2>. QED BY <2>1, <2>2, <2>3
<1>7. ReadsFresh'
  <2> SUFFICES ASSUME NEW v \in Worker, session'[v].pc \in {"checked", "read"}
               PROVE  /\ ~Existing(session[v])'
                      /\ session'[v].pc = "read" /\ session'[v].sub \notin TransferParty =>
                           session'[v].prev = findLatestBalance(session[v].sub, session[v].cur)'
    BY DEF ReadsFresh
  <2>1. /\ v # w /\ session'[v] = session[v] /\ session[v] \in Working
        /\ \A r \in rows : r.sub = session[v].sub /\ r.cur = session[v].cur =>
             r.rt = "transfer" /\ r.sub \in TransferParty /\ r.type # "SPEND"
    BY <1>6
  <2>2. ~Existing(session[v])'
    <3>1. ~Existing(session[v])
      BY <2>1 DEF IInv, ReadsFresh
    <3>2. session[v].rt # "transfer"
      BY <2>1 DEF Working
    <3>. QED BY <1>1, <2>1, <3>1, <3>2 DEF Existing
  <2>3. ASSUME session[v].pc = "read", session[v].sub \notin TransferParty
        PROVE  session[v].prev = findLatestBalance(session[v].sub, session[v].cur)'
    <3>1. Rows(session[v].sub, session[v].cur)' = Rows(session[v].sub, session[v].cur)
      BY ZenonT(60), <1>1, <2>1, <2>3
    <3>2. session[v].prev = findLatestBalance(session[v].sub, session[v].cur)
      BY <2>3 DEF IInv, ReadsFresh
    <3>. QED BY ZenonT(60), <2>1, <3>1, <3>2 DEF findLatestBalance
  <2>. QED BY <2>1, <2>2, <2>3
<1>8. TransfersAreListed'
  BY <1>0, <1>1 DEF IInv, TransfersAreListed
<1>9. GrantOnce' /\ SpendOnce'
  <2>1. \A r \in rows, o \in ledger :
          r.rt # "transfer" /\ r.sub = o.sub /\ r.cur = o.cur /\ r.rid = o.rid =>
            IF r.type = "SPEND" THEN o.type # "SPEND" ELSE o.rt # r.rt
    BY DEF Existing, Rows
  <2>. QED BY <1>1, <2>1 DEF IInv, GrantOnce, SpendOnce
<1>10. LatestBalanceIsTotal'
  <2> SUFFICES ASSUME NEW s \in Subscriber \ TransferParty, NEW c \in Currency,
                      <<s, c>> \notin inverted'
               PROVE  findLatestBalance(s, c)' = total'[<<s, c>>]
    BY DEF LatestBalanceIsTotal
  <2>0. <<s, c>> \in Wallet /\ <<s, c>> \notin inverted
    BY DEF Wallet, CommitRows
  <2>1. CASE \A r \in rows : ~(r.sub = s /\ r.cur = c)
    <3>1. Rows(s, c)' = Rows(s, c)
      BY <1>1, <2>1
    <3>2. total'[<<s, c>>] = total[<<s, c>>]
      BY <2>0, <2>1 DEF CommitRows
    <3>. QED BY <2>0, <3>1, <3>2 DEF IInv, LatestBalanceIsTotal, findLatestBalance
  <2>2. CASE \E r \in rows : r.sub = s /\ r.cur = c
    <3>1. PICK n \in rows : n.sub = s /\ n.cur = c
      BY <2>2
    <3>2. n.balance = findLatestBalance(s, c) + n.amount
      BY <3>1
    <3>3. total'[<<s, c>>] = total[<<s, c>>] + n.amount
      <4>1. \A r \in rows : <<r.sub, r.cur>> = <<s, c>> => r = n
        BY <3>1
      <4>2. (CHOOSE r \in rows : <<r.sub, r.cur>> = <<s, c>>) = n
        BY <3>1, <4>1
      <4>. QED BY <2>0, <3>1, <4>2 DEF CommitRows
    <3>4. \A o \in Rows(s, c)' : o.at <= n.at
      <4>1. \A o \in Rows(s, c) : ~(o.at > n.at)
        BY <2>0, <3>1 DEF CommitRows
      <4>2. n.at \in Int /\ \A o \in Rows(s, c) : o.at \in Int
        BY DEF IInv, TypeOK, Row, Rows
      <4>3. \A o \in Rows(s, c)' : o \in Rows(s, c) \/ o = n
        BY <1>1, <3>1
      <4>. QED BY <4>1, <4>2, <4>3
    <3>5. n \in Rows(s, c)'
      BY <1>1, <3>1
    <3>6. findLatestBalance(s, c)' = n.balance
      <4> DEFINE q == CHOOSE q \in Rows(s, c)' : \A o \in Rows(s, c)' : o.at <= q.at
      <4>1. q \in Rows(s, c)' /\ \A o \in Rows(s, c)' : o.at <= q.at
        BY <3>4, <3>5
      <4>2. q.at = n.at
        <5>1. q.at <= n.at /\ n.at <= q.at
          BY <3>4, <3>5, <4>1
        <5>2. q.at \in Int /\ n.at \in Int
          BY <1>1, <4>1 DEF IInv, TypeOK, Row, Rows
        <5>. QED BY <5>1, <5>2
      <4>3. q = n
        BY <1>1, <1>4, <3>5, <4>1, <4>2 DEF RowsOrdered, Rows
      <4>. QED BY <3>5, <4>3 DEF findLatestBalance
    <3>7. findLatestBalance(s, c) = total[<<s, c>>]
      BY <2>0 DEF IInv, LatestBalanceIsTotal
    <3>. QED BY <3>2, <3>3, <3>6, <3>7
  <2>. QED BY <2>1, <2>2
<1>. QED BY <1>2, <1>3, <1>4, <1>5, <1>7, <1>8, <1>9, <1>10 DEF IInv

\* A session's type by its program counter.
LEMMA SessionKind ==
  ASSUME TypeOK, NEW w \in Worker
  PROVE  /\ session[w] \in Session
         /\ session[w].pc \in {"loop", "begun", "locked", "checked", "read"} =>
              session[w] \in Working
         /\ session[w].pc \in TransferPc => session[w] \in Moving
         /\ session[w] = Idle => session[w].pc = "idle"
         /\ session[w].pc = "idle" => session[w] = Idle
BY DEF TypeOK, Session, TransferPc, Idle, Working, Moving

\* A session of the credit engine that goes on keeps what it was asked for.
LEMMA WorkingPc ==
  ASSUME NEW q \in Working, NEW pc \in {"loop", "begun", "locked", "checked", "read"}
  PROVE  /\ [q EXCEPT !.pc = pc] \in Working
         /\ [q EXCEPT !.pc = pc].pc = pc
         /\ [q EXCEPT !.pc = pc].sub = q.sub /\ [q EXCEPT !.pc = pc].cur = q.cur
         /\ [q EXCEPT !.pc = pc].at = q.at /\ [q EXCEPT !.pc = pc].type = q.type
         /\ [q EXCEPT !.pc = pc].rid = q.rid /\ [q EXCEPT !.pc = pc].rt = q.rt
BY DEF Working

\* Ending a session's request, committing nothing.
LEMMA IdleStep ==
  ASSUME IInv, NEW w \in Worker, session' = [session EXCEPT ![w] = Idle],
         UNCHANGED <<ledger, owner, merged, total, inverted, clock>>
  PROVE  IInv'
<1>1. Idle \in Session /\ Idle.pc = "idle"
  BY DEF Session, Idle
<1>2. clock' \in 0..MaxTx /\ clock <= clock'
  BY LedgerAssumption DEF IInv, TypeOK
<1>. QED BY <1>1, <1>2, LocalStep DEF Held, TransferPc

\* Going on to the next currency of a request, committing nothing.
LEMMA NextCurrencyStep ==
  ASSUME IInv, NEW w \in Worker, session[w] \in Working, NextCurrency(w)
  PROVE  \E x \in Session : x.pc \in {"idle", "loop"} /\ session' = [session EXCEPT ![w] = x]
<1> DEFINE rest == session[w].todo \ {session[w].cur}
           y == IF rest = {} THEN Idle ELSE [session[w] EXCEPT !.pc = "loop", !.todo = rest]
<1>1. session' = [session EXCEPT ![w] = y]
  BY DEF NextCurrency
<1>2. y \in Session /\ y.pc \in {"idle", "loop"}
  BY DEF Session, Idle, Working
<1>. QED BY <1>1, <1>2

\* Nothing has happened.
LEMMA InitIInv == Init => IInv
<1> SUFFICES ASSUME Init PROVE IInv
  OBVIOUS
<1>1. \A w \in Worker : session[w] = Idle /\ session[w].pc = "idle"
  BY DEF Init, Idle
<1>2. TypeOK
  BY LedgerAssumption DEF Init, TypeOK
<1>3. \A s, c : Rows(s, c) = {} /\ findLatestBalance(s, c) = 0
  BY DEF Init, Rows, findLatestBalance
<1>4. TimesDiffer /\ RowsOrdered /\ WalletExclusive /\ ReadsFresh /\ TransfersAreListed
  BY <1>1, <1>3 DEF Init, TimesDiffer, RowsOrdered, WalletExclusive, ReadsFresh,
     TransfersAreListed, InTransaction, HoldsWallet
<1>5. GrantOnce /\ SpendOnce
  BY DEF Init, GrantOnce, SpendOnce
<1>6. LatestBalanceIsTotal
  BY <1>3 DEF Init, LatestBalanceIsTotal, Wallet
<1>. QED BY <1>2, <1>4, <1>5, <1>6 DEF IInv

\* Starting a request.
LEMMA RequestStep ==
  ASSUME IInv, NEW w \in Worker,
         NEW type \in {"PURCHASE", "REFUND", "BONUS", "SPEND"}, NEW s \in Subscriber,
         NEW amount \in [Currency -> Nat],
         NEW rt \in {"purchase", "refund", "grant_idempotency", "spend"}, NEW rid \in Ref,
         NEW todo \in SUBSET Currency, Request(w, type, s, amount, rt, rid, todo)
  PROVE  IInv'
<1> DEFINE x == [pc |-> "loop", type |-> type, sub |-> s, amount |-> amount, rt |-> rt,
                 rid |-> rid, todo |-> todo, cur |-> CHOOSE c \in todo : TRUE,
                 at |-> 0, prev |-> 0]
<1>1. session' = [session EXCEPT ![w] = x]
  BY DEF Request
<1>2. x \in Session /\ x.pc = "loop"
  <2>1. (CHOOSE c \in todo : TRUE) \in Currency
    BY DEF Request
  <2>. QED BY <2>1, LedgerAssumption DEF Session, Working
<1>3. clock' \in 0..MaxTx /\ clock <= clock'
  BY LedgerAssumption DEF IInv, TypeOK, Request
<1> HIDE DEF x
<1>. QED BY <1>1, <1>2, <1>3, LocalStep DEF Held, TransferPc, Request

\* A request or a merge begins: no transaction is open for it yet.
LEMMA StartStep == ASSUME IInv, NEW w \in Worker, Start(w) PROVE IInv'
<1>1. ASSUME NEW p \in Purchase, grantProductCurrencies(w, p) PROVE IInv'
  <2>1. owner[p] \in Subscriber /\ p \in Ref
    BY DEF IInv, TypeOK, Ref
  <2>2. {c \in Currency : GrantAmount[c] > 0} \in SUBSET Currency
    OBVIOUS
  <2>. QED BY <1>1, <2>1, <2>2, RequestStep, LedgerAssumption DEF grantProductCurrencies
<1>2. ASSUME NEW s \in Subscriber, NEW c \in Currency, NEW n \in AdminAmount,
             NEW k \in AdminRef, refundCredits(w, s, c, n, k) \/ dashboardGrant(w, s, c, n, k)
      PROVE  IInv'
  <2>1. [d \in Currency |-> n] \in [Currency -> Nat] /\ k \in Ref /\ {c} \in SUBSET Currency
    BY LedgerAssumption DEF Ref
  <2>. QED BY <1>2, <2>1, RequestStep DEF refundCredits, dashboardGrant
<1>3. ASSUME NEW s \in Subscriber, NEW c \in Currency, NEW n \in SpendAmount,
             NEW k \in SpendRef, spendRequest(w, s, c, n, k)
      PROVE  IInv'
  <2>1. [d \in Currency |-> n] \in [Currency -> Nat] /\ k \in Ref /\ {c} \in SUBSET Currency
    BY LedgerAssumption DEF Ref
  <2>. QED BY <1>3, <2>1, RequestStep DEF spendRequest
<1>4. ASSUME NEW p \in Transfer, BeginTransfer(w, p[1], p[2]) PROVE IInv'
  <2> DEFINE x == [pc |-> "lock1", sub |-> p[1], to |-> p[2], at |-> clock + 1, todo |-> {},
                   amount |-> [c \in Currency |-> 0], prev |-> [c \in Currency |-> 0]]
  <2>1. session' = [session EXCEPT ![w] = x]
    BY <1>4 DEF BeginTransfer
  <2>2. clock' \in 0..MaxTx /\ clock <= clock' /\ clock' = clock + 1 /\ clock + 1 \in 1..MaxTx
    BY <1>4, LedgerAssumption DEF IInv, TypeOK, BeginTransfer
  <2>3. p[1] \in Subscriber /\ p[2] \in Subscriber /\ p[1] # p[2]
        /\ p[1] \in TransferParty /\ p[2] \in TransferParty
    BY LedgerAssumption DEF TransferParty
  <2>4. x \in Session /\ x.pc = "lock1" /\ x.at = clock + 1 /\ x.sub = p[1] /\ x.to = p[2]
    BY <2>2, <2>3, LedgerAssumption DEF Session, Moving
  <2> HIDE DEF x
  <2>. QED BY <1>4, <2>1, <2>2, <2>3, <2>4, LocalStep DEF Held, TransferPc, BeginTransfer
<1>. QED BY <1>1, <1>2, <1>3, <1>4 DEF Start

\* The credit engine's steps before its insert commit nothing.
LEMMA WalletStep ==
  ASSUME IInv, NEW w \in Worker,
         (\E c \in Currency : Begin(w, c)) \/ Lock(w) \/ Dedupe(w) \/ ReadBalance(w)
  PROVE  IInv'
<1>0. clock \in 0..MaxTx /\ clock \in Int /\ clock <= clock
  BY LedgerAssumption DEF IInv, TypeOK
<1>1. ASSUME NEW c \in Currency, Begin(w, c) PROVE IInv'
  <2> DEFINE x == [session[w] EXCEPT !.pc = "begun", !.cur = c, !.at = clock + 1]
  <2>1. session[w] \in Working
    BY <1>1, SessionKind DEF IInv, Begin
  <2>2. session' = [session EXCEPT ![w] = x]
    BY <1>1, <2>1 DEF Begin, IInv, TypeOK
  <2>3. clock' \in 0..MaxTx /\ clock <= clock' /\ clock' = clock + 1
    <3>1. clock < MaxTx /\ clock' = clock + 1
      BY <1>1 DEF Begin
    <3>. QED BY <1>0, <3>1, LedgerAssumption
  <2>4. x \in Session /\ x.pc = "begun" /\ x.at = clock + 1
    BY <1>0, <2>1, <2>3 DEF Session, Working
  <2> HIDE DEF x
  <2>. QED BY <1>1, <2>2, <2>3, <2>4, LocalStep DEF Held, TransferPc, Begin
<1>2. CASE Lock(w)
  <2> DEFINE x == [session[w] EXCEPT !.pc = "locked"]
  <2>1. session[w] \in Working /\ InTransaction(w)
    BY <1>2, SessionKind DEF IInv, Lock, InTransaction
  <2>2. session' = [session EXCEPT ![w] = x]
    BY <1>2 DEF Lock, Goto, IInv, TypeOK
  <2>3. x \in Session /\ x.pc = "locked" /\ x.at = session[w].at
        /\ x.sub = session[w].sub /\ x.cur = session[w].cur
    BY <2>1, WorkingPc DEF Session
  <2> HIDE DEF x
  <2>. QED BY <1>0, <1>2, <2>1, <2>2, <2>3, LocalStep DEF Held, TransferPc, Lock
<1>3. CASE Dedupe(w)
  <2>1. session[w] \in Working /\ InTransaction(w) /\ session[w].pc \in Held
    BY <1>3, SessionKind DEF IInv, Dedupe, InTransaction, Held
  <2>2. CASE Existing(session[w])
    <3>1. PICK x \in Session : x.pc \in {"idle", "loop"} /\ session' = [session EXCEPT ![w] = x]
      BY <1>3, <2>1, <2>2, NextCurrencyStep DEF Dedupe
    <3>. QED BY <1>0, <1>3, <3>1, LocalStep DEF Held, TransferPc, Dedupe
  <2>3. CASE ~Existing(session[w])
    <3> DEFINE x == [session[w] EXCEPT !.pc = "checked"]
    <3>1. session' = [session EXCEPT ![w] = x]
      BY <1>3, <2>3 DEF Dedupe, Goto, IInv, TypeOK
    <3>2. x \in Session /\ x.pc = "checked" /\ x.at = session[w].at
          /\ x.sub = session[w].sub /\ x.cur = session[w].cur
          /\ x.type = session[w].type /\ x.rid = session[w].rid /\ x.rt = session[w].rt
      BY <2>1, WorkingPc DEF Session
    <3>3. ~Existing(x)
      BY <2>3, <3>2 DEF Existing, Rows
    <3> HIDE DEF x
    <3>. QED BY <1>0, <1>3, <2>1, <3>1, <3>2, <3>3, LocalStep DEF Held, TransferPc, Dedupe
  <2>. QED BY <2>2, <2>3
<1>4. CASE ReadBalance(w)
  <2> DEFINE q == session[w]
             balance == findLatestBalance(q.sub, q.cur)
             x == [q EXCEPT !.pc = "read", !.prev = balance]
  <2>1. q \in Working /\ InTransaction(w) /\ q.pc = "checked"
    BY <1>4, SessionKind DEF IInv, ReadBalance, InTransaction
  <2>2. CASE q.type = "SPEND" /\ balance < q.amount[q.cur]
    <3>1. session' = [session EXCEPT ![w] = Idle]
      BY <1>4, <2>2 DEF ReadBalance, Throw
    <3>. QED BY <1>4, <3>1, IdleStep DEF ReadBalance
  <2>3. CASE ~(q.type = "SPEND" /\ balance < q.amount[q.cur])
    <3>1. session' = [session EXCEPT ![w] = x]
      BY <1>4, <2>1, <2>3 DEF ReadBalance, IInv, TypeOK
    <3>2. q.sub \in Subscriber /\ q.cur \in Currency
      BY <2>1 DEF Working
    <3>3. balance \in 0..MaxInt
      BY <3>2, BalanceType DEF IInv
    <3>4. x \in Session /\ x.pc = "read" /\ x.at = q.at /\ x.prev = balance
          /\ x.sub = q.sub /\ x.cur = q.cur
          /\ x.type = q.type /\ x.rid = q.rid /\ x.rt = q.rt
      BY <2>1, <3>3 DEF Session, Working
    <3>5. ~Existing(q)
      BY <2>1 DEF IInv, ReadsFresh
    <3>6. ~Existing(x)
      BY <3>4, <3>5 DEF Existing, Rows
    <3> HIDE DEF x
    <3>. QED BY <1>0, <1>4, <2>1, <3>1, <3>4, <3>6, LocalStep DEF Held, TransferPc, ReadBalance
  <2>. QED BY <2>2, <2>3
<1>. QED BY <1>1, <1>2, <1>3, <1>4

\* The insert of the credit engine: its reads are fresh, its time is new.
LEMMA InsertStep ==
  ASSUME IInv, NEW w \in Worker, insertCreditLedger(w)
  PROVE  IInv'
<1> DEFINE q == session[w]
           row == [sub |-> q.sub, cur |-> q.cur, type |-> q.type, amount |-> Delta(q),
                   balance |-> q.prev + Delta(q), rt |-> q.rt, rid |-> q.rid, at |-> q.at]
<1>1. q \in Working /\ InTransaction(w) /\ q.pc = "read"
  BY SessionKind DEF IInv, insertCreditLedger, InTransaction
<1>2. CASE row.balance \in 0..MaxInt
  <2>1. CommitRows({row}) /\ NextCurrency(w) /\ clock' = clock
    BY <1>2 DEF insertCreditLedger
  <2>2. owner' \in [Purchase -> Subscriber] /\ merged' \subseteq Subscriber
    BY DEF insertCreditLedger, IInv, TypeOK
  <2>3. PICK x \in Session : x.pc \in {"idle", "loop"} /\ session' = [session EXCEPT ![w] = x]
    BY <1>1, <2>1, NextCurrencyStep
  <2>4. q.at \in 1..MaxTx
    BY <1>1, LedgerAssumption DEF IInv, TimesDiffer, TypeOK
  <2>5. q.amount[q.cur] \in Nat /\ Delta(q) \in Int
    BY <1>1 DEF Working, Delta
  <2>6. row \in Row
    BY <1>1, <1>2, <2>4, <2>5 DEF Row, Working
  <2>7. HoldsWallet(w, row.sub, row.cur)
    BY <1>1 DEF HoldsWallet
  <2>8. ~Existing(row)
    <3>1. ~Existing(q)
      BY <1>1 DEF IInv, ReadsFresh
    <3>. QED BY <3>1 DEF Existing, Rows
  <2>9. row.sub \notin TransferParty =>
          row.balance = findLatestBalance(row.sub, row.cur) + row.amount
    BY <1>1 DEF IInv, ReadsFresh
  <2>10. row.rt # "transfer" /\ row.type \notin {"TRANSFER_OUT", "TRANSFER_IN"} /\ row.at = q.at
    BY <1>1 DEF Working
  <2> HIDE DEF row
  <2>. QED BY <1>1, <2>1, <2>2, <2>3, <2>6, <2>7, <2>8, <2>9, <2>10, CommitStep
<1>3. CASE row.balance \notin 0..MaxInt
  BY <1>3, IdleStep DEF insertCreditLedger, Throw
<1>. QED BY <1>2, <1>3

\* The merge's locks and reads commit nothing.
LEMMA TransferStep ==
  ASSUME IInv, NEW w \in Worker,
         LockLabel(w) \/ ReadSource(w) \/ (\E c \in Currency : ReadTarget(w, c))
  PROVE  IInv'
<1> DEFINE q == session[w]
<1>0. clock \in 0..MaxTx /\ clock <= clock
  BY LedgerAssumption DEF IInv, TypeOK
<1>1. q \in Moving /\ InTransaction(w) /\ q.pc \in TransferPc
      /\ q.sub \in TransferParty /\ q.to \in TransferParty /\ q.sub # q.to
  BY SessionKind DEF IInv, LockLabel, ReadSource, ReadTarget, InTransaction, TransferPc,
     TransfersAreListed
<1>2. ASSUME NEW x \in Moving, x.at = q.at, x.sub = q.sub, x.to = q.to,
             session' = [session EXCEPT ![w] = x],
             UNCHANGED <<ledger, owner, merged, clock, total, inverted>>
      PROVE  IInv'
  <2>1. x \in Session /\ x.pc \in TransferPc
    BY DEF Session, Moving, TransferPc
  <2>. QED BY <1>0, <1>1, <1>2, <2>1, LocalStep DEF Held, TransferPc
<1>3. CASE LockLabel(w)
  <2>1. ASSUME NEW pc \in {"lock2", "check"}, Goto(w, pc) PROVE IInv'
    <3> DEFINE x == [q EXCEPT !.pc = pc]
    <3>1. session' = [session EXCEPT ![w] = x]
      BY <2>1 DEF Goto, IInv, TypeOK
    <3>2. x \in Moving /\ x.at = q.at /\ x.sub = q.sub /\ x.to = q.to
      BY <1>1 DEF Moving
    <3> HIDE DEF x
    <3>. QED BY <1>2, <1>3, <3>1, <3>2 DEF LockLabel
  <2>. QED BY <1>3, <2>1 DEF LockLabel
<1>4. CASE ReadSource(w)
  <2> DEFINE balances == [c \in Currency |-> findLatestBalance(q.sub, c)]
             todo == {c \in Currency : balances[c] > 0}
             x == [q EXCEPT !.pc = "move", !.amount = balances, !.todo = todo]
  <2>1. CASE q.sub \in merged \/ q.to \in merged
    <3>1. session' = [session EXCEPT ![w] = Idle]
      BY <1>4, <2>1 DEF ReadSource, Throw
    <3>. QED BY <1>4, <3>1, IdleStep DEF ReadSource
  <2>2. CASE ~(q.sub \in merged \/ q.to \in merged)
    <3>1. session' = [session EXCEPT ![w] = x]
      BY <1>4, <2>2 DEF ReadSource, IInv, TypeOK
    <3>2. balances \in [Currency -> 0..MaxInt]
      BY <1>1, BalanceType DEF IInv, Moving
    <3>3. todo \in SUBSET Currency
      OBVIOUS
    <3> HIDE DEF balances, todo
    <3>4. x \in Moving /\ x.at = q.at /\ x.sub = q.sub /\ x.to = q.to
      BY <1>1, <3>2, <3>3 DEF Moving
    <3> HIDE DEF x
    <3>. QED BY <1>2, <1>4, <3>1, <3>4 DEF ReadSource
  <2>. QED BY <2>1, <2>2
<1>5. ASSUME NEW c \in Currency, ReadTarget(w, c) PROVE IInv'
  <2> DEFINE b == findLatestBalance(q.to, c)
             x == [q EXCEPT !.todo = q.todo \ {c}, !.prev = [q.prev EXCEPT ![c] = b]]
  <2>1. session' = [session EXCEPT ![w] = x]
    BY <1>1, <1>5 DEF ReadTarget, IInv, TypeOK, Moving
  <2>2. b \in 0..MaxInt
    BY <1>1, BalanceType DEF IInv, Moving
  <2> HIDE DEF b
  <2>3. q.todo \ {c} \in SUBSET Currency /\ [q.prev EXCEPT ![c] = b] \in [Currency -> 0..MaxInt]
    BY <1>1, <2>2 DEF Moving
  <2>4. x \in Moving /\ x.at = q.at /\ x.sub = q.sub /\ x.to = q.to
    BY <1>1, <2>3 DEF Moving
  <2> HIDE DEF x
  <2>. QED BY <1>2, <1>5, <2>1, <2>4 DEF ReadTarget
<1>. QED BY <1>3, <1>4, <1>5

\* The merge's commit: its rows carry its own time and touch its parties only.
LEMMA ReassignStep ==
  ASSUME IInv, NEW w \in Worker, reassignAllAssets(w)
  PROVE  IInv'
<1> DEFINE q == session[w]
           moved == {c \in Currency : q.amount[c] > 0}
           out == {TransferRow(q, q.sub, c, "TRANSFER_OUT", -q.amount[c], 0) : c \in moved}
           in == {TransferRow(q, q.to, c, "TRANSFER_IN", q.amount[c], q.prev[c] + q.amount[c])
                    : c \in moved}
           rows == out \cup in
<1>1. q \in Moving /\ InTransaction(w) /\ q.pc \in TransferPc
      /\ q.sub \in TransferParty /\ q.to \in TransferParty /\ q.sub # q.to
  BY SessionKind DEF IInv, reassignAllAssets, InTransaction, TransferPc, TransfersAreListed
<1>2. session' = [session EXCEPT ![w] = Idle] /\ clock' = clock
  BY DEF reassignAllAssets, Throw
<1>3. CASE \A r \in rows : r.balance <= MaxInt
  <2>1. CommitRows(rows)
        /\ owner' = [p \in Purchase |-> IF owner[p] = q.sub THEN q.to ELSE owner[p]]
        /\ merged' = merged \cup {q.sub}
    BY <1>3 DEF reassignAllAssets, softDeleteSubscriberAsMerged
  <2>2. q.sub \in Subscriber /\ q.to \in Subscriber
    BY <1>1 DEF Moving
  <2>3. owner' \in [Purchase -> Subscriber] /\ merged' \subseteq Subscriber
    BY <2>1, <2>2 DEF IInv, TypeOK
  <2>4. \A r \in rows : /\ r \in Row /\ r.at = q.at /\ r.rt = "transfer"
                        /\ r.sub \in TransferParty
                        /\ r.type \in {"TRANSFER_OUT", "TRANSFER_IN"}
    <3>1. \A c \in Currency : q.amount[c] \in 0..MaxInt /\ q.prev[c] \in 0..MaxInt
      BY <1>1 DEF Moving
    <3>2. q.at \in 1..MaxTx /\ q.sub \in Ref /\ q.to \in Ref /\ MaxInt \in Nat
      BY <1>1, LedgerAssumption DEF Moving, Ref
    <3>3. ASSUME NEW c \in moved, NEW r, r = TransferRow(q, q.sub, c, "TRANSFER_OUT", -q.amount[c], 0)
          PROVE  /\ r \in Row /\ r.at = q.at /\ r.rt = "transfer" /\ r.sub \in TransferParty
                 /\ r.type \in {"TRANSFER_OUT", "TRANSFER_IN"}
      BY <1>1, <2>2, <3>1, <3>2, <3>3 DEF TransferRow, Row
    <3>4. ASSUME NEW c \in moved, NEW r, r.balance <= MaxInt,
                 r = TransferRow(q, q.to, c, "TRANSFER_IN", q.amount[c], q.prev[c] + q.amount[c])
          PROVE  /\ r \in Row /\ r.at = q.at /\ r.rt = "transfer" /\ r.sub \in TransferParty
                 /\ r.type \in {"TRANSFER_OUT", "TRANSFER_IN"}
      <4>1. q.prev[c] + q.amount[c] \in 0..MaxInt
        BY <3>1, <3>2, <3>4 DEF TransferRow
      <4>. QED BY <1>1, <2>2, <3>1, <3>2, <3>4, <4>1 DEF TransferRow, Row
    <3>. QED BY <1>3, <3>3, <3>4
  <2>5. \A r, o \in rows : r.sub = o.sub /\ r.cur = o.cur => r = o
    <3>1. \A r \in out : \E c \in moved :
            r = TransferRow(q, q.sub, c, "TRANSFER_OUT", -q.amount[c], 0) /\ r.sub = q.sub /\ r.cur = c
      BY DEF TransferRow
    <3>2. \A r \in in : \E c \in moved :
            /\ r = TransferRow(q, q.to, c, "TRANSFER_IN", q.amount[c], q.prev[c] + q.amount[c])
            /\ r.sub = q.to /\ r.cur = c
      BY DEF TransferRow
    <3>. QED BY <1>1, <3>1, <3>2
  <2>6. Idle \in Session /\ Idle.pc = "idle" /\ rows \in SUBSET Row
    BY <2>4 DEF Session, Idle
  <2> HIDE DEF rows
  <2>. QED BY <1>1, <1>2, <2>1, <2>3, <2>4, <2>5, <2>6, CommitStep
<1>4. CASE ~(\A r \in rows : r.balance <= MaxInt)
  BY <1>2, <1>4, IdleStep DEF reassignAllAssets
<1>. QED BY <1>3, <1>4

-----------------------------------------------------------------------------

\* The inductive invariant holds in every reachable state of the ledger, for
\* any number of sessions, subscribers, currencies and requests.
THEOREM LedgerInvariant == Spec => []IInv
<1>1. IInv /\ [Next]_vars => IInv'
  <2> SUFFICES ASSUME IInv, [Next]_vars PROVE IInv'
    OBVIOUS
  <2>1. ASSUME NEW w \in Worker, Start(w) PROVE IInv'
    BY <2>1, StartStep
  <2>2. ASSUME NEW w \in Worker, Step(w) PROVE IInv'
    BY <2>2, WalletStep, InsertStep, TransferStep, ReassignStep DEF Step
  <2>3. ASSUME NEW w \in Worker, Crash(w) PROVE IInv'
    BY <2>3, IdleStep DEF Crash, Throw
  <2>4. CASE UNCHANGED vars
    <3>1. \A s, c : /\ Rows(s, c)' = Rows(s, c)
                    /\ findLatestBalance(s, c)' = findLatestBalance(s, c)
      BY <2>4 DEF vars, Rows, findLatestBalance
    <3>. QED BY <2>4, <3>1 DEF vars, IInv, TypeOK, TimesDiffer, RowsOrdered, WalletExclusive,
             ReadsFresh, TransfersAreListed, GrantOnce, SpendOnce, LatestBalanceIsTotal,
             HoldsWallet, InTransaction, Existing
  <2>. QED BY <2>1, <2>2, <2>3, <2>4 DEF Next
<1>. QED BY <1>1, InitIInv, PTL DEF Spec

\* addCredits under the wallet lock grants each reference once, however
\* requests are repeated, interleaved and cut short.
THEOREM LedgerGrantOnce == Spec => []GrantOnce
BY LedgerInvariant, PTL DEF IInv

\* spendCredits debits each referenceId once.
THEOREM LedgerSpendOnce == Spec => []SpendOnce
BY LedgerInvariant, PTL DEF IInv

\* The running balance is right for every wallet that no transfer touches and
\* whose transactions committed in the order they began.
THEOREM LedgerBalance == Spec => []LatestBalanceIsTotal
BY LedgerInvariant, PTL DEF IInv
-----------------------------------------------------------------------------
(* Transfers: the second inductive invariant, on top of IInv               *)

\* The label locks a session x holds (HoldsLabel, of a session's value).
Labels(x) ==
  {s \in Subscriber : \/ x.pc \in {"lock2", "check", "move"} /\ s = SortedLabels(x)[1]
                      \/ x.pc \in {"check", "move"} /\ s = SortedLabels(x)[2]}

\* One transfer at a time holds a subscriber's label.
LabelExclusive ==
  \A w, v \in Worker : w # v => Labels(session[w]) \cap Labels(session[v]) = {}

\* What ReadSource checked still holds while the labels are held.
PartiesAreLive ==
  \A w \in Worker : session[w].pc = "move" =>
    session[w].sub \notin merged /\ session[w].to \notin merged

\* A grant of a purchase, by reference type, rid and subscriber, goes to the
\* purchase's owner, or to a subscriber a transfer has retired.
ToOwner(q) ==
  q.rt = "purchase" =>
    /\ q.type = "PURCHASE" /\ q.rid \in Purchase
    /\ q.sub = owner[q.rid] \/ q.sub \in merged

GrantsGoToOwner ==
  /\ \A r \in ledger : ToOwner(r)
  /\ \A w \in Worker : session[w].pc \notin TransferPc \cup {"idle"} => ToOwner(session[w])

TransferInv ==
  LabelExclusive /\ PartiesAreLive /\ PurchasesStayLive /\ GrantsGoToOwner

\* A step that changes one session and adds only rows that go to the owner.
LEMMA TransferLocal ==
  ASSUME IInv, TransferInv, NEW w \in Worker, NEW x,
         session' = [session EXCEPT ![w] = x], UNCHANGED <<owner, merged>>,
         \A r \in ledger' : r \in ledger \/ ToOwner(r),
         \A s \in Labels(x) : \/ s \in Labels(session[w])
                              \/ \A o \in Worker \ {w} : s \notin Labels(session[o]),
         x.pc = "move" => x.sub \notin merged /\ x.to \notin merged,
         x.pc \notin TransferPc \cup {"idle"} => ToOwner(x)
  PROVE  TransferInv'
<1>0. session'[w] = x /\ \A v \in Worker \ {w} : session'[v] = session[v]
  BY DEF IInv, TypeOK
<1>1. LabelExclusive'
  <2>1. \A v \in Worker \ {w} : Labels(x) \cap Labels(session[v]) = {}
    BY DEF TransferInv, LabelExclusive
  <2>2. \A v \in Worker \ {w} : Labels(session'[v]) = Labels(session[v])
    BY <1>0
  <2>3. Labels(session'[w]) = Labels(x)
    BY <1>0
  <2> SUFFICES ASSUME NEW u \in Worker, NEW v \in Worker, u # v
               PROVE  Labels(session'[u]) \cap Labels(session'[v]) = {}
    BY DEF LabelExclusive, Labels, SortedLabels
  <2>4. u # w /\ v # w => Labels(session[u]) \cap Labels(session[v]) = {}
    BY DEF TransferInv, LabelExclusive
  <2> HIDE DEF Labels
  <2>. QED BY <2>1, <2>2, <2>3, <2>4
<1>2. PartiesAreLive'
  BY <1>0 DEF TransferInv, PartiesAreLive
<1>3. PurchasesStayLive'
  BY DEF TransferInv, PurchasesStayLive
<1>4. \A q : ToOwner(q) => ToOwner(q)'
  BY DEF ToOwner
<1>5. GrantsGoToOwner'
  BY <1>0, <1>4 DEF TransferInv, GrantsGoToOwner, ToOwner
<1>. QED BY <1>1, <1>2, <1>3, <1>5 DEF TransferInv

\* Labels of a session by its program counter.
LEMMA LabelFacts ==
  ASSUME NEW x
  PROVE  /\ x.pc \notin TransferPc => Labels(x) = {}
         /\ x.pc = "lock1" => Labels(x) = {}
         /\ \A w \in Worker, s \in Subscriber : HoldsLabel(w, s) <=> s \in Labels(session[w])
<1>1. x.pc \notin {"lock2", "check", "move"} => Labels(x) = {}
  BY DEF Labels
<1>2. \A w \in Worker, s \in Subscriber : HoldsLabel(w, s) <=> s \in Labels(session[w])
  BY DEF Labels, HoldsLabel
<1>. QED BY <1>1, <1>2 DEF TransferPc

\* A step of a request for credits: it takes no label, and goes on with the
\* same reference and subscriber.
LEMMA TransferWorking ==
  ASSUME IInv, TransferInv, NEW w \in Worker, NEW x,
         session[w].pc \notin TransferPc \cup {"idle"},
         session' = [session EXCEPT ![w] = x], UNCHANGED <<owner, merged>>,
         \A r \in ledger' : r \in ledger \/ ToOwner(r),
         x.pc \notin TransferPc,
         x.pc # "idle" => /\ x.rt = session[w].rt /\ x.type = session[w].type
                          /\ x.rid = session[w].rid /\ x.sub = session[w].sub
  PROVE  TransferInv'
<1>1. Labels(x) = {}
  BY LabelFacts
<1>2. x.pc # "idle" => ToOwner(x)
  BY DEF TransferInv, GrantsGoToOwner, ToOwner
<1>3. x.pc # "move"
  BY DEF TransferPc
<1>. QED BY <1>1, <1>2, <1>3, TransferLocal

\* A session that ends holds no label and reads nothing.
LEMMA TransferIdle ==
  ASSUME IInv, TransferInv, NEW w \in Worker,
         session' = [session EXCEPT ![w] = Idle], UNCHANGED <<ledger, owner, merged>>
  PROVE  TransferInv'
<1>1. Idle.pc = "idle" /\ Labels(Idle) = {}
  <2>1. Idle.pc = "idle"
    BY DEF Idle
  <2>. QED BY <2>1, LabelFacts DEF TransferPc
<1>. QED BY <1>1, TransferLocal

\* Starting a request for credits.
LEMMA TransferRequest ==
  ASSUME IInv, TransferInv, NEW w \in Worker, NEW type, NEW s, NEW amount, NEW rt, NEW rid,
         NEW todo, Request(w, type, s, amount, rt, rid, todo),
         rt = "purchase" => type = "PURCHASE" /\ rid \in Purchase /\ s = owner[rid]
  PROVE  TransferInv'
<1> DEFINE x == [pc |-> "loop", type |-> type, sub |-> s, amount |-> amount, rt |-> rt,
                 rid |-> rid, todo |-> todo, cur |-> CHOOSE c \in todo : TRUE,
                 at |-> 0, prev |-> 0]
<1>1. session' = [session EXCEPT ![w] = x] /\ UNCHANGED <<ledger, owner, merged>>
  BY DEF Request
<1>2. x.pc = "loop" /\ x.rt = rt /\ x.type = type /\ x.rid = rid /\ x.sub = s
  OBVIOUS
<1> HIDE DEF x
<1>3. ToOwner(x)
  BY <1>2 DEF ToOwner
<1>4. Labels(x) = {}
  BY <1>2, LabelFacts DEF TransferPc
<1>. QED BY <1>1, <1>2, <1>3, <1>4, TransferLocal

\* A request that begins is no transfer; a merge that begins has locked nothing.
LEMMA TransferStart ==
  ASSUME IInv, TransferInv, NEW w \in Worker, Start(w) PROVE TransferInv'
<1>1. ASSUME NEW p \in Purchase, grantProductCurrencies(w, p) PROVE TransferInv'
  BY <1>1, TransferRequest DEF grantProductCurrencies
<1>2. ASSUME NEW s, NEW c, NEW n, NEW k,
             \/ refundCredits(w, s, c, n, k) \/ dashboardGrant(w, s, c, n, k)
             \/ spendRequest(w, s, c, n, k)
      PROVE  TransferInv'
  <2>1. CASE refundCredits(w, s, c, n, k)
    BY <2>1, TransferRequest DEF refundCredits
  <2>2. CASE dashboardGrant(w, s, c, n, k)
    BY <2>2, TransferRequest DEF dashboardGrant
  <2>3. CASE spendRequest(w, s, c, n, k)
    BY <2>3, TransferRequest DEF spendRequest
  <2>. QED BY <1>2, <2>1, <2>2, <2>3
<1>3. ASSUME NEW p \in Transfer, BeginTransfer(w, p[1], p[2]) PROVE TransferInv'
  <2> DEFINE x == [pc |-> "lock1", sub |-> p[1], to |-> p[2], at |-> clock + 1, todo |-> {},
                   amount |-> [c \in Currency |-> 0], prev |-> [c \in Currency |-> 0]]
  <2>1. session' = [session EXCEPT ![w] = x] /\ UNCHANGED <<ledger, owner, merged>>
    BY <1>3 DEF BeginTransfer
  <2>2. x.pc = "lock1"
    OBVIOUS
  <2> HIDE DEF x
  <2>3. Labels(x) = {}
    BY <2>2, LabelFacts
  <2>. QED BY <2>1, <2>2, <2>3, TransferLocal DEF TransferPc
<1>. QED BY <1>1, <1>2, <1>3 DEF Start

\* Going on to the next currency keeps the request's reference.
LEMMA NextCurrencyKeeps ==
  ASSUME NEW w \in Worker, session[w] \in Working, NextCurrency(w)
  PROVE  \E x : /\ session' = [session EXCEPT ![w] = x]
                /\ x.pc \in {"idle", "loop"}
                /\ x.pc # "idle" => /\ x.rt = session[w].rt /\ x.type = session[w].type
                                    /\ x.rid = session[w].rid /\ x.sub = session[w].sub
<1> DEFINE rest == session[w].todo \ {session[w].cur}
           more == [session[w] EXCEPT !.pc = "loop", !.todo = rest]
           x == IF rest = {} THEN Idle ELSE more
<1>1. session' = [session EXCEPT ![w] = x]
  BY DEF NextCurrency
<1>2. /\ more.pc = "loop" /\ more.rt = session[w].rt /\ more.type = session[w].type
      /\ more.rid = session[w].rid /\ more.sub = session[w].sub
  BY DEF Working
<1>3. Idle.pc = "idle"
  BY DEF Idle
<1> HIDE DEF more
<1>. QED BY <1>1, <1>2, <1>3

\* The credit engine goes to its next currency, or ends.
LEMMA TransferNextCurrency ==
  ASSUME IInv, TransferInv, NEW w \in Worker, session[w] \in Working,
         session[w].pc \notin TransferPc \cup {"idle"}, NextCurrency(w),
         UNCHANGED <<owner, merged>>,
         \A r \in ledger' : r \in ledger \/ ToOwner(r)
  PROVE  TransferInv'
<1>1. PICK x : /\ session' = [session EXCEPT ![w] = x]
               /\ x.pc \in {"idle", "loop"}
               /\ x.pc # "idle" => /\ x.rt = session[w].rt /\ x.type = session[w].type
                                   /\ x.rid = session[w].rid /\ x.sub = session[w].sub
  BY NextCurrencyKeeps
<1>. QED BY <1>1, TransferWorking DEF TransferPc

\* The credit engine's locks and reads are no transfer's.
LEMMA TransferWallet ==
  ASSUME IInv, TransferInv, NEW w \in Worker,
         (\E c \in Currency : Begin(w, c)) \/ Lock(w) \/ Dedupe(w) \/ ReadBalance(w)
  PROVE  TransferInv'
<1> DEFINE q == session[w]
<1>0. q \in Working /\ q.pc \notin TransferPc \cup {"idle"} /\ session \in [Worker -> Session]
      /\ UNCHANGED <<ledger, owner, merged>>
  <2>1. q.pc \in {"loop", "begun", "locked", "checked"} /\ UNCHANGED <<ledger, owner, merged>>
    BY DEF Begin, Lock, Dedupe, ReadBalance
  <2>2. TypeOK
    BY DEF IInv
  <2>. QED BY <2>1, <2>2, SessionKind DEF TransferPc, TypeOK, Session
<1>1. ASSUME NEW c \in Currency, Begin(w, c) PROVE TransferInv'
  <2> DEFINE x == [q EXCEPT !.pc = "begun", !.cur = c, !.at = clock + 1]
  <2>1. session' = [session EXCEPT ![w] = x]
    BY <1>0, <1>1 DEF Begin
  <2>2. x.pc = "begun" /\ x.rt = q.rt /\ x.type = q.type /\ x.rid = q.rid /\ x.sub = q.sub
    BY <1>0 DEF Working
  <2> HIDE DEF x
  <2>. QED BY <1>0, <2>1, <2>2, TransferWorking DEF TransferPc
<1>2. ASSUME NEW pc \in {"locked", "checked"}, Goto(w, pc) PROVE TransferInv'
  <2> DEFINE x == [q EXCEPT !.pc = pc]
  <2>1. session' = [session EXCEPT ![w] = x]
    BY <1>0, <1>2 DEF Goto
  <2>2. x.pc = pc /\ x.rt = q.rt /\ x.type = q.type /\ x.rid = q.rid /\ x.sub = q.sub
    BY <1>0, WorkingPc
  <2> HIDE DEF x
  <2>. QED BY <1>0, <2>1, <2>2, TransferWorking DEF TransferPc
<1>3. ASSUME NextCurrency(w) PROVE TransferInv'
  BY <1>0, <1>3, TransferNextCurrency
<1>4. CASE ReadBalance(w)
  <2> DEFINE balance == findLatestBalance(q.sub, q.cur)
             x == [q EXCEPT !.pc = "read", !.prev = balance]
  <2>1. CASE session' = [session EXCEPT ![w] = x]
    <3>1. x.pc = "read" /\ x.rt = q.rt /\ x.type = q.type /\ x.rid = q.rid /\ x.sub = q.sub
      BY <1>0 DEF Working
    <3> HIDE DEF x
    <3>. QED BY <1>0, <2>1, <3>1, TransferWorking DEF TransferPc
  <2>2. CASE session' = [session EXCEPT ![w] = Idle]
    BY <1>0, <2>2, TransferIdle
  <2>. QED BY <1>0, <1>4, <2>1, <2>2 DEF ReadBalance, Throw
<1>. QED BY <1>1, <1>2, <1>3, <1>4 DEF Lock, Dedupe

\* The credit engine's row goes to the purchase's owner.
LEMMA TransferInsert ==
  ASSUME IInv, TransferInv, NEW w \in Worker, insertCreditLedger(w)
  PROVE  TransferInv'
<1> DEFINE q == session[w]
           row == [sub |-> q.sub, cur |-> q.cur, type |-> q.type, amount |-> Delta(q),
                   balance |-> q.prev + Delta(q), rt |-> q.rt, rid |-> q.rid, at |-> q.at]
<1>1. q \in Working /\ q.pc = "read" /\ q.pc \notin TransferPc \cup {"idle"}
      /\ UNCHANGED <<owner, merged>>
  BY SessionKind DEF IInv, insertCreditLedger, TransferPc
<1>2. ToOwner(q)
  BY <1>1 DEF TransferInv, GrantsGoToOwner
<1>3. row.sub = q.sub /\ row.type = q.type /\ row.rt = q.rt /\ row.rid = q.rid
  OBVIOUS
<1>4. \/ NextCurrency(w) /\ ledger' = ledger \cup {row}
      \/ session' = [session EXCEPT ![w] = Idle] /\ UNCHANGED ledger
  BY DEF insertCreditLedger, CommitRows, Throw
<1> HIDE DEF row
<1>5. ToOwner(row)
  BY <1>2, <1>3 DEF ToOwner
<1>. QED BY <1>1, <1>4, <1>5, TransferNextCurrency, TransferIdle

\* The two labels a transfer locks are those of its parties.
LEMMA SortedFacts ==
  ASSUME NEW x, x.sub \in Subscriber, x.to \in Subscriber
  PROVE  /\ {SortedLabels(x)[1], SortedLabels(x)[2]} = {x.sub, x.to}
         /\ x.pc \in {"check", "move"} => Labels(x) = {x.sub, x.to}
         /\ x.pc = "lock2" => Labels(x) = {SortedLabels(x)[1]}
<1>1. {SortedLabels(x)[1], SortedLabels(x)[2]} = {x.sub, x.to}
  BY DEF SortedLabels
<1>. QED BY <1>1 DEF Labels

\* A merge locks its labels in their order, and re-reads its source under the
\* lock.
LEMMA TransferLabels ==
  ASSUME IInv, TransferInv, NEW w \in Worker,
         LockLabel(w) \/ ReadSource(w) \/ (\E c \in Currency : ReadTarget(w, c))
  PROVE  TransferInv'
<1> DEFINE q == session[w]
<1>0. q \in Moving /\ q.pc \in TransferPc /\ session \in [Worker -> Session]
      /\ UNCHANGED <<ledger, owner, merged>>
  <2>1. q.pc \in TransferPc /\ UNCHANGED <<ledger, owner, merged>>
    BY DEF LockLabel, ReadSource, ReadTarget, TransferPc
  <2>2. TypeOK
    BY DEF IInv
  <2>. QED BY <2>1, <2>2, SessionKind DEF TypeOK, Session
<1>1. q.sub \in Subscriber /\ q.to \in Subscriber
  BY <1>0 DEF Moving
<1>2. CASE LockLabel(w)
  <2>1. ASSUME NEW pc \in {"lock2", "check"}, NEW s \in Subscriber,
               \A o \in Worker \ {w} : ~HoldsLabel(o, s),
               pc = "lock2" => s = SortedLabels(q)[1],
               pc = "check" => q.pc = "lock2" /\ s = SortedLabels(q)[2],
               Goto(w, pc)
        PROVE  TransferInv'
    <3> DEFINE x == [q EXCEPT !.pc = pc]
    <3>1. session' = [session EXCEPT ![w] = x]
      BY <1>0, <2>1 DEF Goto
    <3>2. x.pc = pc /\ x.sub = q.sub /\ x.to = q.to
      BY <1>0 DEF Moving
    <3>3. SortedLabels(x) = SortedLabels(q)
      BY <3>2 DEF SortedLabels
    <3> HIDE DEF x
    <3>4. \A o \in Worker \ {w} : s \notin Labels(session[o])
      BY <2>1, LabelFacts
    <3>5. \A l \in Labels(x) : l = s \/ l \in Labels(q)
      <4>1. CASE pc = "lock2"
        BY <1>1, <2>1, <3>2, <3>3, <4>1, SortedFacts
      <4>2. CASE pc = "check"
        <5>1. Labels(q) = {SortedLabels(q)[1]}
          BY <1>1, <2>1, <4>2, SortedFacts
        <5>2. Labels(x) = {SortedLabels(q)[1], SortedLabels(q)[2]}
          BY <1>1, <3>2, <4>2, SortedFacts
        <5>. QED BY <2>1, <4>2, <5>1, <5>2
      <4>. QED BY <4>1, <4>2
    <3>6. x.pc # "move" /\ x.pc \in TransferPc
      BY <3>2 DEF TransferPc
    <3>7. \A l \in Labels(x) : l \in Labels(q) \/ \A o \in Worker \ {w} : l \notin Labels(session[o])
      BY <3>4, <3>5
    <3> HIDE DEF TransferPc
    <3>. QED BY <1>0, <3>1, <3>6, <3>7, TransferLocal
  <2>2. SortedLabels(q)[1] \in Subscriber /\ SortedLabels(q)[2] \in Subscriber
    BY <1>1 DEF SortedLabels
  <2>. QED BY <1>2, <2>1, <2>2 DEF LockLabel
<1>3. ASSUME NEW x, x.pc = "move", x.sub = q.sub, x.to = q.to, q.pc \in {"check", "move"},
             q.sub \notin merged, q.to \notin merged, session' = [session EXCEPT ![w] = x]
      PROVE  TransferInv'
  <2>1. Labels(x) = Labels(q)
    <3>1. Labels(q) = {q.sub, q.to}
      BY <1>1, <1>3, SortedFacts
    <3>2. Labels(x) = {x.sub, x.to}
      BY <1>1, <1>3, SortedFacts
    <3>. QED BY <1>3, <3>1, <3>2
  <2>. QED BY <1>0, <1>3, <2>1, TransferLocal DEF TransferPc
<1>4. CASE ReadSource(w)
  <2> DEFINE balances == [c \in Currency |-> findLatestBalance(q.sub, c)]
             todo == {c \in Currency : balances[c] > 0}
             x == [q EXCEPT !.pc = "move", !.amount = balances, !.todo = todo]
  <2>1. CASE q.sub \in merged \/ q.to \in merged
    <3>1. session' = [session EXCEPT ![w] = Idle]
      BY <1>4, <2>1 DEF ReadSource, Throw
    <3>. QED BY <1>0, <3>1, TransferIdle
  <2>2. CASE ~(q.sub \in merged \/ q.to \in merged)
    <3>1. session' = [session EXCEPT ![w] = x] /\ q.pc = "check"
      BY <1>0, <1>4, <2>2 DEF ReadSource
    <3> HIDE DEF balances, todo
    <3>2. x.pc = "move" /\ x.sub = q.sub /\ x.to = q.to
      BY <1>0 DEF Moving
    <3> HIDE DEF x
    <3>. QED BY <1>3, <2>2, <3>1, <3>2
  <2>. QED BY <2>1, <2>2
<1>5. ASSUME NEW c \in Currency, ReadTarget(w, c) PROVE TransferInv'
  <2> DEFINE b == findLatestBalance(q.to, c)
             x == [q EXCEPT !.todo = q.todo \ {c}, !.prev = [q.prev EXCEPT ![c] = b]]
  <2>1. session' = [session EXCEPT ![w] = x] /\ q.pc = "move"
    BY <1>0, <1>5 DEF ReadTarget, Moving
  <2> HIDE DEF b
  <2>2. x.pc = "move" /\ x.sub = q.sub /\ x.to = q.to
    BY <1>0, <2>1 DEF Moving
  <2>3. q.sub \notin merged /\ q.to \notin merged
    BY <2>1 DEF TransferInv, PartiesAreLive
  <2> HIDE DEF x
  <2>. QED BY <1>3, <2>1, <2>2, <2>3
<1>. QED BY <1>2, <1>4, <1>5

\* A merge moves every purchase and every row's wallet at once to a live target.
LEMMA TransferReassign ==
  ASSUME IInv, TransferInv, NEW w \in Worker, reassignAllAssets(w)
  PROVE  TransferInv'
<1> DEFINE q == session[w]
           moved == {c \in Currency : q.amount[c] > 0}
           out == {TransferRow(q, q.sub, c, "TRANSFER_OUT", -q.amount[c], 0) : c \in moved}
           in == {TransferRow(q, q.to, c, "TRANSFER_IN", q.amount[c], q.prev[c] + q.amount[c])
                    : c \in moved}
           rows == out \cup in
<1>1. q \in Moving /\ q.pc = "move" /\ q.sub # q.to /\ session \in [Worker -> Session]
  BY SessionKind DEF IInv, TypeOK, Session, reassignAllAssets, TransferPc, TransfersAreListed
<1>2. session' = [session EXCEPT ![w] = Idle]
  BY DEF reassignAllAssets, Throw
<1>3. CASE UNCHANGED <<ledger, owner, merged>>
  BY <1>2, <1>3, TransferIdle
<1>4. CASE /\ ledger' = ledger \cup rows
           /\ owner' = [p \in Purchase |-> IF owner[p] = q.sub THEN q.to ELSE owner[p]]
           /\ merged' = merged \cup {q.sub}
  <2>1. \A r \in rows : r.rt = "transfer"
    BY DEF TransferRow
  <2> HIDE DEF rows
  <2>2. q.sub \in Subscriber /\ q.to \in Subscriber
    BY <1>1 DEF Moving
  <2>3. q.sub \notin merged /\ q.to \notin merged
    BY <1>1 DEF TransferInv, PartiesAreLive
  <2>4. session'[w] = Idle /\ \A v \in Worker \ {w} : session'[v] = session[v]
    BY <1>1, <1>2
  <2>5. LabelExclusive'
    <3>1. Labels(session'[w]) = {}
      BY <2>4, LabelFacts DEF Idle, TransferPc
    <3>2. \A v \in Worker \ {w} : Labels(session'[v]) = Labels(session[v])
      BY <2>4
    <3> SUFFICES ASSUME NEW u \in Worker, NEW v \in Worker, u # v
                 PROVE  Labels(session'[u]) \cap Labels(session'[v]) = {}
      BY DEF LabelExclusive, Labels, SortedLabels
    <3>3. Labels(session[u]) \cap Labels(session[v]) = {}
      BY DEF TransferInv, LabelExclusive
    <3>. QED BY <3>1, <3>2, <3>3
  <2>6. PartiesAreLive'
    <3> SUFFICES ASSUME NEW v \in Worker, session'[v].pc = "move"
                 PROVE  session'[v].sub \notin merged' /\ session'[v].to \notin merged'
      BY DEF PartiesAreLive
    <3>1. v # w /\ session'[v] = session[v] /\ session[v].pc = "move"
      BY <2>4 DEF Idle
    <3>2. session[v].sub \notin merged /\ session[v].to \notin merged
      BY <3>1 DEF TransferInv, PartiesAreLive
    <3>3. session[v] \in Moving
      BY <3>1, SessionKind DEF IInv, TransferPc
    <3>4. Labels(q) = {q.sub, q.to} /\ Labels(session[v]) = {session[v].sub, session[v].to}
      <4>1. session[v].sub \in Subscriber /\ session[v].to \in Subscriber
        BY <3>3 DEF Moving
      <4>2. Labels(q) = {q.sub, q.to}
        BY <1>1, <2>2, SortedFacts
      <4>3. Labels(session[v]) = {session[v].sub, session[v].to}
        BY <3>1, <4>1, SortedFacts
      <4>. QED BY <4>2, <4>3
    <3>5. Labels(q) \cap Labels(session[v]) = {}
      BY <3>1 DEF TransferInv, LabelExclusive
    <3>. QED BY <1>4, <3>1, <3>2, <3>4, <3>5
  <2>7. PurchasesStayLive'
    BY <1>1, <1>4, <2>3 DEF TransferInv, PurchasesStayLive
  <2>8. \A r : ToOwner(r) => ToOwner(r)'
    BY <1>4 DEF ToOwner
  <2>9. GrantsGoToOwner'
    <3>1. \A r \in ledger' : ToOwner(r)'
      <4>1. \A r \in rows : ToOwner(r)'
        BY <2>1 DEF ToOwner
      <4>2. \A r \in ledger : ToOwner(r)'
        BY <2>8 DEF TransferInv, GrantsGoToOwner
      <4>. QED BY <1>4, <4>1, <4>2
    <3>2. ASSUME NEW v \in Worker, session'[v].pc \notin TransferPc \cup {"idle"}
          PROVE  ToOwner(session[v])'
      <4>1. session'[v] = session[v] /\ v # w
        BY <2>4, <3>2 DEF Idle
      <4>2. ToOwner(session[v])
        BY <3>2, <4>1 DEF TransferInv, GrantsGoToOwner
      <4>. QED BY <1>4, <4>1, <4>2 DEF ToOwner
    <3>. QED BY <3>1, <3>2 DEF GrantsGoToOwner
  <2>. QED BY <2>5, <2>6, <2>7, <2>9 DEF TransferInv
<1>. QED BY <1>3, <1>4 DEF reassignAllAssets, CommitRows, softDeleteSubscriberAsMerged

-----------------------------------------------------------------------------

\* Locks and liveness checks of transfers hold together in every reachable
\* state: transferSubscriber never works for a retired party.
THEOREM TransferInvariant == Spec => [](IInv /\ TransferInv)
<1>1. Init => TransferInv
  <2> SUFFICES ASSUME Init PROVE TransferInv
    OBVIOUS
  <2>1. \A w \in Worker : session[w].pc = "idle" /\ Labels(session[w]) = {}
    <3>1. \A w \in Worker : session[w].pc = "idle"
      BY DEF Init, Idle
    <3>. QED BY <3>1, LabelFacts DEF TransferPc
  <2>. QED BY <2>1 DEF Init, TransferInv, LabelExclusive, PartiesAreLive, PurchasesStayLive,
           GrantsGoToOwner
<1>2. IInv /\ TransferInv /\ [Next]_vars => TransferInv'
  <2> SUFFICES ASSUME IInv, TransferInv, [Next]_vars PROVE TransferInv'
    OBVIOUS
  <2>1. ASSUME NEW w \in Worker, Start(w) PROVE TransferInv'
    BY <2>1, TransferStart
  <2>2. ASSUME NEW w \in Worker, Step(w) PROVE TransferInv'
    BY <2>2, TransferWallet, TransferInsert, TransferLabels, TransferReassign DEF Step
  <2>3. ASSUME NEW w \in Worker, Crash(w) PROVE TransferInv'
    BY <2>3, TransferIdle DEF Crash, Throw
  <2>4. CASE UNCHANGED vars
    BY <2>4 DEF vars, TransferInv, LabelExclusive, PartiesAreLive, PurchasesStayLive,
       GrantsGoToOwner, ToOwner, Labels, SortedLabels
  <2>. QED BY <2>1, <2>2, <2>3, <2>4 DEF Next
<1>. QED BY <1>1, <1>2, LedgerInvariant, PTL DEF Spec

\* However transfers chain and cross, no purchase is left with a subscriber
\* that transferSubscriber has retired.
THEOREM LedgerPurchasesStayLive == Spec => []PurchasesStayLive
BY TransferInvariant, PTL DEF TransferInv

\* grantProductCurrencies beside transferSubscriber: no live subscriber but the
\* owner of a purchase has been granted its credits.
THEOREM LedgerNoStrangerIsGranted == Spec => []NoStrangerIsGranted
<1>1. TransferInv => NoStrangerIsGranted
  BY DEF TransferInv, GrantsGoToOwner, ToOwner, NoStrangerIsGranted
<1>. QED BY <1>1, TransferInvariant, PTL

-----------------------------------------------------------------------------
(* No deadlock                                                             *)

First(w) == SortedLabels(session[w])[1]

\* Sessions that wait for their second label are finitely many: each has a
\* transaction time of its own.
LEMMA FewTransactions ==
  ASSUME IInv, NEW T \in SUBSET Worker, \A w \in T : session[w].pc = "lock2"
  PROVE  IsFiniteSet(T)
<1> DEFINE f == [w \in T |-> session[w].at]
<1>1. \A w \in T : InTransaction(w) /\ session[w].at \in 1..clock
  BY DEF InTransaction, IInv, TimesDiffer
<1>2. \A w, v \in T : w # v => session[w].at # session[v].at
  BY <1>1 DEF IInv, TimesDiffer
<1>3. f \in Injection(T, 1..clock)
  BY <1>1, <1>2 DEF Injection, IsInjective
<1>4. clock \in Int
  BY LedgerAssumption DEF IInv, TypeOK
<1>. QED BY <1>3, <1>4, FS_Interval, FS_Injection

\* One of them holds the largest label.
LEMMA LargestLabel ==
  ASSUME NEW T, T # {}, IsFiniteSet(T), \A w \in T : First(w) \in Nat
  PROVE  \E w \in T : \A v \in T : First(v) <= First(w)
<1> DEFINE Up(w) == {v \in T : First(v) > First(w)}
           Ups == {Up(w) : w \in T}
<1>1. Ups \subseteq FiniteSubsetsOf(T) /\ Ups # {}
  <2>1. \A U \in SUBSET T : IsFiniteSet(U)
    BY FS_Subset
  <2>2. \A w \in T : Up(w) \in SUBSET T
    OBVIOUS
  <2> HIDE DEF Up
  <2>. QED BY <2>1, <2>2 DEF FiniteSubsetsOf
<1>2. IsWellFoundedOn(StrictSubsetOrdering(T), FiniteSubsetsOf(T))
  BY FS_StrictSubsetOrderingWellFounded
<1>3. PICK m \in Ups : \A y \in Ups : <<y, m>> \notin StrictSubsetOrdering(T)
  <2> HIDE DEF Ups
  <2>. QED BY <1>1, <1>2, WFMin
<1>4. PICK w \in T : m = Up(w)
  BY <1>3
<1>5. ASSUME NEW v \in T, First(v) > First(w) PROVE FALSE
  <2>1. Up(v) \subseteq Up(w) /\ v \in Up(w) /\ v \notin Up(v)
    BY <1>5
  <2>2. <<Up(v), Up(w)>> \in StrictSubsetOrdering(T)
    BY <2>1 DEF StrictSubsetOrdering
  <2>. QED BY <1>3, <1>4, <2>2
<1>. QED BY <1>5

\* Of any sessions, one waits for none of the others: the transfer at its second
\* label whose first label is the highest, or a session that holds nothing another
\* waits for.
LEMMA NoCycle == ASSUME IInv PROVE NoWaitCycle
<1> SUFFICES ASSUME NEW S \in SUBSET Worker, S # {}
             PROVE  \E w \in S : \A v \in S \ {w} : ~WaitsFor(w, v)
  BY DEF NoWaitCycle
<1>1. CASE \E w \in S : session[w].pc \notin {"begun", "lock1", "lock2"}
  BY <1>1 DEF WaitsFor
<1>2. CASE /\ \A w \in S : session[w].pc \in {"begun", "lock1", "lock2"}
           /\ \A w \in S : session[w].pc # "lock2"
  BY <1>2 DEF WaitsFor, HoldsWallet, HoldsLabel
<1>3. CASE /\ \A w \in S : session[w].pc \in {"begun", "lock1", "lock2"}
           /\ \E w \in S : session[w].pc = "lock2"
  <2> DEFINE T == {w \in S : session[w].pc = "lock2"}
  <2>1. \A w \in T : /\ session[w].sub \in Nat /\ session[w].to \in Nat
                     /\ session[w].sub # session[w].to
    <3>1. \A w \in T : session[w] \in Moving /\ session[w].sub # session[w].to
      BY SessionKind DEF IInv, TransfersAreListed, TransferPc
    <3>. QED BY <3>1, LedgerAssumption DEF Moving
  <2>2. \A w \in T : First(w) \in Nat /\ SortedLabels(session[w])[2] \in Nat
                     /\ First(w) < SortedLabels(session[w])[2]
    BY <2>1 DEF First, SortedLabels
  <2>3. PICK w \in T : \A v \in T : First(v) <= First(w)
    <3>1. IsFiniteSet(T)
      BY FewTransactions
    <3>2. T # {} /\ \A v \in T : First(v) \in Nat
      BY <1>3, <2>2
    <3> HIDE DEF T
    <3>. QED BY <3>1, <3>2, LargestLabel
  <2>4. ASSUME NEW v \in S, WaitsFor(w, v) PROVE FALSE
    <3>1. session[v].pc \in {"begun", "lock1", "lock2"}
      BY <1>3
    <3>2. session[v].pc = "lock2" /\ SortedLabels(session[w])[2] = First(v)
      BY <2>4, <3>1 DEF WaitsFor, HoldsLabel, First
    <3>3. v \in T
      BY <3>2
    <3>4. First(v) <= First(w) /\ First(w) < First(v) /\ First(v) \in Nat /\ First(w) \in Nat
      BY <2>2, <2>3, <3>2, <3>3
    <3>. QED BY <3>4
  <2>. QED BY <2>3, <2>4
<1>. QED BY <1>1, <1>2, <1>3

\* Sessions that queue for advisory locks never wait for each other in a
\* circle: transfers sort their two keys, and a wallet's lock is the last.
THEOREM LedgerNoWaitCycle == Spec => []NoWaitCycle
BY LedgerInvariant, NoCycle, PTL
============================================================================
