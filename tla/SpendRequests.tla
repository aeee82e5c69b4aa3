---------------------------- MODULE SpendRequests ----------------------------
(***************************************************************************)
(* The Idempotency-Key middleware (middleware/idempotency.ts) in front of  *)
(* POST /v1/virtual-currencies/:appUserId/:code/transactions               *)
(* (routes/v1/virtual-currencies.ts), for the requests of one project that *)
(* carry one key.  The path names the wallet, the body the reference and   *)
(* the amount.  spendCredits is one step: its lock is the subject of       *)
(* CreditLedger.                                                           *)
(***************************************************************************)
EXTENDS Integers, FiniteSets

CONSTANTS
  Operation,  \* what clients ask for
  WalletOf,   \* the path's subscriber and currency
  BodyOf,     \* [ref, amount]
  Request,    \* requests in flight at a time
  Funds,      \* credits in each wallet
  MaxSend,    \* bound: requests sent
  MaxFault,   \* bound: failing Redis calls, errors and crashes
  MaxTopUp    \* bound: credits added meanwhile

Wallet == {WalletOf[o] : o \in Operation}

Body == {BodyOf[o] : o \in Operation}

Reference == {b.ref : b \in Body}

Missing == [status |-> 0]

None == -1

SpendAssumption ==
  /\ \A o \in Operation : BodyOf[o].amount \in Nat \ {0}
  /\ Funds \in Nat /\ MaxSend \in Nat /\ MaxFault \in Nat /\ MaxTopUp \in Nat

VARIABLES
  cache,    \* the StoredResponse under the key; its requestHash is the body
  req,      \* what each request is doing, and the answer it got
  row,      \* the balance on the SPEND row of a wallet and reference
  balance,  \* of each wallet
  wallets,  \* history: wallets the key was used for
  sent, faults, topped

vars == <<cache, req, row, balance, wallets, sent, faults, topped>>

Quiet == [pc |-> "none"]

TypeOK ==
  /\ cache = Missing \/ cache \in [status: {200}, body: Body, balance: Int]
  /\ \A q \in Request : \/ req[q] = Quiet
                        \/ req[q].pc \in {"get", "run", "set", "done"} /\ req[q].op \in Operation
  /\ row \in [Wallet \X Reference -> Nat \cup {None}]
  /\ balance \in [Wallet -> Nat]
  /\ wallets \subseteq Wallet
  /\ sent \in 0..MaxSend /\ faults \in 0..MaxFault /\ topped \in 0..MaxTopUp

Init ==
  /\ cache = Missing
  /\ req = [q \in Request |-> Quiet]
  /\ row = [x \in Wallet \X Reference |-> None]
  /\ balance = [x \in Wallet |-> Funds]
  /\ wallets = {}
  /\ sent = 0 /\ faults = 0 /\ topped = 0

Fail == faults < MaxFault /\ faults' = faults + 1

bodyOf(q) == BodyOf[req[q].op]

Reply(q, status, n) ==
  req' = [req EXCEPT ![q] = [pc |-> "done", op |-> @.op, status |-> status, balance |-> n]]
-----------------------------------------------------------------------------
\* A client sends a request, for the first time or again.
Send(q, o) ==
  /\ req[q].pc \in {"none", "done"} /\ sent < MaxSend
  /\ sent' = sent + 1
  /\ req' = [req EXCEPT ![q] = [pc |-> "get", op |-> o]]
  /\ wallets' = wallets \cup {WalletOf[o]}
  /\ UNCHANGED <<cache, row, balance, faults, topped>>

\* (Mutant first: the stored request hash is not compared.)
hashIgnored(q) == TRUE

\* stored.requestHash = requestHash: the hash is of the body alone.
sameHash(q) == cache.body = bodyOf(q)

Proceed(q) == req' = [req EXCEPT ![q].pc = "run"]

\* redis.get: replay, refuse, or go on to the handler.
Lookup(q) ==
  /\ req[q].pc = "get"
  /\ IF cache = Missing THEN Proceed(q)
     ELSE IF sameHash(q) THEN Reply(q, 200, cache.balance) ELSE Reply(q, 422, 0)
  /\ UNCHANGED <<cache, row, balance, wallets, sent, faults, topped>>

\* ... which fails open.
LookupFails(q) ==
  /\ req[q].pc = "get" /\ Fail
  /\ Proceed(q)
  /\ UNCHANGED <<cache, row, balance, wallets, sent, topped>>

\* spendCredits: the original SPEND row of the reference is returned, the spend
\* is refused, or the wallet is debited.
Spend(q) ==
  LET x == WalletOf[req[q].op]  ref == bodyOf(q).ref  n == balance[x] - bodyOf(q).amount
      known == row[<<x, ref>>] # None
      answer == IF known THEN row[<<x, ref>>] ELSE n IN
  /\ req[q].pc = "run"
  /\ IF ~known /\ n < 0
     THEN Reply(q, 409, 0) /\ UNCHANGED <<row, balance>>
     ELSE /\ req' = [req EXCEPT ![q] = [pc |-> "set", op |-> @.op, balance |-> answer]]
          /\ row' = [row EXCEPT ![<<x, ref>>] = answer]
          /\ balance' = IF known THEN balance ELSE [balance EXCEPT ![x] = n]
  /\ UNCHANGED <<cache, wallets, sent, faults, topped>>

\* The handler throws: the error is answered and not cached.
SpendThrows(q) ==
  /\ req[q].pc = "run" /\ Fail
  /\ Reply(q, 500, 0)
  /\ UNCHANGED <<cache, row, balance, wallets, sent, topped>>

\* redis.set of the response, whatever the key holds by now.
storeResponse(q) == cache' = [status |-> 200, body |-> bodyOf(q), balance |-> req[q].balance]

Respond(q) ==
  /\ req[q].pc = "set"
  /\ storeResponse(q)
  /\ Reply(q, 200, req[q].balance)
  /\ UNCHANGED <<row, balance, wallets, sent, faults, topped>>

\* ... or it fails, and the response is sent all the same.
StoreFails(q) ==
  /\ req[q].pc = "set" /\ Fail
  /\ Reply(q, 200, req[q].balance)
  /\ UNCHANGED <<cache, row, balance, wallets, sent, topped>>

\* The process dies, or the client hangs up.
Crash(q) ==
  /\ req[q].pc \in {"get", "run", "set"} /\ Fail
  /\ req' = [req EXCEPT ![q] = Quiet]
  /\ UNCHANGED <<cache, row, balance, wallets, sent, topped>>

\* TTL_SECONDS pass.
Expire ==
  /\ cache # Missing
  /\ cache' = Missing
  /\ UNCHANGED <<req, row, balance, wallets, sent, faults, topped>>

\* A grant adds to a wallet.
TopUp(x) ==
  /\ topped < MaxTopUp /\ topped' = topped + 1
  /\ balance' = [balance EXCEPT ![x] = @ + 1]
  /\ UNCHANGED <<cache, req, row, wallets, sent, faults>>

idempotency(q) ==
  \/ \E o \in Operation : Send(q, o)
  \/ Lookup(q) \/ Spend(q) \/ Respond(q)
  \/ LookupFails(q) \/ SpendThrows(q) \/ StoreFails(q) \/ Crash(q)

Next ==
  \/ \E q \in Request : idempotency(q)
  \/ Expire
  \/ \E x \in Wallet : TopUp(x)

Spec == Init /\ [][Next]_vars
-----------------------------------------------------------------------------
(* Properties *)

\* Every 2xx, fresh, deduplicated or replayed, tells the balance that the
\* request's own debit left: overlapping requests of one key, expiry, failing
\* Redis calls and a key reused with another body never answer for a debit
\* that was not made.  The hash leaves out the path, so the key must not be
\* used for two wallets (idempotency.ts: "so clients can't accidentally reuse
\* a key for a different operation").
AnswerIsOwn ==
  Cardinality(wallets) <= 1 =>
    \A q \in Request : req[q].pc = "done" /\ req[q].status = 200 =>
      row[<<WalletOf[req[q].op], bodyOf(q).ref>>] = req[q].balance
=============================================================================
